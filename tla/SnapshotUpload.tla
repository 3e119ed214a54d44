--------------------------- MODULE SnapshotUpload ---------------------------
(***************************************************************************)
(* `icp canister snapshot upload`, over runs that fail, are interrupted    *)
(* and resumed.                                                            *)
(*                                                                         *)
(*   crates/icp-cli/src/commands/canister/snapshot/upload.rs               *)
(*   crates/icp-cli/src/operations/snapshot_transfer.rs                    *)
(*                                                                         *)
(* A run works inside with_write of the input directory, whose blobs and   *)
(* chunk store do not change.  It creates a snapshot on the canister, the  *)
(* target, and sends it every chunk of a blob at once; the answers come in *)
(* any order.  The progress file knows, per blob, the offset below which   *)
(* every chunk was acknowledged.  Offsets count chunks here.               *)
(*                                                                         *)
(* What a target holds are the pieces that arrived: <<blob, chunk>>, and   *)
(* the hashes of wasm chunks.  Sending a piece twice changes nothing, so   *)
(* the attempts of with_retry are one.                                     *)
(***************************************************************************)
EXTENDS Absent, SnapshotShape

CONSTANTS
    Targets,        \* bound: the snapshots that uploads can create
    Faults,         \* which of AllFaults may happen
    Torn

(* stop   a run ends early: killed, or the progress cannot be written      *)
(* tear   it ends while it writes the progress file, which is not atomic   *)
(* fail   an upload call fails for good                                    *)
(* twice  with_retry creates the target a second time: the first answer    *)
(*        was lost                                                         *)
AllFaults == {"stop", "tear", "fail", "twice"}

Parts == [pieces : SUBSET Pieces, hashes : SUBSET Hashes]
Everything == [pieces |-> Pieces, hashes |-> Hashes]

Progress == [target : Targets, off : [Blobs -> Nat], hashes : SUBSET Hashes]

(* Assumed by SnapshotTransfer.                                            *)
UploadAssumption ==
    /\ Faults \subseteq AllFaults
    /\ None \notin Targets \cup Progress /\ Torn \notin Progress \cup {None}

VARIABLES
    held,       \* per target, the parts it holds
    state,      \* per target: absent, live on the canister, or gone
    uprog,      \* .upload_progress.json
    reported,   \* the target the last run said was "uploaded successfully"
    pc, at,     \* the run: where it is, and the blob it works on
    todo,       \* the uploads in flight
    acked,      \* acknowledged chunks at or beyond the offset
    failed,     \* an upload of this blob has failed (first_error)
    mem         \* its UploadProgress

canister == <<held, state>>
run == <<pc, at, todo, acked, failed, mem>>
vars == <<canister, uprog, reported, run>>

Init ==
    /\ held = [t \in Targets |-> [pieces |-> {}, hashes |-> {}]]
    /\ state = [t \in Targets |-> "absent"]
    /\ uprog = None
    /\ reported = None
    /\ pc = "idle" /\ at = 1
    /\ todo = {} /\ acked = {} /\ failed = FALSE
    /\ mem = None

Live(t) == state[t] = "live"

(* The run is over, and what it had in memory with it.                     *)
Over ==
    /\ pc' = "idle" /\ at' = 1
    /\ todo' = {} /\ acked' = {} /\ failed' = FALSE
    /\ mem' = None

-----------------------------------------------------------------------------
(* A run begins. *)

(* Whatever progress there is: a fresh run starts over.                    *)
BeginFresh ==
    /\ pc = "idle"
    /\ \E t \in Targets : state[t] = "absent"
    /\ pc' = "create"
    /\ reported' = None
    /\ UNCHANGED <<canister, uprog, at, todo, acked, failed, mem>>

(* load_upload_progress; without a file, or with one that does not parse,  *)
(* the command fails.                                                      *)
BeginResume ==
    /\ pc = "idle"
    /\ uprog \notin {None, Torn}
    /\ mem' = uprog
    /\ pc' = "blob" /\ at' = 1
    /\ reported' = None
    /\ UNCHANGED <<canister, uprog, todo, acked, failed>>

NewProgress(t) == [target |-> t, off |-> [b \in Blobs |-> 0], hashes |-> {}]

(* upload_snapshot_metadata, with or without --replace; the new progress   *)
(* is about to be written, which truncates the file.                       *)
CreateTarget(t, replaced) ==
    /\ pc = "create"
    /\ state[t] = "absent"
    /\ replaced # None => Live(replaced)
    /\ \E first \in {t} \cup (IF "twice" \in Faults THEN Targets ELSE {}) :
          /\ state[first] = "absent"
          /\ state' = [u \in Targets |-> IF u \in {t, first} THEN "live"
                                        ELSE IF u = replaced THEN "gone" ELSE state[u]]
    /\ mem' = NewProgress(t)
    /\ pc' = "created"
    /\ UNCHANGED <<held, uprog, reported, at, todo, acked, failed>>

(* save_upload_progress: truncate, then write.  Used after every change.   *)
Truncate(next) == uprog' = Torn /\ pc' = next

SaveNewTarget ==
    /\ pc = "created"
    /\ Truncate("save_new")
    /\ UNCHANGED <<canister, reported, at, todo, acked, failed, mem>>

-----------------------------------------------------------------------------
(* upload_blob_from_file, for each blob in turn. *)

Blob == Order[at]

SkipBlob ==
    /\ pc = "blob"
    /\ at <= Len(Order)
    /\ mem.off[Blob] >= Chunks[Blob]
    /\ at' = at + 1
    /\ UNCHANGED <<canister, uprog, reported, pc, todo, acked, failed, mem>>

StartBlob ==
    /\ pc = "blob"
    /\ at <= Len(Order)
    /\ mem.off[Blob] < Chunks[Blob]
    /\ todo' = mem.off[Blob] .. Chunks[Blob] - 1
    /\ acked' = {} /\ failed' = FALSE
    /\ pc' = "upload"
    /\ UNCHANGED <<canister, uprog, reported, at, mem>>

Hold(t, x) == held' = [held EXCEPT ![t].pieces = @ \cup {x}]

(* An upload is answered.  A target that was replaced answers no more.     *)
Acknowledge(i) ==
    /\ pc = "upload"
    /\ i \in todo
    /\ Live(mem.target)
    /\ Hold(mem.target, <<Blob, i>>)
    /\ todo' = todo \ {i}
    /\ acked' = acked \cup {i}
    /\ pc' = "advance"
    /\ UNCHANGED <<state, uprog, reported, at, failed, mem>>

(* It fails, having been carried out or not; the others go on.             *)
Fail(i) ==
    /\ pc = "upload"
    /\ i \in todo
    /\ "fail" \in Faults \/ ~Live(mem.target)
    /\ (Live(mem.target) /\ Hold(mem.target, <<Blob, i>>)) \/ UNCHANGED held
    /\ todo' = todo \ {i}
    /\ failed' = TRUE
    /\ UNCHANGED <<state, uprog, reported, pc, at, acked, mem>>

AdvanceToLatest ==     \* mutant: the offset follows the latest acknowledgement
    /\ pc = "advance"
    /\ acked # {}
    /\ \E i \in acked : mem' = [mem EXCEPT !.off[Blob] = i + 1]
    /\ acked' = {}
    /\ Truncate("save_off")
    /\ UNCHANGED <<canister, reported, at, todo, failed>>

(* The offset moves over the chunk acknowledged there, and is saved.       *)
Advance ==
    /\ pc = "advance"
    /\ mem.off[Blob] \in acked
    /\ mem' = [mem EXCEPT !.off[Blob] = @ + 1]
    /\ acked' = acked \ {mem.off[Blob]}
    /\ Truncate("save_off")
    /\ UNCHANGED <<canister, reported, at, todo, failed>>

AdvanceEnds ==
    /\ pc = "advance"
    /\ mem.off[Blob] \notin acked
    /\ pc' = "upload"
    /\ UNCHANGED <<canister, uprog, reported, at, todo, acked, failed, mem>>

(* An error is returned once nothing is in flight; what was acknowledged   *)
(* beyond the offset is forgotten.                                         *)
EndBlob ==
    /\ pc = "upload"
    /\ todo = {}
    /\ IF failed THEN Over
       ELSE pc' = "blob" /\ at' = at + 1 /\ acked' = {} /\ UNCHANGED <<todo, failed, mem>>
    /\ UNCHANGED <<canister, uprog, reported>>

-----------------------------------------------------------------------------
(* The wasm chunk store, one by one, and the end of the run. *)

UploadWasmChunk(h) ==
    /\ pc = "blob"
    /\ at > Len(Order)
    /\ h \notin mem.hashes
    /\ Live(mem.target)
    /\ held' = [held EXCEPT ![mem.target].hashes = @ \cup {h}]
    /\ mem' = [mem EXCEPT !.hashes = @ \cup {h}]
    /\ Truncate("save_hash")
    /\ UNCHANGED <<state, reported, at, todo, acked, failed>>

UploadWasmChunkFails ==
    /\ pc = "blob"
    /\ at > Len(Order)
    /\ mem.hashes # Hashes
    /\ "fail" \in Faults \/ ~Live(mem.target)
    /\ Over
    /\ UNCHANGED <<canister, uprog, reported>>

WriteProgress ==
    /\ pc \in {"save_new", "save_off", "save_hash"}
    /\ uprog' = mem
    /\ pc' = IF pc = "save_off" THEN "advance" ELSE "blob"
    /\ at' = IF pc = "save_new" THEN 1 ELSE at
    /\ UNCHANGED <<canister, reported, todo, acked, failed, mem>>

FinishKeepsProgress ==     \* mutant: the progress file is left behind
    /\ pc = "blob"
    /\ at > Len(Order)
    /\ mem.hashes = Hashes
    /\ reported' = mem.target
    /\ Over
    /\ UNCHANGED <<canister, uprog>>

(* delete_upload_progress, "Snapshot ... uploaded successfully".           *)
Finish ==
    /\ pc = "blob"
    /\ at > Len(Order)
    /\ mem.hashes = Hashes
    /\ uprog' = None
    /\ reported' = mem.target
    /\ Over
    /\ UNCHANGED canister

(* A kill or an error return; uploads in flight may still be carried out.  *)
Stop ==
    /\ pc # "idle"
    /\ "stop" \in Faults
    /\ pc \in {"save_new", "save_off", "save_hash"} => "tear" \in Faults
    /\ Over
    /\ \/ UNCHANGED held
       \/ /\ pc = "upload" /\ Live(mem.target)
          /\ \E S \in SUBSET todo :
                held' = [held EXCEPT ![mem.target].pieces = @ \cup ({Blob} \X S)]
    /\ UNCHANGED <<state, uprog, reported>>
-----------------------------------------------------------------------------
Step ==
    \/ \E t \in Targets, replaced \in Targets \cup {None} : CreateTarget(t, replaced)
    \/ SaveNewTarget \/ WriteProgress
    \/ SkipBlob \/ StartBlob \/ Advance \/ AdvanceEnds \/ EndBlob
    \/ \E b \in Blobs : \E i \in 0 .. Chunks[b] - 1 : Acknowledge(i)
    \/ \E h \in Hashes : UploadWasmChunk(h)
    \/ Finish

Failure ==
    \/ UploadWasmChunkFails \/ Stop
    \/ \E b \in Blobs : \E i \in 0 .. Chunks[b] - 1 : Fail(i)

Next == BeginFresh \/ BeginResume \/ Step \/ Failure

Spec == Init /\ [][Next]_vars

-----------------------------------------------------------------------------
TypeOK ==
    /\ held \in [Targets -> Parts]
    /\ state \in [Targets -> {"absent", "live", "gone"}]
    /\ uprog \in Progress \cup {None, Torn}
    /\ mem \in Progress \cup {None} /\ (pc \notin {"idle", "create"} => mem \in Progress)
    /\ reported \in Targets \cup {None}
    /\ at \in 1 .. Len(Order) + 1
    /\ todo \subseteq Nat /\ acked \subseteq Nat
    /\ failed \in BOOLEAN

(* What the progress file calls uploaded, and a resumed run will not send, *)
(* the target holds.                                                       *)
RecordedIsHeld ==
    uprog \notin {None, Torn} =>
        /\ \A b \in Blobs : \A i \in 0 .. Chunks[b] - 1 :
              i < uprog.off[b] => <<b, i>> \in held[uprog.target].pieces
        /\ uprog.hashes \subseteq held[uprog.target].hashes

(* A snapshot reported as uploaded is whole.                               *)
UploadFaithful == reported # None => held[reported] = Everything

(* An upload that was begun and recorded is finished by resuming it, once  *)
(* the failures end, however many there were: "Like downloads, interrupted *)
(* uploads can be resumed" (docs/guides/canister-snapshots.md 75).         *)
UploadEnds == <>[][~Failure /\ ~BeginFresh]_vars => <>[](pc = "idle" /\ uprog = None)
=============================================================================
