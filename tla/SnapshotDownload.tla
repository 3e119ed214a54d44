-------------------------- MODULE SnapshotDownload --------------------------
(***************************************************************************)
(* `icp canister snapshot download`, over runs that are interrupted and    *)
(* resumed.                                                                *)
(*                                                                         *)
(*   crates/icp-cli/src/commands/canister/snapshot/download.rs             *)
(*   crates/icp-cli/src/operations/snapshot_transfer.rs                    *)
(*                                                                         *)
(* A run works inside with_write of the output directory, so there is one  *)
(* at a time.  Within a run the reads of a blob's chunks are concurrent:   *)
(* they are all issued at once and arrive in any order; an arrival is      *)
(* written, synced and recorded before the next one is looked at.          *)
(*                                                                         *)
(* What a piece holds is the snapshot it was read from, Zero after         *)
(* preallocation, Torn while it is being written, or None while the blob   *)
(* has no file.  A metadata or chunk store file is Torn between its        *)
(* truncation and its last byte.                                           *)
(***************************************************************************)
EXTENDS Absent, BlobProgress, SnapshotShape

CONSTANTS
    Snapshots,      \* snapshot ids on the canister
    Faults,         \* which of AllFaults may happen
    Zero, Torn, Whole

(* stop   a run ends early: killed, an I/O error, a read that keeps failing *)
(* tear   it ends inside a write that is not atomic                         *)
(* mixup  --resume is given another snapshot id                             *)
AllFaults == {"stop", "tear", "mixup"}

Progress == [Blobs -> [frontier : Nat, ahead : SUBSET Nat]]

ASSUME DownloadFaultsAssumption == Faults \subseteq AllFaults
ASSUME MarksAssumption ==
    /\ {None, Zero, Torn, Whole} \cap Snapshots = {}
    /\ None \notin {Zero, Torn, Whole} /\ Torn \notin {Zero, Whole}
    /\ None \notin Progress

VARIABLES
    meta,       \* metadata.json: the snapshot it describes
    data,       \* the blobs' files: what each piece holds
    wchunks,    \* per hash, its file in wasm_chunk_store/
    dprog,      \* .download_progress.json
    reported,   \* the last run said "Snapshot downloaded"
    pc, snap,   \* the run: where it is, and the id it was given
    at, todo,   \* the blob it works on, and the reads still in flight
    cur,        \* the chunk or hash it is writing
    mem         \* its DownloadProgress

disk == <<meta, data, wchunks, dprog>>
run == <<pc, snap, at, todo, cur, mem>>
vars == <<disk, reported, run>>

NoProgress == [b \in Blobs |-> NothingDone]

Init ==
    /\ meta = None
    /\ data = [x \in Pieces |-> None]
    /\ wchunks = [h \in Hashes |-> None]
    /\ dprog = None
    /\ reported = FALSE
    /\ pc = "idle" /\ snap = None
    /\ at = 1 /\ todo = {} /\ cur = None
    /\ mem = NoProgress

(* A run is over, and what it had in memory with it.                       *)
Over ==
    /\ pc' = "idle" /\ snap' = None
    /\ at' = 1 /\ todo' = {} /\ cur' = None
    /\ mem' = NoProgress

-----------------------------------------------------------------------------
(* What `--resume` finds, and what a fresh download must not find; any     *)
(* other start fails and changes nothing.                                  *)
HasFiles == meta # None \/ \E x \in Pieces : data[x] # None

BeginFresh(s) ==
    /\ pc = "idle"
    /\ ~HasFiles
    /\ pc' = "meta" /\ snap' = s
    /\ UNCHANGED <<disk, reported, at, todo, cur, mem>>

BeginResume(s) ==
    /\ pc = "idle"
    /\ meta \in Snapshots
    /\ "mixup" \in Faults \/ s = meta
    /\ pc' = "load" /\ snap' = s
    /\ reported' = FALSE
    /\ UNCHANGED <<disk, at, todo, cur, mem>>

(* read_snapshot_metadata, then save_metadata: truncate and write.         *)
ReadMetadata ==
    /\ pc = "meta"
    /\ meta' = Torn
    /\ pc' = "meta_write"
    /\ UNCHANGED <<data, wchunks, dprog, reported, snap, at, todo, cur, mem>>

SaveMetadata ==
    /\ pc = "meta_write"
    /\ meta' = snap
    /\ pc' = "load"
    /\ UNCHANGED <<data, wchunks, dprog, reported, snap, at, todo, cur, mem>>

LoadProgressLost ==     \* mutant: progress is written and never read
    /\ pc = "load"
    /\ mem' = NoProgress
    /\ at' = 1
    /\ pc' = "blob"
    /\ UNCHANGED <<disk, reported, snap, todo, cur>>

LoadProgress ==
    /\ pc = "load"
    /\ mem' = IF dprog = None THEN NoProgress ELSE dprog
    /\ at' = 1
    /\ pc' = "blob"
    /\ UNCHANGED <<disk, reported, snap, todo, cur>>

-----------------------------------------------------------------------------
(* download_blob_to_file, for each blob in turn. *)

Blob == Order[at]

SkipBlob ==
    /\ pc = "blob"
    /\ at <= Len(Order)
    /\ IsComplete(mem[Blob], Chunks[Blob])
    /\ at' = at + 1
    /\ UNCHANGED <<disk, reported, pc, snap, todo, cur, mem>>

(* The file is opened, or created at full size; every chunk that needs it  *)
(* is asked for.                                                           *)
StartBlob ==
    /\ pc = "blob"
    /\ at <= Len(Order)
    /\ ~IsComplete(mem[Blob], Chunks[Blob])
    /\ data' = [x \in Pieces |-> IF x[1] = Blob /\ data[x] = None THEN Zero ELSE data[x]]
    /\ todo' = {i \in 0 .. Chunks[Blob] - 1 : NeedsDownload(mem[Blob], i)}
    /\ pc' = "fetch"
    /\ UNCHANGED <<meta, wchunks, dprog, reported, snap, at, cur, mem>>

Arrive(i) ==
    /\ pc = "fetch"
    /\ i \in todo
    /\ todo' = todo \ {i}
    /\ cur' = i
    /\ data' = [data EXCEPT ![<<Blob, i>>] = Torn]
    /\ pc' = "write"
    /\ UNCHANGED <<meta, wchunks, dprog, reported, snap, at, mem>>

(* write_all and sync_data.                                                *)
WriteChunk ==
    /\ pc = "write"
    /\ data' = [data EXCEPT ![<<Blob, cur>>] = snap]
    /\ pc' = "save"
    /\ UNCHANGED <<meta, wchunks, dprog, reported, snap, at, todo, cur, mem>>

(* mark_complete and save_download_progress: a temporary file is renamed   *)
(* over the old one.                                                       *)
SaveProgress ==
    /\ pc = "save"
    /\ mem' = [mem EXCEPT ![Blob] = MarkComplete(@, cur, Chunks[Blob])]
    /\ dprog' = mem'
    /\ pc' = "fetch"
    /\ UNCHANGED <<meta, data, wchunks, reported, snap, at, todo, cur>>

EndBlob ==
    /\ pc = "fetch"
    /\ todo = {}
    /\ at' = at + 1
    /\ pc' = "blob"
    /\ UNCHANGED <<disk, reported, snap, todo, cur, mem>>

-----------------------------------------------------------------------------
(* The wasm chunk store, and the end of the run. *)

StartChunks ==
    /\ pc = "blob"
    /\ at > Len(Order)
    /\ pc' = "chunks"
    /\ UNCHANGED <<disk, reported, snap, at, todo, cur, mem>>

(* A hash whose file exists is taken to be downloaded.                     *)
FetchWasmChunk(h) ==
    /\ pc = "chunks"
    /\ wchunks[h] = None
    /\ wchunks' = [wchunks EXCEPT ![h] = Torn]
    /\ cur' = h
    /\ pc' = "chunk_write"
    /\ UNCHANGED <<meta, data, dprog, reported, snap, at, todo, mem>>

WriteWasmChunk ==
    /\ pc = "chunk_write"
    /\ wchunks' = [wchunks EXCEPT ![cur] = Whole]
    /\ pc' = "chunks"
    /\ UNCHANGED <<meta, data, dprog, reported, snap, at, todo, cur, mem>>

FinishEarly ==     \* mutant: the wasm chunk store is left for later
    /\ pc = "chunks"
    /\ dprog' = None
    /\ reported' = TRUE
    /\ Over
    /\ UNCHANGED <<meta, data, wchunks>>

(* delete_download_progress, "Snapshot downloaded to".                     *)
Finish ==
    /\ pc = "chunks"
    /\ \A h \in Hashes : wchunks[h] # None
    /\ dprog' = None
    /\ reported' = TRUE
    /\ Over
    /\ UNCHANGED <<meta, data, wchunks>>

(* An error return or a kill; reads in flight are dropped.                 *)
Stop ==
    /\ pc # "idle"
    /\ "stop" \in Faults
    /\ pc \in {"meta_write", "chunk_write"} => "tear" \in Faults
    /\ Over
    /\ UNCHANGED <<disk, reported>>

-----------------------------------------------------------------------------
Step ==
    \/ ReadMetadata \/ SaveMetadata \/ LoadProgress
    \/ SkipBlob \/ StartBlob \/ EndBlob
    \/ \E b \in Blobs : \E i \in 0 .. Chunks[b] - 1 : Arrive(i)
    \/ WriteChunk \/ SaveProgress
    \/ StartChunks \/ WriteWasmChunk \/ Finish
    \/ \E h \in Hashes : FetchWasmChunk(h)

Next ==
    \/ \E s \in Snapshots : BeginFresh(s) \/ BeginResume(s)
    \/ Step \/ Stop

Spec == Init /\ [][Next]_vars

-----------------------------------------------------------------------------
TypeOK ==
    /\ meta \in Snapshots \cup {None, Torn}
    /\ data \in [Pieces -> Snapshots \cup {None, Zero, Torn}]
    /\ wchunks \in [Hashes -> {None, Torn, Whole}]
    /\ dprog # None => dprog \in Progress
    /\ mem \in Progress
    /\ snap \in Snapshots \cup {None}
    /\ at \in 1 .. Len(Order) + 1

RecordedPieces ==
    {x \in Pieces : dprog # None /\ x[2] \in Done(dprog[x[1]], Chunks[x[1]])}

(* What the progress file calls downloaded is on disk in full: a resumed   *)
(* run, which skips it, loses nothing (snapshot_transfer.rs 281-283).      *)
RecordedIsOnDisk == \A x \in RecordedPieces : data[x] \in Snapshots

(* A directory reported as downloaded holds the snapshot of its metadata,  *)
(* every chunk of it.                                                      *)
DownloadFaithful ==
    reported =>
        /\ \A x \in Pieces : data[x] = meta
        /\ \A h \in Hashes : wchunks[h] = Whole

(* Over all runs, the progress file is a ledger of chunks: each is fetched *)
(* and recorded once, none is forgotten before all are there.              *)
Ledger == INSTANCE ChunkLedger WITH Pieces <- Pieces, recorded <- RecordedPieces
LedgerKept == Ledger!Spec

(* A directory that has files from an earlier run can be resumed from.     *)
Resumable == pc = "idle" /\ HasFiles => meta \in Snapshots
=============================================================================
