-------------------------- MODULE SnapshotTransfer --------------------------
(***************************************************************************)
(* A snapshot on its way from one canister to another: downloads into a    *)
(* directory (SnapshotDownload) and uploads from it (SnapshotUpload).      *)
(*                                                                         *)
(* Both commands work inside with_write of the directory, so that one is   *)
(* idle while the other runs; upload.rs loads metadata.json and reads the  *)
(* blobs and the wasm chunks, download.rs writes them.                     *)
(***************************************************************************)
EXTENDS SnapshotDownload

CONSTANTS
    Targets, UploadFaults,  \* of SnapshotUpload
    EarlyUpload             \* whether users upload what is not complete yet

VARIABLES
    held, state, uprog, ureported, upc, uat, utodo, uacked, ufailed, umem,
    wrong       \* ghost: <<target, part>>: it was sent something else

U == INSTANCE SnapshotUpload WITH
        Faults <- UploadFaults, reported <- ureported, pc <- upc, at <- uat,
        todo <- utodo, acked <- uacked, failed <- ufailed, mem <- umem

ASSUME TransferAssumption == U!UploadAssumption /\ EarlyUpload \in BOOLEAN

uploadVars == <<held, state, uprog, ureported, upc, uat, utodo, uacked, ufailed, umem>>
upload == <<uploadVars, wrong>>

TransferInit == Init /\ U!Init /\ wrong = {}

DownloadMoves ==
    /\ pc = "idle" => upc = "idle"
    /\ Next
    /\ UNCHANGED upload

(* An upload begins with load_metadata.                                    *)
MayUpload == pc = "idle" /\ meta \in Snapshots /\ (EarlyUpload \/ reported)

(* What arrives at a target is what the files hold when it is sent.        *)
Sent(t) ==
    {x \in held'[t].pieces \ held[t].pieces : data[x] # meta} \cup
    {h \in held'[t].hashes \ held[t].hashes : wchunks[h] # Whole}

UploadMoves ==
    /\ upc = "idle" => MayUpload
    /\ U!Next
    /\ wrong' = wrong \cup UNION {{t} \X Sent(t) : t \in Targets}
    /\ UNCHANGED vars

ResumeUpload == U!BeginResume /\ MayUpload /\ UNCHANGED <<vars, wrong>>

TransferNext == DownloadMoves \/ UploadMoves

(* Reads and uploads are answered or fail, so a run that is not stopped    *)
(* goes on; and an upload that did not finish is resumed in the end.       *)
TransferSpec ==
    /\ TransferInit /\ [][TransferNext]_<<vars, upload>>
    /\ WF_vars(Step)
    /\ WF_uploadVars(U!Step \/ U!Failure)
    /\ SF_<<vars, upload>>(ResumeUpload)

-----------------------------------------------------------------------------
(* The types of both halves.                                               *)
TransferTypeOK == TypeOK /\ U!TypeOK /\ wrong \subseteq Targets \X (Pieces \cup Hashes)

(* What the upload's progress file calls sent, and a resumed run will not  *)
(* send again, the target holds (snapshot_transfer.rs 741-756).            *)
RecordedIsHeld == U!RecordedIsHeld

(* From end to end: a snapshot reported as uploaded holds every part of    *)
(* the one that was downloaded, and what it holds is what was there,       *)
(* through interruptions of both transfers at any point.                   *)
TransferFaithful ==
    ureported # None => U!UploadFaithful /\ \A x \in wrong : x[1] # ureported

(* The three together: what the record calls sent the target holds, and a  *)
(* snapshot reported as uploaded is the one that was downloaded.           *)
UploadFaithful == TransferTypeOK /\ RecordedIsHeld /\ TransferFaithful

(* Once the directory is complete and left alone, an upload that was begun *)
(* and recorded is finished by resuming it after the failures have ended,  *)
(* however many there were (docs/guides/canister-snapshots.md 75).         *)
UploadEnds == <>[](pc = "idle" /\ reported) => U!UploadEnds
=============================================================================
