----------------------- MODULE SnapshotTransfer_proofs -----------------------
(* Proofs about SnapshotDownload, and about SnapshotTransfer, where uploads *)
(* join it, for any snapshots, blobs and sizes, any number of targets, and *)
(* any faults unless a theorem says otherwise.                             *)
EXTENDS SnapshotTransfer, WellFoundedInduction, TLAPS

LEMMA LeastNumber ==
    ASSUME NEW T \in SUBSET Nat, NEW n \in T
    PROVE  \E m \in T : \A k \in T : m <= k
<1> DEFINE R == {ss \in Nat \X Nat : ss[1] < ss[2]}
<1>1. R = OpToRel(<, Nat)
  BY DEF OpToRel
<1>2. IsWellFoundedOn(R, Nat)
  BY <1>1, NatLessThanWellFounded
<1>3. PICK x \in T : \A y \in T : ~ (<<y, x>> \in R)
  BY <1>2, WFMin
<1>4. ASSUME NEW y \in T PROVE x <= y
  <2>1. <<y, x>> \notin R /\ <<y, x>> \in Nat \X Nat
    BY <1>3
  <2>2. ~(y < x)
    BY <2>1
  <2> QED BY <2>2
<1> QED BY <1>4

-----------------------------------------------------------------------------
(* Progress of a blob of n chunks: what is ahead is beyond the frontier.   *)
WellFormed(p, n) ==
    /\ p \in [frontier : Nat, ahead : SUBSET Nat]
    /\ p.frontier <= n
    /\ \A j \in p.ahead : p.frontier < j /\ j < n

LEMMA NextGapIs ==
    ASSUME NEW S \in SUBSET Nat, NEW n \in Nat, NEW k \in Nat, k <= n, n \notin S
    PROVE  /\ NextGap(S, k, n) \in k .. n
           /\ NextGap(S, k, n) \notin S
           /\ \A j \in k .. NextGap(S, k, n) - 1 : j \in S
<1> DEFINE T == {f \in k .. n : f \notin S}
<1>1. n \in T /\ T \in SUBSET Nat
  OBVIOUS
<1>2. PICK m \in T : \A j \in T : m <= j
  BY <1>1, LeastNumber
<1>3. \A j \in k .. m - 1 : j \in S
  BY <1>2
<1>4. \E f \in k .. n : f \notin S /\ \A j \in k .. f - 1 : j \in S
  BY <1>2, <1>3
<1> QED BY <1>4 DEF NextGap

LEMMA MarkCompleteIs ==
    ASSUME NEW n \in Nat, NEW p, WellFormed(p, n), NEW i \in 0 .. n - 1
    PROVE  /\ WellFormed(MarkComplete(p, i, n), n)
           /\ Done(MarkComplete(p, i, n), n) = Done(p, n) \cup {i}
<1> DEFINE q == MarkComplete(p, i, n)
<1> USE DEF WellFormed
<1>1. CASE i > p.frontier
  <2>1. q = [p EXCEPT !.ahead = p.ahead \cup {i}]
    BY <1>1 DEF MarkComplete
  <2>2. q.frontier = p.frontier /\ q.ahead = p.ahead \cup {i} /\ q \in [frontier : Nat, ahead : SUBSET Nat]
    BY <2>1
  <2> QED BY <1>1, <2>2 DEF Done, NeedsDownload
<1>2. CASE i < p.frontier
  <2>1. q = p
    BY <1>2 DEF MarkComplete
  <2> QED BY <1>2, <2>1 DEF Done, NeedsDownload
<1>3. CASE i = p.frontier
  <2> DEFINE f == NextGap(p.ahead, i + 1, n)
  <2>1. f \in i + 1 .. n /\ f \notin p.ahead /\ \A j \in i + 1 .. f - 1 : j \in p.ahead
    BY NextGapIs
  <2>2. q = [frontier |-> f, ahead |-> p.ahead \ (i + 1 .. f - 1)]
    BY <1>3 DEF MarkComplete
  <2> HIDE DEF f
  <2>3. q.frontier = f /\ q.ahead = p.ahead \ (i + 1 .. f - 1) /\ q \in [frontier : Nat, ahead : SUBSET Nat]
    BY <2>1, <2>2
  <2> HIDE DEF q
  <2>4. WellFormed(q, n)
    BY <1>3, <2>1, <2>3
  <2>5. \A j \in 0 .. n - 1 : (j < f \/ j \in p.ahead) <=> (j < i \/ j \in p.ahead \/ j = i)
    BY <1>3, <2>1
  <2>6. Done(q, n) = Done(p, n) \cup {i}
    BY <1>3, <2>1, <2>3, <2>5 DEF Done, NeedsDownload
  <2> QED BY <2>4, <2>6 DEF q
<1> QED BY <1>1, <1>2, <1>3

(* A well-formed progress with every chunk done has its frontier at the    *)
(* end: is_complete tells the truth.                                       *)
LEMMA AllDoneIsComplete ==
    ASSUME NEW n \in Nat, NEW p, WellFormed(p, n)
    PROVE  IsComplete(p, n) <=> Done(p, n) = 0 .. n - 1
<1>1. ASSUME ~IsComplete(p, n) PROVE p.frontier \in 0 .. n - 1 /\ p.frontier \notin Done(p, n)
  BY <1>1 DEF WellFormed, IsComplete, Done, NeedsDownload
<1>2. ASSUME IsComplete(p, n) PROVE Done(p, n) = 0 .. n - 1
  BY <1>2 DEF WellFormed, IsComplete, Done, NeedsDownload
<1> QED BY <1>1, <1>2

-----------------------------------------------------------------------------
(* The inductive invariant.                                                *)

InBlob == {"fetch", "write", "save"}
AfterLoad == InBlob \cup {"blob", "chunks", "chunk_write"}
Pcs == AfterLoad \cup {"idle", "meta", "meta_write", "load"}

(* The record is well formed, and what it names is on disk.                *)
Sound(p) ==
    \A b \in Blobs :
        /\ WellFormed(p[b], Chunks[b])
        /\ \A i \in Done(p[b], Chunks[b]) : data[<<b, i>>] \in Snapshots

(* What the run has in memory is what it saved.                            *)
MemIsSaved == pc \in AfterLoad => mem = IF dprog = None THEN NoProgress ELSE dprog

(* The chunks of the current blob: recorded, in flight or being written.   *)
Pending == todo \cup IF pc \in {"write", "save"} THEN {cur} ELSE {}

BlobUnderWay ==
    pc \in InBlob =>
        /\ at <= Len(Order)
        /\ Pending \cup Done(mem[Blob], Chunks[Blob]) = 0 .. Chunks[Blob] - 1
        /\ Pending \cap Done(mem[Blob], Chunks[Blob]) = {}
        /\ pc \in {"write", "save"} => cur \notin todo
        /\ pc = "save" => data[<<Blob, cur>>] \in Snapshots

(* Blobs before the current one are complete.                              *)
EarlierComplete ==
    /\ pc \in InBlob \cup {"blob"} =>
          \A k \in 1 .. Len(Order) : k < at => IsComplete(mem[Order[k]], Chunks[Order[k]])
    /\ pc \in {"chunks", "chunk_write"} => \A b \in Blobs : IsComplete(mem[b], Chunks[b])

WritingHash == pc = "chunk_write" => cur \in Hashes

IInv ==
    /\ TypeOK
    /\ pc \in Pcs /\ (pc # "idle" => snap \in Snapshots)
    /\ Sound(mem) /\ (dprog # None => Sound(dprog))
    /\ MemIsSaved
    /\ BlobUnderWay
    /\ EarlierComplete
    /\ WritingHash

-----------------------------------------------------------------------------
LEMMA BlobIs ==
    ASSUME at \in 1 .. Len(Order)
    PROVE  Blob \in Blobs /\ Chunks[Blob] \in Nat
  BY OrderAssumption DEF Blob, Blobs

LEMMA PieceIs ==
    ASSUME NEW b \in Blobs, NEW i \in 0 .. Chunks[b] - 1
    PROVE  <<b, i>> \in Pieces
  BY DEF Pieces

LEMMA NothingDoneIs ==
    ASSUME NEW n \in Nat
    PROVE  WellFormed(NothingDone, n) /\ Done(NothingDone, n) = {}
  BY DEF WellFormed, Done, NothingDone, NeedsDownload

LEMMA NoProgressIs == Sound(NoProgress) /\ NoProgress \in Progress
<1>1. ASSUME NEW b \in Blobs PROVE NoProgress[b] = NothingDone /\ Chunks[b] \in Nat
  BY OrderAssumption DEF NoProgress
<1>2. Sound(NoProgress)
  BY <1>1, NothingDoneIs DEF Sound
<1>3. NoProgress \in Progress
  BY DEF NoProgress, Progress, NothingDone
<1> QED BY <1>2, <1>3

LEMMA InitIInv == Init => IInv
<1> SUFFICES ASSUME Init PROVE IInv
  OBVIOUS
<1>1. TypeOK
  <2>1. Len(Order) \in Nat
    BY OrderAssumption
  <2> QED BY <2>1, NoProgressIs DEF Init, TypeOK
<1>2. Sound(mem) /\ dprog = None
  BY NoProgressIs DEF Init
<1> QED BY <1>1, <1>2 DEF Init, IInv, Pcs, AfterLoad, InBlob, MemIsSaved, BlobUnderWay,
       EarlierComplete, WritingHash

(* Steps that leave the record, in the file and in memory, as it is, and   *)
(* no recorded piece worse.                                                *)
Keeps == \A x \in Pieces : data[x] \in Snapshots => data'[x] \in Snapshots

LEMMA SoundKept ==
    ASSUME IInv, Keeps, UNCHANGED <<dprog, mem>>
    PROVE  Sound(mem)' /\ (dprog # None => Sound(dprog))'
<1>1. ASSUME NEW b \in Blobs, NEW p, NEW i \in Done(p, Chunks[b]) PROVE <<b, i>> \in Pieces
  BY PieceIs DEF Done
<1>2. Sound(mem)'
  BY <1>1 DEF IInv, Sound, Keeps
<1>3. (dprog # None => Sound(dprog))'
  BY <1>1 DEF IInv, Sound, Keeps
<1> QED BY <1>2, <1>3

(* Steps that touch neither the record nor a piece.                        *)
LEMMA QuietSound ==
    ASSUME IInv, UNCHANGED <<data, dprog, mem>>
    PROVE  Sound(mem)' /\ (dprog # None => Sound(dprog))'
  BY SoundKept DEF Keeps

LEMMA LenIsNat == Len(Order) \in Nat
  BY OrderAssumption

LEMMA StartsKeepIInv ==
    ASSUME IInv,
           \/ \E s \in Snapshots : BeginFresh(s) \/ BeginResume(s)
           \/ ReadMetadata \/ SaveMetadata
    PROVE  IInv'
<1>1. UNCHANGED <<data, dprog, mem, wchunks, at>>
  BY DEF BeginFresh, BeginResume, ReadMetadata, SaveMetadata, disk
<1>2. pc' \in {"meta", "meta_write", "load", "idle"} /\ (pc' # "idle" => snap' \in Snapshots)
  BY DEF BeginFresh, BeginResume, ReadMetadata, SaveMetadata, IInv
<1>3. meta' \in Snapshots \cup {None, Torn} /\ snap' \in Snapshots \cup {None}
  BY DEF BeginFresh, BeginResume, ReadMetadata, SaveMetadata, IInv, TypeOK, disk
<1>4. TypeOK'
  BY <1>1, <1>3 DEF IInv, TypeOK
<1>5. Sound(mem)' /\ (dprog # None => Sound(dprog))'
  BY <1>1, QuietSound
<1> QED BY <1>2, <1>4, <1>5 DEF IInv, Pcs, AfterLoad, InBlob, MemIsSaved, BlobUnderWay,
       EarlierComplete, WritingHash

(* The end of a run, done, failed or killed.                               *)
LEMMA OverKeepsIInv ==
    ASSUME IInv, Finish \/ Stop
    PROVE  IInv'
<1>1. /\ UNCHANGED <<data, wchunks, meta>> /\ dprog' \in {dprog, None}
      /\ pc' = "idle" /\ snap' = None /\ at' = 1 /\ mem' = NoProgress
  BY DEF Finish, Stop, Over, disk
<1>2. TypeOK'
  BY <1>1, LenIsNat, NoProgressIs DEF IInv, TypeOK
<1>3. (dprog # None => Sound(dprog))'
  BY <1>1 DEF IInv, Sound
<1>4. Sound(mem)'
  <2>1. Sound(NoProgress)'
    <3>1. ASSUME NEW b \in Blobs
          PROVE  /\ WellFormed(NoProgress[b], Chunks[b])
                 /\ Done(NoProgress[b], Chunks[b]) = {}
      BY OrderAssumption, NothingDoneIs DEF NoProgress
    <3> QED BY <3>1 DEF Sound
  <2> QED BY <1>1, <2>1 DEF Sound
<1> QED BY <1>1, <1>2, <1>3, <1>4 DEF IInv, Pcs, AfterLoad, InBlob, MemIsSaved, BlobUnderWay,
       EarlierComplete, WritingHash

LEMMA LoadKeepsIInv ==
    ASSUME IInv, LoadProgress
    PROVE  IInv'
<1> USE DEF LoadProgress, disk
<1>1. pc' = "blob" /\ at' = 1 /\ UNCHANGED <<data, dprog, wchunks, meta, snap>>
  OBVIOUS
<1>2. mem' = IF dprog = None THEN NoProgress ELSE dprog
  OBVIOUS
<1>3. mem' \in Progress
  BY NoProgressIs DEF IInv, TypeOK
<1>4. Sound(mem)'
  <2>1. Sound(mem')
    BY <1>2, NoProgressIs DEF IInv
  <2> QED BY <1>1, <2>1 DEF Sound
<1>5. (dprog # None => Sound(dprog))'
  BY <1>1 DEF IInv, Sound
<1>6. TypeOK'
  BY <1>1, <1>3, LenIsNat DEF IInv, TypeOK
<1>7. MemIsSaved' /\ BlobUnderWay' /\ EarlierComplete' /\ WritingHash'
  BY <1>1, <1>2 DEF MemIsSaved, BlobUnderWay, EarlierComplete, WritingHash, InBlob
<1> QED BY <1>1, <1>4, <1>5, <1>6, <1>7 DEF IInv, Pcs, AfterLoad

LEMMA SkipKeepsIInv ==
    ASSUME IInv, SkipBlob
    PROVE  IInv'
<1> USE DEF SkipBlob, disk
<1>1. pc = "blob" /\ pc' = "blob" /\ at \in 1 .. Len(Order) /\ at' = at + 1
  BY LenIsNat DEF IInv, TypeOK
<1>2. UNCHANGED <<data, dprog, mem, wchunks, meta, snap>>
  OBVIOUS
<1>3. TypeOK'
  BY <1>1, <1>2, LenIsNat DEF IInv, TypeOK
<1>4. Sound(mem)' /\ (dprog # None => Sound(dprog))'
  BY <1>2, QuietSound
<1>5. EarlierComplete'
  BY <1>1, <1>2, LenIsNat DEF IInv, EarlierComplete, InBlob, Blob
<1>6. MemIsSaved' /\ BlobUnderWay' /\ WritingHash'
  BY <1>1, <1>2 DEF IInv, MemIsSaved, AfterLoad, BlobUnderWay, WritingHash, InBlob
<1> QED BY <1>1, <1>2, <1>3, <1>4, <1>5, <1>6 DEF IInv, Pcs, AfterLoad

LEMMA StartBlobKeepsIInv ==
    ASSUME IInv, StartBlob
    PROVE  IInv'
<1>1. pc = "blob" /\ pc' = "fetch" /\ at \in 1 .. Len(Order) /\ at' = at
  BY LenIsNat DEF StartBlob, IInv, TypeOK
<1>2. UNCHANGED <<dprog, mem, wchunks, meta, snap>>
  BY DEF StartBlob
<1>3. data' = [x \in Pieces |-> IF x[1] = Blob /\ data[x] = None THEN Zero ELSE data[x]]
  BY DEF StartBlob
<1>4. Keeps /\ data' \in [Pieces -> Snapshots \cup {None, Zero, Torn}]
  BY <1>3, MarksAssumption DEF Keeps, IInv, TypeOK
<1>5. Sound(mem)' /\ (dprog # None => Sound(dprog))'
  BY <1>2, <1>4, SoundKept
<1>6. TypeOK'
  BY <1>1, <1>2, <1>4, LenIsNat DEF IInv, TypeOK
<1>7. Blob' = Blob
  BY <1>1 DEF Blob
<1>8. todo' = 0 .. Chunks[Blob] - 1 \ Done(mem[Blob], Chunks[Blob])
  BY DEF StartBlob, Done
<1>9. BlobUnderWay'
  <2>1. Pending' = todo'
    BY <1>1 DEF Pending
  <2>2. Done(mem[Blob], Chunks[Blob]) \subseteq 0 .. Chunks[Blob] - 1
    BY DEF Done
  <2>3. mem'[Blob'] = mem[Blob]
    BY <1>2, <1>7
  <2> QED BY <1>1, <1>7, <1>8, <2>1, <2>2, <2>3, LenIsNat DEF BlobUnderWay
<1>10. EarlierComplete' /\ MemIsSaved' /\ WritingHash'
  BY <1>1, <1>2 DEF IInv, EarlierComplete, MemIsSaved, WritingHash, InBlob, AfterLoad
<1> QED BY <1>1, <1>2, <1>5, <1>6, <1>9, <1>10 DEF IInv, Pcs, AfterLoad, InBlob

LEMMA ArriveKeepsIInv ==
    ASSUME IInv, NEW i, Arrive(i)
    PROVE  IInv'
<1>1. pc = "fetch" /\ pc' = "write" /\ at \in 1 .. Len(Order) /\ at' = at
  BY LenIsNat DEF Arrive, IInv, TypeOK, BlobUnderWay, InBlob
<1>2. UNCHANGED <<dprog, mem, wchunks, meta, snap>> /\ cur' = i /\ i \in todo /\ todo' = todo \ {i}
  BY DEF Arrive
<1>3. /\ Pending = todo /\ Pending' = todo
      /\ todo \cup Done(mem[Blob], Chunks[Blob]) = 0 .. Chunks[Blob] - 1
      /\ todo \cap Done(mem[Blob], Chunks[Blob]) = {}
  BY <1>1, <1>2 DEF IInv, BlobUnderWay, InBlob, Pending
<1>4. Blob \in Blobs /\ i \in 0 .. Chunks[Blob] - 1 /\ <<Blob, i>> \in Pieces
  BY <1>1, <1>2, <1>3, BlobIs, PieceIs
<1>5. data' = [data EXCEPT ![<<Blob, i>>] = Torn]
  BY DEF Arrive
<1>6. TypeOK'
  BY <1>1, <1>2, <1>4, <1>5, LenIsNat DEF IInv, TypeOK
<1>7. Sound(mem)' /\ (dprog # None => Sound(dprog))'
  <2>1. ASSUME NEW b \in Blobs, NEW j \in Done(mem[b], Chunks[b])
        PROVE data'[<<b, j>>] \in Snapshots
    <3>1. <<b, j>> \in Pieces /\ data[<<b, j>>] \in Snapshots
      BY PieceIs DEF IInv, Sound, Done
    <3>2. <<b, j>> # <<Blob, i>>
      BY <1>2, <1>3
    <3> QED BY <1>5, <3>1, <3>2 DEF IInv, TypeOK
  <2>2. Sound(mem)'
    BY <1>2, <2>1 DEF IInv, Sound
  <2>3. dprog # None => mem = dprog
    BY <1>1 DEF IInv, MemIsSaved, AfterLoad, InBlob
  <2> QED BY <1>2, <2>2, <2>3 DEF Sound
<1>8. Blob' = Blob
  BY <1>1 DEF Blob
<1>9. BlobUnderWay'
  BY <1>1, <1>2, <1>3, <1>8, LenIsNat DEF BlobUnderWay
<1>10. EarlierComplete' /\ MemIsSaved' /\ WritingHash'
  BY <1>1, <1>2 DEF IInv, EarlierComplete, MemIsSaved, WritingHash, InBlob, AfterLoad
<1> QED BY <1>1, <1>2, <1>6, <1>7, <1>9, <1>10 DEF IInv, Pcs, AfterLoad, InBlob

LEMMA WriteKeepsIInv ==
    ASSUME IInv, WriteChunk
    PROVE  IInv'
<1>1. pc = "write" /\ pc' = "save" /\ at \in 1 .. Len(Order) /\ at' = at
  BY LenIsNat DEF WriteChunk, IInv, TypeOK, BlobUnderWay, InBlob
<1>2. UNCHANGED <<dprog, mem, wchunks, meta, snap, cur, todo>> /\ snap \in Snapshots
  BY <1>1 DEF WriteChunk, IInv
<1>3. /\ Pending' = Pending /\ cur \in Pending /\ cur \notin todo
      /\ Pending \cup Done(mem[Blob], Chunks[Blob]) = 0 .. Chunks[Blob] - 1
      /\ Pending \cap Done(mem[Blob], Chunks[Blob]) = {}
  BY <1>1, <1>2 DEF IInv, BlobUnderWay, InBlob, Pending
<1>4. Blob \in Blobs /\ cur \in 0 .. Chunks[Blob] - 1 /\ <<Blob, cur>> \in Pieces
  BY <1>1, <1>3, BlobIs, PieceIs
<1>5. data' = [data EXCEPT ![<<Blob, cur>>] = snap]
  BY DEF WriteChunk
<1>6. TypeOK' /\ Keeps /\ data'[<<Blob, cur>>] \in Snapshots
  BY <1>1, <1>2, <1>4, <1>5, LenIsNat DEF IInv, TypeOK, Keeps
<1>7. Sound(mem)' /\ (dprog # None => Sound(dprog))'
  BY <1>2, <1>6, SoundKept
<1>8. Blob' = Blob
  BY <1>1 DEF Blob
<1>9. BlobUnderWay'
  BY <1>1, <1>2, <1>3, <1>6, <1>8, LenIsNat DEF BlobUnderWay
<1>10. EarlierComplete' /\ MemIsSaved' /\ WritingHash'
  BY <1>1, <1>2 DEF IInv, EarlierComplete, MemIsSaved, WritingHash, InBlob, AfterLoad
<1> QED BY <1>1, <1>2, <1>6, <1>7, <1>9, <1>10 DEF IInv, Pcs, AfterLoad, InBlob

(* The record moves on by the chunk just written, and by nothing else.     *)
LEMMA SavedProgress ==
    ASSUME IInv, SaveProgress
    PROVE  /\ Blob \in Blobs /\ cur \in 0 .. Chunks[Blob] - 1
           /\ dprog' = mem' /\ mem' \in Progress
           /\ WellFormed(mem'[Blob], Chunks[Blob])
           /\ Done(mem'[Blob], Chunks[Blob]) = Done(mem[Blob], Chunks[Blob]) \cup {cur}
           /\ \A b \in Blobs : b # Blob => mem'[b] = mem[b]
<1>1. pc = "save" /\ at \in 1 .. Len(Order)
  BY LenIsNat DEF SaveProgress, IInv, TypeOK, BlobUnderWay, InBlob
<1>2. Blob \in Blobs /\ Chunks[Blob] \in Nat
  BY <1>1, BlobIs
<1>3. cur \in 0 .. Chunks[Blob] - 1
  BY <1>1 DEF IInv, BlobUnderWay, InBlob, Pending
<1> DEFINE q == MarkComplete(mem[Blob], cur, Chunks[Blob])
<1>4. /\ WellFormed(q, Chunks[Blob])
      /\ Done(q, Chunks[Blob]) = Done(mem[Blob], Chunks[Blob]) \cup {cur}
  BY <1>2, <1>3, MarkCompleteIs DEF IInv, Sound
<1>5. mem' = [mem EXCEPT ![Blob] = q] /\ dprog' = mem'
  BY DEF SaveProgress
<1> HIDE DEF q
<1>6. mem'[Blob] = q /\ mem' \in Progress /\ \A b \in Blobs : b # Blob => mem'[b] = mem[b]
  BY <1>2, <1>4, <1>5 DEF IInv, TypeOK, Progress, WellFormed
<1> QED BY <1>2, <1>3, <1>4, <1>5, <1>6

LEMMA SaveKeepsIInv ==
    ASSUME IInv, SaveProgress
    PROVE  IInv'
<1>1. pc = "save" /\ pc' = "fetch" /\ at \in 1 .. Len(Order) /\ at' = at
  BY LenIsNat DEF SaveProgress, IInv, TypeOK, BlobUnderWay, InBlob
<1>2. UNCHANGED <<data, wchunks, meta, snap, cur, todo>>
  BY DEF SaveProgress
<1>3. TypeOK'
  BY <1>1, <1>2, LenIsNat, SavedProgress DEF IInv, TypeOK
<1>4. Sound(mem)' /\ (dprog # None => Sound(dprog))'
  <2>1. data[<<Blob, cur>>] \in Snapshots
    BY <1>1 DEF IInv, BlobUnderWay, InBlob
  <2>2. Sound(mem')
    BY <2>1, SavedProgress DEF IInv, Sound
  <2>3. Sound(mem)'
    BY <1>2, <2>2 DEF Sound
  <2> QED BY <1>2, <2>2, SavedProgress DEF Sound
<1>5. Blob' = Blob
  BY <1>1 DEF Blob
<1>6. BlobUnderWay'
  <2>1. Pending' = todo /\ Pending = todo \cup {cur} /\ cur \notin todo
    BY <1>1, <1>2 DEF IInv, BlobUnderWay, InBlob, Pending
  <2>2. /\ Pending \cup Done(mem[Blob], Chunks[Blob]) = 0 .. Chunks[Blob] - 1
        /\ Pending \cap Done(mem[Blob], Chunks[Blob]) = {}
    BY <1>1 DEF IInv, BlobUnderWay, InBlob
  <2> QED BY <1>1, <1>5, <2>1, <2>2, SavedProgress, LenIsNat DEF BlobUnderWay
<1>7. EarlierComplete'
  <2>1. ASSUME NEW k \in 1 .. Len(Order), k < at
        PROVE Order[k] \in Blobs /\ mem'[Order[k]] = mem[Order[k]]
    <3>1. k # at /\ Order[k] # Order[at] /\ Order[k] \in Blobs
      BY <1>1, <2>1, LenIsNat, OrderAssumption DEF Blobs
    <3>2. Order[k] # Blob
      BY <3>1 DEF Blob
    <3> QED BY <3>1, <3>2, SavedProgress
  <2> QED BY <1>1, <2>1, LenIsNat DEF IInv, EarlierComplete, InBlob
<1>8. MemIsSaved'
  <2>1. dprog' # None
    BY SavedProgress, MarksAssumption
  <2> QED BY <2>1, SavedProgress DEF MemIsSaved
<1> QED BY <1>1, <1>2, <1>3, <1>4, <1>6, <1>7, <1>8 DEF IInv, Pcs, AfterLoad, InBlob, WritingHash

LEMMA EndBlobKeepsIInv ==
    ASSUME IInv, EndBlob
    PROVE  IInv'
<1> USE DEF EndBlob, disk
<1>1. pc = "fetch" /\ pc' = "blob" /\ at \in 1 .. Len(Order) /\ at' = at + 1 /\ todo = {}
  BY LenIsNat DEF IInv, TypeOK, BlobUnderWay, InBlob
<1>2. UNCHANGED <<data, dprog, mem, wchunks, meta, snap>>
  OBVIOUS
<1>3. TypeOK'
  BY <1>1, <1>2, LenIsNat DEF IInv, TypeOK
<1>4. Sound(mem)' /\ (dprog # None => Sound(dprog))'
  BY <1>2, QuietSound
<1>5. IsComplete(mem[Blob], Chunks[Blob])
  <2>1. Done(mem[Blob], Chunks[Blob]) = 0 .. Chunks[Blob] - 1
    BY <1>1 DEF IInv, BlobUnderWay, InBlob, Pending
  <2>2. WellFormed(mem[Blob], Chunks[Blob]) /\ Chunks[Blob] \in Nat
    BY <1>1, BlobIs DEF IInv, Sound
  <2> QED BY <2>1, <2>2, AllDoneIsComplete
<1>6. EarlierComplete'
  <2>1. ASSUME NEW k \in 1 .. Len(Order), k < at + 1 PROVE IsComplete(mem[Order[k]], Chunks[Order[k]])
    <3>1. CASE k = at
      BY <1>5, <3>1 DEF Blob
    <3>2. CASE k < at
      BY <1>1, <3>2 DEF IInv, EarlierComplete, InBlob
    <3> QED BY <1>1, <2>1, <3>1, <3>2, LenIsNat
  <2> QED BY <1>1, <1>2, <2>1 DEF EarlierComplete, InBlob
<1>7. MemIsSaved' /\ BlobUnderWay' /\ WritingHash'
  BY <1>1, <1>2 DEF IInv, MemIsSaved, AfterLoad, BlobUnderWay, WritingHash, InBlob
<1> QED BY <1>1, <1>2, <1>3, <1>4, <1>6, <1>7 DEF IInv, Pcs, AfterLoad

LEMMA StartChunksKeepsIInv ==
    ASSUME IInv, StartChunks
    PROVE  IInv'
<1> USE DEF StartChunks, disk
<1>1. pc = "blob" /\ pc' = "chunks" /\ UNCHANGED <<data, dprog, mem, wchunks, meta, snap, at>>
  OBVIOUS
<1>2. TypeOK' /\ Sound(mem)' /\ (dprog # None => Sound(dprog))'
  BY <1>1, QuietSound DEF IInv, TypeOK
<1>3. \A b \in Blobs : IsComplete(mem[b], Chunks[b])
  <2> SUFFICES ASSUME NEW k \in 1 .. Len(Order) PROVE IsComplete(mem[Order[k]], Chunks[Order[k]])
    BY DEF Blobs
  <2>1. k < at
    BY LenIsNat DEF IInv, TypeOK
  <2> QED BY <1>1, <2>1 DEF IInv, EarlierComplete
<1>4. EarlierComplete' /\ MemIsSaved' /\ BlobUnderWay' /\ WritingHash'
  BY <1>1, <1>3 DEF IInv, EarlierComplete, MemIsSaved, AfterLoad, BlobUnderWay, WritingHash, InBlob
<1> QED BY <1>1, <1>2, <1>4 DEF IInv, Pcs, AfterLoad

LEMMA WasmChunksKeepIInv ==
    ASSUME IInv, (\E h \in Hashes : FetchWasmChunk(h)) \/ WriteWasmChunk
    PROVE  IInv'
<1> USE DEF FetchWasmChunk, WriteWasmChunk, disk
<1>1. /\ pc \in {"chunks", "chunk_write"} /\ pc' \in {"chunks", "chunk_write"}
      /\ UNCHANGED <<data, dprog, mem, meta, snap, at>>
  OBVIOUS
<1>2. TypeOK' /\ WritingHash'
  BY DEF IInv, TypeOK, WritingHash
<1>3. Sound(mem)' /\ (dprog # None => Sound(dprog))'
  BY <1>1, QuietSound
<1>4. EarlierComplete' /\ MemIsSaved' /\ BlobUnderWay'
  BY <1>1 DEF IInv, EarlierComplete, MemIsSaved, AfterLoad, BlobUnderWay, InBlob
<1> QED BY <1>1, <1>2, <1>3, <1>4 DEF IInv, Pcs, AfterLoad

LEMMA NextKeepsIInv == IInv /\ [Next]_vars => IInv'
<1> SUFFICES ASSUME IInv, [Next]_vars PROVE IInv'
  OBVIOUS
<1>1. ASSUME \E s \in Snapshots : BeginFresh(s) \/ BeginResume(s) PROVE IInv'
  BY <1>1, StartsKeepIInv
<1>2. ASSUME ReadMetadata \/ SaveMetadata PROVE IInv'
  BY <1>2, StartsKeepIInv
<1>3. CASE LoadProgress
  BY <1>3, LoadKeepsIInv
<1>4. CASE SkipBlob
  BY <1>4, SkipKeepsIInv
<1>5. CASE StartBlob
  BY <1>5, StartBlobKeepsIInv
<1>6. CASE EndBlob
  BY <1>6, EndBlobKeepsIInv
<1>7. ASSUME NEW b \in Blobs, NEW i \in 0 .. Chunks[b] - 1, Arrive(i) PROVE IInv'
  BY <1>7, ArriveKeepsIInv
<1>8. CASE WriteChunk
  BY <1>8, WriteKeepsIInv
<1>9. CASE SaveProgress
  BY <1>9, SaveKeepsIInv
<1>10. CASE StartChunks
  BY <1>10, StartChunksKeepsIInv
<1>11. ASSUME (\E h \in Hashes : FetchWasmChunk(h)) \/ WriteWasmChunk PROVE IInv'
  BY <1>11, WasmChunksKeepIInv
<1>12. CASE Finish \/ Stop
  BY <1>12, OverKeepsIInv
<1>13. CASE UNCHANGED vars
  <2>1. UNCHANGED <<data, dprog, mem>> /\ UNCHANGED <<wchunks, meta, snap, at, todo, cur, pc>>
    BY <1>13 DEF vars, disk, run
  <2>2. Sound(mem)' /\ (dprog # None => Sound(dprog))'
    BY <2>1, QuietSound
  <2>3. BlobUnderWay' /\ EarlierComplete' /\ MemIsSaved' /\ WritingHash'
    BY <2>1 DEF IInv, BlobUnderWay, EarlierComplete, MemIsSaved, WritingHash, Pending, Blob
  <2> QED BY <2>1, <2>2, <2>3 DEF IInv, TypeOK
<1> QED BY <1>1, <1>2, <1>3, <1>4, <1>5, <1>6, <1>7, <1>8, <1>9, <1>10, <1>11, <1>12, <1>13
       DEF Next, Step

THEOREM InductiveInvariant == Spec => []IInv
  BY InitIInv, NextKeepsIInv, PTL DEF Spec

(* TypeOK of the downloads, whatever fails.                                *)
THEOREM DownloadTypeCorrect == Spec => []TypeOK
<1>1. IInv => TypeOK
  BY DEF IInv
<1> QED BY <1>1, InductiveInvariant, PTL

(* RecordedIsOnDisk holds through any interruptions, a mistaken snapshot   *)
(* id included.                                                            *)
THEOREM RecordIsOnDisk == Spec => []RecordedIsOnDisk
<1>1. IInv => RecordedIsOnDisk
  <2> SUFFICES ASSUME IInv, NEW x \in RecordedPieces PROVE data[x] \in Snapshots
    BY DEF RecordedIsOnDisk
  <2>1. PICK b \in Blobs : x \in {b} \X (0 .. Chunks[b] - 1)
    BY DEF RecordedPieces, Pieces
  <2>2. x = <<b, x[2]>> /\ dprog # None /\ x[2] \in Done(dprog[b], Chunks[b])
    BY <2>1 DEF RecordedPieces
  <2> QED BY <2>2 DEF IInv, Sound
<1> QED BY <1>1, InductiveInvariant, PTL

-----------------------------------------------------------------------------
(* SnapshotDownload implements ChunkLedger.                                *)

LEMMA PieceParts ==
    ASSUME NEW x \in Pieces
    PROVE  /\ x[1] \in Blobs /\ x[2] \in 0 .. Chunks[x[1]] - 1
           /\ x = <<x[1], x[2]>> /\ Chunks[x[1]] \in Nat
<1>1. PICK b \in Blobs : x \in {b} \X (0 .. Chunks[b] - 1)
  BY DEF Pieces
<1> QED BY <1>1, OrderAssumption

(* While it works, a run has in memory what the ledger says.               *)
LEMMA RecordedIsInMemory ==
    ASSUME IInv, pc \in AfterLoad, NEW x \in Pieces
    PROVE  x \in RecordedPieces <=> x[2] \in Done(mem[x[1]], Chunks[x[1]])
<1>1. CASE dprog = None
  <2>1. mem[x[1]] = NothingDone
    BY <1>1, PieceParts DEF IInv, MemIsSaved, NoProgress
  <2>2. Done(mem[x[1]], Chunks[x[1]]) = {}
    BY <2>1, PieceParts, NothingDoneIs
  <2> QED BY <1>1, <2>2 DEF RecordedPieces
<1>2. CASE dprog # None
  BY <1>2 DEF IInv, MemIsSaved, RecordedPieces
<1> QED BY <1>1, <1>2

LEMMA SaveRecordsOne ==
    ASSUME IInv, SaveProgress
    PROVE  /\ <<Blob, cur>> \in Pieces \ RecordedPieces
           /\ RecordedPieces' = RecordedPieces \cup {<<Blob, cur>>}
<1>1. pc = "save" /\ pc \in AfterLoad
  BY DEF SaveProgress, AfterLoad, InBlob
<1>2. Blob \in Blobs /\ <<Blob, cur>> \in Pieces
  BY SavedProgress, PieceIs
<1>3. cur \notin Done(mem[Blob], Chunks[Blob])
  BY <1>1 DEF IInv, BlobUnderWay, InBlob, Pending
<1>4. <<Blob, cur>> \notin RecordedPieces
  BY <1>1, <1>2, <1>3, RecordedIsInMemory
<1>5. IInv' /\ dprog' # None /\ dprog' = mem'
  BY SaveKeepsIInv, SavedProgress, MarksAssumption
<1>6. ASSUME NEW x \in Pieces
      PROVE x \in RecordedPieces' <=> x \in RecordedPieces \/ x = <<Blob, cur>>
  <2>1. x \in RecordedPieces' <=> x[2] \in Done(mem'[x[1]], Chunks[x[1]])
    BY <1>5 DEF RecordedPieces
  <2>2. x \in RecordedPieces <=> x[2] \in Done(mem[x[1]], Chunks[x[1]])
    BY <1>1, RecordedIsInMemory
  <2>3. CASE x[1] = Blob
    BY <2>1, <2>2, <2>3, PieceParts, SavedProgress
  <2>4. CASE x[1] # Blob
    BY <2>1, <2>2, <2>4, PieceParts, SavedProgress
  <2> QED BY <2>3, <2>4
<1>7. RecordedPieces \subseteq Pieces /\ RecordedPieces' \subseteq Pieces
  BY DEF RecordedPieces
<1> QED BY <1>2, <1>4, <1>6, <1>7

LEMMA FinishHasAll ==
    ASSUME IInv, Finish
    PROVE  RecordedPieces = Pieces /\ RecordedPieces' = {}
<1>1. pc = "chunks" /\ pc \in AfterLoad /\ dprog' = None
  BY DEF Finish, AfterLoad
<1>2. ASSUME NEW x \in Pieces PROVE x \in RecordedPieces
  <2>1. IsComplete(mem[x[1]], Chunks[x[1]]) /\ WellFormed(mem[x[1]], Chunks[x[1]])
    BY <1>1, PieceParts DEF IInv, EarlierComplete, Sound
  <2>2. Done(mem[x[1]], Chunks[x[1]]) = 0 .. Chunks[x[1]] - 1
    BY <2>1, PieceParts, AllDoneIsComplete
  <2> QED BY <1>1, <2>2, PieceParts, RecordedIsInMemory
<1> QED BY <1>1, <1>2 DEF RecordedPieces

LEMMA StepIsLedgerStep ==
    IInv /\ [Next]_vars => [Ledger!Next]_RecordedPieces
<1> SUFFICES ASSUME IInv, [Next]_vars PROVE Ledger!Next \/ UNCHANGED RecordedPieces
  OBVIOUS
<1>1. ASSUME UNCHANGED dprog PROVE UNCHANGED RecordedPieces
  BY <1>1 DEF RecordedPieces
<1>2. CASE SaveProgress
  BY <1>2, SaveRecordsOne DEF Ledger!Next, Ledger!Record
<1>3. CASE Finish
  BY <1>3, FinishHasAll DEF Ledger!Next, Ledger!Finish
<1>4. SaveProgress \/ Finish \/ UNCHANGED dprog
  BY DEF Next, Step, vars, disk, BeginFresh, BeginResume, ReadMetadata, SaveMetadata, LoadProgress,
         SkipBlob, StartBlob, EndBlob, Arrive, WriteChunk, StartChunks, WriteWasmChunk,
         FetchWasmChunk, Stop
<1> QED BY <1>1, <1>2, <1>3, <1>4

(* LedgerKept: over any runs, the record gains one chunk at a time, never  *)
(* one it has, and is dropped only when it is full.                        *)
THEOREM ImplementsLedger == Spec => LedgerKept
<1>1. Init => Ledger!Init
  BY DEF Init, Ledger!Init, RecordedPieces
<1> QED BY <1>1, InductiveInvariant, StepIsLedgerStep, PTL DEF Spec, LedgerKept, Ledger!Spec

-----------------------------------------------------------------------------
(* When a run may stop, but not inside a write and never on a wrong id,    *)
(* the directory holds one snapshot only.                                  *)

(* A blob's file holds chunks of the described snapshot, or nothing yet.   *)
OneSnapshot ==
    \A x \in Pieces : data[x] # None => meta \in Snapshots /\ data[x] \in {meta, Zero, Torn}

MetaOfRun ==
    /\ pc = "meta" => meta = None
    /\ meta = Torn <=> pc = "meta_write"
    /\ pc \in AfterLoad \cup {"load"} => meta = snap

WholeChunks == \A h \in Hashes : wchunks[h] = Torn => pc = "chunk_write" /\ cur = h

ReportedWhole ==
    reported => pc = "idle" /\ meta \in Snapshots /\ DownloadFaithful

FInv == OneSnapshot /\ MetaOfRun /\ WholeChunks /\ ReportedWhole

LEMMA InitFInv == Init => FInv
  BY MarksAssumption DEF Init, FInv, OneSnapshot, MetaOfRun, WholeChunks, ReportedWhole, AfterLoad, InBlob

(* Finish finds every chunk recorded, hence on disk, hence of this snapshot. *)
LEMMA FinishFInv ==
    ASSUME IInv, FInv, Finish
    PROVE  FInv'
<1>1. pc = "chunks" /\ pc' = "idle" /\ UNCHANGED <<data, meta, wchunks>>
  BY DEF Finish, Over
<1>2. meta = snap /\ snap \in Snapshots
  BY <1>1 DEF FInv, MetaOfRun, AfterLoad, IInv
<1>3. ASSUME NEW x \in Pieces PROVE data[x] = meta
  <2>1. x \in RecordedPieces
    BY FinishHasAll
  <2>2. dprog # None /\ x[2] \in Done(dprog[x[1]], Chunks[x[1]])
    BY <2>1 DEF RecordedPieces
  <2>3. data[<<x[1], x[2]>>] \in Snapshots
    BY <2>2, PieceParts DEF IInv, Sound
  <2>4. data[x] \in Snapshots
    BY <2>3, PieceParts
  <2> QED BY <2>4, MarksAssumption DEF FInv, OneSnapshot
<1>4. ASSUME NEW h \in Hashes PROVE wchunks[h] = Whole
  BY <1>1 DEF Finish, FInv, WholeChunks, IInv, TypeOK
<1>5. DownloadFaithful'
  BY <1>1, <1>3, <1>4 DEF DownloadFaithful
<1> QED BY <1>1, <1>2, <1>4, <1>5, MarksAssumption
       DEF FInv, OneSnapshot, MetaOfRun, WholeChunks, ReportedWhole, AfterLoad, InBlob

LEMMA BeginFInv ==
    ASSUME IInv, FInv, Faults \subseteq {"stop"}, NEW s \in Snapshots, BeginFresh(s) \/ BeginResume(s)
    PROVE  FInv'
<1> USE DEF BeginFresh, BeginResume, HasFiles, disk
<1>1. pc = "idle" /\ UNCHANGED <<data, meta, wchunks, cur>>
  OBVIOUS
<1>2. ~reported'
  BY MarksAssumption DEF FInv, ReportedWhole
<1>3. MetaOfRun'
  BY <1>1, MarksAssumption DEF FInv, MetaOfRun, AfterLoad, InBlob
<1> QED BY <1>1, <1>2, <1>3 DEF FInv, OneSnapshot, WholeChunks, ReportedWhole

LEMMA MetadataFInv ==
    ASSUME IInv, FInv, ReadMetadata \/ SaveMetadata
    PROVE  FInv'
<1> USE DEF ReadMetadata, SaveMetadata
<1>1. meta \notin Snapshots /\ ~reported /\ ~reported' /\ snap \in Snapshots
  BY MarksAssumption DEF FInv, MetaOfRun, ReportedWhole, IInv
<1>2. UNCHANGED <<data, wchunks, cur, snap>> /\ pc # "chunk_write"
  OBVIOUS
<1>3. MetaOfRun'
  BY <1>1, MarksAssumption DEF FInv, MetaOfRun, AfterLoad, InBlob
<1> QED BY <1>1, <1>2, <1>3 DEF FInv, OneSnapshot, WholeChunks, ReportedWhole

LEMMA PieceFInv ==
    ASSUME IInv, FInv, StartBlob \/ WriteChunk \/ \E i : Arrive(i)
    PROVE  FInv'
<1> USE DEF StartBlob, WriteChunk, Arrive
<1>1. /\ pc \in AfterLoad /\ pc' \in AfterLoad
      /\ pc # "chunk_write" /\ pc' # "idle"
      /\ UNCHANGED <<meta, wchunks, snap, reported>>
  BY DEF AfterLoad, InBlob
<1>2. meta = snap /\ meta \in Snapshots /\ ~reported
  BY <1>1 DEF FInv, MetaOfRun, ReportedWhole, IInv, AfterLoad, InBlob
<1>3. ASSUME NEW x \in Pieces PROVE data'[x] \in {data[x], meta, Zero, Torn}
  BY <1>2, <1>3 DEF IInv, TypeOK
<1>4. OneSnapshot'
  BY <1>1, <1>2, <1>3 DEF FInv, OneSnapshot
<1>5. MetaOfRun'
  BY <1>1, <1>2, MarksAssumption DEF MetaOfRun, AfterLoad, InBlob
<1> QED BY <1>1, <1>2, <1>4, <1>5 DEF FInv, WholeChunks, ReportedWhole

LEMMA QuietFInv ==
    ASSUME IInv, FInv, LoadProgress \/ SkipBlob \/ EndBlob \/ SaveProgress \/ StartChunks
    PROVE  FInv'
<1> USE DEF LoadProgress, SkipBlob, EndBlob, SaveProgress, StartChunks, disk
<1>1. UNCHANGED <<data, meta, wchunks, snap, reported, cur>> /\ pc # "idle" /\ pc # "chunk_write"
  OBVIOUS
<1>2. pc # "meta_write" /\ pc' # "meta_write" /\ pc' # "meta"
  OBVIOUS
<1>3. pc' # "idle" => pc \in AfterLoad \cup {"load"}
  BY DEF AfterLoad, InBlob
<1>4. MetaOfRun'
  BY <1>1, <1>2, <1>3 DEF FInv, MetaOfRun, AfterLoad, InBlob
<1> QED BY <1>1, <1>4 DEF FInv, OneSnapshot, WholeChunks, ReportedWhole

LEMMA StopFInv ==
    ASSUME IInv, FInv, Faults \subseteq {"stop"}, Stop
    PROVE  FInv'
<1>1. /\ UNCHANGED <<data, meta, wchunks, reported>> /\ pc' = "idle"
      /\ pc \notin {"idle", "meta_write", "chunk_write"}
  BY DEF Stop, Over, disk
<1>2. MetaOfRun'
  BY <1>1 DEF FInv, MetaOfRun, AfterLoad, InBlob
<1> QED BY <1>1, <1>2 DEF FInv, OneSnapshot, WholeChunks, ReportedWhole

LEMMA WasmFInv ==
    ASSUME IInv, FInv, WriteWasmChunk \/ \E h \in Hashes : FetchWasmChunk(h)
    PROVE  FInv'
<1> USE DEF WriteWasmChunk, FetchWasmChunk
<1>1. /\ UNCHANGED <<data, meta, snap, reported>> /\ ~reported
      /\ pc \in AfterLoad /\ pc' \in AfterLoad /\ pc' # "meta_write" /\ pc # "meta_write" /\ pc' # "meta"
  BY DEF FInv, ReportedWhole, AfterLoad, InBlob
<1>2. WholeChunks'
  BY MarksAssumption DEF FInv, WholeChunks, IInv, TypeOK
<1>3. MetaOfRun'
  BY <1>1 DEF FInv, MetaOfRun
<1> QED BY <1>1, <1>2, <1>3 DEF FInv, OneSnapshot, ReportedWhole

LEMMA NextKeepsFInv ==
    ASSUME Faults \subseteq {"stop"}
    PROVE  IInv /\ FInv /\ [Next]_vars => FInv'
<1> SUFFICES ASSUME IInv, FInv, [Next]_vars PROVE FInv'
  OBVIOUS
<1>1. CASE UNCHANGED vars
  BY <1>1 DEF vars, disk, run, FInv, OneSnapshot, MetaOfRun, WholeChunks, ReportedWhole, DownloadFaithful
<1> QED BY <1>1, BeginFInv, MetadataFInv, PieceFInv, QuietFInv, StopFInv, WasmFInv, FinishFInv DEF Next, Step

(* DownloadFaithful and Resumable, when a run may stop between writes only. *)
THEOREM FaithfulAndResumable ==
    ASSUME Faults \subseteq {"stop"}
    PROVE  Spec => [](DownloadFaithful /\ Resumable)
<1>1. FInv => DownloadFaithful
  BY DEF FInv, ReportedWhole, DownloadFaithful
<1>2. IInv /\ FInv => Resumable
  BY MarksAssumption DEF IInv, TypeOK, FInv, OneSnapshot, MetaOfRun, Resumable, HasFiles
<1> QED BY <1>1, <1>2, InitFInv, NextKeepsFInv, InductiveInvariant, PTL DEF Spec

-----------------------------------------------------------------------------
(* Uploads, between and after the downloads.                               *)

InUpload == {"upload", "advance", "save_off"}
Sending == InUpload \cup {"blob", "save_hash"}
UploadPcs == Sending \cup {"idle", "create", "created", "save_new"}

UBlob == U!Blob

(* What a progress calls sent, its target holds.                           *)
Holds(p) ==
    /\ \A b \in Blobs : \A i \in 0 .. Chunks[b] - 1 :
          i < p.off[b] => <<b, i>> \in held[p.target].pieces
    /\ p.hashes \subseteq held[p.target].hashes

(* The chunks of the blob that is sent: below the offset, acknowledged     *)
(* beyond it, in flight; one is missing only when it has failed.           *)
BlobSent ==
    upc \in InUpload =>
        /\ uat \in 1 .. Len(Order)
        /\ utodo \subseteq 0 .. Chunks[UBlob] - 1
        /\ \A i \in uacked : i \in 0 .. Chunks[UBlob] - 1 /\ <<UBlob, i>> \in held[umem.target].pieces
        /\ ~ufailed => \A i \in 0 .. Chunks[UBlob] - 1 : i < umem.off[UBlob] \/ i \in uacked \cup utodo
        /\ upc = "upload" => umem.off[UBlob] \notin uacked

(* Blobs before the current one have been sent.                            *)
EarlierSent ==
    upc \in Sending => \A k \in 1 .. Len(Order) : k < uat => umem.off[Order[k]] >= Chunks[Order[k]]

UInv ==
    /\ U!TypeOK /\ upc \in UploadPcs
    /\ umem # None => Holds(umem)
    /\ uprog \notin {None, Torn} => Holds(uprog)
    /\ BlobSent
    /\ EarlierSent
    /\ U!UploadFaithful

LEMMA SameShape == U!Blobs = Blobs /\ U!Pieces = Pieces
<1>1. U!Blobs = Blobs
  BY DEF U!Blobs, Blobs
<1> QED BY <1>1 DEF U!Pieces, Pieces

LEMMA UploadMarks == None \notin Targets \cup U!Progress /\ Torn \notin U!Progress \cup {None}
  BY TransferAssumption DEF U!UploadAssumption

LEMMA UploadInit == U!Init => UInv
<1> SUFFICES ASSUME U!Init PROVE UInv
  OBVIOUS
<1>1. held \in [Targets -> U!Parts]
  BY DEF U!Init, U!Parts
<1>2. state \in [Targets -> {"absent", "live", "gone"}]
  BY DEF U!Init
<1>3. /\ uprog = None /\ ureported = None /\ umem = None /\ upc = "idle"
      /\ uat = 1 /\ utodo = {} /\ uacked = {} /\ ufailed = FALSE
  BY DEF U!Init
<1>4. uat \in 1 .. Len(Order) + 1
  BY <1>3, LenIsNat
<1>5. utodo \subseteq Nat /\ uacked \subseteq Nat /\ ufailed \in BOOLEAN
  BY <1>3
<1>6. U!TypeOK
  BY <1>1, <1>2, <1>3, <1>4, <1>5 DEF U!TypeOK
<1> QED BY <1>3, <1>6 DEF UInv, UploadPcs, Sending, InUpload, BlobSent, EarlierSent, U!UploadFaithful

(* The target only gains parts, and what was held stays held.              *)
Gains == \A t \in Targets : /\ held[t].pieces \subseteq held'[t].pieces
                            /\ held[t].hashes \subseteq held'[t].hashes

LEMMA GainsKeep ==
    ASSUME Gains, NEW p \in U!Progress, Holds(p), NEW q, q = p
    PROVE  /\ \A b \in Blobs : \A i \in 0 .. Chunks[b] - 1 :
                i < q.off[b] => <<b, i>> \in held'[q.target].pieces
           /\ q.hashes \subseteq held'[q.target].hashes
<1>1. p.target \in Targets
  BY DEF U!Progress
<1> QED BY <1>1 DEF Holds, Gains

LEMMA RecordsKept ==
    ASSUME UInv, Gains
    PROVE  /\ umem # None /\ umem' = umem => Holds(umem)'
           /\ uprog \notin {None, Torn} /\ uprog' = uprog => Holds(uprog)'
<1>1. ASSUME umem # None, umem' = umem PROVE Holds(umem)'
  <2>1. umem \in U!Progress /\ Holds(umem)
    BY <1>1 DEF UInv, U!TypeOK
  <2> QED BY <1>1, <2>1, GainsKeep DEF Holds
<1>2. ASSUME uprog \notin {None, Torn}, uprog' = uprog PROVE Holds(uprog)'
  <2>1. uprog \in U!Progress /\ Holds(uprog)
    BY <1>2 DEF UInv, U!TypeOK
  <2> QED BY <1>2, <2>1, GainsKeep DEF Holds
<1> QED BY <1>1, <1>2

LEMMA QuietGains ==
    ASSUME held' = held
    PROVE  Gains
  BY DEF Gains

LEMMA FaithfulKept ==
    ASSUME UInv, Gains, held' \in [Targets -> U!Parts], ureported' \in {ureported, None}
    PROVE  (U!UploadFaithful)'
<1> SUFFICES ASSUME ureported' # None PROVE held'[ureported'] = U!Everything
  BY DEF U!UploadFaithful, U!Everything
<1>1. ureported' = ureported /\ ureported \in Targets /\ held[ureported] = U!Everything
  BY DEF UInv, U!TypeOK, U!UploadFaithful
<1>2. held'[ureported] \in [pieces : SUBSET U!Pieces, hashes : SUBSET Hashes]
  BY <1>1 DEF U!Parts
<1>3. held[ureported].pieces = U!Pieces /\ held[ureported].hashes = Hashes
  BY <1>1 DEF U!Everything
<1>4. held'[ureported].pieces = U!Pieces /\ held'[ureported].hashes = Hashes
  BY <1>1, <1>2, <1>3 DEF Gains
<1> QED BY <1>1, <1>2, <1>4 DEF U!Everything

-----------------------------------------------------------------------------
LEMMA UploadStarts ==
    ASSUME UInv,
           \/ U!BeginFresh \/ U!BeginResume \/ U!SaveNewTarget
           \/ \E t \in Targets, replaced \in Targets \cup {None} : U!CreateTarget(t, replaced)
    PROVE  UInv'
<1>1. /\ held' = held /\ ureported' \in {ureported, None}
      /\ UNCHANGED <<utodo, uacked, ufailed>>
      /\ uprog' \in {uprog, Torn} /\ upc' \in {"create", "blob", "created", "save_new"}
      /\ uat' \in {uat, 1}
  BY DEF U!BeginFresh, U!BeginResume, U!SaveNewTarget, U!CreateTarget, U!Truncate, U!canister
<1>2. state' \in [Targets -> {"absent", "live", "gone"}]
  BY DEF U!BeginFresh, U!BeginResume, U!SaveNewTarget, U!CreateTarget, U!canister, UInv, U!TypeOK
<1>3. Gains /\ (U!UploadFaithful)'
  BY <1>1, QuietGains, FaithfulKept DEF UInv, U!TypeOK
<1>4. ASSUME NEW t \in Targets PROVE U!NewProgress(t) \in U!Progress /\ Holds(U!NewProgress(t))
  BY OrderAssumption, SameShape DEF U!NewProgress, U!Progress, Holds
<1>5. /\ umem' \in U!Progress \cup {None} /\ (upc' \notin {"idle", "create"} => umem' \in U!Progress)
      /\ umem' # None => Holds(umem')
  <2>1. CASE U!BeginFresh
    BY <2>1 DEF U!BeginFresh, UInv, U!TypeOK
  <2>2. CASE U!BeginResume
    BY <2>2 DEF U!BeginResume, UInv, U!TypeOK
  <2>3. CASE U!SaveNewTarget
    BY <2>3 DEF U!SaveNewTarget, UInv, U!TypeOK, U!Truncate
  <2>4. ASSUME NEW t \in Targets, umem' = U!NewProgress(t)
        PROVE  umem' \in U!Progress /\ Holds(umem')
    BY <1>4, <2>4
  <2>5. CASE \E t \in Targets, replaced \in Targets \cup {None} : U!CreateTarget(t, replaced)
    BY <2>4, <2>5 DEF U!CreateTarget
  <2> QED BY <2>1, <2>2, <2>3, <2>5
<1>6. (U!TypeOK)'
  BY <1>1, <1>2, <1>5, LenIsNat DEF UInv, U!TypeOK
<1>7. (umem # None => Holds(umem))' /\ (uprog \notin {None, Torn} => Holds(uprog))'
  BY <1>1, <1>5 DEF UInv, Holds
<1>8. upc' = "blob" => uat' = 1
  BY DEF U!BeginFresh, U!BeginResume, U!SaveNewTarget, U!CreateTarget, U!Truncate
<1>9. BlobSent' /\ EarlierSent'
  BY <1>1, <1>8 DEF BlobSent, EarlierSent, InUpload, Sending
<1> QED BY <1>1, <1>3, <1>6, <1>7, <1>9 DEF UInv, UploadPcs, Sending, InUpload

LEMMA UBlobIs ==
    ASSUME uat \in 1 .. Len(Order)
    PROVE  UBlob \in Blobs /\ Chunks[UBlob] \in Nat /\ UBlob = Order[uat]
  BY OrderAssumption DEF UBlob, U!Blob, Blobs

LEMMA UploadTurns ==
    ASSUME UInv, U!SkipBlob \/ U!StartBlob \/ U!AdvanceEnds
    PROVE  UInv'
<1>1. /\ UNCHANGED <<held, state, uprog, ureported, umem>> /\ uat \in 1 .. Len(Order)
      /\ umem \in U!Progress /\ upc' \in {"blob", "upload"} /\ upc \in {"blob", "advance"}
  BY LenIsNat DEF U!SkipBlob, U!StartBlob, U!AdvanceEnds, U!canister, UInv, U!TypeOK, BlobSent, InUpload
<1>2. UBlob \in Blobs /\ Chunks[UBlob] \in Nat /\ umem.off[UBlob] \in Nat
  BY <1>1, UBlobIs, SameShape DEF U!Progress
<1>3. Gains /\ (U!UploadFaithful)'
  BY <1>1, QuietGains, FaithfulKept DEF UInv, U!TypeOK
<1>4. (umem # None => Holds(umem))' /\ (uprog \notin {None, Torn} => Holds(uprog))'
  BY <1>1, <1>3, RecordsKept
<1>5. uat' \in 1 .. Len(Order) + 1 /\ utodo' \subseteq Nat /\ uacked' \subseteq Nat /\ ufailed' \in BOOLEAN
  <2>1. uat' \in {uat, uat + 1} /\ uacked' \in {uacked, {}} /\ ufailed' \in {ufailed, FALSE}
    BY DEF U!SkipBlob, U!StartBlob, U!AdvanceEnds
  <2>2. utodo' \in {utodo, umem.off[UBlob] .. Chunks[UBlob] - 1}
    BY DEF U!SkipBlob, U!StartBlob, U!AdvanceEnds, UBlob
  <2>3. utodo' \subseteq Nat
    BY <1>2, <2>2 DEF UInv, U!TypeOK
  <2>4. uat' \in 1 .. Len(Order) + 1
    BY <1>1, <2>1, LenIsNat
  <2>5. uacked' \subseteq Nat /\ ufailed' \in BOOLEAN
    BY <2>1 DEF UInv, U!TypeOK
  <2> QED BY <2>3, <2>4, <2>5
<1>6. (U!TypeOK)'
  BY <1>1, <1>5 DEF UInv, U!TypeOK
<1>7. EarlierSent'
  <2>1. CASE U!SkipBlob
    BY <1>1, <2>1, LenIsNat DEF U!SkipBlob, UInv, EarlierSent, Sending, U!Blob
  <2>2. CASE U!StartBlob \/ U!AdvanceEnds
    BY <1>1, <2>2 DEF U!StartBlob, U!AdvanceEnds, UInv, EarlierSent, Sending, InUpload
  <2> QED BY <2>1, <2>2
<1>8. BlobSent'
  <2>1. CASE U!SkipBlob
    BY <2>1 DEF U!SkipBlob, BlobSent, InUpload
  <2>2. CASE U!StartBlob
    <3>1. /\ utodo' = umem.off[UBlob] .. Chunks[UBlob] - 1 /\ uacked' = {}
          /\ uat' = uat /\ upc' = "upload" /\ UBlob' = UBlob
      BY <2>2 DEF U!StartBlob, UBlob, U!Blob
    <3>2. umem.off[UBlob] \notin uacked'
      BY <3>1
    <3> QED BY <1>1, <1>2, <3>1, <3>2 DEF BlobSent
  <2>3. CASE U!AdvanceEnds
    <3>1. UNCHANGED <<uat, utodo, uacked, ufailed>> /\ upc' = "upload" /\ UBlob' = UBlob /\ umem.off[UBlob] \notin uacked
      BY <2>3 DEF U!AdvanceEnds, UBlob, U!Blob
    <3>2. upc \in InUpload
      BY <2>3 DEF U!AdvanceEnds, InUpload
    <3> QED BY <1>1, <3>1, <3>2 DEF UInv, BlobSent
  <2> QED BY <2>1, <2>2, <2>3
<1> QED BY <1>1, <1>3, <1>4, <1>6, <1>7, <1>8 DEF UInv, UploadPcs, Sending, InUpload

-----------------------------------------------------------------------------
LEMMA PiecesArrive ==
    ASSUME U!TypeOK, NEW t \in Targets, NEW S \in SUBSET Pieces,
           held' = [held EXCEPT ![t].pieces = @ \cup S]
    PROVE  Gains /\ held' \in [Targets -> U!Parts] /\ S \subseteq held'[t].pieces
<1>1. held \in [Targets -> [pieces : SUBSET Pieces, hashes : SUBSET Hashes]]
  BY SameShape DEF U!TypeOK, U!Parts
<1>2. held'[t] = [held[t] EXCEPT !.pieces = held[t].pieces \cup S]
  BY <1>1
<1>3. held'[t].pieces = held[t].pieces \cup S /\ held'[t].hashes = held[t].hashes
  BY <1>1, <1>2
<1>4. \A u \in Targets : u # t => held'[u] = held[u]
  BY <1>1
<1>5. held' \in [Targets -> [pieces : SUBSET Pieces, hashes : SUBSET Hashes]]
  BY <1>1
<1> QED BY <1>3, <1>4, <1>5, SameShape DEF Gains, U!Parts

LEMMA HashArrives ==
    ASSUME U!TypeOK, NEW t \in Targets, NEW h \in Hashes,
           held' = [held EXCEPT ![t].hashes = @ \cup {h}]
    PROVE  Gains /\ held' \in [Targets -> U!Parts] /\ h \in held'[t].hashes
<1>1. held \in [Targets -> [pieces : SUBSET Pieces, hashes : SUBSET Hashes]]
  BY SameShape DEF U!TypeOK, U!Parts
<1>2. held'[t] = [held[t] EXCEPT !.hashes = held[t].hashes \cup {h}]
  BY <1>1
<1>3. held'[t].hashes = held[t].hashes \cup {h} /\ held'[t].pieces = held[t].pieces
  BY <1>1, <1>2
<1>4. \A u \in Targets : u # t => held'[u] = held[u]
  BY <1>1
<1>5. held' \in [Targets -> [pieces : SUBSET Pieces, hashes : SUBSET Hashes]]
  BY <1>1
<1> QED BY <1>3, <1>4, <1>5, SameShape DEF Gains, U!Parts

LEMMA UploadAnswers ==
    ASSUME UInv, NEW i, U!Acknowledge(i) \/ U!Fail(i)
    PROVE  UInv'
<1>1. /\ upc = "upload" /\ upc' \in {"upload", "advance"} /\ i \in utodo /\ utodo' = utodo \ {i}
      /\ UNCHANGED <<state, uprog, ureported, uat, umem>>
  BY DEF U!Acknowledge, U!Fail
<1>2. umem \in U!Progress /\ umem.target \in Targets /\ uat \in 1 .. Len(Order) /\ i \in 0 .. Chunks[UBlob] - 1
  BY <1>1 DEF UInv, U!TypeOK, U!Progress, BlobSent, InUpload
<1>3. UBlob \in Blobs /\ Chunks[UBlob] \in Nat /\ UBlob' = UBlob /\ <<UBlob, i>> \in Pieces
  BY <1>1, <1>2, UBlobIs, PieceIs DEF UBlob, U!Blob
<1>4. /\ Gains /\ held' \in [Targets -> U!Parts]
      /\ U!Acknowledge(i) => <<UBlob, i>> \in held'[umem.target].pieces
  <2>1. CASE held' = [held EXCEPT ![umem.target].pieces = @ \cup {<<UBlob, i>>}]
    <3>1. {<<UBlob, i>>} \in SUBSET Pieces
      BY <1>3
    <3> QED BY <1>2, <2>1, <3>1, PiecesArrive DEF UInv
  <2>2. CASE U!Fail(i) /\ ~U!Acknowledge(i) /\ held' = held
    BY <2>2, QuietGains DEF UInv, U!TypeOK
  <2>3. U!Acknowledge(i) => held' = [held EXCEPT ![umem.target].pieces = @ \cup {<<UBlob, i>>}]
    BY DEF U!Acknowledge, U!Hold, UBlob
  <2>4. U!Fail(i) => held' = held \/ held' = [held EXCEPT ![umem.target].pieces = @ \cup {<<UBlob, i>>}]
    BY DEF U!Fail, U!Hold, UBlob
  <2> QED BY <2>1, <2>2, <2>3, <2>4
<1>5. (U!UploadFaithful)'
  BY <1>1, <1>4, FaithfulKept
<1>6. (umem # None => Holds(umem))' /\ (uprog \notin {None, Torn} => Holds(uprog))'
  BY <1>1, <1>4, RecordsKept
<1>7. \/ U!Acknowledge(i) /\ upc' = "advance" /\ uacked' = uacked \cup {i} /\ ufailed' = ufailed
      \/ U!Fail(i) /\ upc' = "upload" /\ uacked' = uacked /\ ufailed' = TRUE
  BY DEF U!Acknowledge, U!Fail
<1>8. (U!TypeOK)'
  <2>1. utodo' \subseteq Nat /\ uacked' \subseteq Nat /\ ufailed' \in BOOLEAN
    BY <1>1, <1>2, <1>7 DEF UInv, U!TypeOK
  <2> QED BY <1>1, <1>2, <1>4, <2>1 DEF UInv, U!TypeOK
<1>9. BlobSent'
  <2>1. utodo' \subseteq 0 .. Chunks[UBlob] - 1
    BY <1>1 DEF UInv, BlobSent, InUpload
  <2>2. ASSUME NEW j \in uacked' PROVE j \in 0 .. Chunks[UBlob] - 1 /\ <<UBlob, j>> \in held'[umem.target].pieces
    <3>1. CASE j \in uacked
      BY <1>1, <1>2, <1>4, <3>1 DEF UInv, BlobSent, InUpload, Gains
    <3>2. CASE j = i /\ U!Acknowledge(i)
      BY <1>2, <1>4, <3>2
    <3> QED BY <1>7, <2>2, <3>1, <3>2
  <2>3. ASSUME ~ufailed', NEW j \in 0 .. Chunks[UBlob] - 1
        PROVE  j < umem.off[UBlob] \/ j \in uacked' \cup utodo'
    BY <1>1, <1>7, <2>3 DEF UInv, BlobSent, InUpload
  <2>4. upc' = "upload" => umem.off[UBlob] \notin uacked'
    BY <1>1, <1>7 DEF UInv, BlobSent, InUpload
  <2> QED BY <1>1, <1>2, <1>3, <2>1, <2>2, <2>3, <2>4 DEF BlobSent
<1>10. EarlierSent'
  BY <1>1 DEF UInv, EarlierSent, Sending, InUpload
<1> QED BY <1>1, <1>5, <1>6, <1>8, <1>9, <1>10 DEF UInv, UploadPcs, Sending, InUpload

LEMMA UploadAdvances ==
    ASSUME UInv, U!Advance
    PROVE  UInv'
<1> DEFINE o == umem.off[UBlob]
<1>1. /\ upc = "advance" /\ upc' = "save_off" /\ uprog' = Torn /\ o \in uacked /\ uacked' = uacked \ {o}
      /\ UNCHANGED <<held, state, ureported, uat, utodo, ufailed>>
      /\ umem' = [umem EXCEPT !.off[UBlob] = @ + 1]
  BY DEF U!Advance, U!Truncate, U!canister, UBlob
<1>2. umem \in U!Progress /\ uat \in 1 .. Len(Order)
  BY <1>1 DEF UInv, U!TypeOK, BlobSent, InUpload
<1>3. UBlob \in Blobs /\ Chunks[UBlob] \in Nat /\ UBlob' = UBlob
  BY <1>1, <1>2, UBlobIs DEF UBlob, U!Blob
<1>4. umem \in [target : Targets, off : [Blobs -> Nat], hashes : SUBSET Hashes]
  BY <1>2, SameShape DEF U!Progress
<1>5. /\ umem'.off[UBlob] = o + 1 /\ umem'.target = umem.target /\ umem'.hashes = umem.hashes
      /\ \A b \in Blobs : b # UBlob => umem'.off[b] = umem.off[b]
  BY <1>1, <1>3, <1>4
<1>6. umem' \in U!Progress /\ o \in Nat
  BY <1>1, <1>3, <1>4, SameShape DEF U!Progress
<1>7. Gains /\ (U!UploadFaithful)'
  BY <1>1, QuietGains, FaithfulKept DEF UInv, U!TypeOK
<1>8. o \in 0 .. Chunks[UBlob] - 1 /\ <<UBlob, o>> \in held[umem.target].pieces
  BY <1>1 DEF UInv, BlobSent, InUpload
<1>9. Holds(umem)'
  <2>0. Holds(umem)
    BY <1>2, UploadMarks DEF UInv
  <2>1. ASSUME NEW b \in Blobs, NEW i \in 0 .. Chunks[b] - 1, i < umem'.off[b]
        PROVE  <<b, i>> \in held[umem.target].pieces
    <3>1. CASE b = UBlob /\ i = o
      BY <1>8, <3>1
    <3>2. CASE ~(b = UBlob /\ i = o)
      <4>1. i < umem.off[b]
        BY <1>3, <1>5, <1>6, <2>1, <3>2
      <4> QED BY <2>0, <4>1 DEF Holds
    <3> QED BY <3>1, <3>2
  <2> QED BY <1>1, <1>5, <2>0, <2>1 DEF Holds
<1>10. (U!TypeOK)'
  <2>1. uacked' \subseteq Nat
    BY <1>1 DEF UInv, U!TypeOK
  <2> QED BY <1>1, <1>6, <2>1 DEF UInv, U!TypeOK
<1>11. BlobSent'
  <2>1. ASSUME ~ufailed, NEW j \in 0 .. Chunks[UBlob] - 1
        PROVE  j < o + 1 \/ j \in uacked' \cup utodo
    <3>1. j < o \/ j \in uacked \cup utodo
      BY <1>1, <2>1 DEF UInv, BlobSent, InUpload
    <3> QED BY <1>1, <1>6, <3>1
  <2>2. utodo \subseteq 0 .. Chunks[UBlob] - 1
    BY <1>1 DEF UInv, BlobSent, InUpload
  <2>3. \A j \in uacked : j \in 0 .. Chunks[UBlob] - 1 /\ <<UBlob, j>> \in held[umem.target].pieces
    BY <1>1 DEF UInv, BlobSent, InUpload
  <2> HIDE DEF o
  <2> QED BY <1>1, <1>2, <1>3, <1>5, <2>1, <2>2, <2>3 DEF BlobSent
<1>12. EarlierSent'
  <2>1. ASSUME NEW k \in 1 .. Len(Order), k < uat PROVE umem'.off[Order[k]] >= Chunks[Order[k]]
    <3>0. k # uat /\ UBlob = Order[uat]
      BY <1>2, <2>1, UBlobIs, LenIsNat
    <3>1. Order[k] \in Blobs /\ Order[k] # UBlob
      BY <1>2, <2>1, <3>0, OrderAssumption DEF Blobs
    <3>2. umem.off[Order[k]] >= Chunks[Order[k]]
      BY <1>1, <2>1 DEF UInv, EarlierSent, Sending, InUpload
    <3> QED BY <1>5, <3>1, <3>2
  <2> QED BY <1>1, <2>1 DEF EarlierSent
<1> QED BY <1>1, <1>7, <1>9, <1>10, <1>11, <1>12 DEF UInv, UploadPcs, Sending, InUpload

LEMMA UploadBlobEnds ==
    ASSUME UInv, U!EndBlob
    PROVE  UInv'
<1>1. /\ upc = "upload" /\ utodo = {} /\ UNCHANGED <<held, state, uprog, ureported>>
      /\ uat \in 1 .. Len(Order) /\ umem \in U!Progress
  BY DEF U!EndBlob, U!canister, UInv, U!TypeOK, BlobSent, InUpload
<1>2. Gains /\ (U!UploadFaithful)'
  BY <1>1, QuietGains, FaithfulKept DEF UInv, U!TypeOK
<1>3. (uprog \notin {None, Torn} => Holds(uprog))'
  BY <1>1, <1>2, RecordsKept
<1>4. CASE ufailed
  <2>1. upc' = "idle" /\ uat' = 1 /\ utodo' = {} /\ uacked' = {} /\ ufailed' = FALSE /\ umem' = None
    BY <1>4 DEF U!EndBlob, U!Over
  <2>2. uat' \in 1 .. Len(Order) + 1
    BY <2>1, LenIsNat
  <2>3. (U!TypeOK)'
    BY <1>1, <2>1, <2>2 DEF UInv, U!TypeOK
  <2>4. BlobSent' /\ EarlierSent'
    BY <2>1 DEF BlobSent, EarlierSent, InUpload, Sending
  <2> QED BY <1>2, <1>3, <2>1, <2>3, <2>4 DEF UInv, UploadPcs
<1>5. CASE ~ufailed
  <2>1. upc' = "blob" /\ uat' = uat + 1 /\ uacked' = {} /\ utodo' = utodo /\ ufailed' = ufailed /\ umem' = umem
    BY <1>5 DEF U!EndBlob
  <2>2. uat' \in 1 .. Len(Order) + 1
    BY <1>1, <2>1, LenIsNat
  <2>3. (U!TypeOK)'
    BY <1>1, <2>1, <2>2 DEF UInv, U!TypeOK
  <2>4. BlobSent'
    BY <2>1 DEF BlobSent, InUpload
  <2>5. UBlob \in Blobs /\ Chunks[UBlob] \in Nat /\ umem.off[UBlob] \in Nat /\ UBlob = Order[uat]
    BY <1>1, UBlobIs, SameShape DEF U!Progress
  <2>6. umem.off[UBlob] >= Chunks[UBlob]
    <3>1. umem.off[UBlob] \notin uacked
      BY <1>1 DEF UInv, BlobSent, InUpload
    <3>2. umem.off[UBlob] \in 0 .. Chunks[UBlob] - 1 => umem.off[UBlob] < umem.off[UBlob]
      BY <1>1, <1>5, <3>1 DEF UInv, BlobSent, InUpload
    <3> QED BY <2>5, <3>2
  <2>7. EarlierSent'
    <3>1. ASSUME NEW k \in 1 .. Len(Order), k < uat + 1 PROVE umem.off[Order[k]] >= Chunks[Order[k]]
      <4>1. CASE k = uat
        BY <2>5, <2>6, <4>1
      <4>2. CASE k < uat
        BY <1>1, <4>2 DEF UInv, EarlierSent, Sending, InUpload
      <4> QED BY <1>1, <3>1, <4>1, <4>2, LenIsNat
    <3> QED BY <2>1, <3>1 DEF EarlierSent
  <2>8. (umem # None => Holds(umem))'
    BY <1>2, <2>1, RecordsKept
  <2> QED BY <1>2, <1>3, <2>1, <2>3, <2>4, <2>7, <2>8 DEF UInv, UploadPcs, Sending
<1> QED BY <1>4, <1>5

LEMMA UploadHashes ==
    ASSUME UInv, NEW h \in Hashes, U!UploadWasmChunk(h)
    PROVE  UInv'
<1>1. /\ upc = "blob" /\ upc' = "save_hash" /\ uprog' = Torn
      /\ UNCHANGED <<state, ureported, uat, utodo, uacked, ufailed>>
      /\ umem' = [umem EXCEPT !.hashes = @ \cup {h}]
      /\ held' = [held EXCEPT ![umem.target].hashes = @ \cup {h}]
  BY DEF U!UploadWasmChunk, U!Truncate
<1>2. umem \in U!Progress /\ umem # None
  BY <1>1, UploadMarks DEF UInv, U!TypeOK
<1>3. umem.target \in Targets /\ umem' \in U!Progress
  BY <1>1, <1>2 DEF U!Progress
<1>4. umem'.off = umem.off /\ umem'.target = umem.target /\ umem'.hashes = umem.hashes \cup {h}
  BY <1>1, <1>2 DEF U!Progress
<1>5. Gains /\ held' \in [Targets -> U!Parts] /\ h \in held'[umem.target].hashes
  BY <1>1, <1>3, HashArrives DEF UInv
<1>6. (U!UploadFaithful)'
  BY <1>1, <1>5, FaithfulKept
<1>7. Holds(umem)'
  <2>1. Holds(umem)
    BY <1>2 DEF UInv
  <2> QED BY <1>3, <1>4, <1>5, <2>1 DEF Holds, Gains
<1>8. (U!TypeOK)'
  BY <1>1, <1>3, <1>5 DEF UInv, U!TypeOK
<1>9. EarlierSent' /\ BlobSent'
  BY <1>1, <1>4 DEF UInv, EarlierSent, BlobSent, Sending, InUpload
<1> QED BY <1>1, <1>6, <1>7, <1>8, <1>9 DEF UInv, UploadPcs, Sending

LEMMA UploadWrites ==
    ASSUME UInv, U!WriteProgress
    PROVE  UInv'
<1>1. /\ upc \in {"save_new", "save_off", "save_hash"} /\ uprog' = umem
      /\ upc' = IF upc = "save_off" THEN "advance" ELSE "blob"
      /\ uat' = IF upc = "save_new" THEN 1 ELSE uat
      /\ UNCHANGED <<held, state, ureported, utodo, uacked, ufailed, umem>>
  BY DEF U!WriteProgress, U!canister
<1>2. umem \in U!Progress /\ umem # None
  BY <1>1, UploadMarks DEF UInv, U!TypeOK
<1>3. Gains /\ (U!UploadFaithful)'
  BY <1>1, QuietGains, FaithfulKept DEF UInv, U!TypeOK
<1>4. (umem # None => Holds(umem))' /\ (uprog \notin {None, Torn} => Holds(uprog))'
  BY <1>1, <1>2 DEF UInv, Holds
<1>5. uat' \in 1 .. Len(Order) + 1
  BY <1>1, LenIsNat DEF UInv, U!TypeOK
<1>6. (U!TypeOK)'
  BY <1>1, <1>2, <1>5 DEF UInv, U!TypeOK
<1>7. EarlierSent'
  BY <1>1, LenIsNat DEF UInv, EarlierSent, Sending, InUpload
<1>8. BlobSent'
  <2>1. CASE upc = "save_off"
    <3>1. upc' = "advance" /\ uat' = uat /\ UBlob' = UBlob
      BY <1>1, <2>1 DEF UBlob, U!Blob
    <3> QED BY <1>1, <2>1, <3>1 DEF UInv, BlobSent, InUpload
  <2>2. CASE upc # "save_off"
    BY <1>1, <2>2 DEF BlobSent, InUpload
  <2> QED BY <2>1, <2>2
<1> QED BY <1>1, <1>3, <1>4, <1>6, <1>7, <1>8 DEF UInv, UploadPcs, Sending, InUpload

LEMMA UploadOver ==
    ASSUME UInv, U!Finish \/ U!UploadWasmChunkFails \/ U!Stop
    PROVE  UInv'
<1>1. /\ upc' = "idle" /\ uat' = 1 /\ utodo' = {} /\ uacked' = {} /\ ufailed' = FALSE /\ umem' = None
      /\ state' = state /\ uprog' \in {uprog, None}
      /\ U!Finish \/ ureported' = ureported
  BY DEF U!Finish, U!UploadWasmChunkFails, U!Stop, U!Over, U!canister
<1>2. Gains /\ held' \in [Targets -> U!Parts]
  <2>1. CASE held' = held
    BY <2>1, QuietGains DEF UInv, U!TypeOK
  <2>2. ASSUME upc = "upload", NEW S \in SUBSET utodo,
               held' = [held EXCEPT ![umem.target].pieces = @ \cup ({UBlob} \X S)]
        PROVE  Gains /\ held' \in [Targets -> U!Parts]
    <3>1. umem.target \in Targets /\ uat \in 1 .. Len(Order) /\ S \subseteq 0 .. Chunks[UBlob] - 1
      BY <2>2 DEF UInv, U!TypeOK, U!Progress, BlobSent, InUpload
    <3>2. UBlob \in Blobs
      BY <3>1, UBlobIs
    <3>3. {UBlob} \X S \in SUBSET Pieces
      <4> SUFFICES ASSUME NEW i \in S PROVE <<UBlob, i>> \in Pieces
        OBVIOUS
      <4> QED BY <3>1, <3>2, PieceIs
    <3> QED BY <2>2, <3>1, <3>3, PiecesArrive DEF UInv
  <2>3. \/ held' = held
        \/ /\ upc = "upload"
           /\ \E S \in SUBSET utodo :
                 held' = [held EXCEPT ![umem.target].pieces = @ \cup ({UBlob} \X S)]
    BY DEF U!Finish, U!UploadWasmChunkFails, U!Stop, U!canister, UBlob
  <2> QED BY <2>1, <2>2, <2>3
<1>3. ASSUME U!Finish PROVE ureported' \in Targets /\ held'[ureported'] = U!Everything
  <2>1. /\ upc = "blob" /\ uat > Len(Order) /\ umem.hashes = Hashes /\ ureported' = umem.target /\ held' = held
    BY <1>3 DEF U!Finish, U!canister
  <2>2. umem \in U!Progress /\ umem # None
    BY <2>1, UploadMarks DEF UInv, U!TypeOK
  <2>3. umem.target \in Targets /\ held[umem.target] \in [pieces : SUBSET Pieces, hashes : SUBSET Hashes]
    BY <2>2, SameShape DEF UInv, U!TypeOK, U!Progress, U!Parts
  <2>4. \A b \in Blobs : umem.off[b] \in Nat /\ umem.off[b] >= Chunks[b]
    <3> SUFFICES ASSUME NEW k \in 1 .. Len(Order) PROVE umem.off[Order[k]] \in Nat /\ umem.off[Order[k]] >= Chunks[Order[k]]
      BY DEF Blobs
    <3>1. k < uat /\ Order[k] \in Blobs
      BY <2>1, LenIsNat DEF UInv, U!TypeOK, Blobs
    <3> QED BY <2>1, <2>2, <3>1, SameShape DEF UInv, EarlierSent, Sending, U!Progress
  <2>5. \A x \in Pieces : x \in held[umem.target].pieces
    <3> SUFFICES ASSUME NEW x \in Pieces PROVE x \in held[umem.target].pieces
      OBVIOUS
    <3>1. x[1] \in Blobs /\ x[2] \in 0 .. Chunks[x[1]] - 1 /\ x = <<x[1], x[2]>> /\ Chunks[x[1]] \in Nat
      BY PieceParts
    <3>2. x[2] < umem.off[x[1]]
      BY <2>4, <3>1
    <3> QED BY <2>2, <3>1, <3>2 DEF UInv, Holds
  <2>6. held[umem.target].pieces = Pieces /\ held[umem.target].hashes = Hashes
    BY <2>1, <2>2, <2>3, <2>5 DEF UInv, Holds
  <2>7. held[umem.target] = [pieces |-> Pieces, hashes |-> Hashes]
    BY <2>3, <2>6
  <2> QED BY <2>1, <2>3, <2>7, SameShape DEF U!Everything
<1>4. (U!UploadFaithful)' /\ ureported' \in Targets \cup {None}
  <2>1. CASE U!Finish
    BY <1>3, <2>1 DEF U!UploadFaithful, U!Everything
  <2>2. CASE ureported' = ureported
    BY <1>2, <2>2, FaithfulKept DEF UInv, U!TypeOK
  <2> QED BY <1>1, <2>1, <2>2
<1>5. (uprog \notin {None, Torn} => Holds(uprog))'
  BY <1>1, <1>2, RecordsKept
<1>6. uat' \in 1 .. Len(Order) + 1
  BY <1>1, LenIsNat
<1>7. (U!TypeOK)'
  BY <1>1, <1>2, <1>4, <1>6 DEF UInv, U!TypeOK
<1>8. BlobSent' /\ EarlierSent'
  BY <1>1 DEF BlobSent, EarlierSent, InUpload, Sending
<1> QED BY <1>1, <1>4, <1>5, <1>7, <1>8 DEF UInv, UploadPcs

LEMMA UploadStays ==
    ASSUME UInv, UNCHANGED uploadVars
    PROVE  UInv'
<1>1. UNCHANGED <<held, state, uprog, ureported, upc, uat, utodo, uacked, ufailed, umem>>
  BY DEF uploadVars
<1>2. (U!TypeOK)' /\ (U!UploadFaithful)' /\ UBlob' = UBlob
  BY <1>1 DEF UInv, U!TypeOK, U!UploadFaithful, U!Everything, UBlob, U!Blob
<1>3. BlobSent' /\ EarlierSent'
  BY <1>1, <1>2 DEF UInv, BlobSent, EarlierSent
<1> QED BY <1>1, <1>2, <1>3 DEF UInv, Holds

LEMMA UploadKeepsUInv == UInv /\ (U!Next \/ UNCHANGED uploadVars) => UInv'
<1> SUFFICES ASSUME UInv, U!Next \/ UNCHANGED uploadVars PROVE UInv'
  OBVIOUS
<1>1. ASSUME U!BeginFresh \/ U!BeginResume \/ U!SaveNewTarget
             \/ \E t \in Targets, replaced \in Targets \cup {None} : U!CreateTarget(t, replaced)
      PROVE  UInv'
  BY <1>1, UploadStarts
<1>2. ASSUME U!SkipBlob \/ U!StartBlob \/ U!AdvanceEnds PROVE UInv'
  BY <1>2, UploadTurns
<1>3. ASSUME NEW b \in Blobs, NEW i \in 0 .. Chunks[b] - 1, U!Acknowledge(i) \/ U!Fail(i) PROVE UInv'
  BY <1>3, UploadAnswers
<1>4. ASSUME U!Advance PROVE UInv'
  BY <1>4, UploadAdvances
<1>5. ASSUME U!EndBlob PROVE UInv'
  BY <1>5, UploadBlobEnds
<1>6. ASSUME NEW h \in Hashes, U!UploadWasmChunk(h) PROVE UInv'
  BY <1>6, UploadHashes
<1>7. ASSUME U!WriteProgress PROVE UInv'
  BY <1>7, UploadWrites
<1>8. ASSUME U!Finish \/ U!UploadWasmChunkFails \/ U!Stop PROVE UInv'
  BY <1>8, UploadOver
<1>9. ASSUME UNCHANGED uploadVars PROVE UInv'
  BY <1>9, UploadStays
<1> QED BY <1>1, <1>2, <1>3, <1>4, <1>5, <1>6, <1>7, <1>8, <1>9, SameShape DEF U!Next, U!Step, U!Failure

-----------------------------------------------------------------------------
(* Downloads and uploads of the same directory.                            *)

LEMMA TransferKeepsIInv == IInv /\ [TransferNext]_<<vars, upload>> => IInv'
<1>1. [TransferNext]_<<vars, upload>> => [Next]_vars
  BY DEF TransferNext, DownloadMoves, UploadMoves
<1> QED BY <1>1, NextKeepsIInv

LEMMA TransferKeepsUInv == UInv /\ [TransferNext]_<<vars, upload>> => UInv'
<1>1. [TransferNext]_<<vars, upload>> => U!Next \/ UNCHANGED uploadVars
  BY DEF TransferNext, DownloadMoves, UploadMoves, upload
<1> QED BY <1>1, UploadKeepsUInv

(* What a resumed upload will not send again the target holds, and a       *)
(* target reported as uploaded has every part: whatever fails, and         *)
(* whatever state the directory is in.                                     *)
THEOREM UploadsAreWhole == TransferSpec => [](RecordedIsHeld /\ U!UploadFaithful)
<1>1. UInv => RecordedIsHeld /\ U!UploadFaithful
  BY SameShape DEF UInv, Holds, RecordedIsHeld, U!RecordedIsHeld
<1>2. TransferInit => UInv
  BY UploadInit DEF TransferInit
<1> QED BY <1>1, <1>2, TransferKeepsUInv, PTL DEF TransferSpec

(* An upload runs from a directory that is complete, and it stays so.      *)
FromWhole == upc # "idle" => pc = "idle" /\ reported

TInv == IInv /\ FInv /\ UInv /\ FromWhole /\ wrong = {}

LEMMA TransferKeepsTInv ==
    ASSUME Faults \subseteq {"stop"}, EarlyUpload = FALSE
    PROVE  TInv /\ [TransferNext]_<<vars, upload>> => TInv'
<1> SUFFICES ASSUME TInv, [TransferNext]_<<vars, upload>> PROVE TInv'
  OBVIOUS
<1>1. IInv' /\ UInv'
  BY TransferKeepsIInv, TransferKeepsUInv DEF TInv
<1>2. FInv'
  <2>1. [Next]_vars
    BY DEF TransferNext, DownloadMoves, UploadMoves
  <2> QED BY <2>1, NextKeepsFInv DEF TInv
<1>3. CASE DownloadMoves \/ UNCHANGED <<vars, upload>>
  <2>1. /\ UNCHANGED <<upc, wrong>>
        /\ upc # "idle" => UNCHANGED <<pc, reported>>
    BY <1>3 DEF DownloadMoves, upload, uploadVars, vars, run, TInv, FromWhole
  <2> QED BY <1>1, <1>2, <2>1 DEF TInv, FromWhole
<1>4. CASE UploadMoves
  <2>1. pc = "idle" /\ reported /\ UNCHANGED <<pc, reported, data, wchunks, meta>>
    BY <1>4 DEF UploadMoves, MayUpload, TInv, FromWhole, vars, disk, run
  <2>2. (\A x \in Pieces : data[x] = meta) /\ (\A h \in Hashes : wchunks[h] = Whole)
    BY <2>1 DEF TInv, FInv, ReportedWhole, DownloadFaithful
  <2>3. ASSUME NEW t \in Targets PROVE Sent(t) = {}
    <3>1. held'[t] \in [pieces : SUBSET Pieces, hashes : SUBSET Hashes]
      BY <1>1, SameShape DEF UInv, U!TypeOK, U!Parts
    <3> QED BY <2>2, <3>1 DEF Sent
  <2>4. wrong' = {}
    BY <1>4, <2>3 DEF UploadMoves, TInv
  <2> QED BY <1>1, <1>2, <2>1, <2>4 DEF TInv, FromWhole
<1> QED BY <1>3, <1>4 DEF TransferNext

(* UploadFaithful: when a download may stop between two writes, and        *)
(* directories are uploaded from once they are complete, a snapshot        *)
(* reported as uploaded is the one that was downloaded, every part of it;  *)
(* uploads may fail in any way, torn progress files included.              *)
THEOREM UploadsAreFaithful ==
    ASSUME Faults \subseteq {"stop"}, EarlyUpload = FALSE
    PROVE  TransferSpec => []UploadFaithful
<1>1. TransferInit => TInv
  BY InitIInv, InitFInv, UploadInit DEF TransferInit, U!Init, TInv, FromWhole
<1>2. TInv => UploadFaithful
  BY SameShape DEF TInv, IInv, UInv, Holds, UploadFaithful, TransferTypeOK, TransferFaithful,
         RecordedIsHeld, U!RecordedIsHeld
<1> QED BY <1>1, <1>2, TransferKeepsTInv, PTL DEF TransferSpec
=============================================================================
