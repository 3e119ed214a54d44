---------------------------- MODULE BlobProgress ----------------------------
(* BlobDownloadProgress of operations/snapshot_transfer.rs: which chunks of *)
(* a blob have been downloaded, kept as a frontier and the chunks finished  *)
(* ahead of it.  An offset is represented by the number of its chunk, so    *)
(* the size of a blob of n chunks is n.                                     *)
EXTENDS Naturals

NothingDone == [frontier |-> 0, ahead |-> {}]

(* The first chunk at k or after it that is not in S.                       *)
NextGap(S, k, n) == CHOOSE f \in k .. n : f \notin S /\ \A j \in k .. f - 1 : j \in S

MarkTooFar(p, i, n) ==     \* mutant: the frontier takes every chunk that arrives
    IF i < p.frontier THEN p ELSE [frontier |-> i + 1, ahead |-> {}]

(* mark_complete: a chunk at the frontier moves it over everything that was *)
(* finished ahead of it.                                                    *)
MarkComplete(p, i, n) ==
    IF i > p.frontier THEN [p EXCEPT !.ahead = @ \cup {i}]
    ELSE IF i < p.frontier THEN p
    ELSE LET f == NextGap(p.ahead, i + 1, n)
         IN  [frontier |-> f, ahead |-> p.ahead \ (i + 1 .. f - 1)]

NeedsDownload(p, i) == i >= p.frontier /\ i \notin p.ahead

IsComplete(p, n) == p.frontier >= n

(* The chunks the progress stands for.                                      *)
Done(p, n) == {i \in 0 .. n - 1 : ~NeedsDownload(p, i)}
=============================================================================
