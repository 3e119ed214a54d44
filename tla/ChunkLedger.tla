---------------------------- MODULE ChunkLedger ----------------------------
(* What a resumable transfer promises about its record of finished pieces: *)
(* a piece is recorded once, no record is lost, and the record is dropped  *)
(* only when every piece is in it.                                         *)
CONSTANT Pieces
VARIABLE recorded

Init == recorded = {}

Record(x) == x \notin recorded /\ recorded' = recorded \cup {x}

Finish == recorded = Pieces /\ recorded' = {}

Next == Finish \/ \E x \in Pieces : Record(x)

Spec == Init /\ [][Next]_recorded
=============================================================================
