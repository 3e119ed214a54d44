------------------------- MODULE MCCanisterInstall -------------------------
(* A canister with sync steps, whose next module is large and breaks its   *)
(* interface, and a small one without; any command, of one run at a time.  *)
EXTENDS CanisterInstall

CONSTANTS a, b, m1, m2, r1

Results == [k \in {a, b} |-> IF k = a THEN {m1, m2} ELSE {m1}]
Breaks == {<<m1, m2>>}

Anything == [r \in {r1} |-> AllKinds]
OneOrBoth == [r \in {r1} |-> {{a}, {b}, {a, b}}]
=============================================================================
