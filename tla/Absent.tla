------------------------------- MODULE Absent -------------------------------
(* What stands for a value that is not there: Option::None of the code, a   *)
(* file that does not exist, a field that a request leaves out.             *)
CONSTANT None
=============================================================================
