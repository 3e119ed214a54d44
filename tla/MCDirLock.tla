---------------------------- MODULE MCDirLock ----------------------------
(* Instances of DirLock: every task with a handle of its own (one task per *)
(* DirectoryStructureLock), and two tasks of one process over one handle.  *)
EXTENDS DirLock, TLC

CONSTANTS t1, t2, t3, h1, h2, h3

SharedHandle == (t1 :> h1) @@ (t2 :> h1) @@ (t3 :> h2)
==========================================================================
