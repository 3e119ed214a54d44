------------------------------ MODULE DirLock ------------------------------
(***************************************************************************)
(* crates/icp/src/fs/lock.rs: DirectoryStructureLock, the lock around      *)
(* every directory the CLI shares between its invocations (network roots,  *)
(* port descriptors, package cache, identities, settings).                 *)
(*                                                                         *)
(* One lock file on disk.  A process opens it once per                     *)
(* DirectoryStructureLock value; that value is a Handle here: a tokio      *)
(* RwLock and the one open file description behind it.  The tasks of one   *)
(* process may share a Handle (build and sync run one future per canister  *)
(* over one &PackageCache).  The advisory lock belongs to the open file    *)
(* description: try_clone, lock and unlock of any duplicate act on it, and *)
(* the kernel keeps no count of how often it was taken.                    *)
(***************************************************************************)
EXTENDS FiniteSets

CONSTANTS
    Tasks,      \* futures that use the lock file, of any process
    Handles,    \* DirectoryStructureLock values, each an open file description
    HandleOf    \* the handle each task uses

ASSUME HandleOfAssumption == HandleOf \in [Tasks -> Handles]

VARIABLES
    pc,         \* where each task is in with_read / with_write / into_*
    mode,       \* "read" or "write": what the task asked for
    guards,     \* per handle: the tasks that hold the RwLock guard
    flock       \* per handle: what its open file description holds

vars == <<pc, mode, guards, flock>>

Modes == {"read", "write"}

(* idle     not using the lock                                             *)
(* waiting  in self.lock_file.read() / write()                             *)
(* blocking holds the RwLock guard, in spawn_blocking(lock / lock_shared)  *)
(* body     f(LRead) / f(LWrite) runs                                      *)
(* leaving  unlocked the file, still holds the RwLock guard                *)
(* taking   in into_read / into_write                                      *)
(* owned    holds a DirectoryStructureGuardOwned                           *)
Places == {"idle", "waiting", "blocking", "body", "leaving", "taking", "owned"}

Init ==
    /\ pc = [t \in Tasks |-> "idle"]
    /\ mode = [t \in Tasks |-> "read"]
    /\ guards = [h \in Handles |-> {}]
    /\ flock = [h \in Handles |-> "none"]

-----------------------------------------------------------------------------
(* flock(2) grants a shared lock beside shared ones, an exclusive lock     *)
(* beside none.  What this description already holds does not matter.      *)
Grantable(h, m) ==
    \A g \in Handles \ {h} :
        IF m = "read" THEN flock[g] # "exclusive" ELSE flock[g] = "none"

Kind(m) == IF m = "read" THEN "shared" ELSE "exclusive"

Alone(t) == \A u \in Tasks \ {t} : HandleOf[u] # HandleOf[t]

(* A call of with_read or with_write.                                      *)
Call(t, m) ==
    /\ pc[t] = "idle"
    /\ pc' = [pc EXCEPT ![t] = "waiting"]
    /\ mode' = [mode EXCEPT ![t] = m]
    /\ UNCHANGED <<guards, flock>>

(* The RwLock admits any number of readers or one writer.                  *)
Admit(t) ==
    LET h == HandleOf[t] IN
    /\ pc[t] = "waiting"
    /\ IF mode[t] = "read" THEN \A u \in guards[h] : mode[u] = "read"
                           ELSE guards[h] = {}
    /\ guards' = [guards EXCEPT ![h] = @ \cup {t}]
    /\ pc' = [pc EXCEPT ![t] = "blocking"]
    /\ UNCHANGED <<mode, flock>>

(* try_clone or the lock call fails: the `?` drops the RwLock guard.       *)
LockFails(t) ==
    LET h == HandleOf[t] IN
    /\ pc[t] = "blocking"
    /\ guards' = [guards EXCEPT ![h] = @ \ {t}]
    /\ pc' = [pc EXCEPT ![t] = "idle"]
    /\ UNCHANGED <<mode, flock>>

LockFile(t) ==
    LET h == HandleOf[t] IN
    /\ pc[t] = "blocking"
    /\ Grantable(h, mode[t])
    /\ flock' = [flock EXCEPT ![h] = Kind(mode[t])]
    /\ pc' = [pc EXCEPT ![t] = "body"]
    /\ UNCHANGED <<mode, guards>>

UnlockSkipped(t) ==     \* mutant: an early return before guard.unlock()
    /\ pc[t] = "body"
    /\ pc' = [pc EXCEPT ![t] = "leaving"]
    /\ UNCHANGED <<mode, guards, flock>>

UnlockEarly(t) ==     \* mutant: the file is unlocked before the closure runs
    LET h == HandleOf[t] IN
    /\ pc[t] \in {"body", "leaving"}
    /\ flock' = [flock EXCEPT ![h] = "none"]
    /\ pc' = [pc EXCEPT ![t] = IF flock[h] = "none" THEN "leaving" ELSE "body"]
    /\ UNCHANGED <<mode, guards>>

(* guard.unlock() after the closure: releases the lock of the description, *)
(* whoever else of this process took it.                                   *)
Unlock(t) ==
    LET h == HandleOf[t] IN
    /\ pc[t] = "body"
    /\ flock' = [flock EXCEPT ![h] = "none"]
    /\ pc' = [pc EXCEPT ![t] = "leaving"]
    /\ UNCHANGED <<mode, guards>>

LeaveKeepsGuard(t) ==     \* mutant: the RwLock guard is forgotten
    /\ pc[t] = "leaving"
    /\ pc' = [pc EXCEPT ![t] = "idle"]
    /\ UNCHANGED <<mode, guards, flock>>

Leave(t) ==
    LET h == HandleOf[t] IN
    /\ pc[t] = "leaving"
    /\ guards' = [guards EXCEPT ![h] = @ \ {t}]
    /\ pc' = [pc EXCEPT ![t] = "idle"]
    /\ UNCHANGED <<mode, flock>>

(* into_read / into_write consume the lock, so no other task can hold a    *)
(* reference to it: the RwLock is taken apart and never waited for.        *)
Take(t, m) ==
    /\ pc[t] = "idle"
    /\ Alone(t)
    /\ pc' = [pc EXCEPT ![t] = "taking"]
    /\ mode' = [mode EXCEPT ![t] = m]
    /\ UNCHANGED <<guards, flock>>

TakeFile(t) ==
    LET h == HandleOf[t] IN
    /\ pc[t] = "taking"
    /\ Grantable(h, mode[t])
    /\ flock' = [flock EXCEPT ![h] = Kind(mode[t])]
    /\ pc' = [pc EXCEPT ![t] = "owned"]
    /\ UNCHANGED <<mode, guards>>

TakeFails(t) ==
    /\ pc[t] = "taking"
    /\ pc' = [pc EXCEPT ![t] = "idle"]
    /\ UNCHANGED <<mode, guards, flock>>

(* Drop for DirectoryStructureGuardOwned; the file closes with it.         *)
DropOwned(t) ==
    LET h == HandleOf[t] IN
    /\ pc[t] = "owned"
    /\ flock' = [flock EXCEPT ![h] = "none"]
    /\ pc' = [pc EXCEPT ![t] = "idle"]
    /\ UNCHANGED <<mode, guards>>

(* The process of a handle dies: its tasks are gone and the kernel closes  *)
(* the open file description.  The next use of h is a fresh open.          *)
Die(h) ==
    /\ \E t \in Tasks : HandleOf[t] = h /\ pc[t] # "idle"
    /\ pc' = [t \in Tasks |-> IF HandleOf[t] = h THEN "idle" ELSE pc[t]]
    /\ guards' = [guards EXCEPT ![h] = {}]
    /\ flock' = [flock EXCEPT ![h] = "none"]
    /\ UNCHANGED mode

Next ==
    \/ \E t \in Tasks :
        \/ \E m \in Modes : Call(t, m) \/ Take(t, m)
        \/ Admit(t) \/ LockFails(t) \/ LockFile(t) \/ Unlock(t) \/ Leave(t)
        \/ TakeFile(t) \/ TakeFails(t) \/ DropOwned(t)
    \/ \E h \in Handles : Die(h)

Spec == Init /\ [][Next]_vars

(* A closure or an owned guard is not held for ever, and a blocked call    *)
(* returns when it can: the executor polls every future and the kernel     *)
(* wakes every waiter.  Calling, failing and dying are not promised.       *)
Progress(t) ==
    Admit(t) \/ LockFile(t) \/ Unlock(t) \/ Leave(t) \/ TakeFile(t) \/ DropOwned(t)

FairSpec == Spec /\ \A t \in Tasks : WF_vars(Progress(t))

-----------------------------------------------------------------------------
TypeOK ==
    /\ pc \in [Tasks -> Places]
    /\ mode \in [Tasks -> Modes]
    /\ guards \in [Handles -> SUBSET Tasks]
    /\ flock \in [Handles -> {"none", "shared", "exclusive"}]

Inside(t) == pc[t] \in {"body", "owned"}

(* A task that runs under the write lock is alone among writers, in its    *)
(* own process and in every other (LWrite is handed to one closure).       *)
WritersAlone ==
    \A t, u \in Tasks :
        Inside(t) /\ Inside(u) /\ mode[t] = "write" /\ mode[u] = "write" => t = u

(* A writer runs beside no reader: "This ensures that paths cannot be      *)
(* accessed without holding the appropriate lock" (lock.rs:6-7).           *)
NoReaderBesideWriter ==
    \A t, u \in Tasks :
        Inside(t) /\ Inside(u) /\ mode[t] = "write" => t = u

Allowed(m) == {t \in Tasks : Inside(t) /\ mode[t] = m}

Access ==
    INSTANCE DirAccess WITH Users <- Tasks, readers <- Allowed("read"), writers <- Allowed("write")

(* The closures and owned guards use the directory as DirAccess promises:  *)
(* nobody enters beside a writer, and nobody turns from a reader into one. *)
AccessAsPromised == Access!Spec

(* Whoever runs inside holds the advisory lock it asked for.               *)
InsideHoldsFile ==
    \A t \in Tasks : Inside(t) => flock[HandleOf[t]] = Kind(mode[t])

(* A handle nobody is inside of holds no file lock: no exit path of        *)
(* with_read, with_write or the owned guards leaks one.                    *)
NothingLeaks ==
    \A h \in Handles :
        flock[h] # "none" =>
            \E t \in Tasks : HandleOf[t] = h /\ Inside(t)

(* When every other task keeps out, a task that waits gets in: no exit     *)
(* path leaves the RwLock or the file lock behind.                         *)
GetsIn ==
    \A t \in Tasks :
        <>[](\A u \in Tasks \ {t} : pc[u] = "idle")
            => (pc[t] \in {"waiting", "blocking", "taking"}
                    ~> (Inside(t) \/ pc[t] = "idle"))
=============================================================================
