-------------------------- MODULE Processes_proofs --------------------------
(* What processes do side by side: tasks with their handles on a lock file,  *)
(* for any of either and any sharing; a start beside its container and the   *)
(* task that mirrors its output, whatever goes wrong; and any number of      *)
(* commands and senders over the telemetry directory.                        *)
EXTENDS DirLock, Containers, Telemetry, FiniteSetTheorems, TLAPS

(* The RwLock's guards are held exactly by the tasks past it.              *)
GuardsMatch ==
    \A h \in Handles, t \in Tasks :
        t \in guards[h] <=> HandleOf[t] = h /\ pc[t] \in {"blocking", "body", "leaving"}

(* A task that holds a write guard shares it with no one.                  *)
GuardsExclusive ==
    \A h \in Handles : \A t, u \in guards[h] : mode[t] = "write" => t = u

(* A consumed lock was nobody else's.                                      *)
OwnersAlone == \A t \in Tasks : pc[t] \in {"taking", "owned"} => Alone(t)

(* A writer inside holds the file exclusively, and so does or shares,      *)
(* whatever it asked for, a task whose handle no other task uses.          *)
HoldsFile ==
    \A t \in Tasks :
        Inside(t) /\ (mode[t] = "write" \/ Alone(t)) => flock[HandleOf[t]] = Kind(mode[t])

(* What the kernel grants: nothing beside an exclusive lock.               *)
FileExclusive ==
    \A g, h \in Handles : g # h /\ flock[g] = "exclusive" => flock[h] = "none"

IInv ==
    /\ TypeOK
    /\ GuardsMatch
    /\ GuardsExclusive
    /\ OwnersAlone
    /\ HoldsFile
    /\ FileExclusive

-----------------------------------------------------------------------------
LEMMA InitIInv == Init => IInv
  BY HandleOfAssumption DEF Init, IInv, TypeOK, GuardsMatch, GuardsExclusive,
     OwnersAlone, HoldsFile, FileExclusive, Inside, Modes, Places

(* Type correctness on its own; the other parts are proved under it.       *)
LEMMA TypeStep == ASSUME TypeOK, [Next]_vars PROVE TypeOK'
<1> USE HandleOfAssumption DEF TypeOK, Modes, Places
<1>1. CASE \E t \in Tasks, m \in Modes : Call(t, m) \/ Take(t, m)
  BY <1>1 DEF Call, Take
<1>2. CASE \E t \in Tasks : Admit(t) \/ LockFails(t) \/ Leave(t)
  BY <1>2 DEF Admit, LockFails, Leave
<1>3. CASE \E t \in Tasks : LockFile(t) \/ TakeFile(t)
  BY <1>3 DEF LockFile, TakeFile, Kind
<1>4. CASE \E t \in Tasks : Unlock(t) \/ TakeFails(t) \/ DropOwned(t)
  BY <1>4 DEF Unlock, TakeFails, DropOwned
<1>5. CASE \E h \in Handles : Die(h)
  BY <1>5 DEF Die
<1>6. CASE UNCHANGED vars
  BY <1>6 DEF vars
<1> QED
  BY <1>1, <1>2, <1>3, <1>4, <1>5, <1>6 DEF Next

LEMMA IInvStep == ASSUME IInv, [Next]_vars PROVE IInv'
<1> USE HandleOfAssumption DEF IInv
<1>0. TypeOK'
  BY TypeStep
<1> USE DEF TypeOK, Modes, Inside, Alone, Kind
<1>1. ASSUME NEW t \in Tasks, NEW m \in Modes, Call(t, m) \/ Take(t, m) PROVE IInv'
  <2>1. GuardsMatch' /\ GuardsExclusive'
    BY <1>1 DEF Call, Take, GuardsMatch, GuardsExclusive
  <2>2. OwnersAlone' /\ HoldsFile' /\ FileExclusive'
    BY <1>1 DEF Call, Take, OwnersAlone, HoldsFile, FileExclusive
  <2> QED BY <1>0, <2>1, <2>2
<1>2. ASSUME NEW t \in Tasks, Admit(t) PROVE IInv'
  <2>1. GuardsMatch' /\ GuardsExclusive'
    BY <1>2 DEF Admit, GuardsMatch, GuardsExclusive
  <2>2. OwnersAlone' /\ HoldsFile' /\ FileExclusive'
    BY <1>2 DEF Admit, OwnersAlone, HoldsFile, FileExclusive
  <2> QED BY <1>0, <2>1, <2>2
<1>3. ASSUME NEW t \in Tasks, LockFails(t) \/ Leave(t) PROVE IInv'
  <2>1. GuardsMatch' /\ GuardsExclusive'
    BY <1>3 DEF LockFails, Leave, GuardsMatch, GuardsExclusive
  <2>2. OwnersAlone' /\ HoldsFile' /\ FileExclusive'
    BY <1>3 DEF LockFails, Leave, OwnersAlone, HoldsFile, FileExclusive
  <2> QED BY <1>0, <2>1, <2>2
<1>4. ASSUME NEW t \in Tasks, LockFile(t) PROVE IInv'
  <2>1. GuardsMatch' /\ GuardsExclusive' /\ OwnersAlone'
    BY <1>4 DEF LockFile, GuardsMatch, GuardsExclusive, OwnersAlone
  <2>2. HoldsFile'
    (* Another task inside over the same handle holds its guard with t,    *)
    (* so neither of the two writes; over another handle nothing changed.  *)
    BY <1>4 DEF LockFile, GuardsMatch, GuardsExclusive, OwnersAlone, HoldsFile
  <2>3. FileExclusive'
    BY <1>4 DEF LockFile, Grantable, FileExclusive
  <2> QED BY <1>0, <2>1, <2>2, <2>3
<1>5. ASSUME NEW t \in Tasks, Unlock(t) PROVE IInv'
  <2>1. GuardsMatch' /\ GuardsExclusive' /\ OwnersAlone'
    BY <1>5 DEF Unlock, GuardsMatch, GuardsExclusive, OwnersAlone
  <2>2. HoldsFile'
    (* A writer inside over this handle would hold its guard with t.       *)
    BY <1>5 DEF Unlock, GuardsMatch, GuardsExclusive, OwnersAlone, HoldsFile
  <2>3. FileExclusive'
    BY <1>5 DEF Unlock, FileExclusive
  <2> QED BY <1>0, <2>1, <2>2, <2>3
<1>6. ASSUME NEW t \in Tasks, TakeFile(t) PROVE IInv'
  <2>1. GuardsMatch' /\ GuardsExclusive' /\ OwnersAlone'
    BY <1>6 DEF TakeFile, GuardsMatch, GuardsExclusive, OwnersAlone
  <2>2. HoldsFile' /\ FileExclusive'
    BY <1>6 DEF TakeFile, Grantable, OwnersAlone, HoldsFile, FileExclusive
  <2> QED BY <1>0, <2>1, <2>2
<1>7. ASSUME NEW t \in Tasks, TakeFails(t) \/ DropOwned(t) PROVE IInv'
  <2>1. GuardsMatch' /\ GuardsExclusive' /\ OwnersAlone'
    BY <1>7 DEF TakeFails, DropOwned, GuardsMatch, GuardsExclusive, OwnersAlone
  <2>2. HoldsFile' /\ FileExclusive'
    BY <1>7 DEF TakeFails, DropOwned, OwnersAlone, HoldsFile, FileExclusive
  <2> QED BY <1>0, <2>1, <2>2
<1>8. ASSUME NEW h \in Handles, Die(h) PROVE IInv'
  <2>1. GuardsMatch' /\ GuardsExclusive' /\ OwnersAlone'
    BY <1>8 DEF Die, GuardsMatch, GuardsExclusive, OwnersAlone
  <2>2. HoldsFile' /\ FileExclusive'
    BY <1>8 DEF Die, HoldsFile, FileExclusive
  <2> QED BY <1>0, <2>1, <2>2
<1>9. CASE UNCHANGED vars
  BY <1>0, <1>9 DEF vars, GuardsMatch, GuardsExclusive, OwnersAlone, HoldsFile,
     FileExclusive
<1> QED
  BY <1>1, <1>2, <1>3, <1>4, <1>5, <1>6, <1>7, <1>8, <1>9 DEF Next

LEMMA IInvHolds == Spec => []IInv
  BY InitIInv, IInvStep, PTL DEF Spec

-----------------------------------------------------------------------------
(* At most one closure or owned guard has write access to a directory at a *)
(* time, over all processes, even when tasks share a handle (lock.rs       *)
(* 102-122, 68-81).                                                        *)
THEOREM WriteAccessExclusive == Spec => []WritersAlone
<1>1. IInv => WritersAlone
  <2> SUFFICES ASSUME IInv, NEW t \in Tasks, NEW u \in Tasks,
                      Inside(t), Inside(u), mode[t] = "write", mode[u] = "write"
               PROVE  t = u
    BY DEF WritersAlone
  <2>1. flock[HandleOf[t]] = "exclusive" /\ flock[HandleOf[u]] = "exclusive"
    BY DEF IInv, HoldsFile, Kind
  <2>2. HandleOf[t] = HandleOf[u]
    BY <2>1, HandleOfAssumption DEF IInv, FileExclusive
  <2>3. CASE pc[t] = "owned" \/ pc[u] = "owned"
    BY <2>2, <2>3 DEF IInv, OwnersAlone, Alone
  <2>4. CASE pc[t] = "body" /\ pc[u] = "body"
    BY <2>2, <2>4, HandleOfAssumption DEF IInv, GuardsMatch, GuardsExclusive
  <2> QED BY <2>3, <2>4 DEF Inside
<1> QED BY <1>1, IInvHolds, PTL

LEMMA WriterIsAlone ==
    ASSUME \A t \in Tasks : Alone(t), IInv
    PROVE  NoReaderBesideWriter
<1> SUFFICES ASSUME NEW t \in Tasks, NEW u \in Tasks, Inside(t), Inside(u), mode[t] = "write"
             PROVE  t = u
  BY DEF NoReaderBesideWriter
<1>1. flock[HandleOf[t]] = "exclusive" /\ flock[HandleOf[u]] # "none"
  BY DEF HoldsFile, Kind, IInv
<1>2. HandleOf[t] = HandleOf[u]
  BY <1>1, HandleOfAssumption DEF IInv, FileExclusive
<1> QED BY <1>2 DEF Alone

(* When every DirectoryStructureLock is used by one task, a writer runs    *)
(* beside no reader and no writer of any process, and everyone inside      *)
(* holds the file lock it asked for (lock.rs 5-7).                         *)
THEOREM OwnHandlesExclude ==
    ASSUME \A t \in Tasks : Alone(t)
    PROVE  Spec => [](NoReaderBesideWriter /\ InsideHoldsFile)
<1>1. IInv => InsideHoldsFile
  BY DEF IInv, HoldsFile, InsideHoldsFile
<1> QED BY <1>1, WriterIsAlone, IInvHolds, PTL

(* A step lets one task in, or some out, and nobody changes what it asked  *)
(* for while it is inside.                                                 *)
LEMMA EntersOrLeaves ==
    ASSUME TypeOK, [Next]_vars
    PROVE  \/ \E t \in Tasks :
                 /\ ~Inside(t) /\ Inside(t)' /\ mode' = mode
                 /\ \A u \in Tasks \ {t} : pc'[u] = pc[u]
           \/ \A u \in Tasks : Inside(u)' => Inside(u) /\ mode'[u] = mode[u]
<1> USE DEF TypeOK, Inside
<1>1. CASE \E t \in Tasks : LockFile(t) \/ TakeFile(t)
  BY <1>1 DEF LockFile, TakeFile
<1>2. CASE \E t \in Tasks, m \in Modes : Call(t, m) \/ Take(t, m)
  BY <1>2 DEF Call, Take
<1>3. CASE \E t \in Tasks : Admit(t) \/ LockFails(t) \/ Leave(t) \/ TakeFails(t)
  BY <1>3 DEF Admit, LockFails, Leave, TakeFails
<1>4. CASE \E t \in Tasks : Unlock(t) \/ DropOwned(t)
  BY <1>4 DEF Unlock, DropOwned
<1>5. CASE \E h \in Handles : Die(h)
  BY <1>5 DEF Die
<1>6. CASE UNCHANGED vars
  BY <1>6 DEF vars
<1> QED BY <1>1, <1>2, <1>3, <1>4, <1>5, <1>6 DEF Next

LEMMA AccessStep ==
    ASSUME \A t \in Tasks : Alone(t), IInv, [Next]_vars
    PROVE  Access!Next
<1>1. TypeOK /\ NoReaderBesideWriter'
  <2>1. IInv'
    BY IInvStep
  <2> QED BY <2>1, WriterIsAlone, PTL DEF IInv
<1>2. CASE \E t \in Tasks : ~Inside(t) /\ Inside(t)' /\ mode' = mode /\ \A u \in Tasks \ {t} : pc'[u] = pc[u]
  <2>1. PICK t \in Tasks : ~Inside(t) /\ Inside(t)' /\ mode' = mode /\ \A u \in Tasks \ {t} : pc'[u] = pc[u]
    BY <1>2
  <2>2. \A u \in Tasks \ {t} : Inside(u)' <=> Inside(u)
    BY <2>1 DEF Inside
  <2>3. CASE mode[t] = "read"
    <3>1. Allowed("write") = {} /\ t \notin Allowed("read")
      BY <1>1, <2>1, <2>2, <2>3 DEF NoReaderBesideWriter, Allowed
    <3>2. Allowed("read")' = Allowed("read") \cup {t} /\ Allowed("write")' = Allowed("write")
      BY <2>1, <2>2, <2>3 DEF Allowed
    <3> QED BY <3>1, <3>2 DEF Access!Next, Access!Read
  <2>4. CASE mode[t] = "write"
    <3>1. Allowed("write") = {} /\ Allowed("read") = {}
      BY <1>1, <2>1, <2>2, <2>4 DEF NoReaderBesideWriter, Allowed
    <3>2. Allowed("write")' = {t} /\ Allowed("read")' = Allowed("read")
      BY <2>1, <2>2, <2>4, <3>1 DEF Allowed
    <3> QED BY <3>1, <3>2 DEF Access!Next, Access!Write
  <2> QED BY <1>1, <2>3, <2>4 DEF TypeOK, Modes
<1>3. CASE \A u \in Tasks : Inside(u)' => Inside(u) /\ mode'[u] = mode[u]
  <2> DEFINE gone == {u \in Tasks : Inside(u) /\ ~Inside(u)'}
  <2>1. gone \in SUBSET Tasks
    OBVIOUS
  <2>2. \A u \in Tasks : Inside(u)' <=> Inside(u) /\ u \notin gone
    BY <1>3
  <2>3. ASSUME NEW m \in Modes PROVE Allowed(m)' = Allowed(m) \ gone
    BY <1>3, <2>2 DEF Allowed
  <2> HIDE DEF gone
  <2> QED BY <2>1, <2>3 DEF Access!Next, Access!Leave, Modes
<1> QED BY <1>1, <1>2, <1>3, EntersOrLeaves

(* AccessAsPromised: over any processes and handles, as long as each       *)
(* handle is one task's, closures and owned guards enter, leave and die as *)
(* the readers and writers of DirAccess do (lock.rs 5-7).                  *)
THEOREM ImplementsDirAccess ==
    ASSUME \A t \in Tasks : Alone(t)
    PROVE  Spec => AccessAsPromised
<1>1. Init => Access!Init
  BY DEF Init, Access!Init, Allowed, Inside
<1>2. IInv /\ [Next]_vars => Access!Next
  BY AccessStep
<1> QED BY <1>1, <1>2, IInvHolds, PTL DEF Spec, AccessAsPromised, Access!Spec

(* No exit path of with_read, with_write or an owned guard leaves the file *)
(* locked behind it: a locked description always has a task inside.        *)
THEOREM NoLockOutlivesItsUser == Spec => []NothingLeaks
<1> DEFINE J == TypeOK /\ NothingLeaks
<1>1. Init => J
  BY HandleOfAssumption DEF Init, TypeOK, NothingLeaks, Modes, Places
<1>2. J /\ [Next]_vars => J'
  <2> SUFFICES ASSUME J, [Next]_vars PROVE NothingLeaks'
    BY TypeStep
  <2> USE HandleOfAssumption DEF TypeOK, NothingLeaks, Inside
  <2>1. CASE \E t \in Tasks, m \in Modes : Call(t, m) \/ Take(t, m)
    BY <2>1 DEF Call, Take
  <2>2. CASE \E t \in Tasks : Admit(t) \/ LockFails(t) \/ Leave(t) \/ TakeFails(t)
    BY <2>2 DEF Admit, LockFails, Leave, TakeFails
  <2>3. CASE \E t \in Tasks : LockFile(t) \/ TakeFile(t)
    BY <2>3 DEF LockFile, TakeFile
  <2>4. CASE \E t \in Tasks : Unlock(t) \/ DropOwned(t)
    BY <2>4 DEF Unlock, DropOwned
  <2>5. CASE \E h \in Handles : Die(h)
    BY <2>5 DEF Die
  <2>6. CASE UNCHANGED vars
    BY <2>6 DEF vars
  <2> QED
    BY <2>1, <2>2, <2>3, <2>4, <2>5, <2>6 DEF Next
<1> QED BY <1>1, <1>2, PTL DEF Spec

-----------------------------------------------------------------------------
Guarded == {"start", "wait", "drain", "aborting", "detail", "inspect", "initialize", "serve", "stop"}
Ended == {"stop", "report", "end", "stopped"}

(* Where the guard is armed, which error may be on its way, and what the    *)
(* container and the log task have done by then.                            *)
Guarding ==
    /\ at \in Guarded => guard = "armed"
    /\ at \notin Ended => failure = None
    /\ failure \in {None, "error"} \cup ExitDetails
    /\ failure \in ExitDetails => at # "stopped"
    /\ at = "end" /\ failure # None => reported.is = failure

Stopping ==
    /\ at \in {"drain", "aborting", "detail"} => container = "exited"
    /\ failure \in ExitDetails /\ at = "stop" => container = "exited"
    /\ failure = "exited, removed" => options.rm
    /\ failure = "exited, see docker logs" => ~options.rm
    /\ at \in {"report", "end"} /\ failure # None /\ trouble # "daemon" =>
           /\ container # "running"
           /\ options.rm => container \in {"none", "removed"}
           /\ failure = "exited, removed" => container = "removed"
           /\ failure = "exited, see docker logs" => container = "exited"

Following ==
    /\ at \in {"image", "pull", "create", "start"} => follower = "none"
    /\ at \in {"wait", "drain", "aborting", "detail"} /\ ~options.background => follower # "none"
    /\ at \in {"aborting", "detail"} \/ failure \in ExitDetails => follower # "following"
    /\ trouble = None /\ ((at = "detail" /\ ~options.background) \/ failure = "exited, output above") =>
           follower = "ended"
    /\ trouble = None /\ follower = "ended" => shown = written /\ container \in {"exited", "removed"}
    /\ follower = "aborted" => trouble \in {"stalled", "stuck"}
    /\ follower \in {"none", "following", "aborted", "ended"}

Reporting ==
    /\ at = "initialize" => "gateway" \in DOMAIN Bindings(options.ports)
    /\ Exited => failure \in ExitDetails
    /\ GatewayClaimed

ContainerInv == Guarding /\ Stopping /\ Following /\ Reporting

LEMMA ContainerStarts == ASSUME Containable PROVE ContainersInit => ContainerInv
BY DEF ContainersInit, Containable, ContainerInv, Guarding, Stopping, Following, Reporting, Exited,
       GatewayClaimed, Ended, Guarded, ExitDetails

(* The container and the log task.                                          *)
LEMMA BesideStep ==
    ASSUME Containable, ContainerInv, Log \/ WriteStatus \/ Exit \/ Mirror \/ StreamEnds \/ AbortTakes \/ StuckWriteLands
    PROVE  ContainerInv'
<1> USE DEF ContainerInv, cliVars
<1>1. Guarding'
  BY DEF Guarding, Log, WriteStatus, Exit, Mirror, StreamEnds, AbortTakes, StuckWriteLands
<1>2. Reporting'
  BY DEF Reporting, Exited, GatewayClaimed, Log, WriteStatus, Exit, Mirror, StreamEnds, AbortTakes, StuckWriteLands
<1>3. Stopping'
  BY DEF Stopping, Log, WriteStatus, Exit, Mirror, StreamEnds, AbortTakes, StuckWriteLands
<1>4. Following'
  <2> USE DEF Following
  <2>1. CASE Log
    BY <2>1 DEF Log
  <2>2. CASE WriteStatus \/ Exit
    BY <2>2 DEF WriteStatus, Exit
  <2>3. CASE Mirror
    BY <2>3 DEF Mirror
  <2>4. CASE StreamEnds
    BY <2>4 DEF StreamEnds, Containable, AllTroubles
  <2>5. CASE AbortTakes \/ StuckWriteLands
    BY <2>5 DEF AbortTakes, StuckWriteLands, Containable, AllTroubles
  <2> QED BY <2>1, <2>2, <2>3, <2>4, <2>5
<1> QED BY <1>1, <1>2, <1>3, <1>4

(* An error goes to the guard, which is armed.                              *)
LEMMA ReturnKeeps ==
    ASSUME Containable, ContainerInv, NEW why \in {"error"} \cup ExitDetails, Return(why),
           UNCHANGED <<options, trouble, image, container, written, status, follower, shown>>,
           \/ trouble = "daemon" /\ at \in {"image", "pull", "create", "start", "wait", "inspect"} /\ why = "error"
           \/ at \in {"wait", "inspect", "initialize"} /\ why = "error"
           \/ /\ at = "detail"
              /\ why = "exited, removed" => options.rm
              /\ why = "exited, see docker logs" => ~options.rm
              /\ why = "exited, output above" => ~options.background
    PROVE  ContainerInv'
<1> USE DEF ContainerInv, Return
<1>1. failure' = why /\ reported' = reported /\ at' \in {"stop", "report"} /\ guard' = guard
      /\ (at' = "report" => trouble = "daemon") /\ (at' = "stop" => guard = "armed")
      /\ (why \in ExitDetails => at = "detail")
  BY DEF Guarding, Guarded, ExitDetails
<1>2. "error" \notin ExitDetails
  BY DEF ExitDetails
<1>3. Guarding'
  BY <1>1, <1>2 DEF Guarding, Guarded, Ended
<1>4. Stopping'
  BY <1>1, <1>2 DEF Stopping, ExitDetails
<1>5. Following'
  <2>1. why \in ExitDetails => follower # "following"
    BY <1>1 DEF Following
  <2>2. trouble = None /\ why = "exited, output above" => follower = "ended"
    BY <1>1 DEF Following, ExitDetails
  <2> QED BY <1>1, <2>1, <2>2 DEF Following
<1>6. Reporting'
  <2>1. ~Exited
    BY DEF Reporting, Guarding, Ended, Containable
  <2> QED BY <1>1, <2>1 DEF Reporting, Exited, GatewayClaimed
<1> QED BY <1>3, <1>4, <1>5, <1>6

(* The start goes on.                                                       *)
LEMMA GoingOn ==
    ASSUME Containable, ContainerInv, at \notin Ended,
           UNCHANGED <<options, trouble, failure, reported, written, shown>>, at' \notin Ended,
           at' \in Guarded => guard' = "armed",
           at' \in {"drain", "aborting", "detail"} => container' = "exited", Following',
           at' = "initialize" => "gateway" \in DOMAIN Bindings(options.ports)
    PROVE  ContainerInv'
<1>1. failure = None /\ None \notin ExitDetails
  BY DEF ContainerInv, Guarding, Containable
<1>2. Guarding'
  BY <1>1 DEF ContainerInv, Guarding, Ended
<1>3. Reporting'
  BY DEF ContainerInv, Reporting, Exited, GatewayClaimed
<1>4. Stopping'
  BY <1>1 DEF Stopping, Ended, ExitDetails
<1> QED BY <1>2, <1>3, <1>4 DEF ContainerInv

LEMMA StartingStep ==
    ASSUME Containable, ContainerInv, InspectImage \/ Pull \/ Create \/ Start PROVE ContainerInv'
<1>1. at \notin Ended /\ failure = None /\ None \notin ExitDetails
  BY DEF InspectImage, Pull, Create, Start, Ended, ContainerInv, Guarding, Containable
<1>2. CASE InspectImage \/ Pull
  <2>1. UNCHANGED <<options, trouble, failure, reported, written, shown, container, follower>>
        /\ at' \in {"pull", "create"} /\ at \in {"image", "pull"}
    BY <1>2 DEF InspectImage, Pull, GoTo
  <2>2. Following'
    BY <1>1, <2>1 DEF ContainerInv, Following, ExitDetails
  <2> QED BY <1>1, <2>1, <2>2, GoingOn DEF Ended, Guarded
<1>3. CASE Create
  <2>1. Following'
    BY <1>1, <1>3 DEF Create, ContainerInv, Following, ExitDetails
  <2> QED BY <1>1, <1>3, <2>1, GoingOn DEF Create, Ended, Guarded
<1>4. CASE Start
  <2>1. guard = "armed" /\ guard' = guard /\ at' = "wait"
    BY <1>4 DEF Start, GoTo, ContainerInv, Guarding, Guarded
  <2>2. Following'
    BY <1>1, <1>4, <2>1 DEF Start, GoTo, ContainerInv, Following, ExitDetails
  <2> QED BY <1>1, <1>4, <2>1, <2>2, GoingOn DEF Start, GoTo, Ended
<1> QED BY <1>2, <1>3, <1>4

LEMMA WaitingStep ==
    ASSUME Containable, ContainerInv, SeesStatus \/ SeesExit \/ Drained \/ DrainTimesOut \/ AbortTimesOut \/ Inspect
    PROVE  ContainerInv'
<1>1. at \notin Ended /\ at \in Guarded /\ failure = None /\ None \notin ExitDetails /\ guard = "armed"
  BY DEF SeesStatus, SeesExit, Drained, DrainTimesOut, AbortTimesOut, Inspect, Ended, Guarded, ContainerInv,
         Guarding, Containable
<1>2. CASE (SeesStatus \/ Inspect) /\ Return("error")
  BY <1>2, ReturnKeeps DEF SeesStatus, Inspect
<1>3. ASSUME GoTo("inspect") \/ GoTo("initialize"), at \in {"wait", "inspect"},
             UNCHANGED <<options, trouble, container, written, shown, follower>>,
             at' = "initialize" => "gateway" \in DOMAIN Bindings(options.ports)
      PROVE  ContainerInv'
  <2>1. at' \in {"inspect", "initialize"} /\ UNCHANGED <<guard, failure, reported>>
    BY <1>3 DEF GoTo
  <2>2. at' \notin {"drain", "aborting", "detail", "wait"} /\ at' \notin Ended
    BY <2>1 DEF Ended
  <2>3. Following'
    BY <1>1, <1>3, <2>1, <2>2 DEF ContainerInv, Following, ExitDetails
  <2> QED BY <1>1, <1>3, <2>1, <2>2, <2>3, GoingOn
<1>4. CASE SeesExit
  <2>1. at' \in {"detail", "drain"} /\ UNCHANGED <<guard, failure, reported>> /\ at' \notin Ended /\ at = "wait"
    BY <1>4 DEF SeesExit, GoTo, Ended
  <2>2. Following'
    BY <1>1, <1>4, <2>1 DEF SeesExit, GoTo, ContainerInv, Following, ExitDetails
  <2> QED BY <1>1, <1>4, <2>1, <2>2, GoingOn DEF SeesExit
<1>5. CASE Drained \/ DrainTimesOut \/ AbortTimesOut
  <2>1. /\ at \in {"drain", "aborting"} /\ at' \in {"detail", "aborting"} /\ at' \notin Ended
        /\ UNCHANGED <<options, trouble, container, written, shown, guard, failure, reported>>
    BY <1>5 DEF Drained, DrainTimesOut, AbortTimesOut, GoTo, Ended
  <2>2. Following'
    <3>1. CASE Drained
      BY <1>1, <2>1, <3>1 DEF Drained, GoTo, ContainerInv, Following, ExitDetails
    <3>2. CASE DrainTimesOut
      BY <1>1, <2>1, <3>2 DEF DrainTimesOut, GoTo, Flowing, ContainerInv, Following, ExitDetails, Containable, AllTroubles
    <3>3. CASE AbortTimesOut
      <4>1. at = "aborting" /\ trouble # None
        BY <3>3 DEF AbortTimesOut, Containable, AllTroubles
      <4> QED BY <1>1, <2>1, <3>3, <4>1 DEF AbortTimesOut, GoTo, ContainerInv, Following, ExitDetails
    <3> QED BY <1>5, <3>1, <3>2, <3>3
  <2>3. container = "exited"
    BY <2>1 DEF ContainerInv, Stopping
  <2> QED BY <1>1, <2>1, <2>2, <2>3, GoingOn
<1>6. CASE SeesStatus
  BY <1>2, <1>3, <1>6 DEF SeesStatus, GoTo
<1>7. CASE Inspect
  BY <1>2, <1>3, <1>7 DEF Inspect, GoTo
<1> QED BY <1>4, <1>5, <1>6, <1>7

LEMMA FailingStep == ASSUME Containable, ContainerInv, CallFails \/ Detail \/ InitializeFails PROVE ContainerInv'
<1>1. CASE CallFails
  BY <1>1, ReturnKeeps DEF CallFails
<1>2. CASE InitializeFails
  BY <1>2, ReturnKeeps DEF InitializeFails
<1>3. CASE Detail
  <2>1. PICK tail \in BOOLEAN :
            Return(IF ~options.background THEN "exited, output above"
                   ELSE IF tail THEN "exited, output inline"
                   ELSE IF options.rm THEN "exited, removed"
                   ELSE "exited, see docker logs")
    BY <1>3 DEF Detail
  <2>2. PICK why : why = IF ~options.background THEN "exited, output above"
                         ELSE IF tail THEN "exited, output inline"
                         ELSE IF options.rm THEN "exited, removed"
                         ELSE "exited, see docker logs"
    OBVIOUS
  <2>3. /\ why \in {"error"} \cup ExitDetails /\ Return(why)
        /\ why = "exited, removed" => options.rm
        /\ why = "exited, see docker logs" => ~options.rm
        /\ why = "exited, output above" => ~options.background
    BY <2>1, <2>2 DEF ExitDetails
  <2> QED BY <1>3, <2>3, ReturnKeeps DEF Detail
<1> QED BY <1>1, <1>2, <1>3

LEMMA EndingStep ==
    ASSUME Containable, ContainerInv, Ready \/ Interrupt \/ GuardStops \/ Report \/ StopNetwork PROVE ContainerInv'
<1> USE DEF ContainerInv
<1>1. CASE Ready
  <2>1. /\ failure = None /\ None \notin ExitDetails /\ at' \in {"end", "serve"} /\ (at' = "serve" => guard' = "armed")
        /\ UNCHANGED <<options, trouble, container, written, follower, shown, failure>> /\ at = "initialize"
    BY <1>1 DEF Ready, Guarding, Containable, Guarded, Ended
  <2>2. Guarding'
    BY <2>1 DEF Guarding, Guarded, Ended
  <2>3. Stopping' /\ Following'
    BY <2>1 DEF Stopping, Following, ExitDetails
  <2>4. Reporting'
    <3>1. PICK bound : bound = Bindings(options.ports)
      OBVIOUS
    <3>2. "gateway" \in DOMAIN bound
      BY <2>1, <3>1 DEF Reporting
    <3>3. PICK port \in Bound(bound, "gateway") :
             reported' = [is |-> "ok", port |-> port, fixed |-> GatewayFixed(bound, "gateway")]
      BY <1>1, <3>1 DEF Ready
    <3>5. /\ reported'.is = "ok" /\ reported'.port = port
          /\ reported'.fixed <=> bound["gateway"] # "0"
      BY <3>2, <3>3 DEF GatewayFixed
    <3>6. /\ port \in FixedPorts(bound) => reported'.fixed
          /\ reported'.fixed => port \in FixedPorts(bound) \/ bound["gateway"] \notin HostPorts \cup {"0"}
      <4>1. CASE bound["gateway"] \in HostPorts
        <5>1. port = bound["gateway"] /\ bound["gateway"] # "0"
          BY <4>1 DEF Bound, Containable
        <5> QED BY <3>2, <3>5, <4>1, <5>1 DEF FixedPorts
      <4>2. CASE bound["gateway"] \notin HostPorts
        <5>1. port \notin FixedPorts(bound)
          BY <4>2 DEF Bound, FixedPorts, Containable
        <5> QED BY <3>5, <4>2, <5>1
      <4> QED BY <4>1, <4>2
    <3>7. options' = options /\ "ok" \notin ExitDetails
      BY <2>1 DEF ExitDetails
    <3> QED BY <2>1, <3>1, <3>3, <3>5, <3>6, <3>7 DEF Reporting, Exited, GatewayClaimed
  <2> QED BY <2>2, <2>3, <2>4
<1>2. CASE Interrupt
  <2>1. /\ failure = None /\ None \notin ExitDetails /\ at' = "stop" /\ guard' = "armed"
        /\ UNCHANGED <<options, trouble, container, written, follower, shown, failure, reported>>
    BY <1>2 DEF Interrupt, GoTo, Guarding, Containable, Guarded, Ended
  <2> QED BY <2>1 DEF Guarding, Stopping, Following, Reporting, Exited, GatewayClaimed, Guarded, Ended, ExitDetails
<1>3. CASE GuardStops
  <2>1. at = "stop" /\ at' = "report" /\ UNCHANGED <<options, trouble, written, follower, shown, failure, reported>>
    BY <1>3 DEF GuardStops
  <2>2. container' \in {container, Stopped(container), "removed"}
        /\ (trouble # "daemon" => container' = IF options.rm THEN "removed" ELSE Stopped(container))
    BY <1>3 DEF GuardStops
  <2>3. Stopping'
    <3>1. ASSUME failure # None, trouble # "daemon"
          PROVE  /\ container' # "running" /\ (options.rm => container' = "removed")
                 /\ ~options.rm /\ container = "exited" => container' = "exited"
      BY <2>2, <3>1 DEF Stopped
    <3> QED BY <2>1, <3>1 DEF Stopping, ExitDetails
  <2>4. Following'
    BY <2>1, <2>2 DEF Following, Stopped
  <2>5. Guarding' /\ Reporting'
    BY <2>1 DEF Guarding, Reporting, Exited, GatewayClaimed, Guarded, Ended
  <2> QED BY <2>3, <2>4, <2>5
<1>4. CASE Report
  <2>1. at = "report" /\ at' = "end" /\ UNCHANGED <<options, trouble, container, written, follower, shown, failure>>
    BY <1>4 DEF Report
  <2>2. Stopping' /\ Following'
    BY <2>1 DEF Stopping, Following
  <2>3. CASE failure = None
    BY <1>4, <2>1, <2>2, <2>3 DEF Report, Guarding, Reporting, Exited, GatewayClaimed, Guarded, Ended
  <2>4. CASE failure # None
    <3>1. reported' = [is |-> failure, port |-> None, fixed |-> FALSE]
      BY <1>4, <2>4 DEF Report
    <3>2. reported'.is = failure
      BY <3>1
    <3>3. failure # "ok"
      BY <2>4 DEF Guarding, ExitDetails
    <3>4. Reporting'
      BY <2>1, <3>2, <3>3 DEF Reporting, Exited, GatewayClaimed
    <3>5. Guarding'
      BY <2>1, <3>2 DEF Guarding, Guarded, Ended
    <3> QED BY <2>2, <3>4, <3>5
  <2> QED BY <2>3, <2>4
<1>5. CASE StopNetwork
  <2>1. /\ reported.is = "ok" /\ at = "end" /\ at' = "stopped" /\ container' \in {"removed", Stopped(container)}
        /\ UNCHANGED <<options, trouble, written, follower, shown, failure, reported>>
    BY <1>5 DEF StopNetwork
  <2>2. failure \notin ExitDetails
    BY <2>1 DEF Guarding, ExitDetails, Containable
  <2>3. Guarding' /\ Reporting'
    BY <2>1, <2>2 DEF Guarding, Reporting, Exited, GatewayClaimed, Guarded, Ended
  <2>4. Stopping' /\ Following'
    BY <2>1, <2>2 DEF Stopping, Following, Stopped, ExitDetails
  <2> QED BY <2>3, <2>4
<1> QED BY <1>1, <1>2, <1>3, <1>4, <1>5

LEMMA ContainerStep == ASSUME Containable PROVE ContainerInv /\ [ContainersNext]_containerVars => ContainerInv'
<1> SUFFICES ASSUME ContainerInv, [ContainersNext]_containerVars PROVE ContainerInv'
  OBVIOUS
<1>1. CASE UNCHANGED containerVars
  <2>1. Guarding' /\ Reporting'
    BY <1>1 DEF containerVars, ContainerInv, Guarding, Reporting, Exited, GatewayClaimed
  <2>2. Stopping' /\ Following'
    BY <1>1 DEF containerVars, ContainerInv, Stopping, Following
  <2> QED BY <2>1, <2>2 DEF ContainerInv
<1>2. CASE ContainersNext
  BY <1>2, BesideStep, StartingStep, WaitingStep, FailingStep, EndingStep DEF ContainersNext, Cli
<1> QED BY <1>1, <1>2

(* docker.rs, DockerDropGuard: a failed start leaves no container running,  *)
(* and none at all under rm-on-exit; its error points to output that is     *)
(* there; and a start that reports a fixed gateway port has locked it.  For *)
(* any number of lines, ports and troubles.                                 *)
THEOREM StartsAreClean == ASSUME Containable PROVE ContainersSpec => []StartsCleanly
<1>1. ContainerInv => StartsCleanly
  <2> SUFFICES ASSUME ContainerInv PROVE StartsCleanly
    OBVIOUS
  <2>1. GatewayClaimed
    BY DEF ContainerInv, Reporting
  <2>2. StartLeavesNothing
    BY DEF ContainerInv, Stopping, Following, StartLeavesNothing, ExitDetails
  <2> QED BY <2>1, <2>2 DEF StartsCleanly
<1> QED BY <1>1, ContainerStarts, ContainerStep, PTL DEF ContainersSpec

(* drain_log_follower: once the error of a container that exited is on the  *)
(* terminal, no output of the container follows it, unless a write of the   *)
(* terminal itself is stuck.                                                *)
THEOREM OutputComesFirst == ASSUME Containable PROVE ContainersSpec => OutputBeforeError
<1>1. ContainerInv /\ [ContainersNext]_containerVars => [Exited /\ trouble # "stuck" => shown' = shown]_containerVars
  <2> SUFFICES ASSUME ContainerInv, ContainersNext, Exited, trouble # "stuck" PROVE shown' = shown
    BY DEF containerVars
  <2>1. follower # "following"
    BY DEF ContainerInv, Reporting, Following
  <2> QED
    BY <2>1 DEF ContainersNext, Cli, Log, WriteStatus, Exit, Mirror, StuckWriteLands, StreamEnds, AbortTakes, CallFails,
                InspectImage, Pull, Create, Start, SeesStatus, SeesExit, Drained, DrainTimesOut, AbortTimesOut, Detail,
                Inspect, InitializeFails, Ready, GuardStops, Report, Interrupt, StopNetwork
<1> QED BY <1>1, ContainerStarts, ContainerStep, PTL DEF ContainersSpec, OutputBeforeError

-----------------------------------------------------------------------------
FileStates == [name : {"unused", "events", "batch", "gone"}, time : Nat, records : Seq(Nat), tried : BOOLEAN]
Recordings ==
    [at : {"idle", "open", "write", "decide", "guard", "rotate", "cleanup", "remove", "spawn"},
     record : Nat \cup {None}, holds : Files \cup {None}, old : SUBSET Files, extra : SUBSET Files]
Senders == [at : {"none", "read", "post", "accepted", "failed"}, records : Seq(Nat)]

Holding(c) == recording[c].at \in {"open", "write"}

(* A record is written once, to the file that is the log then, and is in    *)
(* the hands of one command before that.                                    *)
Typed == /\ now \in Nat /\ began \in Nat
         /\ file \in [Files -> FileStates] /\ recording \in [Invocations -> Recordings] /\ sender \in [Files -> Senders]

Numbered ==
    /\ \A f \in Files : \A i \in DOMAIN file[f].records : file[f].records[i] <= began
    /\ \A f, g \in Files : \A i \in DOMAIN file[f].records, j \in DOMAIN file[g].records :
          file[f].records[i] = file[g].records[j] => f = g /\ i = j

Held ==
    /\ \A c \in Invocations : Holding(c) =>
          /\ recording[c].record \in Nat /\ recording[c].record <= began
          /\ \A f \in Files : \A i \in DOMAIN file[f].records : file[f].records[i] # recording[c].record
    /\ \A c, d \in Invocations : Holding(c) /\ Holding(d) /\ recording[c].record = recording[d].record => c = d
    /\ \A c \in Invocations : recording[c].at = "write" => recording[c].holds \in Files

(* What a sender has read is a beginning of its file, and what the endpoint *)
(* took is under the file and place where it is.                            *)
Sent ==
    /\ \A f \in Files : \A i \in DOMAIN sender[f].records :
          i \in DOMAIN file[f].records /\ sender[f].records[i] = file[f].records[i]
    /\ \A s \in server : \E f \in Files : \E i \in DOMAIN file[f].records : s = <<f, i, file[f].records[i]>>

CountInv == Typed /\ Numbered /\ Held /\ Sent

(* What was in the log when it was rotated is in its batch, and every       *)
(* sender has read that much of it.                                         *)
IsBatch(f) == file[f].name \in {"batch", "gone"}
Has(records, n) == 1 .. n \subseteq DOMAIN records

Rotated ==
    /\ logged \in [Files -> Nat]
    /\ \A f \in Files : IsBatch(f) => Has(file[f].records, logged[f])
Reading ==
    \A f \in Files : sender[f].at \in {"post", "accepted", "failed"} =>
        /\ IsBatch(f) /\ Has(sender[f].records, logged[f])
        /\ sender[f].at = "accepted" =>
               \A i \in DOMAIN sender[f].records : \E t \in server : t[3] = sender[f].records[i]

(* What a command has yet to remove is too old, or was one too many; and    *)
(* all that ever were are among the crowded.                                *)
Dropping ==
    \A c \in Invocations : recording[c].at = "remove" =>
        /\ \A f \in recording[c].old \cup recording[c].extra : f \in Files /\ IsBatch(f)
        /\ \A f \in recording[c].old : TooOld(f)
        /\ recording[c].extra \subseteq crowded

NoOlder(f) == {g \in Named("batch") \ {f} : file[f].time <= file[g].time}
Crowding == \A f \in Named("batch") : Cardinality(NoOlder(f)) >= MaxBatches => f \in crowded

Kept == Rotated /\ Reading /\ Dropping /\ Crowding

SameRecords == \A f \in Files : file'[f].records = file[f].records

-----------------------------------------------------------------------------
LEMMA CountStarts == ASSUME TelemetryAssumption PROVE TelemetryInit => CountInv /\ Kept
<1> SUFFICES ASSUME TelemetryInit PROVE CountInv /\ Kept
  OBVIOUS
<1> DEFINE unused == [name |-> "unused", time |-> 0, records |-> <<>>, tried |-> FALSE]
           silent == [at |-> "none", records |-> <<>>]
<1>1. unused \in FileStates /\ silent \in Senders /\ Idle \in Recordings
  BY DEF FileStates, Senders, Recordings, Idle
<1>2. file = [f \in Files |-> unused] /\ sender = [f \in Files |-> silent] /\ recording = [c \in Invocations |-> Idle]
  BY DEF TelemetryInit
<1>3. unused.records = <<>> /\ silent.records = <<>> /\ silent.at = "none" /\ Idle.at = "idle" /\ unused.name = "unused"
  BY DEF Idle
<1> HIDE DEF unused, silent
<1>4. Typed
  BY <1>1, <1>2 DEF Typed, TelemetryInit
<1>5. (\A f \in Files : file[f].records = <<>> /\ sender[f].records = <<>> /\ sender[f].at = "none" /\ file[f].name = "unused")
      /\ \A c \in Invocations : recording[c].at = "idle"
  BY <1>2, <1>3
<1>6. DOMAIN <<>> = {} /\ server = {}
  BY DEF TelemetryInit
<1>7. Numbered /\ Held /\ Sent
  BY <1>5, <1>6 DEF Numbered, Held, Sent, Holding
<1>8. Kept
  BY <1>5 DEF Kept, Rotated, Reading, Dropping, Crowding, IsBatch, Named, TelemetryInit
<1> QED BY <1>4, <1>7, <1>8 DEF CountInv

(* A step that writes no record.                                            *)
LEMMA NothingWritten ==
    ASSUME CountInv, SameRecords, Typed', began' = began, UNCHANGED server,
           \A c \in Invocations : Holding(c)' => Holding(c) /\ recording'[c].record = recording[c].record,
           \A c \in Invocations : recording'[c].at = "write" => recording'[c].holds \in Files,
           \A f \in Files : sender'[f].records \in {sender[f].records, <<>>, file[f].records}
    PROVE  CountInv'
<1>1. Numbered'
  BY DEF CountInv, Numbered, SameRecords
<1>2. Held'
  BY DEF CountInv, Held, SameRecords
<1>3. DOMAIN <<>> = {}
  OBVIOUS
<1>4. Sent'
  BY <1>3 DEF CountInv, Sent, SameRecords
<1> QED BY <1>1, <1>2, <1>4 DEF CountInv

(* A command goes on without a record of its own, or with the one it has.   *)
LEMMA CommandGoesOn ==
    ASSUME CountInv, NEW c \in Invocations, NEW p \in Recordings, recording' = [recording EXCEPT ![c] = p],
           file' \in [Files -> FileStates], SameRecords, UNCHANGED <<now, began, server>>,
           sender' \in [Files -> Senders], \A f \in Files : sender'[f].records = sender[f].records,
           p.at \in {"open", "write"} => Holding(c) /\ p.record = recording[c].record,
           p.at = "write" => p.holds \in Files
    PROVE  CountInv'
<1>1. recording' \in [Invocations -> Recordings] /\ recording'[c] = p /\ \A d \in Invocations \ {c} : recording'[d] = recording[d]
  BY DEF CountInv, Typed
<1>2. Typed'
  BY <1>1 DEF CountInv, Typed
<1>3. \A d \in Invocations : Holding(d)' => Holding(d) /\ recording'[d].record = recording[d].record
  BY <1>1 DEF Holding
<1>4. \A d \in Invocations : recording'[d].at = "write" => recording'[d].holds \in Files
  BY <1>1 DEF CountInv, Held
<1> QED BY <1>2, <1>3, <1>4, NothingWritten

LEMMA FinishStep == ASSUME CountInv, NEW c \in Invocations, Finish(c) PROVE CountInv'
<1>1. PICK p : p = [recording[c] EXCEPT !.at = "open", !.record = began + 1]
  OBVIOUS
<1>2. recording[c] \in Recordings /\ began \in Nat /\ recording \in [Invocations -> Recordings]
  BY DEF CountInv, Typed
<1>3. p \in Recordings /\ p.at = "open" /\ p.record = began + 1
  <2>1. PICK r : r = began + 1
    OBVIOUS
  <2>2. p = [recording[c] EXCEPT !.at = "open", !.record = r] /\ r \in Nat
    BY <1>1, <1>2, <2>1
  <2>3. p \in Recordings /\ p.at = "open" /\ p.record = r
    BY <1>2, <2>2 DEF Recordings
  <2> QED BY <2>1, <2>3
<1>4. recording' = [recording EXCEPT ![c] = p] /\ began' = began + 1 /\ UNCHANGED <<now, file, sender, server>>
  BY <1>1 DEF Finish
<1>5. recording' \in [Invocations -> Recordings] /\ recording'[c] = p /\ \A d \in Invocations \ {c} : recording'[d] = recording[d]
  BY <1>2, <1>3, <1>4
<1>6. Typed'
  BY <1>4, <1>5 DEF CountInv, Typed
<1>7. \A f \in Files : \A i \in DOMAIN file[f].records : file[f].records[i] \in Nat /\ file[f].records[i] <= began
  <2> SUFFICES ASSUME NEW f \in Files PROVE \A i \in DOMAIN file[f].records : file[f].records[i] \in Nat /\ file[f].records[i] <= began
    OBVIOUS
  <2>1. file[f].records \in Seq(Nat)
    BY DEF CountInv, Typed, FileStates
  <2> QED BY <2>1 DEF CountInv, Numbered
<1>8. Numbered'
  BY <1>2, <1>4, <1>7 DEF CountInv, Numbered
<1>9. \A d \in Invocations \ {c} : Holding(d)' => Holding(d) /\ recording'[d].record = recording[d].record
  BY <1>5 DEF Holding
<1>10. \A d \in Invocations : Holding(d)' =>
          /\ recording'[d].record \in Nat /\ recording'[d].record <= began'
          /\ \A f \in Files : \A i \in DOMAIN file[f].records : file[f].records[i] # recording'[d].record
  <2> SUFFICES ASSUME NEW d \in Invocations, Holding(d)'
               PROVE  /\ recording'[d].record \in Nat /\ recording'[d].record <= began'
                      /\ \A f \in Files : \A i \in DOMAIN file[f].records : file[f].records[i] # recording'[d].record
    OBVIOUS
  <2>1. CASE d = c
    BY <1>2, <1>3, <1>4, <1>5, <1>7, <2>1
  <2>2. CASE d # c
    BY <1>2, <1>4, <1>9, <2>2 DEF CountInv, Held
  <2> QED BY <2>1, <2>2
<1>11. \A d \in Invocations \ {c} : Holding(d)' => recording'[d].record # p.record
  BY <1>2, <1>3, <1>9 DEF CountInv, Held
<1>12. \A d, e \in Invocations : Holding(d)' /\ Holding(e)' /\ recording'[d].record = recording'[e].record => d = e
  BY <1>5, <1>9, <1>11 DEF CountInv, Held
<1>13. Held'
  BY <1>3, <1>4, <1>5, <1>10, <1>12 DEF CountInv, Held
<1>14. Sent'
  BY <1>4 DEF CountInv, Sent
<1> QED BY <1>6, <1>8, <1>13, <1>14 DEF CountInv

LEMMA WriteStep == ASSUME CountInv, NEW c \in Invocations, Write(c) PROVE CountInv'
<1>1. PICK h : h = recording[c].holds
  OBVIOUS
<1>2. PICK r : r = recording[c].record
  OBVIOUS
<1>3. /\ h \in Files /\ r \in Nat /\ r <= began /\ Holding(c)
      /\ \A f \in Files : \A i \in DOMAIN file[f].records : file[f].records[i] # r
  BY <1>1, <1>2 DEF Write, Doing, CountInv, Held, Holding
<1>4. file \in [Files -> FileStates] /\ file[h] \in FileStates /\ file[h].records \in Seq(Nat)
  BY <1>3 DEF CountInv, Typed, FileStates
<1>5. PICK grown : grown = Append(file[h].records, r)
  OBVIOUS
<1>6. /\ grown \in Seq(Nat) /\ DOMAIN grown = DOMAIN file[h].records \cup {Len(file[h].records) + 1}
      /\ grown[Len(file[h].records) + 1] = r /\ \A i \in DOMAIN file[h].records : grown[i] = file[h].records[i]
  BY <1>3, <1>4, <1>5
<1>7. PICK q : q = [file[h] EXCEPT !.records = grown]
  OBVIOUS
<1>8. q \in FileStates /\ q.records = grown
  BY <1>4, <1>6, <1>7 DEF FileStates
<1>9. file' = [file EXCEPT ![h] = q]
  BY <1>1, <1>2, <1>5, <1>7 DEF Write
<1>10. /\ file' \in [Files -> FileStates] /\ file'[h].records = grown
       /\ \A f \in Files \ {h} : file'[f].records = file[f].records
  BY <1>3, <1>4, <1>8, <1>9
<1>11. PICK p : p = [recording[c] EXCEPT !.at = "decide"]
  OBVIOUS
<1>12. recording \in [Invocations -> Recordings] /\ recording' = [recording EXCEPT ![c] = p] /\ recording[c] \in Recordings
  BY <1>11 DEF Write, GoOn, CountInv, Typed
<1>13. p \in Recordings /\ p.at = "decide"
  BY <1>11, <1>12 DEF Recordings
<1>14. recording' \in [Invocations -> Recordings] /\ recording'[c] = p /\ \A d \in Invocations \ {c} : recording'[d] = recording[d]
  BY <1>12, <1>13
<1>15. UNCHANGED <<now, began, sender, server>>
  BY DEF Write
<1>16. Typed'
  BY <1>10, <1>14, <1>15 DEF CountInv, Typed
<1>17. \A f \in Files : \A i \in DOMAIN file'[f].records :
          \/ i \in DOMAIN file[f].records /\ file'[f].records[i] = file[f].records[i]
          \/ f = h /\ i = Len(file[h].records) + 1 /\ file'[f].records[i] = r
  BY <1>6, <1>10
<1>18. Numbered'
  <2>1. \A f \in Files : \A i \in DOMAIN file'[f].records : file'[f].records[i] <= began'
    BY <1>3, <1>15, <1>17 DEF CountInv, Numbered
  <2>2. ASSUME NEW f \in Files, NEW g \in Files, NEW i \in DOMAIN file'[f].records, NEW j \in DOMAIN file'[g].records,
               file'[f].records[i] = file'[g].records[j]
        PROVE  f = g /\ i = j
    BY <1>3, <1>17, <2>2 DEF CountInv, Numbered
  <2> QED BY <2>1, <2>2 DEF Numbered
<1>19. \A d \in Invocations : Holding(d)' => d # c /\ Holding(d) /\ recording'[d] = recording[d] /\ recording[d].record # r
  BY <1>2, <1>3, <1>13, <1>14 DEF CountInv, Held, Holding
<1>20. Held'
  <2>1. \A d \in Invocations : Holding(d)' =>
           /\ recording'[d].record \in Nat /\ recording'[d].record <= began'
           /\ \A f \in Files : \A i \in DOMAIN file'[f].records : file'[f].records[i] # recording'[d].record
    BY <1>15, <1>17, <1>19 DEF CountInv, Held
  <2>2. \A d, e \in Invocations : Holding(d)' /\ Holding(e)' /\ recording'[d].record = recording'[e].record => d = e
    BY <1>19 DEF CountInv, Held
  <2>3. \A d \in Invocations : recording'[d].at = "write" => recording'[d].holds \in Files
    BY <1>13, <1>14 DEF CountInv, Held
  <2> QED BY <2>1, <2>2, <2>3 DEF Held
<1>21. \A f \in Files : \A i \in DOMAIN file[f].records :
          i \in DOMAIN file'[f].records /\ file'[f].records[i] = file[f].records[i]
  BY <1>6, <1>10
<1>22. Sent'
  <2>1. \A f \in Files : \A i \in DOMAIN sender'[f].records :
          i \in DOMAIN file'[f].records /\ sender'[f].records[i] = file'[f].records[i]
    BY <1>15, <1>21 DEF CountInv, Sent
  <2>2. \A s \in server' : \E f \in Files : \E i \in DOMAIN file'[f].records : s = <<f, i, file'[f].records[i]>>
    BY <1>15, <1>21 DEF CountInv, Sent
  <2> QED BY <2>1, <2>2 DEF Sent
<1> QED BY <1>16, <1>18, <1>20, <1>22 DEF CountInv

(* A command that goes on has none of the two records that matter here.     *)
LEMMA OpenStep == ASSUME CountInv, NEW c \in Invocations, Open(c) PROVE CountInv'
<1>1. PICK f \in Files :
          /\ file' = [file EXCEPT ![f].name = "events"]
          /\ recording' = [recording EXCEPT ![c] = [@ EXCEPT !.at = "write", !.holds = f]]
  BY DEF Open
<1>2. PICK q : q = [file[f] EXCEPT !.name = "events"]
  OBVIOUS
<1>3. PICK p : p = [recording[c] EXCEPT !.at = "write", !.holds = f]
  OBVIOUS
<1>4. file[f] \in FileStates /\ recording[c] \in Recordings /\ file \in [Files -> FileStates] /\ recording[c].at = "open"
  BY DEF CountInv, Typed, Open, Doing
<1>5. q \in FileStates /\ q.records = file[f].records
  BY <1>2, <1>4 DEF FileStates
<1>6. p \in Recordings /\ p.at = "write" /\ p.holds = f /\ p.record = recording[c].record
  BY <1>3, <1>4 DEF Recordings
<1>7. file' = [file EXCEPT ![f] = q] /\ recording' = [recording EXCEPT ![c] = p]
  BY <1>1, <1>2, <1>3
<1>8. file' \in [Files -> FileStates] /\ SameRecords
  BY <1>4, <1>5, <1>7 DEF SameRecords
<1>9. UNCHANGED <<now, began, sender, server>> /\ Holding(c) /\ sender \in [Files -> Senders]
  BY <1>4 DEF Open, Holding, CountInv, Typed
<1> QED BY <1>6, <1>7, <1>8, <1>9, CommandGoesOn

LEMMA LaterSteps ==
    ASSUME CountInv, NEW c \in Invocations,
           Decide(c) \/ GuardSlot(c) \/ Rotate(c) \/ Cleanup(c) \/ RemoveStale(c) \/ Cleaned(c) \/ SpawnSender(c) \/ EndsEarly(c)
    PROVE  CountInv'
<1>1. /\ file \in [Files -> FileStates] /\ recording \in [Invocations -> Recordings] /\ recording[c] \in Recordings
      /\ sender \in [Files -> Senders] /\ now \in Nat
  BY DEF CountInv, Typed
<1>2. Idle \in Recordings /\ Idle.at = "idle"
  BY DEF Idle, Recordings
<1>3. ASSUME NEW step \in {"guard", "rotate", "cleanup", "spawn"}
      PROVE  [recording[c] EXCEPT !.at = step] \in Recordings /\ [recording[c] EXCEPT !.at = step].at = step
  BY <1>1 DEF Recordings
<1>4. UNCHANGED <<now, began, server>>
  BY DEF Decide, GuardSlot, Rotate, Cleanup, RemoveStale, Cleaned, SpawnSender, EndsEarly
<1>5. SameRecords <=> \A f \in Files : file'[f].records = file[f].records
  BY DEF SameRecords
<1>6. CASE Decide(c) \/ GuardSlot(c) \/ Cleaned(c) \/ EndsEarly(c)
  <2>1. file' = file /\ sender' = sender
        /\ \/ recording' = [recording EXCEPT ![c] = Idle]
           \/ \E step \in {"guard", "rotate", "spawn"} : recording' = [recording EXCEPT ![c] = [recording[c] EXCEPT !.at = step]]
    BY <1>6 DEF Decide, GuardSlot, Cleaned, EndsEarly, Done, GoOn
  <2> QED BY <1>1, <1>2, <1>3, <1>4, <1>5, <2>1, CommandGoesOn
<1>7. CASE Rotate(c)
  <2>1. CASE Done(c) /\ file' = file
    BY <1>1, <1>2, <1>4, <1>5, <1>7, <2>1, CommandGoesOn DEF Rotate, Done
  <2>2. ASSUME NEW f \in Named("events"),
               file' = [file EXCEPT ![f] = [@ EXCEPT !.name = "batch", !.time = now]],
               recording' = [recording EXCEPT ![c] = [@ EXCEPT !.at = "cleanup", !.holds = f]]
        PROVE  CountInv'
    <3>1. PICK q : q = [file[f] EXCEPT !.name = "batch", !.time = now]
      OBVIOUS
    <3>2. PICK p : p = [recording[c] EXCEPT !.at = "cleanup", !.holds = f]
      OBVIOUS
    <3>3. f \in Files /\ file[f] \in FileStates
      BY <1>1 DEF Named
    <3>4. q \in FileStates /\ q.records = file[f].records
      BY <1>1, <3>1, <3>3 DEF FileStates
    <3>5. p \in Recordings /\ p.at = "cleanup"
      BY <1>1, <3>2, <3>3 DEF Recordings
    <3>6. file' = [file EXCEPT ![f] = q] /\ recording' = [recording EXCEPT ![c] = p] /\ sender' = sender
      BY <1>7, <2>2, <3>1, <3>2 DEF Rotate
    <3>7. file' \in [Files -> FileStates] /\ SameRecords
      BY <1>1, <3>3, <3>4, <3>6 DEF SameRecords
    <3> QED BY <1>1, <1>4, <3>5, <3>6, <3>7, CommandGoesOn
  <2> QED BY <1>7, <2>1, <2>2 DEF Rotate
<1>8. CASE Cleanup(c)
  <2>1. PICK old \in SUBSET Files, extra \in SUBSET Files :
            recording' = [recording EXCEPT ![c] = [@ EXCEPT !.at = "remove", !.old = old, !.extra = extra]]
    BY <1>8 DEF Cleanup, Surplus, Named
  <2>2. PICK p : p = [recording[c] EXCEPT !.at = "remove", !.old = old, !.extra = extra]
    OBVIOUS
  <2>3. p \in Recordings /\ p.at = "remove"
    BY <1>1, <2>2 DEF Recordings
  <2>4. recording' = [recording EXCEPT ![c] = p] /\ file' = file /\ sender' = sender
    BY <1>8, <2>1, <2>2 DEF Cleanup
  <2> QED BY <1>1, <1>4, <1>5, <2>3, <2>4, CommandGoesOn
<1>10. CASE RemoveStale(c)
  <2>1. PICK f : /\ file' = [file EXCEPT ![f].name = "gone"]
                 /\ recording' = [recording EXCEPT ![c] = [@ EXCEPT !.old = recording[c].old \ {f}, !.extra = recording[c].extra \ {f}]]
    BY <1>10 DEF RemoveStale
  <2>2. PICK p : p = [recording[c] EXCEPT !.old = recording[c].old \ {f}, !.extra = recording[c].extra \ {f}]
    OBVIOUS
  <2>3. p \in Recordings /\ p.at = "remove"
    BY <1>1, <1>10, <2>2 DEF Recordings, RemoveStale, Doing
  <2>4. recording' = [recording EXCEPT ![c] = p] /\ sender' = sender
    BY <1>10, <2>1, <2>2 DEF RemoveStale
  <2>5. file' \in [Files -> FileStates] /\ SameRecords
    <3>1. PICK q : q = [file[f] EXCEPT !.name = "gone"]
      OBVIOUS
    <3>2. file' = [file EXCEPT ![f] = q]
      BY <2>1, <3>1
    <3>3. f \in Files => q \in FileStates /\ q.records = file[f].records
      BY <1>1, <3>1 DEF FileStates
    <3> QED BY <1>1, <1>5, <3>2, <3>3
  <2> QED BY <1>1, <1>4, <2>3, <2>4, <2>5, CommandGoesOn
<1>9. CASE SpawnSender(c)
  <2>1. PICK h : h = recording[c].holds
    OBVIOUS
  <2>2. sender' = [sender EXCEPT ![h].at = "read"] /\ file' = file /\ recording' = [recording EXCEPT ![c] = Idle]
    BY <1>9, <2>1 DEF SpawnSender, Done
  <2>3. CASE h \in Files
    <3>1. PICK q : q = [sender[h] EXCEPT !.at = "read"]
      OBVIOUS
    <3>2. sender[h] \in Senders
      BY <1>1, <2>3
    <3>3. q \in Senders /\ q.records = sender[h].records
      BY <3>1, <3>2 DEF Senders
    <3>4. sender' = [sender EXCEPT ![h] = q]
      BY <2>2, <3>1
    <3>5. sender' \in [Files -> Senders] /\ \A f \in Files : sender'[f].records = sender[f].records
      BY <1>1, <2>3, <3>3, <3>4
    <3> QED BY <1>1, <1>2, <1>4, <1>5, <2>2, <3>5, CommandGoesOn
  <2>4. CASE h \notin Files
    <3>1. sender' = sender
      BY <1>1, <2>2, <2>4
    <3> QED BY <1>1, <1>2, <1>4, <1>5, <2>2, <3>1, CommandGoesOn
  <2> QED BY <2>3, <2>4
<1> QED BY <1>6, <1>7, <1>8, <1>9, <1>10

(* The senders.                                                             *)
LEMMA SenderStep == ASSUME CountInv, NEW f \in Files, Sending(f) PROVE CountInv'
<1>1. /\ file \in [Files -> FileStates] /\ recording \in [Invocations -> Recordings] /\ sender \in [Files -> Senders]
      /\ file[f] \in FileStates /\ sender[f] \in Senders
  BY DEF CountInv, Typed
<1>2. UNCHANGED <<now, began, recording>>
  BY DEF Sending, Read, Post, RemoveBatch, GiveUp
<1>3. (\A c \in Invocations : Holding(c)' => Holding(c) /\ recording'[c].record = recording[c].record)
      /\ \A c \in Invocations : recording'[c].at = "write" => recording'[c].holds \in Files
  BY <1>2 DEF Holding, CountInv, Held
<1>4. ASSUME NEW q \in Senders, sender' = [sender EXCEPT ![f] = q], NEW p \in FileStates, file' = [file EXCEPT ![f] = p],
             p.records = file[f].records, q.records \in {sender[f].records, <<>>, file[f].records}
      PROVE  /\ Typed' /\ SameRecords /\ file' \in [Files -> FileStates] /\ sender'[f] = q
             /\ \A g \in Files : sender'[g].records \in {sender[g].records, <<>>, file[g].records}
  BY <1>1, <1>2, <1>4 DEF CountInv, Typed, SameRecords
<1>5. file' = file => file' = [file EXCEPT ![f] = file[f]]
  BY <1>1
<1>6. PICK none : none = [at |-> "none", records |-> <<>>]
  OBVIOUS
<1>7. none \in Senders /\ none.records = <<>>
  BY <1>6 DEF Senders
<1>8. CASE Read(f)
  <2>1. PICK q : q = IF file[f].name = "batch" THEN [at |-> "post", records |-> file[f].records] ELSE none
    OBVIOUS
  <2>2. q \in Senders /\ q.records \in {<<>>, file[f].records}
    BY <1>1, <1>7, <2>1 DEF Senders, FileStates
  <2>3. sender' = [sender EXCEPT ![f] = q] /\ file' = file /\ server' = server
    BY <1>6, <1>8, <2>1 DEF Read
  <2> QED BY <1>1, <1>2, <1>3, <1>4, <1>5, <2>2, <2>3, NothingWritten
<1>9. CASE RemoveBatch(f) \/ GiveUp(f)
  <2>1. PICK p : p \in {[file[f] EXCEPT !.name = "gone"], [file[f] EXCEPT !.tried = TRUE]} /\ file' = [file EXCEPT ![f] = p]
    BY <1>9 DEF RemoveBatch, GiveUp
  <2>2. p \in FileStates /\ p.records = file[f].records
    BY <1>1, <2>1 DEF FileStates
  <2>3. sender' = [sender EXCEPT ![f] = none] /\ server' = server
    BY <1>6, <1>9 DEF RemoveBatch, GiveUp
  <2> QED BY <1>2, <1>3, <1>4, <1>7, <2>1, <2>2, <2>3, NothingWritten
<1>10. CASE Post(f)
  <2>1. PICK q : q \in {[sender[f] EXCEPT !.at = "accepted"], [sender[f] EXCEPT !.at = "failed"]}
                 /\ sender' = [sender EXCEPT ![f] = q]
    BY <1>10 DEF Post
  <2>2. q \in Senders /\ q.records = sender[f].records
    BY <1>1, <2>1 DEF Senders
  <2>3. Typed' /\ file' = file /\ \A g \in Files : sender'[g].records = sender[g].records
    BY <1>1, <1>2, <1>10, <2>1, <2>2 DEF Post, CountInv, Typed
  <2>4. Numbered' /\ Held'
    BY <1>2, <2>3 DEF CountInv, Numbered, Held, Holding
  <2>5. server' \subseteq server \cup Payload(f)
    BY <1>10 DEF Post
  <2>6. \A s \in Payload(f) : \E i \in DOMAIN file[f].records : s = <<f, i, file[f].records[i]>>
    BY DEF Payload, CountInv, Sent
  <2>7. Sent'
    BY <2>3, <2>5, <2>6 DEF CountInv, Sent
  <2> QED BY <2>3, <2>4, <2>7 DEF CountInv
<1> QED BY <1>8, <1>9, <1>10 DEF Sending

LEMMA CountStep == CountInv /\ [TelemetryNext]_telemetryVars => CountInv'
<1> SUFFICES ASSUME CountInv, [TelemetryNext]_telemetryVars PROVE CountInv'
  OBVIOUS
<1>1. CASE UNCHANGED telemetryVars
  BY <1>1 DEF telemetryVars, CountInv, Typed, Numbered, Held, Holding, Sent
<1>2. CASE Tick
  BY <1>2 DEF Tick, CountInv, Typed, Numbered, Held, Holding, Sent
<1>3. ASSUME NEW c \in Invocations, Command(c) PROVE CountInv'
  BY <1>3, FinishStep, OpenStep, WriteStep, LaterSteps DEF Command
<1> QED BY <1>1, <1>2, <1>3, SenderStep DEF TelemetryNext

(* telemetry.rs: the endpoint never takes one record under two batches or   *)
(* numbers, so that it can drop repeats: for any invocations, limits and    *)
(* times, and also where a command writes to a file that another one        *)
(* rotated.                                                                 *)
THEOREM RecordsCountOnce == ASSUME TelemetryAssumption PROVE TelemetrySpec => []CountedOnce
<1>1. CountInv => CountedOnce
  BY DEF CountInv, Sent, Numbered, CountedOnce
<1> QED BY <1>1, CountStarts, CountStep, PTL DEF TelemetrySpec

-----------------------------------------------------------------------------
(* A step that makes no batch and lists none, in which files only grow and  *)
(* batches only go.                                                         *)
LEMMA KeptQuietly ==
    ASSUME TelemetryAssumption, CountInv, CountInv', Kept, Reading', now <= now', UNCHANGED ghosts,
           \A f \in Files : IsBatch(f)' <=> IsBatch(f),
           \A f \in Files : IsBatch(f) => file'[f].time = file[f].time /\ (file'[f].name = "batch" => file[f].name = "batch"),
           \A f \in Files : DOMAIN file[f].records \subseteq DOMAIN file'[f].records,
           \A c \in Invocations : recording'[c].at = "remove" =>
               recording[c].at = "remove" /\ recording'[c].old \subseteq recording[c].old /\ recording'[c].extra \subseteq recording[c].extra
    PROVE  Kept'
<1>1. Rotated'
  BY DEF Kept, Rotated, Has, ghosts
<1>2. \A f \in Files : file[f].time \in Nat /\ file'[f].time \in Nat
  BY DEF CountInv, Typed, FileStates
<1>3. \A f \in Files : IsBatch(f) /\ TooOld(f) => TooOld(f)'
  BY <1>2 DEF TooOld, CountInv, Typed, TelemetryAssumption
<1>4. Dropping'
  BY <1>3 DEF Kept, Dropping, ghosts
<1>5. Named("batch")' \subseteq Named("batch") /\ Named("batch") \subseteq Files
  BY DEF Named, IsBatch
<1>6. IsFiniteSet(Files)
  BY FS_Interval DEF Files, TelemetryAssumption
<1>7. ASSUME NEW f \in Named("batch")', Cardinality(NoOlder(f)') >= MaxBatches PROVE f \in crowded'
  <2>1. NoOlder(f)' \subseteq NoOlder(f)
    BY <1>5, <1>7 DEF NoOlder, Named, IsBatch
  <2>2. IsFiniteSet(NoOlder(f))
    BY <1>5, <1>6, FS_Subset DEF NoOlder
  <2>3. Cardinality(NoOlder(f)') <= Cardinality(NoOlder(f)) /\ Cardinality(NoOlder(f)) \in Nat /\ Cardinality(NoOlder(f)') \in Nat
    BY <2>1, <2>2, FS_Subset, FS_CardinalityType
  <2>4. Cardinality(NoOlder(f)) >= MaxBatches
    BY <1>7, <2>3 DEF TelemetryAssumption
  <2> QED BY <1>5, <1>7, <2>4 DEF Kept, Crowding, ghosts
<1>8. Crowding'
  BY <1>7 DEF Crowding
<1> QED BY <1>1, <1>4, <1>8 DEF Kept

(* Senders that do nothing, or begin.                                       *)
LEMMA ReadingOn ==
    ASSUME Kept, UNCHANGED <<server, ghosts>>, \A f \in Files : IsBatch(f) => IsBatch(f)',
           \A f \in Files : sender'[f] = sender[f] \/ sender'[f].at \in {"none", "read"}
    PROVE  Reading'
BY DEF Kept, Reading, Has, ghosts

(* A command that does not change what is a batch.                          *)
LEMMA CommandKeeps ==
    ASSUME TelemetryAssumption, CountInv, CountInv', Kept, NEW c \in Invocations, NEW p, recording' = [recording EXCEPT ![c] = p],
           p.at = "remove" => /\ recording[c].at = "remove" /\ p.old \subseteq recording[c].old
                              /\ p.extra \subseteq recording[c].extra,
           UNCHANGED <<now, server, ghosts>>,
           \A f \in Files : IsBatch(f)' <=> IsBatch(f),
           \A f \in Files : IsBatch(f) => file'[f].time = file[f].time /\ (file'[f].name = "batch" => file[f].name = "batch"),
           \A f \in Files : DOMAIN file[f].records \subseteq DOMAIN file'[f].records,
           \A f \in Files : sender'[f] = sender[f] \/ sender'[f].at \in {"none", "read"}
    PROVE  Kept'
<1>1. recording'[c] = p /\ \A d \in Invocations \ {c} : recording'[d] = recording[d]
  BY DEF CountInv, Typed
<1>2. now <= now'
  BY DEF CountInv, Typed
<1>3. Reading'
  BY ReadingOn
<1>4. \A d \in Invocations : recording'[d].at = "remove" =>
          recording[d].at = "remove" /\ recording'[d].old \subseteq recording[d].old /\ recording'[d].extra \subseteq recording[d].extra
  BY <1>1
<1> QED BY <1>2, <1>3, <1>4, KeptQuietly

LEMMA EarlyKeeps ==
    ASSUME TelemetryAssumption, CountInv, CountInv', Kept, NEW c \in Invocations, Open(c) \/ Write(c)
    PROVE  Kept'
<1>1. /\ file \in [Files -> FileStates] /\ recording \in [Invocations -> Recordings] /\ recording[c] \in Recordings
  BY DEF CountInv, Typed
<1>2. UNCHANGED <<now, sender, server, ghosts>>
  BY DEF Open, Write
<1>3. CASE Open(c)
  <2>1. PICK f \in Files :
            /\ IF Named("events") = {} THEN Fresh(f) ELSE f \in Named("events")
            /\ file' = [file EXCEPT ![f].name = "events"]
            /\ recording' = [recording EXCEPT ![c] = [@ EXCEPT !.at = "write", !.holds = f]]
    BY <1>3 DEF Open
  <2>2. PICK q : q = [file[f] EXCEPT !.name = "events"]
    OBVIOUS
  <2>3. PICK p : p = [recording[c] EXCEPT !.at = "write", !.holds = f]
    OBVIOUS
  <2>4. q.name = "events" /\ q.records = file[f].records /\ file[f].name \in {"unused", "events"} /\ p.at = "write"
    BY <1>1, <2>1, <2>2, <2>3 DEF FileStates, Recordings, Fresh, Named
  <2>5. file' = [file EXCEPT ![f] = q] /\ recording' = [recording EXCEPT ![c] = p]
    BY <2>1, <2>2, <2>3
  <2>6. file'[f] = q /\ \A g \in Files \ {f} : file'[g] = file[g]
    BY <1>1, <2>5
  <2>7. \A g \in Files : /\ IsBatch(g)' <=> IsBatch(g)
                         /\ IsBatch(g) => file'[g].time = file[g].time /\ (file'[g].name = "batch" => file[g].name = "batch")
                         /\ DOMAIN file[g].records \subseteq DOMAIN file'[g].records
    BY <2>4, <2>6 DEF IsBatch
  <2> QED BY <1>2, <2>4, <2>5, <2>7, CommandKeeps
<1>4. CASE Write(c)
  <2>1. PICK h : h = recording[c].holds
    OBVIOUS
  <2>2. h \in Files /\ file[h] \in FileStates /\ file[h].records \in Seq(Nat) /\ recording[c].record \in Nat
    BY <1>1, <1>4, <2>1 DEF CountInv, Held, Write, Doing, Holding, FileStates
  <2>3. PICK grown : grown = Append(file[h].records, recording[c].record)
    OBVIOUS
  <2>4. PICK q : q = [file[h] EXCEPT !.records = grown]
    OBVIOUS
  <2>5. /\ q.name = file[h].name /\ q.time = file[h].time /\ q.records = grown
        /\ DOMAIN file[h].records \subseteq DOMAIN grown
    BY <2>2, <2>3, <2>4 DEF FileStates
  <2>6. file' = [file EXCEPT ![h] = q]
    BY <1>4, <2>1, <2>3, <2>4 DEF Write
  <2>7. file'[h] = q /\ \A g \in Files \ {h} : file'[g] = file[g]
    BY <1>1, <2>2, <2>6
  <2>8. PICK p : p = [recording[c] EXCEPT !.at = "decide"]
    OBVIOUS
  <2>9. p.at = "decide" /\ recording' = [recording EXCEPT ![c] = p]
    BY <1>1, <1>4, <2>8 DEF Recordings, Write, GoOn
  <2>10. \A g \in Files : /\ IsBatch(g)' <=> IsBatch(g)
                          /\ IsBatch(g) => file'[g].time = file[g].time /\ (file'[g].name = "batch" => file[g].name = "batch")
                          /\ DOMAIN file[g].records \subseteq DOMAIN file'[g].records
    BY <2>5, <2>7 DEF IsBatch
  <2> QED BY <1>2, <2>9, <2>10, CommandKeeps
<1> QED BY <1>3, <1>4

(* The rename of the log is the one step that makes a batch.                *)
LEMMA RotateKeeps ==
    ASSUME TelemetryAssumption, CountInv, CountInv', Kept, NEW c \in Invocations, Rotate(c)
    PROVE  Kept'
<1>1. /\ file \in [Files -> FileStates] /\ recording \in [Invocations -> Recordings] /\ recording[c] \in Recordings
      /\ Idle.at = "idle" /\ now \in Nat
  BY DEF CountInv, Typed, Idle
<1>2. UNCHANGED <<now, sender, server>>
  BY DEF Rotate
<1>3. CASE Done(c) /\ file' = file /\ UNCHANGED ghosts
  BY <1>1, <1>2, <1>3, CommandKeeps DEF Done, IsBatch
<1>4. ASSUME NEW f \in Named("events"), BecomesBatch(f),
             file' = [file EXCEPT ![f] = [@ EXCEPT !.name = "batch", !.time = now]],
             recording' = [recording EXCEPT ![c] = [@ EXCEPT !.at = "cleanup", !.holds = f]]
      PROVE  Kept'
  <2>1. PICK q : q = [file[f] EXCEPT !.name = "batch", !.time = now]
    OBVIOUS
  <2>2. PICK p : p = [recording[c] EXCEPT !.at = "cleanup", !.holds = f]
    OBVIOUS
  <2>3. f \in Files /\ file[f] \in FileStates /\ file[f].name = "events"
    BY <1>1 DEF Named
  <2>4. q.name = "batch" /\ q.records = file[f].records /\ q.time = now /\ p.at = "cleanup"
    BY <1>1, <2>1, <2>2, <2>3 DEF FileStates, Recordings
  <2>5. file' = [file EXCEPT ![f] = q] /\ recording' = [recording EXCEPT ![c] = p]
    BY <1>4, <2>1, <2>2
  <2>6. /\ file'[f] = q /\ \A g \in Files \ {f} : file'[g] = file[g]
        /\ recording'[c] = p /\ \A d \in Invocations \ {c} : recording'[d] = recording[d]
    BY <1>1, <2>3, <2>5
  <2>7. /\ \A g \in Files \ {f} : IsBatch(g)' <=> IsBatch(g)
        /\ IsBatch(f)' /\ ~IsBatch(f)
    BY <2>3, <2>4, <2>6 DEF IsBatch
  <2>8. /\ logged'[f] = Len(file[f].records) /\ \A g \in Files \ {f} : logged'[g] = logged[g]
        /\ crowded \subseteq crowded'
    BY <2>3, <1>4 DEF BecomesBatch, Kept, Rotated
  <2>9. file[f].records \in Seq(Nat)
    BY <2>3 DEF FileStates
  <2>10. Rotated'
    <3>1. logged' \in [Files -> Nat]
      <4>1. Len(file[f].records) \in Nat
        BY <2>9
      <4> QED BY <1>4, <2>3, <4>1 DEF BecomesBatch, Kept, Rotated
    <3>2. Has(file'[f].records, logged'[f])
      BY <2>4, <2>6, <2>8, <2>9 DEF Has
    <3>3. \A g \in Files \ {f} : IsBatch(g)' => Has(file'[g].records, logged'[g])
      BY <2>6, <2>7, <2>8 DEF Kept, Rotated
    <3> QED BY <3>1, <3>2, <3>3 DEF Rotated, Has
  <2>11. Reading'
    BY <1>2, <2>7, <2>8 DEF Kept, Reading, Has
  <2>12. Dropping'
    <3> SUFFICES ASSUME NEW d \in Invocations, recording'[d].at = "remove"
                 PROVE  /\ \A g \in recording'[d].old \cup recording'[d].extra : g \in Files /\ IsBatch(g)'
                        /\ \A g \in recording'[d].old : TooOld(g)'
                        /\ recording'[d].extra \subseteq crowded'
      BY DEF Dropping
    <3>1. recording'[d] = recording[d] /\ recording[d].at = "remove"
      BY <2>4, <2>6
    <3>2. \A g \in recording[d].old \cup recording[d].extra : g \in Files /\ IsBatch(g) /\ g # f
      BY <3>1, <2>7 DEF Kept, Dropping
    <3>3. \A g \in recording[d].old : TooOld(g)
      BY <3>1 DEF Kept, Dropping
    <3>4. \A g \in recording[d].old : TooOld(g)'
      BY <3>2, <3>3, <2>6, <1>2 DEF TooOld
    <3>5. recording[d].extra \subseteq crowded
      BY <3>1 DEF Kept, Dropping
    <3> QED BY <3>1, <3>2, <3>4, <3>5, <2>7, <2>8
  <2>13. Crowding'
    <3> SUFFICES ASSUME NEW g \in Named("batch")', Cardinality(NoOlder(g)') >= MaxBatches PROVE g \in crowded'
      BY DEF Crowding
    <3> DEFINE times == [h \in Files |-> IF h = f THEN now ELSE file[h].time]
               beside == {h \in (Named("batch") \cup {f}) \ {g} : times[g] <= times[h]}
    <3>1. Named("batch")' = Named("batch") \cup {f}
      BY <2>3, <2>4, <2>6 DEF Named
    <3>2. \A h \in Files : file'[h].time = times[h]
      BY <2>4, <2>6
    <3>3. \A h \in Named("batch") \cup {f} : h \in Files
      BY <2>3 DEF Named
    <3>4. NoOlder(g)' = beside
      <4> HIDE DEF times
      <4> QED BY <3>1, <3>2, <3>3 DEF NoOlder
    <3>5. crowded' = crowded \cup {h \in Named("batch") \cup {f} :
                         Cardinality({k \in (Named("batch") \cup {f}) \ {h} : times[h] <= times[k]}) >= MaxBatches}
      BY <1>4 DEF BecomesBatch
    <3> QED BY <3>1, <3>4, <3>5
  <2> QED BY <2>10, <2>11, <2>12, <2>13 DEF Kept
<1> QED BY <1>3, <1>4 DEF Rotate

(* What is listed for removal is too old, or beside enough others.          *)
LEMMA ListingKeeps ==
    ASSUME TelemetryAssumption, CountInv, CountInv', Kept, NEW c \in Invocations, Cleanup(c)
    PROVE  Kept'
<1>1. /\ file \in [Files -> FileStates] /\ recording \in [Invocations -> Recordings] /\ recording[c] \in Recordings
  BY DEF CountInv, Typed
<1> DEFINE old == {f \in Named("batch") : TooOld(f)}
           kept == Named("batch") \ old
<1>2. PICK out \in Surplus(kept) :
          recording' = [recording EXCEPT ![c] = [@ EXCEPT !.at = "remove", !.old = old, !.extra = out]]
  BY DEF Cleanup
<1>3. UNCHANGED <<now, file, sender, server, ghosts>>
  BY DEF Cleanup
<1>4. PICK p : p = [recording[c] EXCEPT !.at = "remove", !.old = old, !.extra = out]
  OBVIOUS
<1>5. p.old = old /\ p.extra = out
  <2> HIDE DEF old
  <2> QED BY <1>1, <1>4 DEF Recordings
<1>6. recording'[c] = p /\ \A d \in Invocations \ {c} : recording'[d] = recording[d]
  <2> HIDE DEF old
  <2> QED BY <1>1, <1>2, <1>4
<1>7. ASSUME NEW f \in out PROVE f \in crowded
  <2>1. IsFiniteSet(Files)
    BY FS_Interval DEF Files, TelemetryAssumption
  <2>2. Named("batch") \subseteq Files /\ kept \subseteq Named("batch") /\ out \subseteq kept
    BY <1>2 DEF Named, Surplus
  <2>3. IsFiniteSet(Named("batch")) /\ IsFiniteSet(kept) /\ IsFiniteSet(out)
    BY <2>1, <2>2, FS_Subset
  <2>4. Cardinality(out) # 0
    BY <1>7, <2>3, FS_EmptySet
  <2>5. Cardinality(out) = Cardinality(kept) - MaxBatches /\ \A g \in out, h \in kept \ out : file[g].time <= file[h].time
    <3> HIDE DEF kept
    <3> QED BY <1>2, <2>4 DEF Surplus
  <2>6. Cardinality(kept \ out) = Cardinality(kept) - Cardinality(out) /\ Cardinality(kept) \in Nat /\ Cardinality(out) \in Nat
    <3>1. kept \cap out = out
      BY <2>2
    <3> QED BY <2>3, <3>1, FS_Difference, FS_CardinalityType
  <2>7. Cardinality(kept \ out) = MaxBatches
    <3> HIDE DEF kept
    <3> QED BY <2>5, <2>6 DEF TelemetryAssumption
  <2>8. kept \ out \subseteq NoOlder(f)
    <3>1. \A h \in kept \ out : h \in Named("batch") /\ h # f /\ file[f].time <= file[h].time
      BY <1>7, <2>2, <2>5
    <3> QED BY <3>1 DEF NoOlder
  <2>9. IsFiniteSet(NoOlder(f))
    BY <2>3, FS_Subset DEF NoOlder
  <2>10. Cardinality(kept \ out) <= Cardinality(NoOlder(f))
    BY <2>8, <2>9, FS_Subset
  <2>11. Cardinality(NoOlder(f)) >= MaxBatches
    <3>1. Cardinality(NoOlder(f)) \in Nat
      BY <2>9, FS_CardinalityType
    <3> HIDE DEF kept
    <3> QED BY <2>7, <2>10, <3>1 DEF TelemetryAssumption
  <2> QED BY <1>7, <2>2, <2>11 DEF Kept, Crowding
<1>8. Dropping'
  <2> SUFFICES ASSUME NEW d \in Invocations, recording'[d].at = "remove"
               PROVE  /\ \A f \in recording'[d].old \cup recording'[d].extra : f \in Files /\ IsBatch(f)'
                      /\ \A f \in recording'[d].old : TooOld(f)'
                      /\ recording'[d].extra \subseteq crowded'
    BY DEF Dropping
  <2>1. UNCHANGED <<now, file, crowded>>
    BY <1>3 DEF ghosts
  <2>2. CASE d = c
    <3>1. out \subseteq Named("batch")
      BY <1>2 DEF Surplus
    <3> QED BY <1>5, <1>6, <1>7, <2>1, <2>2, <3>1 DEF Named, IsBatch, TooOld
  <2>3. CASE d # c
    <3>1. recording'[d] = recording[d] /\ recording[d].at = "remove"
      BY <1>6, <2>3
    <3> QED BY <2>1, <3>1 DEF Kept, Dropping, IsBatch, TooOld
  <2> QED BY <2>2, <2>3
<1>9. Rotated' /\ Reading' /\ Crowding'
  BY <1>3 DEF Kept, Rotated, Reading, Crowding, IsBatch, Has, NoOlder, Named, ghosts
<1> QED BY <1>8, <1>9 DEF Kept

LEMMA LaterKeeps ==
    ASSUME TelemetryAssumption, CountInv, CountInv', Kept, NEW c \in Invocations,
           Finish(c) \/ Decide(c) \/ GuardSlot(c) \/ RemoveStale(c) \/ Cleaned(c) \/ SpawnSender(c) \/ EndsEarly(c)
    PROVE  Kept'
<1>1. /\ file \in [Files -> FileStates] /\ recording \in [Invocations -> Recordings] /\ recording[c] \in Recordings
      /\ sender \in [Files -> Senders] /\ Idle.at = "idle"
  BY DEF CountInv, Typed, Idle
<1>2. UNCHANGED <<now, server, ghosts>>
  BY DEF Finish, Decide, GuardSlot, RemoveStale, Cleaned, SpawnSender, EndsEarly
<1>3. ASSUME file' = file
      PROVE  /\ \A f \in Files : IsBatch(f)' <=> IsBatch(f)
             /\ \A f \in Files : IsBatch(f) => file'[f].time = file[f].time /\ (file'[f].name = "batch" => file[f].name = "batch")
             /\ \A f \in Files : DOMAIN file[f].records \subseteq DOMAIN file'[f].records
  BY <1>3 DEF IsBatch
<1>4. CASE Finish(c)
  <2>1. PICK p : p = [recording[c] EXCEPT !.at = "open", !.record = began + 1]
    OBVIOUS
  <2>2. p.at = "open" /\ recording' = [recording EXCEPT ![c] = p] /\ file' = file /\ sender' = sender
    BY <1>1, <1>4, <2>1 DEF Recordings, Finish
  <2> QED BY <1>2, <1>3, <2>2, CommandKeeps
<1>5. CASE Decide(c) \/ GuardSlot(c) \/ Cleaned(c) \/ EndsEarly(c)
  <2>1. PICK p : p \in {Idle, [recording[c] EXCEPT !.at = "guard"], [recording[c] EXCEPT !.at = "rotate"],
                        [recording[c] EXCEPT !.at = "spawn"]}
                 /\ recording' = [recording EXCEPT ![c] = p]
    BY <1>5 DEF Decide, GuardSlot, Cleaned, EndsEarly, Done, GoOn
  <2>2. p.at \in {"idle", "guard", "rotate", "spawn"}
    BY <1>1, <2>1 DEF Recordings
  <2>3. file' = file /\ sender' = sender
    BY <1>5 DEF Decide, GuardSlot, Cleaned, EndsEarly
  <2> QED BY <1>2, <1>3, <2>1, <2>2, <2>3, CommandKeeps
<1>6. CASE RemoveStale(c)
  <2>1. PICK f \in First(c) :
            /\ file' = [file EXCEPT ![f].name = "gone"]
            /\ recording' = [recording EXCEPT ![c] = [@ EXCEPT !.old = recording[c].old \ {f}, !.extra = recording[c].extra \ {f}]]
    BY <1>6 DEF RemoveStale
  <2>2. f \in Files /\ IsBatch(f) /\ recording[c].at = "remove"
    BY <1>6, <2>1 DEF First, RemoveStale, Doing, Kept, Dropping
  <2>3. PICK p : p = [recording[c] EXCEPT !.old = recording[c].old \ {f}, !.extra = recording[c].extra \ {f}]
    OBVIOUS
  <2>4. p.old \subseteq recording[c].old /\ p.extra \subseteq recording[c].extra
    BY <1>1, <2>3 DEF Recordings
  <2>5. PICK q : q = [file[f] EXCEPT !.name = "gone"]
    OBVIOUS
  <2>6. q.name = "gone" /\ q.records = file[f].records /\ q.time = file[f].time
    BY <1>1, <2>2, <2>5 DEF FileStates
  <2>7. file' = [file EXCEPT ![f] = q] /\ recording' = [recording EXCEPT ![c] = p] /\ sender' = sender
    BY <1>6, <2>1, <2>3, <2>5 DEF RemoveStale
  <2>8. file'[f] = q /\ \A g \in Files \ {f} : file'[g] = file[g]
    BY <1>1, <2>2, <2>7
  <2>9. \A g \in Files : /\ IsBatch(g)' <=> IsBatch(g)
                         /\ IsBatch(g) => file'[g].time = file[g].time /\ (file'[g].name = "batch" => file[g].name = "batch")
                         /\ DOMAIN file[g].records \subseteq DOMAIN file'[g].records
    BY <2>2, <2>6, <2>8 DEF IsBatch
  <2> QED BY <1>2, <2>2, <2>4, <2>7, <2>9, CommandKeeps
<1>7. CASE SpawnSender(c)
  <2>1. PICK h : h = recording[c].holds
    OBVIOUS
  <2>2. PICK q : q = [sender[h] EXCEPT !.at = "read"]
    OBVIOUS
  <2>3. sender' = [sender EXCEPT ![h] = q] /\ file' = file /\ recording' = [recording EXCEPT ![c] = Idle]
    BY <1>7, <2>1, <2>2 DEF SpawnSender, Done
  <2>4. h \in Files => q.at = "read"
    BY <1>1, <2>2 DEF Senders
  <2>5. \A f \in Files : sender'[f] = sender[f] \/ sender'[f].at \in {"none", "read"}
    BY <1>1, <2>3, <2>4
  <2> QED BY <1>1, <1>2, <1>3, <2>3, <2>5, CommandKeeps
<1> QED BY <1>4, <1>5, <1>6, <1>7

LEMMA SenderKeeps == ASSUME TelemetryAssumption, CountInv, CountInv', Kept, NEW f \in Files, Sending(f) PROVE Kept'
<1>1. /\ file \in [Files -> FileStates] /\ sender \in [Files -> Senders]
      /\ file[f] \in FileStates /\ sender[f] \in Senders
  BY DEF CountInv, Typed
<1>2. UNCHANGED <<now, recording, ghosts>> /\ server \subseteq server' /\ now <= now'
  BY DEF Sending, Read, Post, RemoveBatch, GiveUp, CountInv, Typed
<1>3. ASSUME NEW q, sender' = [sender EXCEPT ![f] = q], NEW p, file' = [file EXCEPT ![f] = p],
             p.records = file[f].records, p.time = file[f].time,
             p.name = file[f].name \/ (IsBatch(f) /\ p.name = "gone"),
             q.at \in {"post", "accepted", "failed"} => IsBatch(f) /\ Has(q.records, logged[f]),
             q.at = "accepted" => \A i \in DOMAIN q.records : \E t \in server' : t[3] = q.records[i]
      PROVE  Kept'
  <2>1. /\ sender'[f] = q /\ \A g \in Files \ {f} : sender'[g] = sender[g]
        /\ file'[f] = p /\ \A g \in Files \ {f} : file'[g] = file[g]
    BY <1>1, <1>3
  <2>2. \A g \in Files : /\ IsBatch(g)' <=> IsBatch(g)
                         /\ IsBatch(g) => file'[g].time = file[g].time /\ (file'[g].name = "batch" => file[g].name = "batch")
                         /\ DOMAIN file[g].records \subseteq DOMAIN file'[g].records
    BY <1>3, <2>1 DEF IsBatch
  <2>3. Reading'
    <3> SUFFICES ASSUME NEW g \in Files, sender'[g].at \in {"post", "accepted", "failed"}
                 PROVE  /\ IsBatch(g)' /\ Has(sender'[g].records, logged'[g])
                        /\ sender'[g].at = "accepted" =>
                               \A i \in DOMAIN sender'[g].records : \E t \in server' : t[3] = sender'[g].records[i]
      BY DEF Reading, Has
    <3>1. logged' = logged
      BY <1>2 DEF ghosts
    <3>2. CASE g = f
      BY <1>3, <2>1, <2>2, <3>1, <3>2
    <3>3. CASE g # f
      <4>1. sender'[g] = sender[g]
        BY <2>1, <3>3
      <4>2. IsBatch(g) /\ Has(sender[g].records, logged[g])
        BY <4>1 DEF Kept, Reading
      <4>3. sender[g].at = "accepted" =>
                \A i \in DOMAIN sender[g].records : \E t \in server : t[3] = sender[g].records[i]
        BY <4>1 DEF Kept, Reading
      <4> QED BY <1>2, <2>2, <3>1, <4>1, <4>2, <4>3
    <3> QED BY <3>2, <3>3
  <2> QED BY <1>2, <2>2, <2>3, KeptQuietly
<1>4. file' = file => file' = [file EXCEPT ![f] = file[f]]
  BY <1>1
<1>5. PICK none : none = [at |-> "none", records |-> <<>>]
  OBVIOUS
<1>6. none.at = "none"
  BY <1>5
<1>7. CASE Read(f)
  <2>1. PICK q : q = IF file[f].name = "batch" THEN [at |-> "post", records |-> file[f].records] ELSE none
    OBVIOUS
  <2>2. /\ q.at \in {"post", "none"}
        /\ q.at = "post" => file[f].name = "batch" /\ q.records = file[f].records
    BY <1>6, <2>1
  <2>3. sender' = [sender EXCEPT ![f] = q] /\ file' = file
    BY <1>5, <1>7, <2>1 DEF Read
  <2>4. q.at = "post" => IsBatch(f) /\ Has(q.records, logged[f])
    BY <2>2 DEF IsBatch, Kept, Rotated
  <2> QED BY <1>3, <1>4, <2>2, <2>3, <2>4
<1>8. CASE RemoveBatch(f)
  <2>1. PICK p : p = [file[f] EXCEPT !.name = "gone"]
    OBVIOUS
  <2>2. p.name = "gone" /\ p.records = file[f].records /\ p.time = file[f].time /\ IsBatch(f)
    BY <1>1, <1>8, <2>1 DEF FileStates, RemoveBatch, Kept, Reading
  <2>3. sender' = [sender EXCEPT ![f] = none] /\ file' = [file EXCEPT ![f] = p]
    BY <1>5, <1>8, <2>1 DEF RemoveBatch
  <2> QED BY <1>3, <1>6, <2>2, <2>3
<1>9. CASE GiveUp(f)
  <2>1. PICK p : p = [file[f] EXCEPT !.tried = TRUE]
    OBVIOUS
  <2>2. p.name = file[f].name /\ p.records = file[f].records /\ p.time = file[f].time
    BY <1>1, <2>1 DEF FileStates
  <2>3. sender' = [sender EXCEPT ![f] = none] /\ file' = [file EXCEPT ![f] = p]
    BY <1>5, <1>9, <2>1 DEF GiveUp
  <2> QED BY <1>3, <1>6, <2>2, <2>3
<1>10. CASE Post(f)
  <2>1. PICK taken \in BOOLEAN, answered \in BOOLEAN :
            /\ server' = IF taken THEN server \cup Payload(f) ELSE server
            /\ sender' = [sender EXCEPT ![f].at = IF taken /\ answered THEN "accepted" ELSE "failed"]
    BY <1>10 DEF Post
  <2>2. PICK end : end = IF taken /\ answered THEN "accepted" ELSE "failed"
    OBVIOUS
  <2>3. PICK q : q = [sender[f] EXCEPT !.at = end]
    OBVIOUS
  <2>4. q.at = end /\ q.records = sender[f].records /\ sender' = [sender EXCEPT ![f] = q]
    BY <1>1, <2>1, <2>2, <2>3 DEF Senders
  <2>5. IsBatch(f) /\ Has(sender[f].records, logged[f]) /\ file' = file
    BY <1>10 DEF Post, Kept, Reading
  <2>6. ASSUME end = "accepted", NEW i \in DOMAIN q.records PROVE \E t \in server' : t[3] = q.records[i]
    <3>1. server' = server \cup Payload(f)
      BY <2>1, <2>2, <2>6
    <3>2. PICK t : t = <<f, i, sender[f].records[i]>>
      OBVIOUS
    <3>3. t \in Payload(f) /\ t[3] = q.records[i]
      BY <2>4, <2>6, <3>2 DEF Payload
    <3> QED BY <3>1, <3>3
  <2> QED BY <1>3, <1>4, <2>4, <2>5, <2>6
<1> QED BY <1>7, <1>8, <1>9, <1>10 DEF Sending

LEMMA KeptStep == ASSUME TelemetryAssumption PROVE CountInv /\ CountInv' /\ Kept /\ [TelemetryNext]_telemetryVars => Kept'
<1> SUFFICES ASSUME CountInv, CountInv', Kept, [TelemetryNext]_telemetryVars PROVE Kept'
  OBVIOUS
<1>1. CASE UNCHANGED telemetryVars
  BY <1>1 DEF telemetryVars, ghosts, Kept, Rotated, Reading, Dropping, Crowding, IsBatch, Has, NoOlder, Named, TooOld
<1>2. CASE Tick
  <2>1. UNCHANGED <<file, recording, sender, server, ghosts>> /\ now <= now'
    BY <1>2 DEF Tick, CountInv, Typed
  <2>2. Reading'
    BY <2>1, ReadingOn DEF IsBatch
  <2> QED BY <2>1, <2>2, KeptQuietly DEF IsBatch
<1>3. ASSUME NEW c \in Invocations, Command(c) PROVE Kept'
  BY <1>3, EarlyKeeps, RotateKeeps, ListingKeeps, LaterKeeps DEF Command
<1> QED BY <1>1, <1>2, <1>3, SenderKeeps DEF TelemetryNext

(* telemetry.rs, "records are kept locally": a record that was in the log   *)
(* when it was rotated leaves the disk only if the endpoint took it, or its *)
(* batch was too old, or there were MaxBatches others that were not older:  *)
(* for any invocations, limits and times, and whatever happens between the  *)
(* listing of the batches and their removal.                                *)
THEOREM RecordsStayUntilTaken == ASSUME TelemetryAssumption PROVE TelemetrySpec => KeptUntilTaken
<1>1. CountInv /\ Kept /\ [TelemetryNext]_telemetryVars =>
          [\A f \in Named("batch") :
             file'[f].name = "gone" =>
                 \/ \A i \in 1 .. logged[f] : \E t \in server : t[3] = file[f].records[i]
                 \/ TooOld(f)
                 \/ f \in crowded]_telemetryVars
  <2> SUFFICES ASSUME CountInv, Kept, TelemetryNext, NEW f \in Named("batch"), file'[f].name = "gone"
               PROVE  \/ \A i \in 1 .. logged[f] : \E t \in server : t[3] = file[f].records[i]
                      \/ TooOld(f)
                      \/ f \in crowded
    BY DEF telemetryVars
  <2>1. f \in Files /\ file[f].name = "batch" /\ file \in [Files -> FileStates] /\ file[f] \in FileStates
    BY DEF Named, CountInv, Typed
  <2>2. file' # file
    BY <2>1
  <2>3. CASE Tick
    BY <2>2, <2>3 DEF Tick
  <2>4. ASSUME NEW c \in Invocations,
               Finish(c) \/ Decide(c) \/ GuardSlot(c) \/ Cleanup(c) \/ Cleaned(c) \/ SpawnSender(c) \/ EndsEarly(c)
        PROVE FALSE
    BY <2>2, <2>4 DEF Finish, Decide, GuardSlot, Cleanup, Cleaned, SpawnSender, EndsEarly
  <2>5. ASSUME NEW c \in Invocations, Open(c) PROVE FALSE
    <3>1. PICK g \in Files : file' = [file EXCEPT ![g].name = "events"]
      BY <2>5 DEF Open
    <3> QED BY <2>1, <3>1 DEF FileStates
  <2>6. ASSUME NEW c \in Invocations, Write(c) PROVE FALSE
    <3>1. PICK h, r : file' = [file EXCEPT ![h].records = Append(@, r)]
      BY <2>6 DEF Write
    <3> QED BY <2>1, <3>1 DEF FileStates
  <2>7. ASSUME NEW c \in Invocations, Rotate(c) PROVE FALSE
    <3>1. PICK g \in Named("events") : file' = [file EXCEPT ![g] = [@ EXCEPT !.name = "batch", !.time = now]]
      BY <2>2, <2>7 DEF Rotate
    <3> QED BY <2>1, <3>1 DEF Named
  <2>8. ASSUME NEW c \in Invocations, RemoveStale(c) PROVE TooOld(f) \/ f \in crowded
    <3>1. PICK g \in First(c) : file' = [file EXCEPT ![g].name = "gone"]
      BY <2>8 DEF RemoveStale
    <3>2. g = f
      BY <2>1, <3>1
    <3> QED BY <2>8, <3>1, <3>2 DEF First, RemoveStale, Doing, Kept, Dropping
  <2>9. ASSUME NEW g \in Files, Sending(g)
        PROVE  \A i \in 1 .. logged[f] : \E t \in server : t[3] = file[f].records[i]
    <3>1. CASE Read(g) \/ Post(g)
      BY <2>2, <3>1 DEF Read, Post
    <3>2. CASE GiveUp(g)
      BY <2>1, <3>2 DEF GiveUp, FileStates
    <3>3. CASE RemoveBatch(g)
      <4>1. g = f
        BY <2>1, <3>3 DEF RemoveBatch
      <4>2. sender[f].at = "accepted"
        BY <3>3, <4>1 DEF RemoveBatch
      <4>3. \A i \in 1 .. logged[f] : i \in DOMAIN sender[f].records
        BY <2>1, <4>2 DEF Kept, Reading, Has
      <4>4. \A i \in DOMAIN sender[f].records : \E t \in server : t[3] = sender[f].records[i]
        BY <2>1, <4>2 DEF Kept, Reading
      <4>5. \A i \in DOMAIN sender[f].records : sender[f].records[i] = file[f].records[i]
        BY <2>1 DEF CountInv, Sent
      <4> QED BY <4>3, <4>4, <4>5
    <3> QED BY <2>9, <3>1, <3>2, <3>3 DEF Sending
  <2> QED BY <2>3, <2>4, <2>5, <2>6, <2>7, <2>8, <2>9 DEF TelemetryNext, Command
<1> QED BY <1>1, CountStarts, CountStep, KeptStep, PTL DEF TelemetrySpec, KeptUntilTaken
=============================================================================
