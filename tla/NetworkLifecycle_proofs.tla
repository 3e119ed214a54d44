----------------------- MODULE NetworkLifecycle_proofs -----------------------
(* Proofs about NetworkLifecycle, for any invocations, projects, ports,    *)
(* number of launches, and any faults.                                     *)
EXTENDS NetworkLifecycle, TLAPS

Sections == {"claim", "status", "relock", "save"}

(* An invocation that runs is about a project.                             *)
ActiveHasProject == \A c \in Clis : cli[c].pc # "idle" => cli[c].p \in Projects

(* The root lock is held exactly in the sections.                          *)
RootLockIsSection ==
    \A p \in Projects, c \in Clis :
        rootLock[p] = c <=> cli[c].p = p /\ cli[c].pc \in Sections

(* A port lock is held in a section of a project that fixes the port.      *)
PortLockInSection ==
    \A q \in Ports, c \in Clis :
        portLock[q] = c => cli[c].pc \in Sections /\ q \in PortsOf[cli[c].p]

(* Ports still to be locked are ports of the project.                      *)
TodoOfProject ==
    \A c \in Clis : cli[c].pc \in {"claim", "relock"} => cli[c].todo \subseteq PortsOf[cli[c].p]

IInv ==
    /\ TypeOK
    /\ ActiveHasProject
    /\ RootLockIsSection
    /\ PortLockInSection
    /\ TodoOfProject

LockInv == RootLockIsSection /\ PortLockInSection /\ TodoOfProject

-----------------------------------------------------------------------------
LEMMA RestingState == Resting \in CliStates /\ [Resting EXCEPT !.why = "cleanup"] \in CliStates
  BY DEF Resting, CliStates, Pcs, Outcomes

LEMMA PcState ==
    ASSUME NEW r \in CliStates, NEW x \in Pcs
    PROVE  [r EXCEPT !.pc = x] \in CliStates
  BY DEF CliStates

LEMMA TodoState ==
    ASSUME NEW r \in CliStates, NEW x \in SUBSET Ports
    PROVE  [r EXCEPT !.todo = x] \in CliStates
  BY DEF CliStates

LEMMA GotoType ==
    ASSUME cli \in [Clis -> CliStates], NEW c \in Clis, NEW x \in Pcs, Goto(c, x)
    PROVE  cli' \in [Clis -> CliStates]
  BY PcState DEF Goto

LEMMA EndType ==
    ASSUME cli \in [Clis -> CliStates], NEW c \in Clis, End(c) \/ EndInCleanup(c)
    PROVE  cli' \in [Clis -> CliStates]
  BY RestingState DEF End, EndInCleanup

LEMMA SeenType ==
    ASSUME cli \in [Clis -> CliStates], NEW c \in Clis, NEW x \in Pcs,
           NEW d \in Launchers \cup {None},
           cli' = [cli EXCEPT ![c].seen = d, ![c].pc = x]
    PROVE  cli' \in [Clis -> CliStates]
  BY DEF CliStates

LEMMA TodoPcType ==
    ASSUME cli \in [Clis -> CliStates], NEW c \in Clis, NEW x \in Pcs, NEW t \in SUBSET Ports,
           cli' = [cli EXCEPT ![c].pc = x, ![c].todo = t] \/ cli' = [cli EXCEPT ![c].todo = t, ![c].pc = x]
    PROVE  cli' \in [Clis -> CliStates]
  BY DEF CliStates

LEMMA TodoType ==
    ASSUME cli \in [Clis -> CliStates], NEW c \in Clis, NEW t \in SUBSET Ports,
           cli' = [cli EXCEPT ![c].todo = t]
    PROVE  cli' \in [Clis -> CliStates]
  BY DEF CliStates

LEMMA MineType ==
    ASSUME cli \in [Clis -> CliStates], NEW c \in Clis, NEW x \in Pcs, NEW l \in Launchers,
           cli' = [cli EXCEPT ![c].pc = x, ![c].mine = l]
    PROVE  cli' \in [Clis -> CliStates]
  BY DEF CliStates

LEMMA WhyType ==
    ASSUME cli \in [Clis -> CliStates], NEW c \in Clis, NEW x \in Pcs, NEW w \in Outcomes,
           cli' = [cli EXCEPT ![c].pc = x, ![c].why = w]
    PROVE  cli' \in [Clis -> CliStates]
  BY DEF CliStates

(* The project and the ports of an invocation that runs.                   *)
LEMMA OfRunning ==
    ASSUME TypeOK, ActiveHasProject, NEW c \in Clis, cli[c].pc # "idle"
    PROVE  /\ cli[c].p \in Projects
           /\ PortsOf[cli[c].p] \in SUBSET Ports
           /\ rootDesc[cli[c].p] \in Launchers \cup {None, Torn}
           /\ cli[c].todo \in SUBSET Ports
  BY PortsAssumption DEF TypeOK, ActiveHasProject, Descriptors, CliStates

LEMMA InitIInv == Init => IInv
<1> SUFFICES ASSUME Init PROVE IInv
  OBVIOUS
<1>1. cli \in [Clis -> CliStates]
  BY RestingState DEF Init
<1>2. TypeOK
  BY <1>1 DEF Init, TypeOK, Descriptors
<1>3. ActiveHasProject /\ TodoOfProject
  BY DEF Init, ActiveHasProject, TodoOfProject, Resting
<1>4. RootLockIsSection /\ PortLockInSection
  BY NoneAssumption DEF Init, RootLockIsSection, PortLockInSection, Resting, Sections
<1> QED BY <1>2, <1>3, <1>4 DEF IInv

(* What a step does to the invocation's own state keeps its type.          *)
LEMMA CliType ==
    ASSUME TypeOK, ActiveHasProject, [Next]_vars
    PROVE  cli' \in [Clis -> CliStates]
<1> USE FaultsAssumption DEF TypeOK, At
<1>1. ASSUME NEW c \in Clis, NEW p \in Projects, NEW op \in Commands, Begin(c, p, op)
      PROVE cli' \in [Clis -> CliStates]
  <2>1. [Resting EXCEPT !.pc = "load", !.op = op, !.p = p] \in CliStates
    BY DEF Resting, CliStates, Pcs, Outcomes
  <2> QED BY <1>1, <2>1 DEF Begin
<1>2. ASSUME NEW c \in Clis, Load(c) PROVE cli' \in [Clis -> CliStates]
  <2>1. CASE End(c)
    BY <2>1, EndType
  <2>2. CASE ~End(c)
    <3> DEFINE x == IF rootDesc[cli[c].p] = None THEN "ids"
                    ELSE CASE cli[c].op \in StartOps -> "alive"
                           [] cli[c].op = "stop" -> "sigint"
                           [] OTHER -> "port"
    <3>1. rootDesc[cli[c].p] \in Launchers \cup {None}
      BY <1>2, <2>2, OfRunning DEF Load
    <3>2. cli' = [cli EXCEPT ![c].seen = rootDesc[cli[c].p], ![c].pc = x]
      BY <1>2, <2>2 DEF Load
    <3>3. x \in Pcs
      BY DEF Pcs
    <3> QED BY <3>1, <3>2, <3>3, SeenType
  <2> QED BY <2>1, <2>2
<1>3. ASSUME NEW c \in Clis,
             CheckAlive(c) \/ Probe(c) \/ AwaitExit(c) \/ SendSigint(c) \/ Shutdown(c)
      PROVE cli' \in [Clis -> CliStates]
  <2>1. End(c) \/ \E x \in Pcs : Goto(c, x)
    BY <1>3 DEF CheckAlive, Probe, AwaitExit, SendSigint, Shutdown, Pcs
  <2> QED BY <2>1, EndType, GotoType
<1>4. ASSUME NEW c \in Clis,
             RemoveDescriptor(c) \/ CleanRoot(c) \/ CleanPort(c) \/ CleanIds(c)
      PROVE cli' \in [Clis -> CliStates]
  <2>1. End(c) \/ EndInCleanup(c) \/ \E x \in Pcs : Goto(c, x)
    BY <1>4 DEF RemoveDescriptor, CleanRoot, CleanPort, CleanIds, Pcs
  <2> QED BY <2>1, EndType, GotoType
<1>5. ASSUME NEW c \in Clis, LockRoot(c) PROVE cli' \in [Clis -> CliStates]
  <2> DEFINE x == IF cli[c].pc = "lock_root" THEN "claim" ELSE "relock"
  <2>1. cli' = [cli EXCEPT ![c].pc = x, ![c].todo = PortsOf[cli[c].p]]
    BY <1>5 DEF LockRoot
  <2>2. x \in Pcs
    BY DEF Pcs
  <2>3. PortsOf[cli[c].p] \in SUBSET Ports
    BY <1>5, OfRunning DEF LockRoot
  <2> HIDE DEF x
  <2> QED BY <2>1, <2>2, <2>3, TodoPcType
<1>6. ASSUME NEW c \in Clis, NEW q \in Ports, ClaimPort(c, q) \/ WithdrawPort(c, q)
      PROVE cli' \in [Clis -> CliStates]
  <2>1. End(c) \/ cli' = [cli EXCEPT ![c].todo = cli[c].todo \ {q}]
    BY <1>6 DEF ClaimPort, WithdrawPort
  <2>2. cli[c].todo \ {q} \in SUBSET Ports
    BY <1>6, OfRunning DEF ClaimPort, WithdrawPort
  <2> QED BY <2>1, <2>2, EndType, TodoType
<1>7. ASSUME NEW c \in Clis, NEW q \in Ports, RelockPort(c, q)
      PROVE cli' \in [Clis -> CliStates]
  <2> DEFINE x == IF cli[c].todo = {q} THEN "save" ELSE cli[c].pc
  <2>1. cli' = [cli EXCEPT ![c].todo = cli[c].todo \ {q}, ![c].pc = x]
    BY <1>7 DEF RelockPort
  <2>2. x \in Pcs
    BY <1>7 DEF RelockPort, Pcs
  <2>3. cli[c].todo \ {q} \in SUBSET Ports
    BY <1>7, OfRunning DEF RelockPort
  <2> QED BY <2>1, <2>2, <2>3, TodoPcType
<1>8. ASSUME NEW c \in Clis, NEW l \in Launchers, Spawn(c, l)
      PROVE cli' \in [Clis -> CliStates]
  <2>1. cli' = [cli EXCEPT ![c].pc = "status", ![c].mine = l]
    BY <1>8 DEF Spawn
  <2> QED BY <2>1, MineType DEF Pcs
<1>9. ASSUME NEW c \in Clis,
             Status(c) \/ Initialize(c) \/ RelockNoPort(c) \/ SaveRoot(c) \/ StopServing(c)
      PROVE cli' \in [Clis -> CliStates]
  <2>1. End(c) \/ \E x \in Pcs : Goto(c, x)
    BY <1>9 DEF Status, Initialize, RelockNoPort, SaveRoot, StopServing, Pcs
  <2> QED BY <2>1, EndType, GotoType
<1>10. ASSUME NEW c \in Clis, InitializeFails(c) \/ SaveFails(c)
      PROVE cli' \in [Clis -> CliStates]
  <2>1. cli' = [cli EXCEPT ![c].pc = "shutdown", ![c].why = "failed"]
    BY <1>10 DEF InitializeFails, SaveFails, Abandon
  <2> QED BY <2>1, WhyType DEF Pcs, Outcomes
<1>11. ASSUME NEW c \in Clis, Reap(c) PROVE cli' \in [Clis -> CliStates]
  <2>1. End(c) \/ cli' = [cli EXCEPT ![c].pc = "withdraw", ![c].todo = PortsOf[cli[c].p]]
    BY <1>11 DEF Reap
  <2>2. PortsOf[cli[c].p] \in SUBSET Ports
    BY <1>11, OfRunning DEF Reap
  <2>3. "withdraw" \in Pcs
    BY DEF Pcs
  <2>4. CASE End(c)
    BY <2>4, EndType
  <2>5. CASE cli' = [cli EXCEPT ![c].pc = "withdraw", ![c].todo = PortsOf[cli[c].p]]
    BY <2>2, <2>3, <2>5, TodoPcType
  <2> QED BY <2>1, <2>4, <2>5
<1>12. ASSUME NEW c \in Clis, WithdrawRoot(c) \/ AccessPort(c) \/ Deploy(c) \/ Kill(c)
      PROVE cli' \in [Clis -> CliStates]
  <2>1. End(c) \/ \E x \in Pcs : Goto(c, x)
    BY <1>12 DEF WithdrawRoot, AccessPort, Deploy, Kill, Pcs
  <2> QED BY <2>1, EndType, GotoType
<1>13. ASSUME UNCHANGED cli PROVE cli' \in [Clis -> CliStates]
  BY <1>13
<1>14. ASSUME NEW c \in Clis, NEW q \in Ports, SavePort(c, q) PROVE UNCHANGED cli
  BY <1>14 DEF SavePort
<1>15. ASSUME NEW l \in Launchers, Bind(l) \/ Exit(l) \/ Die(l) \/ Hang(l)
      PROVE UNCHANGED cli
  BY <1>15 DEF Bind, Exit, Die, Hang
<1>16. UNCHANGED vars => UNCHANGED cli
  BY DEF vars
<1> QED
  BY <1>1, <1>2, <1>3, <1>4, <1>5, <1>6, <1>7, <1>8, <1>9, <1>10, <1>11, <1>12, <1>13,
     <1>14, <1>15, <1>16 DEF Next, Step

-----------------------------------------------------------------------------
(* What a step can do to an invocation and to the locks.                   *)

Moves(c) == \A d \in Clis \ {c} : cli'[d] = cli[d]

RunsOrEnds(c) == cli'[c].pc \notin Sections /\ (cli'[c].pc # "idle" => cli'[c].p \in Projects)

StaysOut(c) ==
    /\ Moves(c) /\ RunsOrEnds(c)
    /\ cli[c].pc \notin Sections
    /\ UNCHANGED locks

Enters(c) ==
    /\ Moves(c)
    /\ cli[c].pc \notin Sections /\ cli'[c].pc \in Sections
    /\ cli[c].p \in Projects /\ cli'[c].p = cli[c].p
    /\ cli'[c].todo = PortsOf[cli[c].p]
    /\ rootLock[cli[c].p] = None
    /\ rootLock' = [rootLock EXCEPT ![cli[c].p] = c]
    /\ UNCHANGED portLock

StaysIn(c) ==
    /\ Moves(c)
    /\ cli[c].pc \in Sections /\ cli'[c].pc \in Sections
    /\ cli'[c].p = cli[c].p
    /\ cli'[c].pc \in {"claim", "relock"} =>
          cli[c].pc = cli'[c].pc /\ cli'[c].todo \subseteq cli[c].todo
    /\ UNCHANGED rootLock
    /\ \/ UNCHANGED portLock
       \/ \E q \in cli[c].todo \cap Ports :
             cli[c].pc \in {"claim", "relock"} /\ portLock' = [portLock EXCEPT ![q] = c]

Leaves(c) == Moves(c) /\ RunsOrEnds(c) /\ Release(c)

LEMMA GotoMoves ==
    ASSUME cli \in [Clis -> CliStates], NEW c \in Clis, NEW x \in Pcs, Goto(c, x)
    PROVE  /\ Moves(c)
           /\ cli'[c].pc = x /\ cli'[c].p = cli[c].p /\ cli'[c].todo = cli[c].todo
  BY DEF Goto, Moves, CliStates

LEMMA EndMoves ==
    ASSUME cli \in [Clis -> CliStates], NEW c \in Clis, End(c) \/ EndInCleanup(c)
    PROVE  Moves(c) /\ RunsOrEnds(c)
  BY DEF End, EndInCleanup, Moves, RunsOrEnds, Resting, Sections

(* Going on outside the sections.                                          *)
LEMMA GotoRuns ==
    ASSUME TypeOK, ActiveHasProject, NEW c \in Clis, cli[c].pc # "idle",
           NEW x \in Pcs \ Sections, Goto(c, x)
    PROVE  Moves(c) /\ RunsOrEnds(c)
  BY GotoMoves, OfRunning DEF TypeOK, RunsOrEnds


LEMMA StepKinds ==
    ASSUME TypeOK, ActiveHasProject, [Next]_vars
    PROVE  \/ UNCHANGED <<cli, locks>>
           \/ \E c \in Clis : StaysOut(c) \/ Enters(c) \/ StaysIn(c) \/ Leaves(c)
<1> USE DEF TypeOK
<1>1. ASSUME NEW c \in Clis, NEW p \in Projects, NEW op \in Commands, Begin(c, p, op)
      PROVE StaysOut(c)
  BY <1>1 DEF Begin, At, StaysOut, Moves, RunsOrEnds, Resting, Sections
<1>2. ASSUME NEW c \in Clis, Load(c) PROVE StaysOut(c)
  <2>1. UNCHANGED locks /\ cli[c].pc = "load"
    BY <1>2 DEF Load, At
  <2>2. CASE End(c)
    BY <2>1, <2>2, EndMoves DEF StaysOut, Sections
  <2>3. CASE ~End(c)
    <3> DEFINE x == IF rootDesc[cli[c].p] = None THEN "ids"
                    ELSE CASE cli[c].op \in StartOps -> "alive"
                           [] cli[c].op = "stop" -> "sigint"
                           [] OTHER -> "port"
    <3>1. cli' = [cli EXCEPT ![c].seen = rootDesc[cli[c].p], ![c].pc = x]
      BY <1>2, <2>3 DEF Load
    <3>2. x \notin Sections
      BY DEF Sections
    <3> HIDE DEF x
    <3>3. Moves(c) /\ cli'[c].pc = x /\ cli'[c].p = cli[c].p
      BY <3>1 DEF Moves, CliStates
    <3> QED BY <2>1, <3>2, <3>3, OfRunning DEF StaysOut, RunsOrEnds, Sections
  <2> QED BY <2>2, <2>3
<1>3. ASSUME NEW c \in Clis,
             \/ CheckAlive(c) \/ Probe(c) \/ SendSigint(c) \/ AwaitExit(c) \/ Shutdown(c)
             \/ RemoveDescriptor(c) \/ CleanPort(c) \/ CleanRoot(c) \/ CleanIds(c)
             \/ Initialize(c) \/ StopServing(c) \/ WithdrawRoot(c) \/ AccessPort(c) \/ Deploy(c)
      PROVE StaysOut(c)
  <2>1. cli[c].pc \notin Sections /\ cli[c].pc # "idle"
    BY <1>3 DEF At, Sections, CheckAlive, Probe, SendSigint, AwaitExit, Shutdown,
         RemoveDescriptor, CleanPort, CleanRoot, CleanIds, Initialize, StopServing,
         WithdrawRoot, AccessPort, Deploy
  <2>2. UNCHANGED locks
    BY <1>3 DEF CheckAlive, Probe, SendSigint, AwaitExit, Shutdown,
         RemoveDescriptor, CleanPort, CleanRoot, CleanIds, Initialize, StopServing,
         WithdrawRoot, AccessPort, Deploy
  <2>3. End(c) \/ EndInCleanup(c) \/ \E x \in Pcs \ Sections : Goto(c, x)
    BY <1>3 DEF CheckAlive, Probe, SendSigint, AwaitExit, Shutdown,
         RemoveDescriptor, CleanPort, CleanRoot, CleanIds, Initialize, StopServing,
         WithdrawRoot, AccessPort, Deploy, Pcs, Sections
  <2> QED BY <2>1, <2>2, <2>3, EndMoves, GotoRuns DEF StaysOut
<1>4. ASSUME NEW c \in Clis, InitializeFails(c) PROVE StaysOut(c)
  BY <1>4, OfRunning DEF InitializeFails, Abandon, At, StaysOut, Moves, RunsOrEnds, Sections, CliStates
<1>5. ASSUME NEW c \in Clis, Reap(c) PROVE StaysOut(c)
  <2>1. cli[c].pc = "reap" /\ UNCHANGED locks
    BY <1>5 DEF Reap, At
  <2>2. CASE End(c)
    BY <2>1, <2>2, EndMoves DEF StaysOut, Sections
  <2>3. CASE cli' = [cli EXCEPT ![c].pc = "withdraw", ![c].todo = PortsOf[cli[c].p]]
    BY <2>1, <2>3, OfRunning DEF StaysOut, Moves, RunsOrEnds, Sections, CliStates
  <2> QED BY <1>5, <2>2, <2>3 DEF Reap
<1>6. ASSUME NEW c \in Clis, NEW q \in Ports, WithdrawPort(c, q) PROVE StaysOut(c)
  <2>1. cli[c].pc = "withdraw_ports" /\ UNCHANGED locks
    BY <1>6 DEF WithdrawPort, At
  <2>2. CASE End(c)
    BY <2>1, <2>2, EndMoves DEF StaysOut, Sections
  <2>3. CASE cli' = [cli EXCEPT ![c].todo = cli[c].todo \ {q}]
    BY <2>1, <2>3, OfRunning DEF StaysOut, Moves, RunsOrEnds, Sections, CliStates
  <2> QED BY <1>6, <2>2, <2>3 DEF WithdrawPort
<1>7. ASSUME NEW c \in Clis, LockRoot(c) PROVE Enters(c)
  <2> DEFINE x == IF cli[c].pc = "lock_root" THEN "claim" ELSE "relock"
  <2>1. cli' = [cli EXCEPT ![c].pc = x, ![c].todo = PortsOf[cli[c].p]]
    BY <1>7 DEF LockRoot
  <2>2. x \in Sections /\ cli[c].pc \notin Sections /\ cli[c].pc # "idle"
    BY <1>7 DEF LockRoot, Sections
  <2> HIDE DEF x
  <2>3. Moves(c) /\ cli'[c].pc = x /\ cli'[c].p = cli[c].p /\ cli'[c].todo = PortsOf[cli[c].p]
    BY <2>1 DEF Moves, CliStates
  <2> QED BY <1>7, <2>2, <2>3, OfRunning DEF Enters, LockRoot
<1>8. ASSUME NEW c \in Clis, NEW q \in Ports, ClaimPort(c, q) PROVE StaysIn(c) \/ Leaves(c)
  <2>1. CASE End(c) /\ Release(c)
    BY <2>1, EndMoves DEF Leaves
  <2>2. CASE /\ cli' = [cli EXCEPT ![c].todo = cli[c].todo \ {q}]
             /\ portLock' = [portLock EXCEPT ![q] = c] /\ UNCHANGED rootLock
    <3>1. Moves(c) /\ cli'[c].pc = cli[c].pc /\ cli'[c].p = cli[c].p
          /\ cli'[c].todo = cli[c].todo \ {q}
      BY <2>2 DEF Moves, CliStates
    <3> QED BY <1>8, <2>2, <3>1 DEF ClaimPort, At, StaysIn, Sections
  <2> QED BY <1>8, <2>1, <2>2 DEF ClaimPort
<1>9. ASSUME NEW c \in Clis, NEW q \in Ports, RelockPort(c, q) PROVE StaysIn(c)
  <2> DEFINE x == IF cli[c].todo = {q} THEN "save" ELSE cli[c].pc
  <2>1. cli' = [cli EXCEPT ![c].todo = cli[c].todo \ {q}, ![c].pc = x]
    BY <1>9 DEF RelockPort
  <2>2. cli[c].pc = "relock" /\ x \in {"save", "relock"}
    BY <1>9 DEF RelockPort, At
  <2> HIDE DEF x
  <2>3. Moves(c) /\ cli'[c].pc = x /\ cli'[c].p = cli[c].p /\ cli'[c].todo = cli[c].todo \ {q}
    BY <2>1 DEF Moves, CliStates
  <2> QED BY <1>9, <2>2, <2>3 DEF RelockPort, StaysIn, Sections
<1>10. ASSUME NEW c \in Clis, NEW l \in Launchers, Spawn(c, l) PROVE StaysIn(c)
  <2>1. cli' = [cli EXCEPT ![c].pc = "status", ![c].mine = l] /\ cli[c].pc = "claim"
    BY <1>10 DEF Spawn, At
  <2>2. Moves(c) /\ cli'[c].pc = "status" /\ cli'[c].p = cli[c].p
    BY <2>1 DEF Moves, CliStates
  <2> QED BY <1>10, <2>1, <2>2 DEF Spawn, StaysIn, Sections, locks
<1>11. ASSUME NEW c \in Clis, RelockNoPort(c) PROVE StaysIn(c)
  <2>1. Moves(c) /\ cli'[c].pc = "save" /\ cli'[c].p = cli[c].p
    BY <1>11, GotoMoves DEF RelockNoPort, Pcs
  <2> QED BY <1>11, <2>1 DEF RelockNoPort, At, StaysIn, Sections, locks
<1>12. ASSUME NEW c \in Clis, Status(c) \/ SaveRoot(c) \/ Kill(c) PROVE Leaves(c)
  <2>1. Release(c) /\ cli[c].pc # "idle"
    BY <1>12 DEF Status, SaveRoot, Kill, At
  <2>2. End(c) \/ \E x \in Pcs \ Sections : Goto(c, x)
    BY <1>12 DEF Status, SaveRoot, Kill, Pcs, Sections
  <2> QED BY <2>1, <2>2, EndMoves, GotoRuns DEF Leaves
<1>13. ASSUME NEW c \in Clis, SaveFails(c) PROVE Leaves(c)
  <2>1. cli' = [cli EXCEPT ![c].pc = "shutdown", ![c].why = "failed"] /\ cli[c].pc = "save" /\ Release(c)
    BY <1>13 DEF SaveFails, Abandon, At
  <2> QED BY <2>1, OfRunning DEF Leaves, Moves, RunsOrEnds, Sections, CliStates
<1>14. ASSUME NEW c \in Clis, NEW q \in Ports, SavePort(c, q) PROVE UNCHANGED <<cli, locks>>
  BY <1>14 DEF SavePort
<1>15. ASSUME NEW l \in Launchers, Bind(l) \/ Exit(l) \/ Die(l) \/ Hang(l)
      PROVE UNCHANGED <<cli, locks>>
  BY <1>15 DEF Bind, Exit, Die, Hang
<1>16. UNCHANGED vars => UNCHANGED <<cli, locks>>
  BY DEF vars
<1> QED
  BY <1>1, <1>2, <1>3, <1>4, <1>5, <1>6, <1>7, <1>8, <1>9, <1>10, <1>11, <1>12, <1>13,
     <1>14, <1>15, <1>16 DEF Next, Step

-----------------------------------------------------------------------------
(* Each kind of step keeps the lock invariant.                             *)

LEMMA StaysOutKeeps ==
    ASSUME IInv, NEW c \in Clis, StaysOut(c)
    PROVE  ActiveHasProject' /\ LockInv'
<1> USE DEF IInv, StaysOut, Moves, RunsOrEnds, locks
<1>1. ActiveHasProject' /\ TodoOfProject'
  BY DEF ActiveHasProject, TodoOfProject, Sections
<1>2. RootLockIsSection'
  BY DEF RootLockIsSection
<1>3. PortLockInSection'
  BY DEF PortLockInSection
<1> QED BY <1>1, <1>2, <1>3 DEF LockInv

LEMMA EntersKeeps ==
    ASSUME IInv, NEW c \in Clis, Enters(c)
    PROVE  ActiveHasProject' /\ LockInv'
<1> USE DEF IInv, Enters, Moves
<1>1. ActiveHasProject' /\ TodoOfProject'
  BY DEF ActiveHasProject, TodoOfProject, Sections
<1>2. RootLockIsSection'
  BY NoneAssumption DEF RootLockIsSection, TypeOK
<1>3. PortLockInSection'
  BY DEF PortLockInSection
<1> QED BY <1>1, <1>2, <1>3 DEF LockInv

LEMMA StaysInKeeps ==
    ASSUME IInv, NEW c \in Clis, StaysIn(c)
    PROVE  ActiveHasProject' /\ LockInv'
<1> USE DEF IInv, StaysIn, Moves
<1>1. ActiveHasProject' /\ TodoOfProject'
  BY DEF ActiveHasProject, TodoOfProject, Sections
<1>2. RootLockIsSection'
  BY DEF RootLockIsSection
<1>3. PortLockInSection'
  BY DEF PortLockInSection, TodoOfProject, TypeOK
<1> QED BY <1>1, <1>2, <1>3 DEF LockInv

LEMMA LeavesKeeps ==
    ASSUME IInv, NEW c \in Clis, Leaves(c)
    PROVE  ActiveHasProject' /\ LockInv'
<1> USE DEF IInv, Leaves, Moves, RunsOrEnds
<1>1. ActiveHasProject' /\ TodoOfProject'
  BY DEF ActiveHasProject, TodoOfProject, Sections
<1>2. /\ \A p \in Projects : rootLock'[p] = IF rootLock[p] = c THEN None ELSE rootLock[p]
      /\ \A q \in Ports : portLock'[q] = IF portLock[q] = c THEN None ELSE portLock[q]
  BY DEF Release, Unlocked, TypeOK
<1>3. RootLockIsSection'
  BY <1>2, NoneAssumption DEF RootLockIsSection
<1>4. PortLockInSection'
  BY <1>2, NoneAssumption DEF PortLockInSection
<1> QED BY <1>1, <1>3, <1>4 DEF LockInv

LEMMA LockTypes ==
    ASSUME IInv, [Next]_vars
    PROVE  /\ rootLock' \in [Projects -> Clis \cup {None}]
           /\ portLock' \in [Ports -> Clis \cup {None}]
<1> USE DEF IInv, TypeOK
<1>1. ASSUME NEW c \in Clis, Leaves(c)
      PROVE  /\ rootLock' \in [Projects -> Clis \cup {None}]
             /\ portLock' \in [Ports -> Clis \cup {None}]
  BY <1>1 DEF Leaves, Release, Unlocked
<1>2. ASSUME NEW c \in Clis, StaysOut(c) \/ Enters(c) \/ StaysIn(c)
      PROVE  /\ rootLock' \in [Projects -> Clis \cup {None}]
             /\ portLock' \in [Ports -> Clis \cup {None}]
  BY <1>2 DEF StaysOut, Enters, StaysIn, locks
<1>3. ASSUME UNCHANGED locks
      PROVE  /\ rootLock' \in [Projects -> Clis \cup {None}]
             /\ portLock' \in [Ports -> Clis \cup {None}]
  BY <1>3 DEF locks
<1> QED BY <1>1, <1>2, <1>3, StepKinds

LEMMA LockInvStep ==
    ASSUME IInv, [Next]_vars
    PROVE  ActiveHasProject' /\ LockInv'
<1>1. CASE UNCHANGED <<cli, locks>>
  BY <1>1 DEF IInv, LockInv, locks, ActiveHasProject, RootLockIsSection, PortLockInSection,
         TodoOfProject
<1> QED BY <1>1, StepKinds, StaysOutKeeps, EntersKeeps, StaysInKeeps, LeavesKeeps DEF IInv

-----------------------------------------------------------------------------
(* The files and the processes keep their types.                           *)

Pids == [Launchers -> Launchers \cup {None}]

FilesOK ==
    /\ rootDesc \in [Projects -> Descriptors]
    /\ portDesc \in [Ports -> Descriptors]
    /\ stateDir \in [Projects -> Launchers \cup {None}]
    /\ mapping \in [Projects -> Launchers \cup {None}]

ProcsOK ==
    /\ proc \in [Launchers -> {"unborn", "starting", "serving", "hung", "dead"}]
    /\ ownerOf \in [Launchers -> Projects \cup {None}]
    /\ pidOf \in Pids
    /\ signalled \subseteq Launchers

LEMMA FilesType ==
    ASSUME TypeOK, ActiveHasProject, [Next]_vars
    PROVE  FilesOK'
<1> USE DEF FilesOK, TypeOK
<1>1. UNCHANGED files => FilesOK'
  BY DEF files
<1>2. ASSUME NEW c \in Clis, RemoveDescriptor(c) \/ CleanRoot(c) \/ WithdrawRoot(c) PROVE FilesOK'
  BY <1>2 DEF RemoveDescriptor, CleanRoot, WithdrawRoot, Descriptors
<1>3. ASSUME NEW c \in Clis, CleanPort(c) PROVE FilesOK'
  BY <1>3 DEF CleanPort, Descriptors
<1>4. ASSUME NEW c \in Clis, NEW q \in Ports, WithdrawPort(c, q) PROVE FilesOK'
  BY <1>4 DEF WithdrawPort, Descriptors
<1>5. ASSUME NEW c \in Clis, CleanIds(c) PROVE FilesOK'
  BY <1>5 DEF CleanIds
<1>6. ASSUME NEW c \in Clis PROVE cli[c].mine \in Descriptors /\ cli[c].seen \in Launchers \cup {None}
  BY DEF CliStates, Descriptors
<1>7. ASSUME NEW c \in Clis, NEW l \in Launchers, Spawn(c, l) PROVE FilesOK'
  BY <1>7 DEF Spawn
<1>8. ASSUME NEW c \in Clis, NEW q \in Ports, SavePort(c, q) PROVE FilesOK'
  BY <1>6, <1>8 DEF SavePort
<1>9. ASSUME NEW c \in Clis, SaveRoot(c) PROVE FilesOK'
  BY <1>6, <1>9 DEF SaveRoot
<1>10. ASSUME NEW c \in Clis, Deploy(c) PROVE FilesOK'
  BY <1>6, <1>10 DEF Deploy
<1>11. ASSUME NEW c \in Clis, Kill(c) PROVE FilesOK'
  <2>1. UNCHANGED <<stateDir, mapping>>
    BY <1>11 DEF Kill
  <2>2. CASE UNCHANGED <<rootDesc, portDesc>>
    BY <2>1, <2>2
  <2>3. CASE rootDesc' = [rootDesc EXCEPT ![cli[c].p] = Torn] /\ UNCHANGED portDesc
    BY <2>1, <2>3 DEF Descriptors
  <2>4. ASSUME NEW q \in Unsaved(c), portDesc' = [portDesc EXCEPT ![q] = Torn], UNCHANGED rootDesc
        PROVE FilesOK'
    BY <2>1, <2>4 DEF Descriptors
  <2> QED BY <1>11, <2>2, <2>3, <2>4 DEF Kill
<1>12. ASSUME NEW c \in Clis,
              \/ \E p \in Projects, op \in Commands : Begin(c, p, op)
              \/ Load(c) \/ CheckAlive(c) \/ Probe(c) \/ SendSigint(c) \/ AwaitExit(c)
              \/ LockRoot(c) \/ \E q \in Ports : ClaimPort(c, q) \/ RelockPort(c, q)
              \/ Status(c) \/ Initialize(c) \/ InitializeFails(c) \/ RelockNoPort(c)
              \/ SaveFails(c) \/ Shutdown(c) \/ Reap(c) \/ AccessPort(c) \/ StopServing(c)
      PROVE UNCHANGED files
  BY <1>12 DEF Begin, Load, CheckAlive, Probe, SendSigint, AwaitExit, LockRoot, ClaimPort,
         RelockPort, Status, Initialize, InitializeFails, RelockNoPort, SaveFails, Shutdown,
         Reap, AccessPort, StopServing
<1>13. ASSUME NEW l \in Launchers, Bind(l) \/ Exit(l) \/ Die(l) \/ Hang(l) PROVE UNCHANGED files
  BY <1>13 DEF Bind, Exit, Die, Hang
<1>14. UNCHANGED vars => UNCHANGED files
  BY DEF vars
<1> HIDE DEF FilesOK, TypeOK
<1> QED
  BY <1>1, <1>2, <1>3, <1>4, <1>5, <1>7, <1>8, <1>9, <1>10, <1>11, <1>12, <1>13, <1>14
     DEF Next, Step

LEMMA ProcsType ==
    ASSUME TypeOK, ActiveHasProject, [Next]_vars
    PROVE  ProcsOK'
<1> USE DEF ProcsOK, TypeOK, Pids
<1>1. UNCHANGED procs => ProcsOK'
  BY DEF procs
<1>2. ASSUME NEW c \in Clis, NEW l \in Launchers, Spawn(c, l) PROVE ProcsOK'
  <2>1. cli[c].p \in Projects
    BY <1>2, OfRunning DEF Spawn, At
  <2>2. PICK pid \in FreePids(l) : pidOf' = [pidOf EXCEPT ![l] = pid]
    BY <1>2 DEF Spawn
  <2>3. pid \in Launchers
    BY <2>2, LaunchesAssumption DEF FreePids, Launchers
  <2>4. pidOf' \in Pids
    BY <2>2, <2>3
  <2>5. proc' \in [Launchers -> {"unborn", "starting", "serving", "hung", "dead"}]
    BY <1>2 DEF Spawn
  <2>6. ownerOf' \in [Launchers -> Projects \cup {None}] /\ UNCHANGED signalled
    BY <1>2, <2>1 DEF Spawn
  <2> QED BY <2>4, <2>5, <2>6
<1>3. ASSUME NEW c \in Clis, SendSigint(c) PROVE ProcsOK'
  BY <1>3 DEF SendSigint
<1>4. ASSUME NEW c \in Clis, Shutdown(c) PROVE ProcsOK'
  BY <1>4 DEF Shutdown
<1>5. ASSUME NEW l \in Launchers, Bind(l) \/ Exit(l) \/ Die(l) \/ Hang(l) PROVE ProcsOK'
  BY <1>5 DEF Bind, Exit, Die, Hang
<1>6. ASSUME NEW c \in Clis,
              \/ \E p \in Projects, op \in Commands : Begin(c, p, op)
              \/ Load(c) \/ CheckAlive(c) \/ Probe(c) \/ AwaitExit(c) \/ RemoveDescriptor(c)
              \/ CleanPort(c) \/ CleanRoot(c) \/ CleanIds(c) \/ LockRoot(c)
              \/ \E q \in Ports : ClaimPort(c, q) \/ RelockPort(c, q) \/ SavePort(c, q) \/ WithdrawPort(c, q)
              \/ Status(c) \/ Initialize(c) \/ InitializeFails(c) \/ RelockNoPort(c)
              \/ SaveRoot(c) \/ SaveFails(c) \/ Reap(c) \/ WithdrawRoot(c)
              \/ AccessPort(c) \/ Deploy(c) \/ StopServing(c) \/ Kill(c)
      PROVE UNCHANGED procs
  BY <1>6 DEF Begin, Load, CheckAlive, Probe, AwaitExit, RemoveDescriptor, CleanPort,
         CleanRoot, CleanIds, LockRoot, ClaimPort, RelockPort, SavePort, WithdrawPort,
         Status, Initialize, InitializeFails, RelockNoPort, SaveRoot, SaveFails, Reap,
         WithdrawRoot, AccessPort, Deploy, StopServing, Kill
<1>7. UNCHANGED vars => UNCHANGED procs
  BY DEF vars
<1> HIDE DEF ProcsOK, TypeOK, Pids
<1> QED BY <1>1, <1>2, <1>3, <1>4, <1>5, <1>6, <1>7 DEF Next, Step

-----------------------------------------------------------------------------
LEMMA IInvStep == IInv /\ [Next]_vars => IInv'
<1> SUFFICES ASSUME IInv, [Next]_vars PROVE IInv'
  OBVIOUS
<1>1. ActiveHasProject' /\ LockInv'
  BY LockInvStep
<1>2. TypeOK'
  BY CliType, LockTypes, FilesType, ProcsType DEF IInv, TypeOK, FilesOK, ProcsOK, Pids
<1> QED BY <1>1, <1>2 DEF IInv, LockInv

LEMMA IInvAlways == Spec => []IInv
  BY InitIInv, IInvStep, PTL DEF Spec

(* An invocation that holds a port lock holds the root lock of its project *)
(* too and is inside a section, whoever dies or fails and whatever files   *)
(* are missing or torn: two starts can meet on a port only through the     *)
(* port's lock.                                                            *)
THEOREM LocksAreHeldInside == Spec => []LocksHeldInside
<1>1. IInv => LocksHeldInside
  BY DEF IInv, LocksHeldInside, RootLockIsSection, PortLockInSection, ActiveHasProject, Sections
<1> QED BY <1>1, IInvAlways, PTL

(* Every variable keeps its type.                                          *)
THEOREM TypeCorrect == Spec => []TypeOK
  BY IInvAlways, PTL DEF IInv

-----------------------------------------------------------------------------
(* Where an invocation is tells what it holds.                             *)

Starting == {"ids", "lock_root", "claim", "status", "init", "relock_root", "relock", "save"}
Judging  == {"alive", "probe", "clean_port", "clean_root"}
Stopping == {"sigint", "await"}
Serving  == {"serve", "shutdown", "reap", "withdraw", "withdraw_ports"}
Owning   == {"status", "init", "relock_root", "relock", "save"} \cup Serving
Looking  == Judging \cup Stopping \cup {"remove", "port", "deploy"}

(* A foreground run that has published its network.                        *)
Outlasts(x) == x.op = "run" /\ x.pc \in Serving /\ x.why # "failed"

KindOf(x) ==
    /\ x.pc = "idle" => x.p = None
    /\ x.pc # "idle" => x.op \in Ops
    /\ x.pc \in Starting \cup Judging \cup Serving => x.op \in StartOps
    /\ x.pc \in Stopping => x.op \in StartOps \cup {"stop"}
    /\ x.pc \in {"serve", "withdraw", "withdraw_ports"} => Outlasts(x)
    /\ x.pc \in {"shutdown", "reap"} => Outlasts(x) \/ x.why = "failed"
    /\ x.why = "failed" => x.pc \in {"shutdown", "reap"}
    /\ x.pc = "remove" => x.op = "stop"
    /\ x.pc \in {"port", "deploy"} => x.op = "deploy"
    /\ x.pc \in Owning <=> x.mine # None
    /\ x.pc \in Looking => x.seen # None
    /\ x.pc \in {"withdraw", "withdraw_ports"} => x.todo \subseteq PortsOf[x.p]

Kinds == \A c \in Clis : KindOf(cli[c])

(* What a step other than Begin, Load, Spawn and a failure leaves alone.   *)
Keeps(c) ==
    /\ Moves(c)
    /\ cli'[c].op = cli[c].op /\ cli'[c].p = cli[c].p /\ cli'[c].why = cli[c].why
    /\ cli'[c].seen = cli[c].seen /\ cli'[c].mine = cli[c].mine

Ends(c) ==
    /\ Moves(c)
    /\ cli'[c].pc = "idle" /\ cli'[c].p = None /\ cli'[c].why \in {"none", "cleanup"}
    /\ cli'[c].seen = None /\ cli'[c].mine = None

LEMMA GotoKeeps ==
    ASSUME TypeOK, NEW c \in Clis, NEW x \in Pcs, Goto(c, x)
    PROVE  Keeps(c) /\ cli'[c].pc = x /\ cli'[c].todo = cli[c].todo
  BY DEF TypeOK, Goto, Keeps, Moves, CliStates

LEMMA EndEnds ==
    ASSUME TypeOK, NEW c \in Clis, End(c) \/ EndInCleanup(c)
    PROVE  Ends(c) /\ (End(c) => cli'[c].why = "none")
  BY DEF TypeOK, End, EndInCleanup, Ends, Moves, Resting

LEMMA EndsKind ==
    ASSUME NEW c \in Clis, Ends(c)
    PROVE  KindOf(cli'[c])
  BY DEF Ends, KindOf, Starting, Judging, Stopping, Serving, Owning, Looking, Outlasts

(* The step to a later point of the same command.                          *)
LEMMA KeepsKind ==
    ASSUME NEW c \in Clis, Keeps(c), KindOf(cli[c]), cli[c].pc # "idle",
           cli'[c].pc \in Pcs \ {"idle", "withdraw"},
           cli[c].pc \in {"withdraw_ports"} => cli'[c].todo \subseteq cli[c].todo,
           \/ cli[c].pc \in Starting /\ cli'[c].pc \in Starting
                /\ (cli[c].pc \in Owning <=> cli'[c].pc \in Owning)
           \/ cli[c].pc \in Judging /\ cli'[c].pc \in Judging \cup Stopping \cup {"ids"}
           \/ cli[c].pc \in Stopping /\ cli'[c].pc \in Stopping
           \/ cli[c].pc = "await" /\ cli'[c].pc = IF cli[c].op = "stop" THEN "remove" ELSE "clean_port"
           \/ cli[c].pc = "save" /\ cli[c].op # "start" /\ cli'[c].pc = "serve"
           \/ cli[c].pc \in {"serve", "shutdown"} /\ cli'[c].pc \in {"shutdown", "reap"}
           \/ cli[c].pc = "withdraw" /\ cli'[c].pc = "withdraw_ports" /\ cli'[c].todo = cli[c].todo
           \/ cli[c].pc = "withdraw_ports" /\ cli'[c].pc = "withdraw_ports"
           \/ cli[c].pc = "port" /\ cli'[c].pc = "deploy"
    PROVE  KindOf(cli'[c])
  BY DEF Keeps, KindOf, Starting, Judging, Stopping, Serving, Owning, Looking, Outlasts, StartOps

Goes(c, x, y) == cli[c].pc = x /\ cli'[c].pc = y /\ Keeps(c)

(* The control flow of a command, action by action.                        *)
LEMMA Flow ==
    ASSUME TypeOK, ActiveHasProject, NEW c \in Clis
    PROVE
    /\ CheckAlive(c) => Goes(c, "alive", "probe") \/ Goes(c, "alive", "clean_port")
    /\ Probe(c) => cli[c].pc = "probe" /\ (Ends(c) \/ Goes(c, "probe", "sigint"))
    /\ SendSigint(c) => Goes(c, "sigint", "await")
    /\ AwaitExit(c) => Goes(c, "await", IF cli[c].op = "stop" THEN "remove" ELSE "clean_port")
    /\ RemoveDescriptor(c) => cli[c].pc = "remove" /\ Ends(c)
    /\ CleanPort(c) => cli[c].pc = "clean_port" /\ (Ends(c) \/ Goes(c, "clean_port", "clean_root"))
    /\ CleanRoot(c) => cli[c].pc = "clean_root" /\ (Ends(c) \/ Goes(c, "clean_root", "ids"))
    /\ CleanIds(c) => Goes(c, "ids", "lock_root")
    /\ LockRoot(c) => Goes(c, "lock_root", "claim") \/ Goes(c, "relock_root", "relock")
    /\ Status(c) => cli[c].pc = "status" /\ (Ends(c) \/ Goes(c, "status", "init"))
    /\ Initialize(c) => Goes(c, "init", "relock_root")
    /\ RelockNoPort(c) => Goes(c, "relock", "save")
    /\ SaveRoot(c) => cli[c].pc = "save"
          /\ ((Ends(c) /\ cli[c].op = "start") \/ (Goes(c, "save", "serve") /\ cli[c].op # "start"))
    /\ StopServing(c) => Goes(c, "serve", "shutdown")
    /\ Shutdown(c) => Goes(c, "shutdown", "reap")
    /\ Reap(c) => cli[c].pc = "reap"
          /\ \/ Ends(c) /\ cli[c].why = "failed"
             \/ Goes(c, "reap", "withdraw") /\ cli[c].why # "failed" /\ cli'[c].todo = PortsOf[cli[c].p]
    /\ WithdrawRoot(c) => cli[c].pc = "withdraw"
          /\ (Ends(c) \/ (Goes(c, "withdraw", "withdraw_ports") /\ cli'[c].todo = cli[c].todo))
    /\ AccessPort(c) => cli[c].pc = "port" /\ (Ends(c) \/ Goes(c, "port", "deploy"))
    /\ Deploy(c) => cli[c].pc = "deploy" /\ Ends(c)
    /\ Kill(c) => cli[c].pc # "idle" /\ Ends(c)
<1> USE GotoKeeps, EndEnds DEF At, Goes
<1>1. CheckAlive(c) => Goes(c, "alive", "probe") \/ Goes(c, "alive", "clean_port")
  BY DEF CheckAlive, Pcs
<1>2. Probe(c) => cli[c].pc = "probe" /\ (Ends(c) \/ Goes(c, "probe", "sigint"))
  BY DEF Probe, Pcs
<1>3. SendSigint(c) => Goes(c, "sigint", "await")
  BY DEF SendSigint, Pcs
<1>4. AwaitExit(c) => Goes(c, "await", IF cli[c].op = "stop" THEN "remove" ELSE "clean_port")
  BY DEF AwaitExit, Pcs
<1>5. RemoveDescriptor(c) => cli[c].pc = "remove" /\ Ends(c)
  BY DEF RemoveDescriptor
<1>6. CleanPort(c) => cli[c].pc = "clean_port" /\ (Ends(c) \/ Goes(c, "clean_port", "clean_root"))
  BY DEF CleanPort, Pcs
<1>7. CleanRoot(c) => cli[c].pc = "clean_root" /\ (Ends(c) \/ Goes(c, "clean_root", "ids"))
  BY DEF CleanRoot, Pcs
<1>8. CleanIds(c) => Goes(c, "ids", "lock_root")
  BY DEF CleanIds, Pcs
<1>9. LockRoot(c) => Goes(c, "lock_root", "claim") \/ Goes(c, "relock_root", "relock")
  BY DEF LockRoot, TypeOK, CliStates, Keeps, Moves
<1>10. Status(c) => cli[c].pc = "status" /\ (Ends(c) \/ Goes(c, "status", "init"))
  BY DEF Status, Pcs
<1>11. Initialize(c) => Goes(c, "init", "relock_root")
  BY DEF Initialize, Pcs
<1>12. RelockNoPort(c) => Goes(c, "relock", "save")
  BY DEF RelockNoPort, Pcs
<1>13. SaveRoot(c) => cli[c].pc = "save"
          /\ ((Ends(c) /\ cli[c].op = "start") \/ (Goes(c, "save", "serve") /\ cli[c].op # "start"))
  BY DEF SaveRoot, Pcs
<1>14. StopServing(c) => Goes(c, "serve", "shutdown")
  BY DEF StopServing, Pcs
<1>15. Shutdown(c) => Goes(c, "shutdown", "reap")
  BY DEF Shutdown, Pcs
<1>16. Reap(c) => cli[c].pc = "reap"
          /\ \/ Ends(c) /\ cli[c].why = "failed"
             \/ Goes(c, "reap", "withdraw") /\ cli[c].why # "failed" /\ cli'[c].todo = PortsOf[cli[c].p]
  BY DEF Reap, TypeOK, CliStates, Keeps, Moves
<1>17. WithdrawRoot(c) => cli[c].pc = "withdraw"
          /\ (Ends(c) \/ (Goes(c, "withdraw", "withdraw_ports") /\ cli'[c].todo = cli[c].todo))
  BY DEF WithdrawRoot, Pcs
<1>18. AccessPort(c) => cli[c].pc = "port" /\ (Ends(c) \/ Goes(c, "port", "deploy"))
  BY DEF AccessPort, Pcs
<1>19. Deploy(c) => cli[c].pc = "deploy" /\ Ends(c)
  BY DEF Deploy
<1>20. Kill(c) => cli[c].pc # "idle" /\ Ends(c)
  BY DEF Kill
<1> QED BY <1>1, <1>2, <1>3, <1>4, <1>5, <1>6, <1>7, <1>8, <1>9, <1>10, <1>11, <1>12, <1>13,
           <1>14, <1>15, <1>16, <1>17, <1>18, <1>19, <1>20

(* The actions on one port.                                                *)
LEMMA PortFlow ==
    ASSUME TypeOK, ActiveHasProject, NEW c \in Clis, NEW q \in Ports
    PROVE
    /\ ClaimPort(c, q) => cli[c].pc = "claim" /\ (Ends(c) \/ Goes(c, "claim", "claim"))
    /\ RelockPort(c, q) => Goes(c, "relock", "save") \/ Goes(c, "relock", "relock")
    /\ SavePort(c, q) => UNCHANGED cli /\ cli[c].pc = "save"
    /\ WithdrawPort(c, q) => cli[c].pc = "withdraw_ports"
          /\ (Ends(c) \/ (Goes(c, "withdraw_ports", "withdraw_ports") /\ cli'[c].todo \subseteq cli[c].todo))
<1> USE EndEnds DEF At, Goes
<1>1. ClaimPort(c, q) => cli[c].pc = "claim" /\ (Ends(c) \/ Goes(c, "claim", "claim"))
  BY DEF ClaimPort, TypeOK, CliStates, Keeps, Moves
<1>2. RelockPort(c, q) => Goes(c, "relock", "save") \/ Goes(c, "relock", "relock")
  BY DEF RelockPort, TypeOK, CliStates, Keeps, Moves
<1>3. SavePort(c, q) => UNCHANGED cli /\ cli[c].pc = "save"
  BY DEF SavePort
<1>4. WithdrawPort(c, q) => cli[c].pc = "withdraw_ports"
          /\ (Ends(c) \/ (Goes(c, "withdraw_ports", "withdraw_ports") /\ cli'[c].todo \subseteq cli[c].todo))
  BY DEF WithdrawPort, TypeOK, CliStates, Keeps, Moves
<1> QED BY <1>1, <1>2, <1>3, <1>4

(* The others change what the command knows.                               *)
LEMMA BeginFlow ==
    ASSUME TypeOK, NEW c \in Clis, NEW p \in Projects, NEW op \in Commands, Begin(c, p, op)
    PROVE  /\ Moves(c) /\ cli[c].pc = "idle" /\ cli'[c].pc = "load"
           /\ cli'[c].p = p /\ cli'[c].op = op /\ cli'[c].why = "none"
           /\ cli'[c].seen = None /\ cli'[c].mine = None
  BY DEF TypeOK, Begin, At, Resting, Moves

Loads(c) ==
    /\ Moves(c) /\ cli[c].pc = "load"
    /\ cli'[c].op = cli[c].op /\ cli'[c].p = cli[c].p /\ cli'[c].why = cli[c].why
    /\ cli'[c].mine = cli[c].mine /\ cli'[c].seen = rootDesc[cli[c].p]
    /\ \/ cli'[c].pc = "ids" /\ cli[c].op \in StartOps /\ cli'[c].seen = None
       \/ cli'[c].pc = "alive" /\ cli[c].op \in StartOps /\ cli'[c].seen # None
       \/ cli'[c].pc = "sigint" /\ cli[c].op = "stop" /\ cli'[c].seen # None
       \/ cli'[c].pc = "port" /\ cli[c].op \notin StartOps \cup {"stop"} /\ cli'[c].seen # None

LEMMA LoadFlow ==
    ASSUME TypeOK, NEW c \in Clis, Load(c)
    PROVE  cli[c].pc = "load" /\ (Ends(c) \/ Loads(c))
<1>1. CASE End(c)
  BY <1>1, EndEnds DEF Load, At
<1>2. CASE ~End(c)
  <2> DEFINE x == IF rootDesc[cli[c].p] = None THEN "ids"
                  ELSE CASE cli[c].op \in StartOps -> "alive"
                         [] cli[c].op = "stop" -> "sigint"
                         [] OTHER -> "port"
  <2>1. cli[c].pc = "load" /\ (rootDesc[cli[c].p] = None => cli[c].op \in StartOps)
    BY <1>2 DEF Load, At
  <2>2. cli' = [cli EXCEPT ![c].seen = rootDesc[cli[c].p], ![c].pc = x]
    BY <1>2 DEF Load
  <2>3. \/ x = "ids" /\ rootDesc[cli[c].p] = None
        \/ x = "alive" /\ cli[c].op \in StartOps /\ rootDesc[cli[c].p] # None
        \/ x = "sigint" /\ cli[c].op = "stop" /\ rootDesc[cli[c].p] # None
        \/ x = "port" /\ cli[c].op \notin StartOps \cup {"stop"} /\ rootDesc[cli[c].p] # None
    BY DEF StartOps
  <2> HIDE DEF x
  <2>4. Moves(c) /\ cli'[c].pc = x /\ cli'[c].op = cli[c].op /\ cli'[c].p = cli[c].p
          /\ cli'[c].why = cli[c].why /\ cli'[c].mine = cli[c].mine /\ cli'[c].seen = rootDesc[cli[c].p]
    BY <2>2 DEF TypeOK, CliStates, Moves
  <2> QED BY <2>1, <2>3, <2>4 DEF Loads
<1> QED BY <1>1, <1>2

LEMMA SpawnFlow ==
    ASSUME TypeOK, NEW c \in Clis, NEW l \in Launchers, Spawn(c, l)
    PROVE  /\ Moves(c) /\ cli[c].pc = "claim" /\ cli'[c].pc = "status"
           /\ cli'[c].op = cli[c].op /\ cli'[c].p = cli[c].p /\ cli'[c].why = cli[c].why
           /\ cli'[c].seen = cli[c].seen /\ cli'[c].mine = l
  BY DEF TypeOK, Spawn, At, CliStates, Moves

LEMMA AbandonFlow ==
    ASSUME TypeOK, NEW c \in Clis, InitializeFails(c) \/ SaveFails(c)
    PROVE  /\ Moves(c) /\ cli[c].pc \in {"init", "save"} /\ cli'[c].pc = "shutdown"
           /\ cli'[c].op = cli[c].op /\ cli'[c].p = cli[c].p /\ cli'[c].why = "failed"
           /\ cli'[c].seen = cli[c].seen /\ cli'[c].mine = cli[c].mine
  BY DEF TypeOK, InitializeFails, SaveFails, Abandon, At, CliStates, Moves

(* A step of an invocation ends its command, or goes on with it; one that  *)
(* outlasts its start goes on doing so.                                    *)
Continues(c) ==
    /\ cli[c].pc # "idle" /\ cli'[c].pc # "idle"
    /\ cli'[c].op = cli[c].op /\ cli'[c].p = cli[c].p
    /\ Outlasts(cli[c]) => Outlasts(cli'[c])
    /\ cli'[c].seen \in {cli[c].seen, rootDesc[cli[c].p]}
    /\ \/ cli'[c].mine = cli[c].mine
       \/ \E l \in Launchers : Spawn(c, l) /\ cli'[c].mine = l

Advances(c) == Moves(c) /\ KindOf(cli'[c]) /\ (Ends(c) \/ Continues(c))

LEMMA EndsAdvances ==
    ASSUME NEW c \in Clis, Ends(c)
    PROVE  Advances(c)
  BY EndsKind DEF Ends, Advances

LEMMA KeepsContinues ==
    ASSUME NEW c \in Clis, Keeps(c), cli[c].pc # "idle", cli'[c].pc # "idle",
           cli[c].pc \in Serving => cli'[c].pc \in Serving
    PROVE  Continues(c)
  BY DEF Keeps, Continues, Outlasts

(* The steps of a command that has begun.                                  *)
Acts(c) == Step(c) \/ StopServing(c) \/ Kill(c)

(* They move the command on, except that saving a port changes a file only.*)
LEMMA ActsAdvance ==
    ASSUME TypeOK, ActiveHasProject, Kinds, NEW c \in Clis, Acts(c)
    PROVE  Advances(c) \/ (UNCHANGED cli /\ cli[c].pc = "save")
<1> USE DEF Advances
<1>1. ASSUME NEW x \in Pcs \ {"idle"}, NEW y \in Pcs \ {"idle", "withdraw"},
             Goes(c, x, y), KindOf(cli[c]),
             x = "withdraw_ports" => cli'[c].todo \subseteq cli[c].todo,
             \/ x \in Starting /\ y \in Starting /\ (x \in Owning <=> y \in Owning)
             \/ x \in Judging /\ y \in Judging \cup Stopping \cup {"ids"}
             \/ x \in Stopping /\ y \in Stopping
             \/ x = "await" /\ y = IF cli[c].op = "stop" THEN "remove" ELSE "clean_port"
             \/ x = "save" /\ cli[c].op # "start" /\ y = "serve"
             \/ x \in {"serve", "shutdown"} /\ y \in {"shutdown", "reap"}
             \/ x = "withdraw" /\ y = "withdraw_ports" /\ cli'[c].todo = cli[c].todo
             \/ x = "withdraw_ports" /\ y = "withdraw_ports"
             \/ x = "port" /\ y = "deploy"
      PROVE Advances(c)
  <2>1. Keeps(c) /\ cli[c].pc = x /\ cli'[c].pc = y /\ Moves(c)
    BY <1>1 DEF Goes, Keeps
  <2>2. KindOf(cli'[c])
    BY <1>1, <2>1, KeepsKind
  <2>3. x \in Serving => y \in Serving
    BY <1>1 DEF Serving, Starting, Judging, Stopping, Owning
  <2>4. Continues(c)
    BY <1>1, <2>1, <2>3, KeepsContinues
  <2> QED BY <2>1, <2>2, <2>4
<1>2. ASSUME Load(c) PROVE Advances(c)
  <2>1. CASE Ends(c)
    BY <2>1, EndsAdvances
  <2>2. CASE Loads(c)
    <3>1. KindOf(cli[c]) /\ cli[c].op \in Ops
      BY <2>2 DEF Kinds, KindOf, Loads
    <3>2. cli'[c].mine = None /\ cli'[c].why # "failed" /\ cli'[c].op \in Ops
      BY <2>2, <3>1 DEF Loads, KindOf, Owning, Starting, Serving
    <3>3. \/ cli'[c].pc = "ids" /\ cli'[c].op \in StartOps
          \/ cli'[c].pc = "alive" /\ cli'[c].op \in StartOps /\ cli'[c].seen # None
          \/ cli'[c].pc = "sigint" /\ cli'[c].op = "stop" /\ cli'[c].seen # None
          \/ cli'[c].pc = "port" /\ cli'[c].op = "deploy" /\ cli'[c].seen # None
      BY <2>2, <3>1 DEF Loads, Ops
    <3>4. KindOf(cli'[c])
      BY <3>2, <3>3 DEF KindOf, Starting, Judging, Stopping, Serving, Owning, Looking, Outlasts
    <3>5. Continues(c)
      BY <2>2 DEF Loads, Continues, Outlasts, Serving
    <3> QED BY <2>2, <3>4, <3>5 DEF Loads
  <2> QED BY <1>2, <2>1, <2>2, LoadFlow
<1>3. ASSUME NEW l \in Launchers, Spawn(c, l) PROVE Advances(c)
  <2>1. KindOf(cli[c]) /\ l # None
    BY NoneAssumption DEF Kinds
  <2>2. KindOf(cli'[c])
    BY <1>3, <2>1, SpawnFlow DEF KindOf, Starting, Judging, Stopping, Serving, Owning, Looking, Outlasts
  <2>3. Continues(c)
    BY <1>3, SpawnFlow DEF Continues, Outlasts, Serving
  <2> QED BY <1>3, <2>2, <2>3, SpawnFlow
<1>4. ASSUME InitializeFails(c) \/ SaveFails(c) PROVE Advances(c)
  <2>1. KindOf(cli[c])
    BY DEF Kinds
  <2>2. KindOf(cli'[c])
    BY <1>4, <2>1, AbandonFlow DEF KindOf, Starting, Judging, Stopping, Serving, Owning, Looking, Outlasts
  <2>3. Continues(c)
    BY <1>4, AbandonFlow DEF Continues, Outlasts, Serving
  <2> QED BY <1>4, <2>2, <2>3, AbandonFlow
<1>5. ASSUME Reap(c) PROVE Advances(c)
  <2>1. CASE Ends(c)
    BY <2>1, EndsAdvances
  <2>2. CASE Goes(c, "reap", "withdraw") /\ cli[c].why # "failed" /\ cli'[c].todo = PortsOf[cli[c].p]
    <3>1. KindOf(cli[c])
      BY DEF Kinds
    <3>2. KindOf(cli'[c])
      BY <2>2, <3>1 DEF Goes, Keeps, KindOf, Starting, Judging, Stopping, Serving, Owning,
             Looking, Outlasts
    <3>3. Continues(c)
      BY <2>2, KeepsContinues DEF Goes, Serving
    <3> QED BY <2>2, <3>2, <3>3 DEF Goes, Keeps
  <2> QED BY <1>5, <2>1, <2>2, Flow
<1>6. ASSUME \/ CheckAlive(c) \/ Probe(c) \/ SendSigint(c) \/ AwaitExit(c) \/ RemoveDescriptor(c)
             \/ CleanPort(c) \/ CleanRoot(c) \/ CleanIds(c)
      PROVE Advances(c)
  <2>1. KindOf(cli[c])
    BY DEF Kinds
  <2>2. Ends(c) \/ \E x \in Pcs \ {"idle", "withdraw_ports"}, y \in Pcs \ {"idle", "withdraw"} :
          /\ Goes(c, x, y)
          /\ \/ x \in Starting /\ y \in Starting /\ (x \in Owning <=> y \in Owning)
             \/ x \in Judging /\ y \in Judging \cup Stopping \cup {"ids"}
             \/ x \in Stopping /\ y \in Stopping
             \/ x = "await" /\ y = IF cli[c].op = "stop" THEN "remove" ELSE "clean_port"
    BY <1>6, Flow DEF Pcs, Starting, Judging, Stopping, Owning, Serving
  <2> QED BY <1>1, <2>1, <2>2, EndsAdvances
<1>7. ASSUME \/ LockRoot(c) \/ Status(c) \/ Initialize(c) \/ RelockNoPort(c)
             \/ SaveRoot(c) \/ StopServing(c) \/ Shutdown(c) \/ AccessPort(c) \/ Deploy(c) \/ Kill(c)
      PROVE Advances(c)
  <2>1. KindOf(cli[c])
    BY DEF Kinds
  <2>2. Ends(c) \/ \E x \in Pcs \ {"idle", "withdraw_ports"}, y \in Pcs \ {"idle", "withdraw"} :
          /\ Goes(c, x, y)
          /\ \/ x \in Starting /\ y \in Starting /\ (x \in Owning <=> y \in Owning)
             \/ x = "save" /\ cli[c].op # "start" /\ y = "serve"
             \/ x \in {"serve", "shutdown"} /\ y \in {"shutdown", "reap"}
             \/ x = "port" /\ y = "deploy"
    BY <1>7, Flow DEF Pcs, Starting, Owning, Serving
  <2> QED BY <1>1, <2>1, <2>2, EndsAdvances
<1>8. ASSUME WithdrawRoot(c) PROVE Advances(c)
  <2>1. KindOf(cli[c])
    BY DEF Kinds
  <2>2. CASE Goes(c, "withdraw", "withdraw_ports") /\ cli'[c].todo = cli[c].todo
    BY <1>1, <2>1, <2>2 DEF Pcs
  <2> QED BY <1>8, <2>2, Flow, EndsAdvances
<1>9. ASSUME NEW q \in Ports, ClaimPort(c, q) \/ RelockPort(c, q) \/ WithdrawPort(c, q)
      PROVE Advances(c)
  <2>1. KindOf(cli[c])
    BY DEF Kinds
  <2>2. CASE Goes(c, "claim", "claim") \/ Goes(c, "relock", "save") \/ Goes(c, "relock", "relock")
    <3>1. PICK x \in {"claim", "relock"}, y \in {"claim", "relock", "save"} :
            Goes(c, x, y) /\ (x = "claim" <=> y = "claim")
      BY <2>2
    <3>2. x \in Starting /\ y \in Starting /\ (x \in Owning <=> y \in Owning)
      BY <3>1 DEF Starting, Owning, Serving
    <3>3. x \in Pcs \ {"idle"} /\ y \in Pcs \ {"idle", "withdraw"} /\ y # "withdraw_ports"
      BY DEF Pcs
    <3> QED BY <1>1, <2>1, <3>1, <3>2, <3>3
  <2>3. CASE Goes(c, "withdraw_ports", "withdraw_ports") /\ cli'[c].todo \subseteq cli[c].todo
    BY <1>1, <2>1, <2>3 DEF Pcs
  <2> QED BY <1>9, <2>2, <2>3, PortFlow, EndsAdvances
<1>10. ASSUME NEW q \in Ports, SavePort(c, q) PROVE UNCHANGED cli /\ cli[c].pc = "save"
  BY <1>10, PortFlow
<1> HIDE DEF Advances
<1> QED BY <1>2, <1>3, <1>4, <1>5, <1>6, <1>7, <1>8, <1>9, <1>10 DEF Acts, Step

(* Every step is a beginning, a step of a command or one of a launcher.    *)
LEMMA NextSteps ==
    ASSUME [Next]_vars
    PROVE  \/ \E c \in Clis, p \in Projects, op \in Commands : Begin(c, p, op)
           \/ \E c \in Clis : Acts(c)
           \/ \E l \in Launchers : Bind(l) \/ Exit(l) \/ Die(l) \/ Hang(l)
           \/ UNCHANGED vars
  BY DEF Next, Acts

LEMMA LauncherSteps ==
    ASSUME NEW l \in Launchers, Bind(l) \/ Exit(l) \/ Die(l) \/ Hang(l)
    PROVE  UNCHANGED <<cli, files, signalled>>
  BY DEF Bind, Exit, Die, Hang

LEMMA KindsStep ==
    ASSUME TypeOK, ActiveHasProject, Kinds, [Next]_vars
    PROVE  Kinds'
<1>1. ASSUME NEW c \in Clis, NEW p \in Projects, NEW op \in Commands, Begin(c, p, op)
      PROVE KindOf(cli'[c]) /\ Moves(c)
  BY <1>1, BeginFlow, FaultsAssumption DEF KindOf, Starting, Judging, Stopping, Serving, Owning,
         Looking, Outlasts
<1>2. UNCHANGED vars => UNCHANGED cli
  BY DEF vars
<1> QED BY <1>1, <1>2, NextSteps, LauncherSteps, ActsAdvance DEF Kinds, Advances, Moves

-----------------------------------------------------------------------------
(* What a command's step does to the files of projects and to launchers.   *)

(* The descriptor of its own project only: it is taken away at three       *)
(* points, written at one, and torn when the writer is killed there.       *)
LEMMA ActsRoot ==
    ASSUME TypeOK, ActiveHasProject, Kinds, NEW c \in Clis, Acts(c)
    PROVE  /\ \A p \in Projects \ {cli[c].p} : rootDesc'[p] = rootDesc[p]
           /\ \/ rootDesc' = rootDesc
              \/ rootDesc'[cli[c].p] = None /\ cli[c].pc \in {"remove", "clean_root", "withdraw"}
              \/ rootDesc'[cli[c].p] = cli[c].mine /\ cli[c].pc = "save" /\ SaveRoot(c)
              \/ rootDesc'[cli[c].p] = Torn /\ cli[c].pc = "save" /\ Kill(c)
<1>1. cli[c].pc # "idle" => cli[c].p \in Projects
  BY DEF ActiveHasProject
<1>2. ASSUME RemoveDescriptor(c) \/ CleanRoot(c) \/ WithdrawRoot(c)
      PROVE /\ \A p \in Projects \ {cli[c].p} : rootDesc'[p] = rootDesc[p]
            /\ rootDesc'[cli[c].p] = None /\ cli[c].pc \in {"remove", "clean_root", "withdraw"}
  BY <1>1, <1>2 DEF RemoveDescriptor, CleanRoot, WithdrawRoot, At, TypeOK
<1>3. ASSUME SaveRoot(c)
      PROVE /\ \A p \in Projects \ {cli[c].p} : rootDesc'[p] = rootDesc[p]
            /\ rootDesc'[cli[c].p] = cli[c].mine /\ cli[c].pc = "save"
  BY <1>1, <1>3 DEF SaveRoot, At, TypeOK
<1>4. ASSUME Kill(c)
      PROVE \/ rootDesc' = rootDesc
            \/ /\ \A p \in Projects \ {cli[c].p} : rootDesc'[p] = rootDesc[p]
               /\ rootDesc'[cli[c].p] = Torn /\ cli[c].pc = "save"
  BY <1>1, <1>4 DEF Kill, At, TypeOK
<1>5. ASSUME \/ Load(c) \/ CheckAlive(c) \/ Probe(c) \/ SendSigint(c) \/ AwaitExit(c)
             \/ CleanPort(c) \/ CleanIds(c) \/ LockRoot(c)
             \/ \E q \in Ports : ClaimPort(c, q) \/ RelockPort(c, q) \/ SavePort(c, q) \/ WithdrawPort(c, q)
             \/ \E l \in Launchers : Spawn(c, l)
             \/ Status(c) \/ Initialize(c) \/ InitializeFails(c) \/ RelockNoPort(c)
             \/ SaveFails(c) \/ Shutdown(c) \/ Reap(c) \/ AccessPort(c) \/ Deploy(c) \/ StopServing(c)
      PROVE rootDesc' = rootDesc
  BY <1>5 DEF Load, CheckAlive, Probe, SendSigint, AwaitExit, CleanPort, CleanIds, LockRoot,
         ClaimPort, RelockPort, SavePort, WithdrawPort, Spawn, Status, Initialize,
         InitializeFails, RelockNoPort, SaveFails, Shutdown, Reap, AccessPort, Deploy,
         StopServing, files
<1> QED BY <1>2, <1>3, <1>4, <1>5 DEF Acts, Step

(* The recorded ids of its own project only.                               *)
LEMMA ActsMapping ==
    ASSUME TypeOK, ActiveHasProject, NEW c \in Clis, Acts(c)
    PROVE  /\ \A p \in Projects \ {cli[c].p} : mapping'[p] = mapping[p]
           /\ \/ mapping' = mapping
              \/ mapping'[cli[c].p] = None /\ cli[c].pc = "ids"
              \/ mapping'[cli[c].p] = cli[c].seen /\ cli[c].pc = "deploy"
<1>1. cli[c].pc # "idle" => cli[c].p \in Projects
  BY DEF ActiveHasProject
<1>2. ASSUME CleanIds(c)
      PROVE /\ \A p \in Projects \ {cli[c].p} : mapping'[p] = mapping[p]
            /\ mapping'[cli[c].p] = None /\ cli[c].pc = "ids"
  BY <1>1, <1>2 DEF CleanIds, At, TypeOK
<1>3. ASSUME Deploy(c)
      PROVE \/ mapping' = mapping
            \/ /\ \A p \in Projects \ {cli[c].p} : mapping'[p] = mapping[p]
               /\ mapping'[cli[c].p] = cli[c].seen /\ cli[c].pc = "deploy"
  BY <1>1, <1>3 DEF Deploy, At, TypeOK
<1>4. ASSUME \/ Load(c) \/ CheckAlive(c) \/ Probe(c) \/ SendSigint(c) \/ AwaitExit(c)
             \/ RemoveDescriptor(c) \/ CleanPort(c) \/ CleanRoot(c) \/ LockRoot(c)
             \/ \E q \in Ports : ClaimPort(c, q) \/ RelockPort(c, q) \/ SavePort(c, q) \/ WithdrawPort(c, q)
             \/ \E l \in Launchers : Spawn(c, l)
             \/ Status(c) \/ Initialize(c) \/ InitializeFails(c) \/ RelockNoPort(c)
             \/ SaveRoot(c) \/ SaveFails(c) \/ Shutdown(c) \/ Reap(c) \/ WithdrawRoot(c)
             \/ AccessPort(c) \/ StopServing(c) \/ Kill(c)
      PROVE mapping' = mapping
  BY <1>4 DEF Load, CheckAlive, Probe, SendSigint, AwaitExit, RemoveDescriptor, CleanPort,
         CleanRoot, LockRoot, ClaimPort, RelockPort, SavePort, WithdrawPort, Spawn, Status,
         Initialize, InitializeFails, RelockNoPort, SaveRoot, SaveFails, Shutdown, Reap,
         WithdrawRoot, AccessPort, StopServing, Kill, files
<1> QED BY <1>2, <1>3, <1>4 DEF Acts, Step

(* A launcher is born once, for one project, and a dead one stays dead.    *)
LEMMA ProcStep ==
    ASSUME TypeOK, [Next]_vars, NEW l \in Launchers
    PROVE  \/ /\ ownerOf'[l] = ownerOf[l] /\ pidOf'[l] = pidOf[l]
              /\ proc[l] = "unborn" <=> proc'[l] = "unborn"
              /\ proc[l] = "dead" => proc'[l] = "dead"
              /\ stateDir'[ownerOf[l]] = stateDir[ownerOf[l]] \/ \E c \in Clis, k \in Launchers \ {l} : Spawn(c, k)
           \/ \E c \in Clis : Spawn(c, l)
<1> DEFINE Stays == /\ ownerOf'[l] = ownerOf[l] /\ pidOf'[l] = pidOf[l]
                    /\ proc[l] = "unborn" <=> proc'[l] = "unborn"
                    /\ proc[l] = "dead" => proc'[l] = "dead"
<1>1. ASSUME NEW c \in Clis, NEW k \in Launchers, k # l, Spawn(c, k) PROVE Stays
  BY <1>1 DEF Spawn, TypeOK
<1>2. ASSUME NEW k \in Launchers, Bind(k) \/ Exit(k) \/ Die(k) \/ Hang(k)
      PROVE Stays /\ UNCHANGED stateDir
  BY <1>2 DEF Bind, Exit, Die, Hang, Live, TypeOK, files
<1>3. ASSUME NEW c \in Clis, SendSigint(c) \/ Shutdown(c) PROVE Stays /\ UNCHANGED stateDir
  BY <1>3 DEF SendSigint, Shutdown, files
<1>4. ASSUME NEW c \in Clis,
             \/ \E p \in Projects, op \in Commands : Begin(c, p, op)
             \/ Load(c) \/ CheckAlive(c) \/ Probe(c) \/ AwaitExit(c) \/ RemoveDescriptor(c)
             \/ CleanPort(c) \/ CleanRoot(c) \/ CleanIds(c) \/ LockRoot(c)
             \/ \E q \in Ports : ClaimPort(c, q) \/ RelockPort(c, q) \/ SavePort(c, q) \/ WithdrawPort(c, q)
             \/ Status(c) \/ Initialize(c) \/ InitializeFails(c) \/ RelockNoPort(c)
             \/ SaveRoot(c) \/ SaveFails(c) \/ Reap(c) \/ WithdrawRoot(c)
             \/ AccessPort(c) \/ Deploy(c) \/ StopServing(c) \/ Kill(c)
      PROVE UNCHANGED <<procs, stateDir>>
  BY <1>4 DEF Begin, Load, CheckAlive, Probe, AwaitExit, RemoveDescriptor, CleanPort,
         CleanRoot, CleanIds, LockRoot, ClaimPort, RelockPort, SavePort, WithdrawPort,
         Status, Initialize, InitializeFails, RelockNoPort, SaveRoot, SaveFails, Reap,
         WithdrawRoot, AccessPort, Deploy, StopServing, Kill, files
<1>5. UNCHANGED vars => UNCHANGED <<procs, stateDir>>
  BY DEF vars, files
<1>6. UNCHANGED <<procs, stateDir>> => Stays /\ UNCHANGED stateDir
  BY DEF procs
<1> HIDE DEF Stays
<1>7. \/ Stays /\ (UNCHANGED stateDir \/ \E c \in Clis, k \in Launchers \ {l} : Spawn(c, k))
      \/ \E c \in Clis : Spawn(c, l)
  BY <1>1, <1>2, <1>3, <1>4, <1>5, <1>6 DEF Next, Step
<1> QED BY <1>7 DEF Stays

-----------------------------------------------------------------------------
(* Whatever an invocation or a descriptor names was spawned for that       *)
(* project.                                                                *)

Born(l, p) == l \in Launchers /\ proc[l] # "unborn" /\ ownerOf[l] = p

OwnedBy(x) ==
    /\ x.seen # None => Born(x.seen, x.p)
    /\ x.mine # None => Born(x.mine, x.p)

Owned ==
    /\ \A c \in Clis : OwnedBy(cli[c])
    /\ \A p \in Projects : rootDesc[p] \in Launchers => Born(rootDesc[p], p)
    /\ \A l \in Launchers : proc[l] # "unborn" => ownerOf[l] \in Projects

LEMMA BornStays ==
    ASSUME TypeOK, [Next]_vars
    PROVE  \A l, p : Born(l, p) => Born(l, p)'
<1> SUFFICES ASSUME NEW l, NEW p, Born(l, p) PROVE Born(l, p)'
  OBVIOUS
<1>1. ~\E c \in Clis : Spawn(c, l)
  BY DEF Born, Spawn
<1> QED BY <1>1, ProcStep DEF Born

LEMMA OwnedStep ==
    ASSUME TypeOK, ActiveHasProject, Kinds, Owned, [Next]_vars
    PROVE  Owned'
<1>1. \A l, p : Born(l, p) => Born(l, p)'
  BY BornStays
<1>2. ASSUME NEW c \in Clis PROVE OwnedBy(cli[c])'
  <2>1. CASE cli'[c] = cli[c]
    BY <1>1, <2>1 DEF Owned, OwnedBy
  <2>2. CASE cli'[c].seen = None /\ cli'[c].mine = None
    BY <2>2 DEF OwnedBy
  <2>3. ASSUME Acts(c), Continues(c) PROVE OwnedBy(cli[c])'
    <3>1. cli[c].p \in Projects
      BY <2>3 DEF Continues, ActiveHasProject
    <3>2. cli'[c].seen # None => Born(cli'[c].seen, cli[c].p)
      <4>1. CASE cli'[c].seen = cli[c].seen
        BY <4>1 DEF Owned, OwnedBy
      <4>2. CASE cli'[c].seen = rootDesc[cli[c].p]
        <5>1. cli'[c].seen \in Launchers \cup {None}
          BY CliType DEF CliStates
        <5> QED BY <3>1, <4>2, <5>1 DEF Owned
      <4> QED BY <2>3, <4>1, <4>2 DEF Continues
    <3>3. cli'[c].mine # None => Born(cli[c].mine, cli[c].p)'
      <4>1. CASE cli'[c].mine = cli[c].mine
        <5>1. cli[c].mine # None => Born(cli[c].mine, cli[c].p)
          BY DEF Owned, OwnedBy
        <5>2. cli'[c].p = cli[c].p
          BY <2>3 DEF Continues
        <5> QED BY <1>1, <4>1, <5>1, <5>2 DEF Born
      <4>2. ASSUME NEW l \in Launchers, Spawn(c, l), cli'[c].mine = l
            PROVE Born(cli[c].mine, cli[c].p)'
        <5>1. cli[c].p \in Projects /\ proc'[l] = "starting" /\ ownerOf'[l] = cli[c].p /\ cli'[c].p = cli[c].p
          BY <3>1, <4>2, SpawnFlow DEF Spawn, TypeOK
        <5> QED BY <4>2, <5>1 DEF Born
      <4> QED BY <2>3, <4>1, <4>2 DEF Continues
    <3>4. cli'[c].p = cli[c].p
      BY <2>3 DEF Continues
    <3>5. cli'[c].seen # None => Born(cli[c].seen, cli[c].p)'
      BY <1>1, <3>2, <3>4 DEF Born
    <3> QED BY <3>3, <3>5 DEF OwnedBy
  <2>4. \/ cli'[c] = cli[c]
        \/ cli'[c].seen = None /\ cli'[c].mine = None
        \/ Acts(c) /\ Continues(c)
    <3>1. ASSUME NEW d \in Clis, Acts(d)
          PROVE \/ cli'[c] = cli[c]
                \/ cli'[c].seen = None /\ cli'[c].mine = None
                \/ Acts(c) /\ Continues(c)
      BY <3>1, ActsAdvance DEF Advances, Ends, Moves
    <3>2. ASSUME NEW d \in Clis, NEW p \in Projects, NEW op \in Commands, Begin(d, p, op)
          PROVE cli'[c] = cli[c] \/ (cli'[c].seen = None /\ cli'[c].mine = None)
      BY <3>2, BeginFlow DEF Moves
    <3>3. UNCHANGED vars => cli'[c] = cli[c]
      BY DEF vars
    <3> QED BY <3>1, <3>2, <3>3, NextSteps, LauncherSteps
  <2> QED BY <2>1, <2>2, <2>3, <2>4
<1>3. ASSUME NEW p \in Projects, rootDesc'[p] \in Launchers PROVE Born(rootDesc[p], p)'
  <2>1. CASE rootDesc'[p] = rootDesc[p]
    BY <1>1, <1>3, <2>1 DEF Owned, Born
  <2>2. ASSUME NEW c \in Clis, Acts(c), rootDesc'[p] # rootDesc[p] PROVE Born(rootDesc[p], p)'
    <3>1. p = cli[c].p /\ cli[c].pc = "save" /\ rootDesc'[p] = cli[c].mine
      BY <1>3, <2>2, ActsRoot, NoneAssumption
    <3>2. cli[c].mine # None
      BY <3>1 DEF Kinds, KindOf, Owning
    <3>3. Born(cli[c].mine, p)
      BY <3>1, <3>2 DEF Owned, OwnedBy
    <3> QED BY <1>1, <3>1, <3>3 DEF Born
  <2>3. ASSUME NEW c \in Clis, NEW q \in Projects, NEW op \in Commands, Begin(c, q, op)
        PROVE rootDesc' = rootDesc
    BY <2>3 DEF Begin, files
  <2>4. UNCHANGED vars \/ UNCHANGED files => rootDesc' = rootDesc
    BY DEF vars, files
  <2> QED BY <2>1, <2>2, <2>3, <2>4, NextSteps, LauncherSteps
<1>4. ASSUME NEW l \in Launchers, proc'[l] # "unborn" PROVE ownerOf'[l] \in Projects
  <2>1. ASSUME NEW c \in Clis, Spawn(c, l) PROVE ownerOf'[l] \in Projects
    BY <2>1 DEF Spawn, At, TypeOK, ActiveHasProject
  <2> QED BY <1>4, <2>1, ProcStep DEF Owned
<1> QED BY <1>2, <1>3, <1>4 DEF Owned

LEMMA SignalStep ==
    ASSUME [Next]_vars
    PROVE  (\E c \in Clis : SendSigint(c) \/ Shutdown(c)) \/ UNCHANGED signalled
<1>1. ASSUME NEW c \in Clis,
             \/ \E p \in Projects, op \in Commands : Begin(c, p, op)
             \/ Load(c) \/ CheckAlive(c) \/ Probe(c) \/ AwaitExit(c) \/ RemoveDescriptor(c)
             \/ CleanPort(c) \/ CleanRoot(c) \/ CleanIds(c) \/ LockRoot(c)
             \/ \E q \in Ports : ClaimPort(c, q) \/ RelockPort(c, q) \/ SavePort(c, q) \/ WithdrawPort(c, q)
             \/ \E l \in Launchers : Spawn(c, l)
             \/ Status(c) \/ Initialize(c) \/ InitializeFails(c) \/ RelockNoPort(c)
             \/ SaveRoot(c) \/ SaveFails(c) \/ Reap(c) \/ WithdrawRoot(c)
             \/ AccessPort(c) \/ Deploy(c) \/ StopServing(c) \/ Kill(c)
      PROVE UNCHANGED signalled
  BY <1>1 DEF Begin, Load, CheckAlive, Probe, AwaitExit, RemoveDescriptor, CleanPort,
         CleanRoot, CleanIds, LockRoot, ClaimPort, RelockPort, SavePort, WithdrawPort, Spawn,
         Status, Initialize, InitializeFails, RelockNoPort, SaveRoot, SaveFails, Reap,
         WithdrawRoot, AccessPort, Deploy, StopServing, Kill, procs
<1>2. UNCHANGED vars => UNCHANGED signalled
  BY DEF vars, procs
<1> QED BY <1>1, <1>2, LauncherSteps DEF Next, Step

(* What any behaviour keeps, whatever happens.                             *)
KnownInv == IInv /\ Kinds /\ Owned

LEMMA KnownInvInit == Init => KnownInv
<1> SUFFICES ASSUME Init PROVE Kinds /\ Owned
  BY InitIInv DEF KnownInv
<1>1. Kinds
  BY DEF Init, Resting, Kinds, KindOf, Starting, Judging, Stopping, Serving, Owning, Looking, Outlasts
<1>2. Owned
  BY NoneAssumption DEF Init, Resting, Owned, OwnedBy
<1> QED BY <1>1, <1>2

LEMMA KnownInvStep == KnownInv /\ [Next]_vars => KnownInv'
  BY IInvStep, KindsStep, OwnedStep DEF KnownInv, IInv

-----------------------------------------------------------------------------
(* Invocations on a project one after the other.                           *)

(* Two on one project are a foreground run that has published its network  *)
(* and a stop or a deploy.                                                 *)
Beside(x, y) == Outlasts(x) /\ y.op \in {"stop", "deploy"}

Alone ==
    \A c, d \in Clis :
        c # d /\ cli[c].pc # "idle" /\ cli[d].pc # "idle" /\ cli[c].p = cli[d].p
            => Beside(cli[c], cli[d]) \/ Beside(cli[d], cli[c])

(* What the files of its project are when an invocation is at a point.     *)
Records(x) ==
    /\ x.pc \in Starting \cup {"withdraw_ports"} => rootDesc[x.p] = None
    /\ x.pc \in Judging => rootDesc[x.p] = x.seen
    /\ x.pc \in Stopping /\ x.op \in StartOps => rootDesc[x.p] = x.seen
    /\ x.pc \in Stopping \cup {"remove", "port", "deploy"} => rootDesc[x.p] \in {None, x.seen}
    /\ Outlasts(x) => rootDesc[x.p] \in {None, x.mine}
    /\ x.pc \in Starting \ {"ids"} => mapping[x.p] = None

Recorded == \A c \in Clis : Records(cli[c])

SerialInv == KnownInv /\ Alone /\ Recorded /\ MappingFresh

LEMMA AloneStep ==
    ASSUME KnownInv, Alone, "overlap" \notin Faults, [Next]_vars
    PROVE  Alone'
<1> USE DEF KnownInv, IInv
<1>1. ASSUME NEW e \in Clis, Acts(e) PROVE Alone'
  <2>1. CASE UNCHANGED cli
    BY <2>1 DEF Alone
  <2>2. CASE Moves(e) /\ Ends(e)
    BY <2>2 DEF Alone, Moves, Ends
  <2>3. CASE Moves(e) /\ Continues(e)
    <3> SUFFICES ASSUME NEW c \in Clis, NEW d \in Clis, c # d, cli'[c].pc # "idle",
                        cli'[d].pc # "idle", cli'[c].p = cli'[d].p
                 PROVE  Beside(cli'[c], cli'[d]) \/ Beside(cli'[d], cli'[c])
      BY DEF Alone
    <3>1. ASSUME NEW x \in {c, d}
          PROVE cli[x].pc # "idle" /\ cli[x].p = cli'[x].p /\ cli[x].op = cli'[x].op
                  /\ (Outlasts(cli[x]) => Outlasts(cli'[x]))
      BY <2>3 DEF Moves, Continues
    <3>2. Beside(cli[c], cli[d]) \/ Beside(cli[d], cli[c])
      BY <3>1 DEF Alone
    <3> QED BY <3>1, <3>2 DEF Beside
  <2> QED BY <1>1, <2>1, <2>2, <2>3, ActsAdvance DEF Advances
<1>2. ASSUME NEW e \in Clis, NEW p \in Projects, NEW op \in Commands, Begin(e, p, op) PROVE Alone'
  <2>1. ASSUME NEW d \in Clis \ {e}, cli[d].p = p PROVE Outlasts(cli[d]) /\ op \in {"stop", "deploy"}
    BY <1>2, <2>1 DEF Begin, MayBegin, Kinds, KindOf
  <2> QED BY <1>2, <2>1, BeginFlow DEF Alone, Beside, Moves
<1>3. UNCHANGED vars => UNCHANGED cli
  BY DEF vars
<1>4. UNCHANGED cli => Alone'
  BY DEF Alone
<1> QED BY <1>1, <1>2, <1>3, <1>4, NextSteps, LauncherSteps

(* The project's files are as a command left them when it takes a step     *)
(* that writes neither the descriptor nor the ids.                         *)
LEMMA RecordsGoes ==
    ASSUME NEW c \in Clis, Keeps(c), KindOf(cli[c]), Records(cli[c]), cli[c].pc # "idle",
           rootDesc'[cli[c].p] = rootDesc[cli[c].p], mapping'[cli[c].p] = mapping[cli[c].p],
           \/ cli[c].pc \in Starting \ {"ids"} /\ cli'[c].pc \in Starting \ {"ids"}
           \/ cli[c].pc \in Judging /\ cli'[c].pc \in Judging \cup Stopping
           \/ cli[c].pc \in Stopping /\ cli'[c].pc \in Stopping
           \/ cli[c].pc = "await" /\ cli'[c].pc = IF cli[c].op = "stop" THEN "remove" ELSE "clean_port"
           \/ cli[c].pc \in {"serve", "shutdown", "reap"} /\ cli'[c].pc \in {"shutdown", "reap", "withdraw"}
           \/ cli[c].pc = "withdraw_ports" /\ cli'[c].pc = "withdraw_ports"
           \/ cli[c].pc = "port" /\ cli'[c].pc = "deploy"
    PROVE  Records(cli[c])'
  BY DEF Keeps, KindOf, Records, Starting, Judging, Stopping, Serving, Owning, Looking, Outlasts, StartOps

LEMMA EndsRecords ==
    ASSUME NEW c \in Clis, Ends(c)
    PROVE  Records(cli[c])'
  BY DEF Ends, Records, Starting, Judging, Stopping, Serving, Outlasts

LEMMA ActsRecords ==
    ASSUME KnownInv, NEW c \in Clis, Records(cli[c]), Acts(c)
    PROVE  Records(cli[c])'
<1> USE DEF KnownInv, IInv
<1>0. KindOf(cli[c]) /\ cli[c] \in CliStates
  BY DEF Kinds, TypeOK
<1>1. ASSUME NEW x \in Pcs \ {"idle"}, NEW y \in Pcs, Goes(c, x, y), UNCHANGED <<rootDesc, mapping>>,
             \/ x \in Starting \ {"ids"} /\ y \in Starting \ {"ids"}
             \/ x \in Judging /\ y \in Judging \cup Stopping
             \/ x \in Stopping /\ y \in Stopping
             \/ x = "await" /\ y = IF cli[c].op = "stop" THEN "remove" ELSE "clean_port"
             \/ x \in {"serve", "shutdown", "reap"} /\ y \in {"shutdown", "reap", "withdraw"}
             \/ x = "withdraw_ports" /\ y = "withdraw_ports"
             \/ x = "port" /\ y = "deploy"
      PROVE Records(cli[c])'
  BY <1>0, <1>1, RecordsGoes DEF Goes
<1>2. ASSUME Load(c) PROVE Records(cli[c])'
  <2>1. UNCHANGED <<rootDesc, mapping>>
    BY <1>2 DEF Load, files
  <2>2. CASE Loads(c)
    BY <1>0, <2>1, <2>2 DEF Loads, KindOf, Records, Starting, Judging, Stopping, Serving, Outlasts,
           StartOps, Ops
  <2> QED BY <1>2, <2>2, LoadFlow, EndsRecords
<1>3. ASSUME CheckAlive(c) \/ Probe(c) \/ SendSigint(c) \/ AwaitExit(c) \/ CleanPort(c)
      PROVE Records(cli[c])'
  <2>1. UNCHANGED <<rootDesc, mapping>>
    BY <1>3 DEF CheckAlive, Probe, SendSigint, AwaitExit, CleanPort, files
  <2>2. Ends(c) \/ \E x \in Pcs \ {"idle"}, y \in Pcs :
          /\ Goes(c, x, y)
          /\ \/ x \in Judging /\ y \in Judging \cup Stopping
             \/ x \in Stopping /\ y \in Stopping
             \/ x = "await" /\ y = IF cli[c].op = "stop" THEN "remove" ELSE "clean_port"
    BY <1>3, Flow DEF Pcs, Judging, Stopping
  <2> QED BY <1>1, <2>1, <2>2, EndsRecords
<1>4. ASSUME CleanRoot(c) PROVE Records(cli[c])'
  <2>1. CASE Goes(c, "clean_root", "ids")
    <3>1. rootDesc'[cli[c].p] = None
      BY <1>4, <2>1 DEF CleanRoot, TypeOK, ActiveHasProject, Goes
    <3> QED BY <2>1, <3>1 DEF Goes, Keeps, Records, Starting, Judging, Stopping, Serving, Outlasts
  <2> QED BY <1>4, <2>1, Flow, EndsRecords
<1>5. ASSUME CleanIds(c) PROVE Records(cli[c])'
  <2>1. Goes(c, "ids", "lock_root")
    BY <1>5, Flow
  <2>2. rootDesc' = rootDesc /\ mapping'[cli[c].p] = None
    BY <1>5, <2>1 DEF CleanIds, TypeOK, ActiveHasProject, Goes
  <2> QED BY <2>1, <2>2 DEF Goes, Keeps, Records, Starting, Judging, Stopping, Serving, Outlasts
<1>6. ASSUME LockRoot(c) \/ Status(c) \/ Initialize(c) \/ RelockNoPort(c) PROVE Records(cli[c])'
  <2>1. UNCHANGED <<rootDesc, mapping>>
    BY <1>6 DEF LockRoot, Status, Initialize, RelockNoPort, files
  <2>2. Ends(c) \/ \E x \in Starting \ {"ids"}, y \in Starting \ {"ids"} : Goes(c, x, y)
    BY <1>6, Flow DEF Starting
  <2>3. Starting \subseteq Pcs \ {"idle"}
    BY DEF Starting, Pcs
  <2> QED BY <1>1, <2>1, <2>2, <2>3, EndsRecords
<1>7. ASSUME NEW q \in Ports, ClaimPort(c, q) \/ RelockPort(c, q) \/ WithdrawPort(c, q)
      PROVE Records(cli[c])'
  <2>1. UNCHANGED <<rootDesc, mapping>>
    BY <1>7 DEF ClaimPort, RelockPort, WithdrawPort, files
  <2>2. \/ Ends(c)
        \/ \E x \in Pcs \ {"idle"}, y \in Pcs :
              /\ Goes(c, x, y)
              /\ \/ x \in Starting \ {"ids"} /\ y \in Starting \ {"ids"}
                 \/ x = "withdraw_ports" /\ y = "withdraw_ports"
    BY <1>7, PortFlow DEF Starting, Pcs
  <2> QED BY <1>1, <2>1, <2>2, EndsRecords
<1>8. ASSUME NEW q \in Ports, SavePort(c, q) PROVE Records(cli[c])'
  BY <1>8 DEF SavePort, Records
<1>9. ASSUME NEW l \in Launchers, Spawn(c, l) PROVE Records(cli[c])'
  <2>1. UNCHANGED <<rootDesc, mapping>>
    BY <1>9 DEF Spawn
  <2> QED BY <1>9, <2>1, SpawnFlow DEF Records, Starting, Judging, Stopping, Serving, Outlasts
<1>10. ASSUME InitializeFails(c) \/ SaveFails(c) PROVE Records(cli[c])'
  BY <1>10, AbandonFlow DEF Records, Starting, Judging, Stopping, Serving, Outlasts
<1>11. ASSUME SaveRoot(c) PROVE Records(cli[c])'
  <2>1. CASE Goes(c, "save", "serve")
    <3>1. rootDesc'[cli[c].p] = cli[c].mine
      BY <1>11, <2>1 DEF SaveRoot, TypeOK, ActiveHasProject, Goes
    <3> QED BY <2>1, <3>1 DEF Goes, Keeps, Records, Starting, Judging, Stopping, Serving, Outlasts
  <2> QED BY <1>11, <2>1, Flow, EndsRecords
<1>12. ASSUME StopServing(c) \/ Shutdown(c) \/ Reap(c) PROVE Records(cli[c])'
  <2>1. UNCHANGED <<rootDesc, mapping>>
    BY <1>12 DEF StopServing, Shutdown, Reap, files
  <2>2. Ends(c) \/ \E x \in {"serve", "shutdown", "reap"}, y \in {"shutdown", "reap", "withdraw"} : Goes(c, x, y)
    BY <1>12, Flow
  <2>3. {"serve", "shutdown", "reap"} \subseteq Pcs \ {"idle"} /\ {"shutdown", "reap", "withdraw"} \subseteq Pcs
    BY DEF Pcs
  <2> QED BY <1>1, <2>1, <2>2, <2>3, EndsRecords
<1>13. ASSUME WithdrawRoot(c) PROVE Records(cli[c])'
  <2>1. CASE Goes(c, "withdraw", "withdraw_ports")
    <3>1. rootDesc'[cli[c].p] = None
      BY <1>13, <2>1 DEF WithdrawRoot, TypeOK, ActiveHasProject, Goes
    <3> QED BY <2>1, <3>1 DEF Goes, Keeps, Records, Starting, Judging, Stopping, Serving, Outlasts
  <2> QED BY <1>13, <2>1, Flow, EndsRecords
<1>14. ASSUME AccessPort(c) PROVE Records(cli[c])'
  <2>1. UNCHANGED <<rootDesc, mapping>>
    BY <1>14 DEF AccessPort, files
  <2>2. {"port", "deploy"} \subseteq Pcs \ {"idle"}
    BY DEF Pcs
  <2> QED BY <1>1, <1>14, <2>1, <2>2, Flow, EndsRecords
<1>15. ASSUME RemoveDescriptor(c) \/ Deploy(c) \/ Kill(c) PROVE Records(cli[c])'
  BY <1>15, Flow, EndsRecords
<1> HIDE DEF KnownInv, IInv
<1> QED BY <1>2, <1>3, <1>4, <1>5, <1>6, <1>7, <1>8, <1>9, <1>10, <1>11, <1>12, <1>13, <1>14,
           <1>15 DEF Acts, Step

(* A step of another invocation of the project changes nothing that one    *)
(* relies on.                                                              *)
LEMMA OthersRecords ==
    ASSUME SerialInv, NEW c \in Clis, NEW d \in Clis, c # d, Acts(c), cli'[d] = cli[d]
    PROVE  Records(cli[d])'
<1> USE DEF SerialInv, KnownInv, IInv
<1>1. Records(cli[d]) /\ KindOf(cli[d]) /\ KindOf(cli[c]) /\ Records(cli[c])
  BY DEF Recorded, Kinds
<1>2. CASE cli[d].pc = "idle"
  BY <1>2 DEF Records, Starting, Judging, Stopping, Serving, Outlasts
<1>3. CASE cli[d].pc # "idle" /\ cli[d].p # cli[c].p
  <2>1. cli[d].p \in Projects \ {cli[c].p}
    BY <1>3 DEF ActiveHasProject
  <2>2. rootDesc'[cli[d].p] = rootDesc[cli[d].p] /\ mapping'[cli[d].p] = mapping[cli[d].p]
    BY <2>1, ActsRoot, ActsMapping
  <2> QED BY <1>1, <2>2 DEF Records
<1>4. CASE cli[d].pc # "idle" /\ cli[d].p = cli[c].p /\ cli[c].pc # "idle"
  <2>1. Beside(cli[c], cli[d]) \/ Beside(cli[d], cli[c])
    BY <1>4 DEF Alone
  <2>2. \/ rootDesc'[cli[d].p] = rootDesc[cli[d].p]
        \/ rootDesc'[cli[d].p] = None /\ cli[c].pc \in {"remove", "withdraw"}
    <3>1. cli[c].pc \notin {"clean_root", "save"}
      BY <1>1, <2>1 DEF Beside, Outlasts, KindOf, Serving, Starting, Judging, StartOps
    <3> QED BY <1>4, <3>1, ActsRoot
  <2>3. cli[d].pc \notin Starting \cup Judging
    BY <1>1, <2>1 DEF Beside, Outlasts, KindOf, Serving, Starting, Judging, StartOps
  <2>4. ~(cli[d].pc \in Stopping /\ cli[d].op \in StartOps)
    BY <1>1, <2>1 DEF Beside, Outlasts, Serving, Stopping, StartOps
  <2> QED BY <1>1, <2>2, <2>3, <2>4 DEF Records
<1>5. cli[c].pc # "idle"
  BY Flow, PortFlow, LoadFlow, SpawnFlow, AbandonFlow DEF Acts, Step, Goes
<1> QED BY <1>2, <1>3, <1>4, <1>5

LEMMA RecordedStep ==
    ASSUME SerialInv, [Next]_vars
    PROVE  Recorded'
<1> USE DEF SerialInv, KnownInv, IInv
<1>1. ASSUME NEW c \in Clis, NEW d \in Clis, Acts(c) PROVE Records(cli[d])'
  <2>1. CASE c = d
    BY <1>1, <2>1, ActsRecords DEF Recorded
  <2>2. CASE c # d
    <3>1. cli'[d] = cli[d]
      BY <1>1, <2>2, ActsAdvance DEF Advances, Moves
    <3> QED BY <1>1, <2>2, <3>1, OthersRecords
  <2> QED BY <2>1, <2>2
<1>2. ASSUME NEW c \in Clis, NEW d \in Clis, NEW p \in Projects, NEW op \in Commands, Begin(c, p, op)
      PROVE Records(cli[d])'
  <2>1. UNCHANGED <<rootDesc, mapping>>
    BY <1>2 DEF Begin, files
  <2>2. CASE c = d
    BY <1>2, <2>2, BeginFlow DEF Records, Starting, Judging, Stopping, Serving, Outlasts
  <2>3. CASE c # d
    <3>1. cli'[d] = cli[d]
      BY <1>2, <2>3, BeginFlow DEF Moves
    <3> QED BY <2>1, <3>1 DEF Recorded, Records
  <2> QED BY <2>2, <2>3
<1>3. UNCHANGED vars => UNCHANGED <<cli, files>>
  BY DEF vars
<1>4. UNCHANGED <<cli, files>> => Recorded'
  BY DEF files, Recorded, Records
<1> HIDE DEF SerialInv, KnownInv, IInv
<1> QED BY <1>1, <1>2, <1>3, <1>4, NextSteps, LauncherSteps DEF Recorded

LEMMA MappingStep ==
    ASSUME SerialInv, [Next]_vars
    PROVE  MappingFresh'
<1> USE DEF SerialInv, KnownInv, IInv
<1>1. ASSUME NEW c \in Clis, NEW p \in Projects, Acts(c), rootDesc'[p] \in Launchers
      PROVE mapping'[p] \in {None, rootDesc'[p]}
  <2>1. CASE p # cli[c].p
    BY <1>1, <2>1, ActsRoot, ActsMapping DEF MappingFresh
  <2>2. CASE p = cli[c].p /\ cli[c].pc = "save"
    <3>1. Records(cli[c])
      BY DEF Recorded
    <3>2. mapping[p] = None
      BY <2>2, <3>1 DEF Records, Starting
    <3> QED BY <1>1, <2>2, <3>2, ActsMapping
  <2>3. CASE p = cli[c].p /\ cli[c].pc # "save"
    <3>1. rootDesc'[p] = rootDesc[p]
      BY <1>1, <2>3, ActsRoot, NoneAssumption
    <3>2. cli[c].pc = "deploy" => rootDesc[p] \in {None, cli[c].seen}
      BY <2>3 DEF Recorded, Records
    <3>3. CASE mapping'[p] = cli[c].seen /\ cli[c].pc = "deploy"
      BY <1>1, <3>1, <3>2, <3>3, NoneAssumption
    <3>4. CASE mapping'[p] = mapping[p] \/ mapping'[p] = None
      BY <1>1, <3>1, <3>4 DEF MappingFresh
    <3> QED BY <1>1, <2>3, <3>3, <3>4, ActsMapping
  <2> QED BY <2>1, <2>2, <2>3
<1>2. ASSUME NEW c \in Clis, NEW p \in Projects, NEW op \in Commands, Begin(c, p, op)
      PROVE UNCHANGED files
  BY <1>2 DEF Begin
<1>3. UNCHANGED vars => UNCHANGED files
  BY DEF vars
<1>4. UNCHANGED files => MappingFresh'
  BY DEF files, MappingFresh
<1> HIDE DEF SerialInv, KnownInv, IInv
<1> QED BY <1>1, <1>2, <1>3, <1>4, NextSteps, LauncherSteps DEF MappingFresh

LEMMA SerialInvInit == Init => SerialInv
<1> SUFFICES ASSUME Init PROVE KnownInv /\ Alone /\ Recorded /\ MappingFresh
  BY DEF SerialInv
<1>1. KnownInv
  BY KnownInvInit
<1>2. Alone /\ MappingFresh
  BY NoneAssumption DEF Init, Resting, Alone, MappingFresh
<1>3. Recorded
  BY DEF Init, Resting, Recorded, Records, Starting, Judging, Stopping, Serving, Outlasts
<1> QED BY <1>1, <1>2, <1>3

LEMMA SerialInvAlways == ("overlap" \notin Faults) => (Spec => []SerialInv)
<1> SUFFICES ASSUME "overlap" \notin Faults PROVE Spec => []SerialInv
  OBVIOUS
<1>1. SerialInv /\ [Next]_vars => SerialInv'
  BY KnownInvStep, AloneStep, RecordedStep, MappingStep DEF SerialInv
<1> QED BY <1>1, SerialInvInit, PTL DEF Spec

(* When a project's commands run one after the other, or a stop or a       *)
(* deploy beside a foreground network, the ids recorded for its            *)
(* environment are of the network its descriptor names: what launchers and *)
(* processes do, which file cannot be written and which command is killed  *)
(* makes no difference.                                                    *)
THEOREM MappingStaysFresh == ("overlap" \notin Faults) => (Spec => []MappingFresh)
<1>1. SerialInv => MappingFresh
  BY DEF SerialInv
<1> QED BY <1>1, SerialInvAlways, PTL

-----------------------------------------------------------------------------
(* What runs when a start prepares to launch.                              *)

(* A launcher that matters: it lives, and unless it may be slow to go it   *)
(* has not been told to.                                                   *)
Counts(l) == Live(l) /\ (l \in signalled => "slow" \notin Faults)

Clearing == {"clean_port", "clean_root", "ids", "lock_root", "claim"}

Quiet(x) ==
    /\ x.pc \in Clearing => \A l \in Launchers : Counts(l) => ownerOf[l] # x.p
    /\ x.pc = "remove" => ~Counts(x.seen)
    /\ x.pc = "await" /\ Live(x.seen) => x.seen \in signalled
    /\ x.pc \in {"withdraw", "withdraw_ports"} => proc[x.mine] = "dead"

(* A launcher that matters is in the descriptor of its project or held by  *)
(* the invocation that spawned it, and the state directory is its own.     *)
Described ==
    \A l \in Launchers :
        Counts(l) => rootDesc[ownerOf[l]] = l \/ \E c \in Clis : cli[c].mine = l

DirsKept == \A l \in Launchers : Counts(l) => stateDir[ownerOf[l]] = l

QuietInv ==
    /\ SerialInv
    /\ \A c \in Clis : Quiet(cli[c])
    /\ Described
    /\ DirsKept

LEMMA CountsStep ==
    ASSUME TypeOK, [Next]_vars, NEW l \in Launchers
    PROVE  /\ (Counts(l))' => Counts(l) \/ \E c \in Clis : Spawn(c, l)
           /\ Live(l)' => Live(l) \/ \E c \in Clis : Spawn(c, l)
           /\ signalled \subseteq signalled'
<1>1. signalled \subseteq signalled'
  BY SignalStep DEF SendSigint, Shutdown
<1>2. Live(l)' => Live(l) \/ \E c \in Clis : Spawn(c, l)
  <2>1. proc[l] \in {"unborn", "starting", "serving", "hung", "dead"}
    BY DEF TypeOK
  <2> QED BY <2>1, ProcStep DEF Live
<1> QED BY <1>1, <1>2 DEF Counts

(* Only a start is between its cleanup and its launch, and it is alone.    *)
LEMMA StartsAlone ==
    ASSUME SerialInv, NEW c \in Clis, NEW d \in Clis, c # d, cli[c].pc # "idle", cli[d].pc # "idle",
           cli[c].p = cli[d].p, cli[c].op \in StartOps, ~Outlasts(cli[c])
    PROVE  FALSE
  BY DEF SerialInv, Alone, Beside, StartOps

(* What waits, what is signalled and what is dead stay so while other      *)
(* steps are taken, and a launcher comes to a project only by a start.     *)
LEMMA QuietKept ==
    ASSUME SerialInv, [Next]_vars, NEW d \in Clis, Quiet(cli[d]), cli'[d] = cli[d]
    PROVE  Quiet(cli[d])'
<1> USE DEF SerialInv, KnownInv, IInv
<1>1. KindOf(cli[d]) /\ OwnedBy(cli[d])
  BY DEF Kinds, Owned
<1>2. cli[d].pc \in {"remove", "await"} => cli[d].seen \in Launchers /\ proc[cli[d].seen] # "unborn"
  BY <1>1 DEF KindOf, OwnedBy, Born, Looking, Stopping
<1>3. cli[d].pc \in {"withdraw", "withdraw_ports"} => cli[d].mine \in Launchers
  BY <1>1 DEF KindOf, OwnedBy, Born, Owning, Serving
<1>4. ASSUME NEW l \in Launchers, proc[l] # "unborn"
      PROVE  /\ (Counts(l))' => Counts(l)
             /\ Live(l)' => Live(l)
             /\ proc[l] = "dead" => proc'[l] = "dead"
             /\ signalled \subseteq signalled'
             /\ ownerOf'[l] = ownerOf[l]
  <2>1. ~\E c \in Clis : Spawn(c, l)
    BY <1>4 DEF Spawn
  <2> QED BY <2>1, CountsStep, ProcStep
<1>5. ASSUME cli[d].pc \in Clearing, NEW l \in Launchers, (Counts(l))' PROVE ownerOf'[l] # cli[d].p
  <2>1. CASE proc[l] # "unborn"
    BY <1>4, <1>5, <2>1 DEF Quiet
  <2>2. ASSUME NEW c \in Clis, Spawn(c, l) PROVE ownerOf'[l] # cli[d].p
    <3>1. cli[c].pc = "claim" /\ cli[c].p \in Projects /\ ownerOf'[l] = cli[c].p
      BY <2>2 DEF Spawn, At, ActiveHasProject, TypeOK
    <3>2. cli[c].op \in StartOps /\ ~Outlasts(cli[c])
      BY <3>1 DEF Kinds, KindOf, Starting, Outlasts, Serving
    <3>3. c # d
      BY <2>2, SpawnFlow
    <3>4. cli[d].pc # "idle"
      BY <1>5 DEF Clearing
    <3> HIDE DEF SerialInv, KnownInv, IInv
    <3> QED BY <3>1, <3>2, <3>3, <3>4, StartsAlone
  <2>3. proc[l] # "unborn" \/ \E c \in Clis : Spawn(c, l)
    BY <1>5, CountsStep DEF Counts, Live
  <2> QED BY <2>1, <2>2, <2>3
<1>6. cli'[d].pc = "remove" => ~(Counts(cli[d].seen))'
  BY <1>2, <1>4 DEF Quiet
<1>7. cli'[d].pc = "await" /\ Live(cli[d].seen)' => (cli[d].seen \in signalled)'
  BY <1>2, <1>4 DEF Quiet
<1>8. cli'[d].pc \in {"withdraw", "withdraw_ports"} => proc'[cli[d].mine] = "dead"
  BY <1>3, <1>4 DEF Quiet
<1> QED BY <1>5, <1>6, <1>7, <1>8 DEF Quiet

(* A start that found no live network finds none of its project at all.    *)
LEMMA OnlyDescribed ==
    ASSUME SerialInv, Described, NEW c \in Clis, cli[c].pc \in {"load", "alive", "await"},
           cli[c].op \in StartOps, NEW l \in Launchers, Counts(l), ownerOf[l] = cli[c].p
    PROVE  rootDesc[cli[c].p] = l
<1> SUFFICES ASSUME NEW d \in Clis, cli[d].mine = l PROVE FALSE
  BY DEF Described
<1>1. KindOf(cli[c]) /\ KindOf(cli[d]) /\ OwnedBy(cli[d])
  BY DEF SerialInv, KnownInv, Kinds, Owned
<1>2. l # None
  BY NoneAssumption
<1>3. cli[d].p = cli[c].p
  BY <1>1, <1>2 DEF OwnedBy, Born
<1>4. cli[c].mine = None /\ ~Outlasts(cli[c])
  BY <1>1 DEF KindOf, Owning, Serving, Outlasts
<1>5. cli[d].pc # "idle"
  BY <1>1, <1>2 DEF KindOf, Owning, Serving
<1> QED BY <1>2, <1>3, <1>4, <1>5, StartsAlone

(* From one point of the clearing to the next; nothing is launched.        *)
LEMMA ClearingGoes ==
    ASSUME NEW c \in Clis, NEW x, NEW y, Goes(c, x, y), Quiet(cli[c]), x \in Clearing, y \in Clearing,
           UNCHANGED procs
    PROVE  Quiet(cli[c])'
<1>1. ASSUME NEW l PROVE (Counts(l))' <=> Counts(l)
  BY DEF Counts, Live, procs
<1>2. cli[c].pc \in Clearing /\ cli'[c].pc \in Clearing /\ cli'[c].p = cli[c].p
  BY DEF Goes, Keeps
<1>3. ownerOf' = ownerOf
  BY DEF procs
<1>4. ASSUME NEW l \in Launchers, (Counts(l))' PROVE ownerOf'[l] # cli'[c].p
  BY <1>1, <1>2, <1>3, <1>4 DEF Quiet
<1>5. cli'[c].pc \notin {"remove", "await", "withdraw", "withdraw_ports"}
  BY <1>2 DEF Clearing
<1> QED BY <1>4, <1>5 DEF Quiet

LEMMA ActsQuiet ==
    ASSUME SerialInv, Described, NEW c \in Clis, Quiet(cli[c]), Acts(c)
    PROVE  Quiet(cli[c])'
<1> USE DEF SerialInv, KnownInv, IInv
<1>0. KindOf(cli[c]) /\ OwnedBy(cli[c]) /\ Records(cli[c])
  BY DEF Kinds, Owned, Recorded
<1>1. ASSUME cli'[c].pc \notin Clearing \cup {"remove", "await", "withdraw", "withdraw_ports"}
      PROVE Quiet(cli[c])'
  BY <1>1 DEF Quiet
<1>2. ASSUME Ends(c) PROVE Quiet(cli[c])'
  BY <1>1, <1>2 DEF Ends, Clearing
<1>3. ASSUME Load(c) PROVE Quiet(cli[c])'
  <2>1. CASE Loads(c) /\ cli'[c].pc # "ids"
    BY <1>1, <2>1 DEF Loads, Clearing
  <2>2. CASE Loads(c) /\ cli'[c].pc = "ids"
    <3>1. cli[c].op \in StartOps /\ rootDesc[cli[c].p] = None /\ cli'[c].p = cli[c].p /\ cli[c].pc = "load"
      BY <2>2 DEF Loads
    <3>2. UNCHANGED procs
      BY <1>3 DEF Load
    <3>3. ASSUME NEW l \in Launchers, Counts(l), ownerOf[l] = cli[c].p PROVE FALSE
      <4>1. rootDesc[cli[c].p] = l
        BY <3>1, <3>3, OnlyDescribed
      <4> QED BY <3>1, <4>1, NoneAssumption
    <3>4. ASSUME NEW l \in Launchers, (Counts(l))' PROVE ownerOf'[l] # cli'[c].p
      BY <3>1, <3>2, <3>3, <3>4 DEF Counts, Live, procs
    <3> QED BY <2>2, <3>4 DEF Quiet
  <2> QED BY <1>2, <1>3, <2>1, <2>2, LoadFlow
<1>4. ASSUME CheckAlive(c) PROVE Quiet(cli[c])'
  <2>1. CASE Goes(c, "alive", "probe")
    BY <1>1, <2>1 DEF Goes, Clearing
  <2>2. CASE Goes(c, "alive", "clean_port")
    <3>1. ~Live(cli[c].seen) /\ UNCHANGED procs
      BY <1>4, <2>2, GotoKeeps DEF CheckAlive, Goes, Pcs
    <3>2. cli[c].op \in StartOps /\ rootDesc[cli[c].p] = cli[c].seen /\ cli[c].pc = "alive" /\ cli'[c].p = cli[c].p
      BY <1>0, <2>2 DEF Goes, Keeps, KindOf, Records, Judging
    <3>3. ASSUME NEW l \in Launchers, Counts(l), ownerOf[l] = cli[c].p PROVE FALSE
      <4>1. rootDesc[cli[c].p] = l
        BY <3>2, <3>3, OnlyDescribed
      <4> QED BY <3>1, <3>2, <3>3, <4>1 DEF Counts
    <3>4. ASSUME NEW l \in Launchers, (Counts(l))' PROVE ownerOf'[l] # cli'[c].p
      BY <3>1, <3>2, <3>3, <3>4 DEF Counts, Live, procs
    <3> QED BY <2>2, <3>4 DEF Quiet, Goes
  <2> QED BY <1>4, <2>1, <2>2, Flow
<1>5. ASSUME SendSigint(c) PROVE Quiet(cli[c])'
  <2>1. Goes(c, "sigint", "await")
    BY <1>5, Flow
  <2>2. cli[c].seen \in Launchers
    BY <1>0, <2>1 DEF Goes, KindOf, OwnedBy, Born, Looking, Stopping
  <2>3. Live(cli[c].seen)' => (cli[c].seen \in signalled)'
    BY <1>5, <2>1, <2>2 DEF SendSigint, Live, Goes, Keeps
  <2> QED BY <2>1, <2>3 DEF Quiet, Goes, Clearing
<1>6. ASSUME AwaitExit(c) PROVE Quiet(cli[c])'
  <2>1. Goes(c, "await", IF cli[c].op = "stop" THEN "remove" ELSE "clean_port")
    BY <1>6, Flow
  <2>2. cli[c].seen \in Launchers /\ cli[c].op \in StartOps \cup {"stop"}
    BY <1>0, <2>1 DEF Goes, KindOf, OwnedBy, Born, Looking, Stopping
  <2>3. ~Counts(cli[c].seen)
    <3>1. Live(cli[c].seen) => cli[c].seen \in signalled
      BY <2>1 DEF Quiet, Goes
    <3>2. "slow" \in Faults \/ ~Live(cli[c].seen)
      BY <1>6, <2>2 DEF AwaitExit
    <3> QED BY <3>1, <3>2 DEF Counts
  <2>4. UNCHANGED procs /\ cli'[c].p = cli[c].p /\ cli'[c].seen = cli[c].seen /\ cli[c].pc = "await"
    BY <1>6, <2>1 DEF AwaitExit, Goes, Keeps
  <2>5. ASSUME NEW l PROVE (Counts(l))' <=> Counts(l)
    BY <2>4 DEF Counts, Live, procs
  <2>6. CASE cli[c].op = "stop"
    <3>1. cli'[c].pc = "remove"
      BY <2>1, <2>6 DEF Goes
    <3>2. ~(Counts(cli[c].seen))'
      BY <2>3, <2>4 DEF Counts, Live, procs
    <3> QED BY <3>1, <3>2 DEF Quiet, Clearing
  <2>7. CASE cli[c].op # "stop"
    <3>1. cli'[c].pc = "clean_port" /\ cli[c].op \in StartOps
      BY <2>1, <2>2, <2>7 DEF Goes
    <3>2. rootDesc[cli[c].p] = cli[c].seen
      BY <1>0, <2>4, <3>1 DEF Records, Stopping
    <3>3. ASSUME NEW l \in Launchers, Counts(l), ownerOf[l] = cli[c].p PROVE FALSE
      <4>1. rootDesc[cli[c].p] = l
        BY <2>4, <3>1, <3>3, OnlyDescribed
      <4> QED BY <2>3, <3>2, <3>3, <4>1
    <3>4. ASSUME NEW l \in Launchers, (Counts(l))' PROVE ownerOf'[l] # cli'[c].p
      BY <2>4, <2>5, <3>3, <3>4 DEF procs
    <3> QED BY <3>1, <3>4 DEF Quiet
  <2> QED BY <2>6, <2>7
<1>7. ASSUME CleanPort(c) \/ CleanRoot(c) \/ CleanIds(c) \/ LockRoot(c) PROVE Quiet(cli[c])'
  <2>1. UNCHANGED procs
    BY <1>7 DEF CleanPort, CleanRoot, CleanIds, LockRoot
  <2>2. \/ Ends(c) \/ Goes(c, "clean_port", "clean_root") \/ Goes(c, "clean_root", "ids")
        \/ Goes(c, "ids", "lock_root") \/ Goes(c, "lock_root", "claim") \/ Goes(c, "relock_root", "relock")
    BY <1>7, Flow
  <2>3. CASE Goes(c, "relock_root", "relock")
    BY <1>1, <2>3 DEF Goes, Clearing
  <2> QED BY <1>2, <2>1, <2>2, <2>3, ClearingGoes DEF Clearing
<1>8. ASSUME NEW q \in Ports, ClaimPort(c, q) PROVE Quiet(cli[c])'
  <2>1. UNCHANGED procs
    BY <1>8 DEF ClaimPort
  <2> QED BY <1>2, <1>8, <2>1, PortFlow, ClearingGoes DEF Clearing
<1>9. ASSUME NEW q \in Ports, RelockPort(c, q) PROVE Quiet(cli[c])'
  BY <1>1, <1>9, PortFlow DEF Goes, Clearing
<1>10. ASSUME NEW q \in Ports, SavePort(c, q) PROVE Quiet(cli[c])'
  BY <1>1, <1>10, PortFlow DEF Clearing
<1>11. ASSUME NEW l \in Launchers, Spawn(c, l) PROVE Quiet(cli[c])'
  BY <1>1, <1>11, SpawnFlow DEF Clearing
<1>12. ASSUME InitializeFails(c) \/ SaveFails(c) PROVE Quiet(cli[c])'
  BY <1>1, <1>12, AbandonFlow DEF Clearing
<1>13. ASSUME Reap(c) PROVE Quiet(cli[c])'
  <2>1. CASE Goes(c, "reap", "withdraw")
    <3>1. proc'[cli'[c].mine] = "dead"
      BY <1>13, <2>1 DEF Reap, Goes, Keeps, procs
    <3> QED BY <2>1, <3>1 DEF Quiet, Goes, Clearing
  <2> QED BY <1>2, <1>13, <2>1, Flow
<1>14. ASSUME WithdrawRoot(c) \/ \E q \in Ports : WithdrawPort(c, q) PROVE Quiet(cli[c])'
  <2>1. UNCHANGED procs
    BY <1>14 DEF WithdrawRoot, WithdrawPort
  <2>2. \/ Ends(c)
        \/ Goes(c, "withdraw", "withdraw_ports") \/ Goes(c, "withdraw_ports", "withdraw_ports")
    BY <1>14, Flow, PortFlow
  <2>3. CASE Goes(c, "withdraw", "withdraw_ports") \/ Goes(c, "withdraw_ports", "withdraw_ports")
    <3>1. proc'[cli'[c].mine] = "dead" /\ cli'[c].pc = "withdraw_ports"
      BY <2>1, <2>3 DEF Quiet, Goes, Keeps, procs
    <3> QED BY <3>1 DEF Quiet, Clearing
  <2> QED BY <1>2, <2>2, <2>3
<1>15. ASSUME \/ Probe(c) \/ RemoveDescriptor(c) \/ Status(c) \/ Initialize(c) \/ RelockNoPort(c)
              \/ SaveRoot(c) \/ StopServing(c) \/ Shutdown(c) \/ AccessPort(c) \/ Deploy(c) \/ Kill(c)
       PROVE Quiet(cli[c])'
  <2>1. Ends(c) \/ cli'[c].pc \in {"sigint", "init", "relock_root", "save", "serve", "shutdown", "reap", "deploy"}
    BY <1>15, Flow DEF Goes
  <2> QED BY <1>1, <1>2, <2>1 DEF Clearing
<1> HIDE DEF SerialInv, KnownInv, IInv
<1> QED BY <1>3, <1>4, <1>5, <1>6, <1>7, <1>8, <1>9, <1>10, <1>11, <1>12, <1>13, <1>14, <1>15
           DEF Acts, Step

(* An invocation lets go of its child when the child is dead, or has been  *)
(* published.                                                              *)
LEMMA ActsMine ==
    ASSUME KnownInv, "kill" \notin Faults, NEW c \in Clis, Quiet(cli[c]), Acts(c), cli[c].mine # None
    PROVE  \/ cli'[c].mine = cli[c].mine
           \/ proc[cli[c].mine] = "dead" /\ UNCHANGED procs
           \/ rootDesc'[cli[c].p] = cli[c].mine
<1> USE DEF KnownInv, IInv
<1>0. KindOf(cli[c]) /\ cli[c].p \in Projects
  BY DEF Kinds, KindOf, Owning, Serving, ActiveHasProject
<1>1. cli[c].pc \in Owning
  BY <1>0 DEF KindOf
<1>2. ASSUME NEW l \in Launchers, Spawn(c, l) PROVE FALSE
  BY <1>1, <1>2, SpawnFlow DEF Owning, Serving
<1>3. ASSUME Status(c) PROVE cli'[c].mine = cli[c].mine \/ (proc[cli[c].mine] = "dead" /\ UNCHANGED procs)
  BY <1>3, GotoKeeps DEF Status, Keeps, Pcs
<1>4. ASSUME SaveRoot(c) PROVE rootDesc'[cli[c].p] = cli[c].mine
  BY <1>0, <1>4 DEF SaveRoot, TypeOK
<1>5. ASSUME Reap(c) PROVE proc[cli[c].mine] = "dead" /\ UNCHANGED procs
  BY <1>5 DEF Reap
<1>6. ASSUME WithdrawRoot(c) \/ \E q \in Ports : WithdrawPort(c, q)
      PROVE proc[cli[c].mine] = "dead" /\ UNCHANGED procs
  BY <1>6 DEF WithdrawRoot, WithdrawPort, At, Quiet
<1>7. ASSUME \E q \in Ports : ClaimPort(c, q) PROVE FALSE
  BY <1>1, <1>7, PortFlow DEF Owning, Serving
<1>8. ASSUME \/ \E q \in Ports : RelockPort(c, q)
             \/ Initialize(c) \/ RelockNoPort(c) \/ StopServing(c) \/ Shutdown(c) \/ LockRoot(c)
      PROVE cli'[c].mine = cli[c].mine
  BY <1>8, Flow, PortFlow DEF Goes, Keeps
<1>9. ASSUME (\E q \in Ports : SavePort(c, q)) \/ InitializeFails(c) \/ SaveFails(c)
      PROVE cli'[c].mine = cli[c].mine
  BY <1>9, PortFlow, AbandonFlow
<1>10. ASSUME \/ Load(c) \/ CheckAlive(c) \/ Probe(c) \/ SendSigint(c) \/ AwaitExit(c)
              \/ RemoveDescriptor(c) \/ CleanPort(c) \/ CleanRoot(c) \/ CleanIds(c)
              \/ AccessPort(c) \/ Deploy(c)
       PROVE FALSE
  BY <1>1, <1>10, Flow, LoadFlow DEF Goes, Owning, Serving
<1>11. ~Kill(c)
  BY DEF Kill
<1> HIDE DEF KnownInv, IInv
<1> QED BY <1>2, <1>3, <1>4, <1>5, <1>6, <1>7, <1>8, <1>9, <1>10, <1>11 DEF Acts, Step

LEMMA DescribedStep ==
    ASSUME QuietInv, "kill" \notin Faults, [Next]_vars
    PROVE  Described'
<1> USE DEF QuietInv, SerialInv, KnownInv, IInv
<1> SUFFICES ASSUME NEW l \in Launchers, (Counts(l))'
             PROVE  rootDesc'[ownerOf'[l]] = l \/ \E c \in Clis : cli'[c].mine = l
  BY DEF Described
<1>1. ASSUME NEW c \in Clis, Spawn(c, l) PROVE cli'[c].mine = l
  BY <1>1, SpawnFlow
<1>2. ASSUME ~\E c \in Clis : Spawn(c, l) PROVE Counts(l) /\ Counts(l)' /\ ownerOf'[l] = ownerOf[l] /\ ownerOf[l] \in Projects
  <2>1. Counts(l) /\ proc[l] # "unborn"
    BY <1>2, CountsStep DEF Counts, Live
  <2> QED BY <1>2, <2>1, ProcStep DEF Owned
<1>3. ASSUME Counts(l), ownerOf[l] \in Projects, rootDesc[ownerOf[l]] = l PROVE rootDesc'[ownerOf[l]] = l
  <2> DEFINE p == ownerOf[l]
  <2>1. ASSUME NEW c \in Clis, Acts(c) PROVE rootDesc'[p] = l
    <3>1. KindOf(cli[c]) /\ Records(cli[c]) /\ Quiet(cli[c])
      BY DEF Kinds, Recorded
    <3>2. ASSUME cli[c].p = p, cli[c].pc = "remove" PROVE FALSE
      <4>1. rootDesc[p] \in {None, cli[c].seen} /\ ~Counts(cli[c].seen)
        BY <3>1, <3>2 DEF Records, Quiet
      <4> QED BY <1>3, <4>1, NoneAssumption
    <3>3. ASSUME cli[c].p = p, cli[c].pc = "clean_root" PROVE FALSE
      BY <1>3, <3>1, <3>3 DEF Quiet, Clearing
    <3>4. ASSUME cli[c].p = p, cli[c].pc = "withdraw" PROVE FALSE
      <4>1. rootDesc[p] \in {None, cli[c].mine} /\ proc[cli[c].mine] = "dead"
        BY <3>1, <3>4 DEF Records, KindOf, Quiet
      <4> QED BY <1>3, <4>1, NoneAssumption DEF Counts, Live
    <3>5. ASSUME cli[c].p = p, cli[c].pc = "save" PROVE FALSE
      <4>1. rootDesc[p] = None
        BY <3>1, <3>5 DEF Records, Starting
      <4> QED BY <1>3, <4>1, NoneAssumption
    <3> HIDE DEF QuietInv, SerialInv, KnownInv, IInv
    <3>6. KnownInv
      BY DEF QuietInv, SerialInv
    <3> QED BY <1>3, <2>1, <3>2, <3>3, <3>4, <3>5, <3>6, ActsRoot DEF KnownInv, IInv
  <2>2. ASSUME NEW c \in Clis, NEW q \in Projects, NEW op \in Commands, Begin(c, q, op)
        PROVE UNCHANGED files
    BY <2>2 DEF Begin
  <2>3. UNCHANGED vars => UNCHANGED files
    BY DEF vars
  <2>4. UNCHANGED files => rootDesc'[p] = l
    BY <1>3 DEF files
  <2> HIDE DEF p
  <2>5. rootDesc'[p] = l
    BY <2>1, <2>2, <2>3, <2>4, NextSteps, LauncherSteps
  <2> QED BY <2>5 DEF p
<1>4. ASSUME NEW d \in Clis, cli[d].mine = l, Counts(l), (Counts(l))', ownerOf'[l] = ownerOf[l]
      PROVE  rootDesc'[ownerOf'[l]] = l \/ cli'[d].mine = l
  <2>1. cli[d].p = ownerOf[l] /\ cli[d].pc # "idle"
    <3>1. KindOf(cli[d]) /\ OwnedBy(cli[d]) /\ l # None
      BY NoneAssumption DEF Kinds, Owned
    <3> QED BY <1>4, <3>1 DEF KindOf, OwnedBy, Born, Owning, Serving
  <2>2. CASE cli'[d] = cli[d]
    BY <1>4, <2>2
  <2>3. CASE Acts(d)
    <3>1. KnownInv /\ Quiet(cli[d]) /\ l # None
      BY NoneAssumption
    <3>2. proc[l] # "dead"
      BY <1>4 DEF Counts, Live
    <3> HIDE DEF QuietInv, SerialInv, KnownInv, IInv
    <3> QED BY <1>4, <2>1, <2>3, <3>1, <3>2, ActsMine
  <2>4. cli'[d] = cli[d] \/ Acts(d)
    <3>1. ASSUME NEW c \in Clis, Acts(c) PROVE cli'[d] = cli[d] \/ Acts(d)
      BY <3>1, ActsAdvance DEF Advances, Moves
    <3>2. ASSUME NEW c \in Clis, NEW q \in Projects, NEW op \in Commands, Begin(c, q, op)
          PROVE cli'[d] = cli[d]
      BY <2>1, <3>2, BeginFlow DEF Moves
    <3>3. UNCHANGED vars => cli'[d] = cli[d]
      BY DEF vars
    <3> HIDE DEF QuietInv, SerialInv, KnownInv, IInv
    <3> QED BY <3>1, <3>2, <3>3, NextSteps, LauncherSteps
  <2> QED BY <2>2, <2>3, <2>4
<1> QED BY <1>1, <1>2, <1>3, <1>4 DEF Described

LEMMA DirsStep ==
    ASSUME QuietInv, [Next]_vars
    PROVE  DirsKept'
<1> USE DEF QuietInv, SerialInv, KnownInv, IInv
<1> SUFFICES ASSUME NEW l \in Launchers, (Counts(l))' PROVE stateDir'[ownerOf'[l]] = l
  BY DEF DirsKept
<1>1. ASSUME NEW c \in Clis, Spawn(c, l) PROVE stateDir'[ownerOf'[l]] = l
  BY <1>1 DEF Spawn, At, TypeOK, ActiveHasProject
<1>2. ASSUME ~\E c \in Clis : Spawn(c, l) PROVE stateDir'[ownerOf'[l]] = l
  <2>1. Counts(l) /\ stateDir[ownerOf[l]] = l
    BY <1>2, CountsStep DEF DirsKept
  <2>2. ASSUME NEW c \in Clis, NEW k \in Launchers \ {l}, Spawn(c, k)
        PROVE stateDir'[ownerOf[l]] = stateDir[ownerOf[l]]
    <3>1. cli[c].p # ownerOf[l]
      BY <2>1, <2>2, SpawnFlow DEF Quiet, Clearing
    <3> QED BY <2>2, <3>1 DEF Spawn, TypeOK
  <2>3. ownerOf'[l] = ownerOf[l] /\ stateDir'[ownerOf[l]] = stateDir[ownerOf[l]]
    BY <1>2, <2>2, ProcStep
  <2> QED BY <2>1, <2>3
<1> QED BY <1>1, <1>2

LEMMA QuietInvAlways == ("overlap" \notin Faults /\ "kill" \notin Faults) => (Spec => []QuietInv)
<1> SUFFICES ASSUME "overlap" \notin Faults, "kill" \notin Faults PROVE Spec => []QuietInv
  OBVIOUS
<1>1. Init => (\A c \in Clis : Quiet(cli[c])) /\ Described /\ DirsKept
  BY DEF Init, Resting, Quiet, Clearing, Described, DirsKept, Counts, Live
<1>2. SerialInv /\ QuietInv /\ [Next]_vars => \A d \in Clis : (Quiet(cli[d]))'
  <2> SUFFICES ASSUME QuietInv, [Next]_vars, NEW d \in Clis PROVE (Quiet(cli[d]))'
    OBVIOUS
  <2>0. TypeOK /\ ActiveHasProject /\ Kinds /\ SerialInv /\ Quiet(cli[d]) /\ Described
    BY DEF QuietInv, SerialInv, KnownInv, IInv
  <2>1. ASSUME NEW c \in Clis, Acts(c) PROVE cli'[d] = cli[d] \/ Acts(d)
    BY <2>0, <2>1, ActsAdvance DEF Advances, Moves
  <2>2. ASSUME NEW c \in Clis, NEW q \in Projects, NEW op \in Commands, Begin(c, q, op)
        PROVE cli'[d] = cli[d] \/ cli'[d].pc = "load"
    BY <2>0, <2>2, BeginFlow DEF Moves
  <2>3. UNCHANGED vars => cli'[d] = cli[d]
    BY DEF vars
  <2>4. cli'[d] = cli[d] \/ Acts(d) \/ cli'[d].pc = "load"
    BY <2>1, <2>2, <2>3, NextSteps, LauncherSteps
  <2>5. CASE cli'[d].pc = "load"
    BY <2>5 DEF Quiet, Clearing
  <2> QED BY <2>0, <2>4, <2>5, QuietKept, ActsQuiet
<1>3. SerialInv /\ QuietInv /\ [Next]_vars /\ SerialInv' => QuietInv'
  BY <1>2, DescribedStep, DirsStep DEF QuietInv
<1> QED BY <1>1, <1>3, SerialInvAlways, PTL DEF Spec, QuietInv

(* A background network can be found: when a project's commands run one    *)
(* after the other and none is killed, a live launcher that nobody told to *)
(* stop is named by its project's descriptor or held by the invocation     *)
(* that spawned it, whichever files cannot be written, whichever launchers *)
(* die, hang or are slow to stop, and whoever gets a used pid.             *)
THEOREM NetworksAreFound ==
    ("overlap" \notin Faults /\ "kill" \notin Faults) => (Spec => []NoOrphans)
<1>1. QuietInv => NoOrphans
  BY DEF QuietInv, Described, NoOrphans, Counts
<1> QED BY <1>1, QuietInvAlways, PTL

(* No start removes the state directory under a live network, when besides *)
(* a launcher told to stop is gone before `stop_network` gives up on it.   *)
THEOREM StateDirsAreKept ==
    ("overlap" \notin Faults /\ "kill" \notin Faults /\ "slow" \notin Faults)
        => (Spec => []StateDirIntact)
<1> SUFFICES ASSUME "overlap" \notin Faults, "kill" \notin Faults, "slow" \notin Faults
             PROVE  Spec => []StateDirIntact
  OBVIOUS
<1>1. QuietInv => StateDirIntact
  BY DEF QuietInv, DirsKept, StateDirIntact, Counts
<1> QED BY <1>1, QuietInvAlways, PTL

-----------------------------------------------------------------------------
(* Projects that fix ports which no other one fixes.                       *)

(* The gateway port of a published network is its own until the start that *)
(* cleans up after it has taken the port's descriptor away.                *)
Claimed ==
    \A p \in Projects :
        rootDesc[p] \in Launchers /\ GatewayOf[p] # None /\ ~SharesPort(p) =>
            \/ portDesc[GatewayOf[p]] = rootDesc[p]
            \/ \E c \in Clis : cli[c].p = p /\ cli[c].pc = "clean_root"

LEMMA ActsPorts ==
    ASSUME TypeOK, ActiveHasProject, Kinds, "kill" \notin Faults, NEW c \in Clis, Acts(c), NEW q \in Ports
    PROVE  \/ portDesc'[q] = portDesc[q]
           \/ q \in PortsOf[cli[c].p] /\ cli[c].pc \in {"clean_port", "save", "withdraw_ports"}
<1>1. KindOf(cli[c]) /\ (cli[c].pc # "idle" => cli[c].p \in Projects)
  BY DEF Kinds, ActiveHasProject
<1>2. ASSUME CleanPort(c), portDesc'[q] # portDesc[q] PROVE q \in PortsOf[cli[c].p] /\ cli[c].pc = "clean_port"
  BY <1>1, <1>2, PortsAssumption DEF CleanPort, At, TypeOK
<1>3. ASSUME NEW k \in Ports, SavePort(c, k), portDesc'[q] # portDesc[q]
      PROVE q \in PortsOf[cli[c].p] /\ cli[c].pc = "save"
  BY <1>3 DEF SavePort, Unsaved, At, TypeOK
<1>4. ASSUME NEW k \in Ports, WithdrawPort(c, k), portDesc'[q] # portDesc[q]
      PROVE q \in PortsOf[cli[c].p] /\ cli[c].pc = "withdraw_ports"
  BY <1>1, <1>4 DEF WithdrawPort, KindOf, At, TypeOK
<1>5. ASSUME \/ Load(c) \/ CheckAlive(c) \/ Probe(c) \/ SendSigint(c) \/ AwaitExit(c)
             \/ RemoveDescriptor(c) \/ CleanRoot(c) \/ CleanIds(c) \/ LockRoot(c)
             \/ \E k \in Ports : ClaimPort(c, k) \/ RelockPort(c, k)
             \/ \E l \in Launchers : Spawn(c, l)
             \/ Status(c) \/ Initialize(c) \/ InitializeFails(c) \/ RelockNoPort(c)
             \/ SaveRoot(c) \/ SaveFails(c) \/ Shutdown(c) \/ Reap(c) \/ WithdrawRoot(c)
             \/ AccessPort(c) \/ Deploy(c) \/ StopServing(c)
      PROVE UNCHANGED portDesc
  BY <1>5 DEF Load, CheckAlive, Probe, SendSigint, AwaitExit, RemoveDescriptor, CleanRoot,
         CleanIds, LockRoot, ClaimPort, RelockPort, Spawn, Status, Initialize, InitializeFails,
         RelockNoPort, SaveRoot, SaveFails, Shutdown, Reap, WithdrawRoot, AccessPort, Deploy,
         StopServing, files
<1>6. ~Kill(c)
  BY DEF Kill
<1> QED BY <1>2, <1>3, <1>4, <1>5, <1>6 DEF Acts, Step

(* What is done at a point of the cleanup.                                 *)
LEMMA ActsInCleanup ==
    ASSUME TypeOK, ActiveHasProject, "kill" \notin Faults, NEW c \in Clis, Acts(c)
    PROVE  /\ cli[c].pc = "clean_root" => CleanRoot(c)
           /\ cli[c].pc = "clean_port" => CleanPort(c)
<1>1. ~Kill(c)
  BY DEF Kill
<1> QED BY <1>1, Flow, PortFlow, LoadFlow, SpawnFlow, AbandonFlow DEF Acts, Step, Goes

LEMMA ClaimedStep ==
    ASSUME SerialInv, Claimed, "kill" \notin Faults, [Next]_vars
    PROVE  Claimed'
<1> USE DEF SerialInv, KnownInv, IInv
<1> SUFFICES ASSUME NEW p \in Projects, rootDesc'[p] \in Launchers, GatewayOf[p] # None, ~SharesPort(p)
             PROVE  \/ portDesc'[GatewayOf[p]] = rootDesc'[p]
                    \/ \E c \in Clis : cli'[c].p = p /\ cli'[c].pc = "clean_root"
  BY DEF Claimed
<1> DEFINE g == GatewayOf[p]
           Done == \/ portDesc'[g] = rootDesc'[p]
                   \/ \E c \in Clis : cli'[c].p = p /\ cli'[c].pc = "clean_root"
<1>1. g \in PortsOf[p] /\ g \in Ports
  BY PortsAssumption
<1>2. ASSUME NEW c \in Clis, Acts(c) PROVE Done
  <2>0. KindOf(cli[c]) /\ Records(cli[c]) /\ (cli[c].pc # "idle" => cli[c].p \in Projects)
    BY DEF Kinds, Recorded, ActiveHasProject
  <2>1. CASE rootDesc'[p] # rootDesc[p]
    <3>1. p = cli[c].p /\ cli[c].pc = "save" /\ SaveRoot(c) /\ rootDesc'[p] = cli[c].mine
      BY <1>2, <2>1, ActsRoot, NoneAssumption
    <3>2. portDesc' = portDesc /\ portDesc[g] = cli[c].mine
      BY <1>1, <3>1 DEF SaveRoot, Unsaved
    <3> QED BY <3>1, <3>2
  <2>2. CASE rootDesc'[p] = rootDesc[p] /\ portDesc[g] = rootDesc[p]
    <3>1. CASE portDesc'[g] # portDesc[g]
      <4>1. g \in PortsOf[cli[c].p] /\ cli[c].pc \in {"clean_port", "save", "withdraw_ports"}
        BY <1>1, <1>2, <3>1, ActsPorts
      <4>2. cli[c].p = p
        BY <1>1, <2>0, <4>1 DEF SharesPort
      <4>3. cli[c].pc = "clean_port"
        BY <2>0, <2>2, <4>1, <4>2, NoneAssumption DEF Records, Starting
      <4>4. Goto(c, "clean_root")
        BY <1>2, <2>2, <4>2, <4>3, ActsInCleanup, NoneAssumption DEF CleanPort
      <4> QED BY <4>2, <4>4, GotoKeeps DEF Keeps, Pcs
    <3> QED BY <2>2, <3>1
  <2>3. ASSUME rootDesc'[p] = rootDesc[p], NEW d \in Clis, cli[d].p = p, cli[d].pc = "clean_root"
        PROVE Done
    <3>1. CASE d = c
      <4>1. CleanRoot(c)
        BY <1>2, <2>3, <3>1, ActsInCleanup
      <4> QED BY <2>3, <3>1, <4>1, NoneAssumption DEF CleanRoot, TypeOK
    <3>2. CASE d # c
      BY <1>2, <2>3, <3>2, ActsAdvance DEF Advances, Moves
    <3> QED BY <3>1, <3>2
  <2> QED BY <2>1, <2>2, <2>3 DEF Claimed
<1>3. ASSUME NEW c \in Clis, NEW r \in Projects, NEW op \in Commands, Begin(c, r, op) PROVE Done
  <2>1. UNCHANGED files /\ Moves(c) /\ cli[c].pc = "idle"
    BY <1>3, BeginFlow DEF Begin
  <2> QED BY <2>1 DEF Claimed, files, Moves
<1>4. UNCHANGED vars => UNCHANGED <<cli, files>>
  BY DEF vars
<1>5. UNCHANGED <<cli, files>> => Done
  BY DEF Claimed, files
<1> HIDE DEF SerialInv, KnownInv, IInv, Done
<1>6. Done
  BY <1>2, <1>3, <1>4, <1>5, NextSteps, LauncherSteps
<1> QED BY <1>6 DEF Done

(* A cleanup fails only when there is nothing to remove.                   *)
LEMMA CleanupFlow ==
    ASSUME TypeOK, ActiveHasProject, NEW c \in Clis, Acts(c), cli'[c].why = "cleanup"
    PROVE  \/ cli[c].why = "cleanup"
           \/ CleanPort(c) /\ GatewayOf[cli[c].p] # None /\ portDesc[GatewayOf[cli[c].p]] = None
           \/ CleanRoot(c) /\ rootDesc[cli[c].p] = None
<1> USE GotoKeeps, EndEnds
<1>1. ASSUME CleanPort(c)
      PROVE \/ cli'[c].why = cli[c].why
            \/ GatewayOf[cli[c].p] # None /\ portDesc[GatewayOf[cli[c].p]] = None
  BY <1>1 DEF CleanPort, Keeps, Pcs
<1>2. ASSUME CleanRoot(c) PROVE cli'[c].why = cli[c].why \/ rootDesc[cli[c].p] = None
  BY <1>2 DEF CleanRoot, Keeps, Pcs
<1>3. ASSUME \/ CheckAlive(c) \/ Probe(c) \/ SendSigint(c) \/ AwaitExit(c) \/ RemoveDescriptor(c)
             \/ CleanIds(c) \/ Status(c) \/ Initialize(c) \/ RelockNoPort(c) \/ SaveRoot(c)
             \/ StopServing(c) \/ Shutdown(c) \/ WithdrawRoot(c) \/ AccessPort(c) \/ Deploy(c) \/ Kill(c)
      PROVE cli'[c].why \in {cli[c].why, "none"}
  <2>1. End(c) \/ \E x \in Pcs : Goto(c, x)
    BY <1>3 DEF CheckAlive, Probe, SendSigint, AwaitExit, RemoveDescriptor, CleanIds, Status,
         Initialize, RelockNoPort, SaveRoot, StopServing, Shutdown, WithdrawRoot, AccessPort,
         Deploy, Kill, Pcs
  <2> QED BY <2>1 DEF Keeps
<1>4. ASSUME LockRoot(c) PROVE cli'[c].why = cli[c].why
  BY <1>4, Flow DEF Goes, Keeps
<1>5. ASSUME Reap(c) PROVE cli'[c].why \in {cli[c].why, "none"}
  BY <1>5 DEF Reap, TypeOK, CliStates
<1>6. ASSUME Load(c) PROVE cli'[c].why \in {cli[c].why, "none"}
  <2>1. CASE End(c)
    BY <2>1
  <2>2. CASE ~End(c)
    BY <1>6, <2>2 DEF Load, TypeOK, CliStates
  <2> QED BY <2>1, <2>2
<1>7. ASSUME NEW q \in Ports, ClaimPort(c, q) \/ RelockPort(c, q) \/ WithdrawPort(c, q)
      PROVE cli'[c].why \in {cli[c].why, "none"}
  <2>1. CASE End(c)
    BY <2>1
  <2>2. CASE ~End(c)
    BY <1>7, <2>2 DEF ClaimPort, RelockPort, WithdrawPort, TypeOK, CliStates
  <2> QED BY <2>1, <2>2
<1>8. ASSUME (\E q \in Ports : SavePort(c, q)) \/ \E l \in Launchers : Spawn(c, l)
      PROVE cli'[c].why = cli[c].why
  BY <1>8, SpawnFlow DEF SavePort
<1>9. ASSUME InitializeFails(c) \/ SaveFails(c) PROVE cli'[c].why = "failed"
  BY <1>9, AbandonFlow
<1> QED BY <1>1, <1>2, <1>3, <1>4, <1>5, <1>6, <1>7, <1>8, <1>9 DEF Acts, Step

LEMMA CleanupStep ==
    ASSUME SerialInv, Claimed, "kill" \notin Faults, Next, NEW c \in Clis, cli'[c].why = "cleanup"
    PROVE  cli[c].why = "cleanup" \/ SharesPort(cli[c].p)
<1> USE DEF SerialInv, KnownInv, IInv
<1>1. ASSUME Acts(c), cli[c].why # "cleanup", ~SharesPort(cli[c].p) PROVE FALSE
  <2>1. KindOf(cli[c]) /\ Records(cli[c]) /\ OwnedBy(cli[c]) /\ (cli[c].pc # "idle" => cli[c].p \in Projects)
    BY DEF Kinds, Recorded, Owned, ActiveHasProject
  <2>2. cli[c].pc \in {"clean_port", "clean_root"} =>
            /\ rootDesc[cli[c].p] \in Launchers /\ cli[c].p \in Projects
            /\ cli[c].op \in StartOps /\ ~Outlasts(cli[c])
    BY <2>1 DEF KindOf, Records, OwnedBy, Born, Judging, Looking, Outlasts, Serving
  <2>3. ASSUME CleanRoot(c), rootDesc[cli[c].p] = None PROVE FALSE
    BY <2>2, <2>3, NoneAssumption DEF CleanRoot, At
  <2>4. ASSUME CleanPort(c), GatewayOf[cli[c].p] # None, portDesc[GatewayOf[cli[c].p]] = None PROVE FALSE
    <3>1. cli[c].pc = "clean_port"
      BY <2>4 DEF CleanPort, At
    <3>2. PICK d \in Clis : cli[d].p = cli[c].p /\ cli[d].pc = "clean_root"
      BY <1>1, <2>2, <2>4, <3>1, NoneAssumption DEF Claimed
    <3> HIDE DEF SerialInv, KnownInv, IInv
    <3> QED BY <2>2, <3>1, <3>2, StartsAlone
  <2> QED BY <1>1, <2>3, <2>4, CleanupFlow
<1>2. ASSUME NEW d \in Clis, Acts(d), d # c PROVE cli'[c] = cli[c]
  BY <1>2, ActsAdvance DEF Advances, Moves
<1>3. ASSUME NEW d \in Clis, NEW p \in Projects, NEW op \in Commands, Begin(d, p, op)
      PROVE cli[c].why = "cleanup"
  BY <1>3, BeginFlow DEF Moves
<1>4. UNCHANGED cli => cli[c].why = "cleanup"
  OBVIOUS
<1>5. [Next]_vars
  OBVIOUS
<1> QED BY <1>1, <1>2, <1>3, <1>4, <1>5, NextSteps, LauncherSteps DEF vars

LEMMA ClaimedAlways ==
    ("overlap" \notin Faults /\ "kill" \notin Faults) => (Spec => []Claimed)
<1> SUFFICES ASSUME "overlap" \notin Faults, "kill" \notin Faults PROVE Spec => []Claimed
  OBVIOUS
<1>1. Init => Claimed
  BY NoneAssumption DEF Init, Claimed
<1>2. SerialInv /\ Claimed /\ [Next]_vars => Claimed'
  BY ClaimedStep
<1> QED BY <1>1, <1>2, SerialInvAlways, PTL DEF Spec

(* A project whose ports no other one fixes is left alone by the others:   *)
(* when each project's commands run one after the other and none is        *)
(* killed, a start of it that finds a stale descriptor always gets past    *)
(* its cleanup (start.rs 115).                                             *)
THEOREM CleanupGetsThrough ==
    ("overlap" \notin Faults /\ "kill" \notin Faults) => (Spec => CleanupSucceeds)
<1> SUFFICES ASSUME "overlap" \notin Faults, "kill" \notin Faults PROVE Spec => CleanupSucceeds
  OBVIOUS
<1>1. SerialInv /\ Claimed /\ [Next]_vars =>
          [\A c \in Clis : cli'[c].why = "cleanup" => cli[c].why = "cleanup" \/ SharesPort(cli[c].p)]_vars
  BY CleanupStep
<1> QED BY <1>1, SerialInvAlways, ClaimedAlways, PTL DEF Spec, CleanupSucceeds

(* And its published network, while it lives, keeps its claim on its       *)
(* gateway port, if a launcher told to stop is gone before the stop gives  *)
(* up on it (access.rs 104-118).                                           *)
THEOREM ClaimsAreKept ==
    ("overlap" \notin Faults /\ "kill" \notin Faults /\ "slow" \notin Faults) => (Spec => []ClaimKept)
<1> SUFFICES ASSUME "overlap" \notin Faults, "kill" \notin Faults, "slow" \notin Faults
             PROVE  Spec => []ClaimKept
  OBVIOUS
<1>1. QuietInv /\ Claimed => ClaimKept
  <2> SUFFICES ASSUME QuietInv, Claimed, NEW p \in Projects, rootDesc[p] \in Launchers,
                      Live(rootDesc[p]), GatewayOf[p] # None, ~SharesPort(p)
               PROVE  portDesc[GatewayOf[p]] = rootDesc[p]
    BY DEF ClaimKept
  <2>1. Counts(rootDesc[p]) /\ ownerOf[rootDesc[p]] = p
    BY DEF Counts, QuietInv, SerialInv, KnownInv, Owned, Born
  <2>2. ~\E c \in Clis : cli[c].p = p /\ cli[c].pc = "clean_root"
    BY <2>1 DEF QuietInv, Quiet, Clearing
  <2> QED BY <2>2 DEF Claimed
<1> QED BY <1>1, QuietInvAlways, ClaimedAlways, PTL

(* Both together, as the run checks them.                                  *)
THEOREM ProjectsStayApart ==
    ("overlap" \notin Faults /\ "kill" \notin Faults /\ "slow" \notin Faults) => (Spec => KeptApart)
BY CleanupGetsThrough, ClaimsAreKept, PTL DEF KeptApart
=============================================================================
