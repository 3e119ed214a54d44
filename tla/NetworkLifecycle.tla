-------------------------- MODULE NetworkLifecycle --------------------------
(***************************************************************************)
(* The life of managed networks: `icp network start` (background and       *)
(* foreground), `icp network stop`, and the access check every command     *)
(* makes before it talks to a managed network, as run by concurrent        *)
(* invocations of the CLI for several projects.                            *)
(*                                                                         *)
(*   crates/icp-cli/src/commands/network/{start,stop}.rs                   *)
(*   crates/icp/src/network/managed/{run,launcher,docker}.rs               *)
(*   crates/icp/src/network/{directory,config,access}.rs                   *)
(*                                                                         *)
(* Invocations share files only: a descriptor per project                  *)
(* (.icp/cache/networks/<n>/descriptor.json), a descriptor per fixed port  *)
(* (<cache>/port-descriptors/<port>.json), the network's state directory   *)
(* and the canister id mapping of the environment on it.  Root and port    *)
(* directories are each under a DirectoryStructureLock; DirLock shows that *)
(* its write sections exclude each other, so here a lock is its holder and *)
(* a short with_read or with_write is one step.                            *)
(*                                                                         *)
(* A descriptor file is represented by the launcher it names: a launcher   *)
(* is described at most once, so its identity stands for the descriptor's  *)
(* uuid, and everything else in the file is a function of it.  Torn is a   *)
(* file whose writer died between truncating and writing it.               *)
(***************************************************************************)
EXTENDS Absent, Naturals, FiniteSets

CONSTANTS
    Clis,           \* invocations that can run at the same time
    Projects,       \* each with one managed network and one environment on it
    Ports,          \* host ports that a manifest can fix
    PortsOf,        \* fixed_ports of each project's network
    GatewayOf,      \* its gateway port if that is fixed, else None
    MaxLaunches,    \* bound: launcher processes spawned in a behaviour
    Commands,       \* the commands that are run, of Ops
    Faults,         \* which of AllFaults may happen
    Torn            \* a truncated descriptor file

(* overlap    invocations on one project run at the same time              *)
(* die        a launcher dies by itself                                    *)
(* hang       a launcher outlives its replica (start.rs 104-105)           *)
(* slow       a launcher ignores SIGINT for longer than the 10s of a stop  *)
(* kill       an invocation is killed                                      *)
(* reuse      the pid of a dead launcher is given to a new one             *)
(* io         a file cannot be written, a network cannot be initialised    *)
AllFaults == {"overlap", "die", "hang", "slow", "kill", "reuse", "io"}

(* start and stop as named; run is start in the foreground; deploy stands  *)
(* for any command that accesses the network and records canister ids.     *)
StartOps == {"start", "run"}
Ops == StartOps \cup {"stop", "deploy"}

Launchers == 1 .. MaxLaunches

ASSUME PortsAssumption ==
    /\ PortsOf \in [Projects -> SUBSET Ports]
    /\ GatewayOf \in [Projects -> Ports \cup {None}]
    /\ \A p \in Projects : GatewayOf[p] \in PortsOf[p] \cup {None}
ASSUME LaunchesAssumption == MaxLaunches \in Nat
ASSUME FaultsAssumption == Faults \subseteq AllFaults /\ Commands \subseteq Ops
ASSUME NoneAssumption ==
    /\ None \notin Clis \cup Projects \cup Ports \cup Launchers
    /\ Torn \notin Launchers \cup {None}

VARIABLES
    cli,        \* per invocation: where it is and what it holds in memory
    rootLock,   \* per project: who is inside with_write of the network root
    portLock,   \* per port: who holds the owned write guard
    rootDesc,   \* per project: descriptor.json
    portDesc,   \* per port: <port>.json
    stateDir,   \* per project: the launcher its state directory was made for
    mapping,    \* per project: the launcher whose canisters its ids are of
    proc,       \* per launcher: its process
    ownerOf,    \* per launcher: the project it was spawned for
    pidOf,      \* per launcher: its pid, named by the first launcher to have it
    signalled   \* launchers that got SIGINT

files == <<rootDesc, portDesc, stateDir, mapping>>
locks == <<rootLock, portLock>>
procs == <<proc, ownerOf, pidOf, signalled>>
vars == <<cli, locks, files, procs>>

Resting == [pc |-> "idle", op |-> None, p |-> None, seen |-> None,
            mine |-> None, todo |-> {}, why |-> "none"]

Live(l) == proc[l] \in {"starting", "serving", "hung"}

(* Ports a live launcher occupies.  A hung one does not free them.         *)
Occupied == UNION {PortsOf[ownerOf[l]] : l \in {k \in Launchers : proc[k] \in {"serving", "hung"}}}

Init ==
    /\ cli = [c \in Clis |-> Resting]
    /\ rootLock = [p \in Projects |-> None]
    /\ portLock = [q \in Ports |-> None]
    /\ rootDesc = [p \in Projects |-> None]
    /\ portDesc = [q \in Ports |-> None]
    /\ stateDir = [p \in Projects |-> None]
    /\ mapping = [p \in Projects |-> None]
    /\ proc = [l \in Launchers |-> "unborn"]
    /\ ownerOf = [l \in Launchers |-> None]
    /\ pidOf = [l \in Launchers |-> None]
    /\ signalled = {}

-----------------------------------------------------------------------------
(* Steps of an invocation. *)

At(c, pc) == cli[c].pc = pc
Goto(c, pc) == cli' = [cli EXCEPT ![c].pc = pc]

(* The locks an invocation holds, released: closures return, guards drop.  *)
Unlocked(lock, c) == [x \in DOMAIN lock |-> IF lock[x] = c THEN None ELSE lock[x]]
Release(c) == rootLock' = Unlocked(rootLock, c) /\ portLock' = Unlocked(portLock, c)

(* The command returns; what it printed is not kept, except that a cleanup *)
(* failed.                                                                 *)
End(c) == cli' = [cli EXCEPT ![c] = Resting]
EndInCleanup(c) == cli' = [cli EXCEPT ![c] = [Resting EXCEPT !.why = "cleanup"]]

(* Bound: a start begins only when there is a launcher left for it.        *)
LaunchBudget ==
    Cardinality({l \in Launchers : proc[l] = "unborn"})
        > Cardinality({c \in Clis : cli[c].op \in StartOps /\ cli[c].mine = None})

(* Without "overlap" a project's invocations run one after the other, save *)
(* that a stop or a deploy may meet a network served in the foreground.    *)
MayBegin(c, p, op) ==
    \/ "overlap" \in Faults
    \/ \A d \in Clis \ {c} :
          cli[d].p = p => cli[d].pc = "serve" /\ op \in {"stop", "deploy"}

Begin(c, p, op) ==
    /\ At(c, "idle")
    /\ MayBegin(c, p, op)
    /\ op \in StartOps => LaunchBudget
    /\ cli' = [cli EXCEPT ![c] = [Resting EXCEPT !.pc = "load", !.op = op, !.p = p]]
    /\ UNCHANGED <<locks, files, procs>>

(* load_network_descriptor under with_read, then what the command makes of *)
(* it: start goes on without one, stop and access fail.                    *)
Load(c) ==
    LET p == cli[c].p
        d == rootDesc[p]
        next == IF d = None THEN "ids"
                ELSE CASE cli[c].op \in StartOps -> "alive"
                       [] cli[c].op = "stop" -> "sigint"
                       [] OTHER -> "port"
    IN
    /\ At(c, "load")
    /\ rootLock[p] = None
    /\ IF d = Torn \/ (d = None /\ cli[c].op \notin StartOps)
       THEN End(c)       \* a parse error, or "network is not running"
       ELSE cli' = [cli EXCEPT ![c].seen = d, ![c].pc = next]
    /\ UNCHANGED <<locks, files, procs>>

CheckAliveUnstopped(c) ==     \* mutant: any descriptor found is cleaned up
    /\ At(c, "alive")
    /\ Goto(c, "clean_port")
    /\ UNCHANGED <<locks, files, procs>>

(* child_locator.is_alive(): pid and start time together name the process. *)
CheckAlive(c) ==
    /\ At(c, "alive")
    /\ Goto(c, IF Live(cli[c].seen) THEN "probe" ELSE "clean_port")
    /\ UNCHANGED <<locks, files, procs>>

(* is_responsive() asks the gateway port, not the process.                 *)
Responds(l) ==
    \/ proc[l] = "serving"
    \/ \E k \in Launchers :
          proc[k] = "serving" /\ GatewayOf[ownerOf[l]] \in PortsOf[ownerOf[k]]

Probe(c) ==
    /\ At(c, "probe")
    /\ IF Responds(cli[c].seen) THEN End(c) ELSE Goto(c, "sigint")
    /\ UNCHANGED <<locks, files, procs>>

(* stop_network: SIGINT to whatever process has the pid now.               *)
SendSigint(c) ==
    LET pid == pidOf[cli[c].seen] IN
    /\ At(c, "sigint")
    /\ signalled' = signalled \cup {l \in Launchers : Live(l) /\ pidOf[l] = pid}
    /\ Goto(c, "await")
    /\ UNCHANGED <<locks, files, proc, ownerOf, pidOf>>

AwaitNothing(c) ==     \* mutant: signalled and not waited for
    /\ At(c, "await")
    /\ Goto(c, IF cli[c].op = "stop" THEN "remove" ELSE "clean_port")
    /\ UNCHANGED <<locks, files, procs>>

(* ... then poll until no process has it, for 10 seconds.                  *)
AwaitExit(c) ==
    LET pid == pidOf[cli[c].seen] IN
    /\ At(c, "await")
    /\ "slow" \in Faults \/ \A l \in Launchers : Live(l) => pidOf[l] # pid
    /\ Goto(c, IF cli[c].op = "stop" THEN "remove" ELSE "clean_port")
    /\ UNCHANGED <<locks, files, procs>>

(* stop.rs 71-79: the project descriptor goes, found or not.  The port     *)
(* descriptors stay, and name a dead process.                              *)
RemoveDescriptor(c) ==
    LET p == cli[c].p IN
    /\ At(c, "remove")
    /\ rootLock[p] = None
    /\ rootDesc' = [rootDesc EXCEPT ![p] = None]
    /\ End(c)
    /\ UNCHANGED <<locks, portDesc, stateDir, mapping, procs>>

-----------------------------------------------------------------------------
(* start.rs 119-130: the stale descriptors and the id mapping. *)

(* cleanup_port_descriptor of the stale descriptor's fixed gateway port,   *)
(* whosever descriptor is there now; a missing file is an error.           *)
CleanPort(c) ==
    LET q == GatewayOf[cli[c].p] IN
    /\ At(c, "clean_port")
    /\ IF q = None
       THEN Goto(c, "clean_root") /\ UNCHANGED portDesc
       ELSE /\ portLock[q] = None
            /\ portDesc' = [portDesc EXCEPT ![q] = None]
            /\ IF portDesc[q] = None THEN EndInCleanup(c) ELSE Goto(c, "clean_root")
    /\ UNCHANGED <<locks, rootDesc, stateDir, mapping, procs>>

CleanRoot(c) ==
    LET p == cli[c].p IN
    /\ At(c, "clean_root")
    /\ rootLock[p] = None
    /\ rootDesc' = [rootDesc EXCEPT ![p] = None]
    /\ IF rootDesc[p] = None THEN EndInCleanup(c) ELSE Goto(c, "ids")
    /\ UNCHANGED <<locks, portDesc, stateDir, mapping, procs>>

CleanNoIds(c) ==     \* mutant: the mapping of the old network survives
    /\ At(c, "ids")
    /\ Goto(c, "lock_root")
    /\ UNCHANGED <<locks, files, procs>>

(* ctx.ids.cleanup for the environments on this network.                   *)
CleanIds(c) ==
    /\ At(c, "ids")
    /\ mapping' = [mapping EXCEPT ![cli[c].p] = None]
    /\ Goto(c, "lock_root")
    /\ UNCHANGED <<locks, rootDesc, portDesc, stateDir, procs>>

-----------------------------------------------------------------------------
(* run.rs 157-227: the first with_write, from the port checks to a launcher *)
(* that reported its status.                                                *)

(* Used by both sections: wait for the root lock, then for the port locks. *)
LockRoot(c) ==
    LET p == cli[c].p IN
    /\ cli[c].pc \in {"lock_root", "relock_root"}
    /\ rootLock[p] = None
    /\ rootLock' = [rootLock EXCEPT ![p] = c]
    /\ cli' = [cli EXCEPT ![c].pc = IF @ = "lock_root" THEN "claim" ELSE "relock",
                          ![c].todo = PortsOf[p]]
    /\ UNCHANGED <<portLock, files, procs>>

(* nd.port(q).into_write(), then check_port_in_use.  fixed_ports comes out *)
(* of a HashMap, in any order.                                             *)
ClaimPort(c, q) ==
    /\ At(c, "claim")
    /\ q \in cli[c].todo
    /\ portLock[q] = None
    /\ IF portDesc[q] = Torn \/ (portDesc[q] # None /\ Live(portDesc[q]))
       THEN /\ End(c)       \* LoadDescriptor, or PortInUse
            /\ Release(c)
       ELSE /\ portLock' = [portLock EXCEPT ![q] = c]
            /\ cli' = [cli EXCEPT ![c].todo = @ \ {q}]
            /\ UNCHANGED rootLock
    /\ UNCHANGED <<files, procs>>

(* Any pid no live process has; a fresh one unless pids are reused.        *)
FreePids(l) ==
    IF "reuse" \in Faults THEN {k \in 1 .. l : \A j \in Launchers : Live(j) => pidOf[j] # k}
                          ELSE {l}

(* The state directory is removed and recreated, then the launcher runs.   *)
Spawn(c, l) ==
    LET p == cli[c].p IN
    /\ At(c, "claim")
    /\ cli[c].todo = {}
    /\ proc[l] = "unborn" /\ \A k \in 1 .. l - 1 : proc[k] # "unborn"
    /\ stateDir' = [stateDir EXCEPT ![p] = l]
    /\ proc' = [proc EXCEPT ![l] = "starting"]
    /\ ownerOf' = [ownerOf EXCEPT ![l] = p]
    /\ \E pid \in FreePids(l) : pidOf' = [pidOf EXCEPT ![l] = pid]
    /\ cli' = [cli EXCEPT ![c].pc = "status", ![c].mine = l]
    /\ UNCHANGED <<locks, rootDesc, portDesc, mapping, signalled>>

(* The launcher wrote its status file, or exited before.                   *)
Status(c) ==
    /\ At(c, "status")
    /\ \/ Live(cli[c].mine) /\ proc[cli[c].mine] # "starting" /\ Goto(c, "init")
       \/ proc[cli[c].mine] = "dead" /\ End(c)
    /\ Release(c)
    /\ UNCHANGED <<files, procs>>

(* initialize_network talks to the new replica, holding no lock.           *)
Initialize(c) ==
    /\ At(c, "init")
    /\ proc[cli[c].mine] = "serving"
    /\ Goto(c, "relock_root")
    /\ UNCHANGED <<locks, files, procs>>

(* On an error the guard is dropped: the child is signalled and waited for.*)
Abandon(c) == cli' = [cli EXCEPT ![c].pc = "shutdown", ![c].why = "failed"]

InitializeFails(c) ==
    /\ At(c, "init")
    /\ "io" \in Faults \/ proc[cli[c].mine] # "serving"
    /\ Abandon(c)
    /\ UNCHANGED <<locks, files, procs>>

-----------------------------------------------------------------------------
(* run.rs 251-282: the second with_write, which publishes the network. *)

(* The same locks again, and no check of what happened in between.         *)
RelockPort(c, q) ==
    /\ At(c, "relock")
    /\ q \in cli[c].todo
    /\ portLock[q] = None
    /\ portLock' = [portLock EXCEPT ![q] = c]
    /\ cli' = [cli EXCEPT ![c].todo = @ \ {q},
                          ![c].pc = IF cli[c].todo = {q} THEN "save" ELSE @]
    /\ UNCHANGED <<rootLock, files, procs>>

RelockNoPort(c) ==
    /\ At(c, "relock")
    /\ cli[c].todo = {}
    /\ Goto(c, "save")
    /\ UNCHANGED <<locks, files, procs>>

Unsaved(c) == {q \in PortsOf[cli[c].p] : portDesc[q] # cli[c].mine}

(* save_network_descriptors: the ports first, the project last.            *)
SavePort(c, q) ==
    /\ At(c, "save")
    /\ q \in Unsaved(c)
    /\ portDesc' = [portDesc EXCEPT ![q] = cli[c].mine]
    /\ UNCHANGED <<cli, locks, rootDesc, stateDir, mapping, procs>>

SaveRootFirst(c) ==     \* mutant: the project descriptor is saved before the ports
    /\ At(c, "save")
    /\ rootDesc' = [rootDesc EXCEPT ![cli[c].p] = cli[c].mine]
    /\ IF Unsaved(c) = {} THEN End(c) /\ Release(c) ELSE UNCHANGED <<cli, locks>>
    /\ UNCHANGED <<portDesc, stateDir, mapping, procs>>

(* background: the guard is defused and the CLI exits.  foreground: serve. *)
SaveRoot(c) ==
    /\ At(c, "save")
    /\ Unsaved(c) = {}
    /\ rootDesc' = [rootDesc EXCEPT ![cli[c].p] = cli[c].mine]
    /\ Release(c)
    /\ IF cli[c].op = "start" THEN End(c) ELSE Goto(c, "serve")
    /\ UNCHANGED <<portDesc, stateDir, mapping, procs>>

SaveFails(c) ==
    /\ At(c, "save")
    /\ "io" \in Faults
    /\ Abandon(c)
    /\ Release(c)
    /\ UNCHANGED <<files, procs>>

-----------------------------------------------------------------------------
(* run.rs 303-313 and every error after the spawn: shutting the child down. *)

(* Ctrl-C, or notice_child_exit.                                           *)
StopServing(c) ==
    /\ At(c, "serve")
    /\ Goto(c, "shutdown")
    /\ UNCHANGED <<locks, files, procs>>

ShutdownSilent(c) ==     \* mutant: waits for the child without signalling it
    /\ At(c, "shutdown")
    /\ Goto(c, "reap")
    /\ UNCHANGED <<locks, files, procs>>

(* signal_and_wait on the child it owns; a reaped child is not signalled.  *)
Shutdown(c) ==
    /\ At(c, "shutdown")
    /\ signalled' = signalled \cup {l \in Launchers : Live(l) /\ l = cli[c].mine}
    /\ Goto(c, "reap")
    /\ UNCHANGED <<locks, files, proc, ownerOf, pidOf>>

(* Then the command has failed, or a foreground run takes its descriptors  *)
(* away, whoever wrote what is there now; errors are ignored.              *)
Reap(c) ==
    /\ At(c, "reap")
    /\ proc[cli[c].mine] = "dead"
    /\ IF cli[c].why = "failed"
       THEN End(c)
       ELSE cli' = [cli EXCEPT ![c].pc = "withdraw", ![c].todo = PortsOf[cli[c].p]]
    /\ UNCHANGED <<locks, files, procs>>

WithdrawRoot(c) ==
    LET p == cli[c].p IN
    /\ At(c, "withdraw")
    /\ rootLock[p] = None
    /\ rootDesc' = [rootDesc EXCEPT ![p] = None]
    /\ IF cli[c].todo = {} THEN End(c) ELSE Goto(c, "withdraw_ports")
    /\ UNCHANGED <<locks, portDesc, stateDir, mapping, procs>>

WithdrawPort(c, q) ==
    /\ At(c, "withdraw_ports")
    /\ q \in cli[c].todo
    /\ portLock[q] = None
    /\ portDesc' = [portDesc EXCEPT ![q] = None]
    /\ IF cli[c].todo = {q} THEN End(c) ELSE cli' = [cli EXCEPT ![c].todo = @ \ {q}]
    /\ UNCHANGED <<locks, rootDesc, stateDir, mapping, procs>>

-----------------------------------------------------------------------------
(* access.rs 88-128, and a deploy that records canister ids after it. *)

AccessPort(c) ==
    LET q == GatewayOf[cli[c].p] IN
    /\ At(c, "port")
    /\ IF q = None THEN Goto(c, "deploy")
       ELSE /\ portLock[q] = None
            /\ IF portDesc[q] = cli[c].seen THEN Goto(c, "deploy") ELSE End(c)
    /\ UNCHANGED <<locks, files, procs>>

(* The canisters exist on the network seen when the command began.         *)
Deploy(c) ==
    /\ At(c, "deploy")
    /\ IF proc[cli[c].seen] = "serving"
       THEN mapping' = [mapping EXCEPT ![cli[c].p] = cli[c].seen] /\ End(c)
       ELSE UNCHANGED mapping /\ End(c)
    /\ UNCHANGED <<locks, rootDesc, portDesc, stateDir, procs>>

-----------------------------------------------------------------------------
(* The environment. *)

(* The invocation is killed: the kernel drops its locks, its child lives   *)
(* on, and a descriptor it was writing may be left truncated.              *)
Kill(c) ==
    /\ "kill" \in Faults
    /\ ~At(c, "idle")
    /\ End(c)
    /\ Release(c)
    /\ \/ UNCHANGED <<rootDesc, portDesc>>
       \/ /\ At(c, "save")
          /\ IF Unsaved(c) = {}
             THEN rootDesc' = [rootDesc EXCEPT ![cli[c].p] = Torn] /\ UNCHANGED portDesc
             ELSE /\ \E q \in Unsaved(c) : portDesc' = [portDesc EXCEPT ![q] = Torn]
                  /\ UNCHANGED rootDesc
    /\ UNCHANGED <<stateDir, mapping, procs>>

(* The launcher binds its fixed ports and serves; if one is taken, it      *)
(* exits.                                                                  *)
Bind(l) ==
    /\ proc[l] = "starting"
    /\ proc' = [proc EXCEPT ![l] =
                    IF PortsOf[ownerOf[l]] \cap Occupied = {} THEN "serving" ELSE "dead"]
    /\ UNCHANGED <<cli, locks, files, ownerOf, pidOf, signalled>>

Exit(l) ==
    /\ Live(l)
    /\ l \in signalled
    /\ proc' = [proc EXCEPT ![l] = "dead"]
    /\ UNCHANGED <<cli, locks, files, ownerOf, pidOf, signalled>>

Die(l) ==
    /\ "die" \in Faults
    /\ Live(l)
    /\ proc' = [proc EXCEPT ![l] = "dead"]
    /\ UNCHANGED <<cli, locks, files, ownerOf, pidOf, signalled>>

Hang(l) ==
    /\ "hang" \in Faults
    /\ proc[l] = "serving"
    /\ proc' = [proc EXCEPT ![l] = "hung"]
    /\ UNCHANGED <<cli, locks, files, ownerOf, pidOf, signalled>>

-----------------------------------------------------------------------------
(* Steps an invocation takes by itself once it has begun.                  *)
Step(c) ==
    \/ Load(c) \/ CheckAlive(c) \/ Probe(c) \/ SendSigint(c) \/ AwaitExit(c)
    \/ RemoveDescriptor(c)
    \/ CleanPort(c) \/ CleanRoot(c) \/ CleanIds(c)
    \/ LockRoot(c) \/ \E q \in Ports : ClaimPort(c, q) \/ RelockPort(c, q)
    \/ \E l \in Launchers : Spawn(c, l)
    \/ Status(c) \/ Initialize(c) \/ InitializeFails(c)
    \/ RelockNoPort(c) \/ \E q \in Ports : SavePort(c, q)
    \/ SaveRoot(c) \/ SaveFails(c)
    \/ Shutdown(c) \/ Reap(c)
    \/ WithdrawRoot(c) \/ \E q \in Ports : WithdrawPort(c, q)
    \/ AccessPort(c) \/ Deploy(c)

Next ==
    \/ \E c \in Clis :
        \/ \E p \in Projects, op \in Commands : Begin(c, p, op)
        \/ Step(c) \/ StopServing(c) \/ Kill(c)
    \/ \E l \in Launchers : Bind(l) \/ Exit(l) \/ Die(l) \/ Hang(l)

Spec == Init /\ [][Next]_vars

(* A command that has begun goes on when it can, a launcher reports its    *)
(* status or exits, and a signalled one exits in the end.  Nobody is bound *)
(* to run a command, to press Ctrl-C or to fail.                           *)
FairSpec ==
    /\ Spec
    /\ \A c \in Clis : WF_vars(Step(c))
    /\ \A l \in Launchers : WF_vars(Bind(l)) /\ WF_vars(Exit(l))

-----------------------------------------------------------------------------
Pcs == {"idle", "load", "alive", "probe", "sigint", "await", "remove",
        "clean_port", "clean_root", "ids", "lock_root", "claim", "status", "init",
        "relock_root", "relock", "save", "serve", "shutdown", "reap",
        "withdraw", "withdraw_ports", "port", "deploy"}

Outcomes == {"none", "failed", "cleanup"}

Descriptors == Launchers \cup {None, Torn}

CliStates == [pc : Pcs, op : Ops \cup {None}, p : Projects \cup {None},
              seen : Launchers \cup {None}, mine : Launchers \cup {None},
              todo : SUBSET Ports, why : Outcomes]

TypeOK ==
    /\ cli \in [Clis -> CliStates]
    /\ rootLock \in [Projects -> Clis \cup {None}]
    /\ portLock \in [Ports -> Clis \cup {None}]
    /\ rootDesc \in [Projects -> Descriptors]
    /\ portDesc \in [Ports -> Descriptors]
    /\ stateDir \in [Projects -> Launchers \cup {None}]
    /\ mapping \in [Projects -> Launchers \cup {None}]
    /\ proc \in [Launchers -> {"unborn", "starting", "serving", "hung", "dead"}]
    /\ ownerOf \in [Launchers -> Projects \cup {None}]
    /\ pidOf \in [Launchers -> Launchers \cup {None}]
    /\ signalled \subseteq Launchers

(* The state directory of a launcher that runs is the one made for it: no  *)
(* start removes it under a live network.  "Be careful that the network is *)
(* not running before attempting to read or write this location"           *)
(* (directory.rs 226-227).                                                 *)
StateDirIntact == \A l \in Launchers : Live(l) => stateDir[ownerOf[l]] = l

(* A launcher nobody told to stop is named by its project's descriptor or  *)
(* still held by the invocation that spawned it: `network stop` can find   *)
(* every background network.                                               *)
NoOrphans ==
    \A l \in Launchers :
        Live(l) /\ l \notin signalled =>
            rootDesc[ownerOf[l]] = l \/ \E c \in Clis : cli[c].mine = l

SharesPort(p) == \E r \in Projects \ {p} : PortsOf[p] \cap PortsOf[r] # {}

(* A network that is published and alive keeps its claim on its fixed      *)
(* gateway port, so that its own project can access it (access.rs 104-118) *)
(* and the others see the port in use (directory.rs 45-48), unless another *)
(* project fixes the same port.                                            *)
ClaimKept ==
    \A p \in Projects :
        LET l == rootDesc[p] IN
        l \in Launchers /\ Live(l) /\ GatewayOf[p] # None => portDesc[GatewayOf[p]] = l \/ SharesPort(p)

(* The ids recorded for a network's environment are of canisters on it and *)
(* not on a network that ran before (start.rs 124-130).                    *)
MappingFresh ==
    \A p \in Projects : rootDesc[p] \in Launchers => mapping[p] \in {None, rootDesc[p]}

(* A start that found a stale descriptor gets past its cleanup: "Cleaning  *)
(* up and starting fresh" (start.rs 115); with the same exception.         *)
CleanupSucceeds ==
    [][\A c \in Clis :
          cli'[c].why = "cleanup" => cli[c].why = "cleanup" \/ SharesPort(cli[c].p)]_vars

(* Projects that share no fixed port do not disturb each other: no step    *)
(* takes a claim from a live network, and cleanups get through.            *)
KeptApart == [][ClaimKept']_vars /\ CleanupSucceeds

(* Only the launcher a descriptor names, or the invocation's own child, is *)
(* signalled: the start time in the locator is there "to detect PID reuse: *)
(* if the PID exists but has a different start time, the original process  *)
(* died" (config.rs 110-111).                                              *)
SigintOnlyOwn ==
    [][\A l \in signalled' \ signalled :
          \E c \in Clis : l \in {cli[c].seen, cli[c].mine}]_vars

(* A lock belongs to an invocation that is inside a section on that        *)
(* directory: no return, failure or kill leaves one behind.                *)
LocksHeldInside ==
    /\ \A p \in Projects : \A c \in Clis :
          rootLock[p] = c => cli[c].p = p /\ cli[c].pc \in {"claim", "status", "relock", "save"}
    /\ \A q \in Ports : \A c \in Clis :
          portLock[q] = c => rootLock[cli[c].p] = c /\ q \in PortsOf[cli[c].p]

NoMoreCommands == <>[][~\E c \in Clis, p \in Projects, op \in Commands : Begin(c, p, op)]_vars

(* Once no more commands are given, every one that runs returns or serves  *)
(* in the foreground: none waits for ever on a lock, on a launcher or on   *)
(* another invocation, provided that no two projects fix two ports in      *)
(* common.  (While others keep coming, flock promises a waiter nothing.)   *)
CommandsReturn ==
    NoMoreCommands => \A c \in Clis : <>[](cli[c].pc \in {"idle", "serve"})

(* "When starting a network on a fixed port, icp-cli" finds it in use and  *)
(* "returns an error", or "claims the port" (directory.rs 45-48): no start *)
(* stays between the two.                                                  *)
PortsAnswered == NoMoreCommands => \A c \in Clis : <>[](cli[c].pc # "claim")
=============================================================================
