------------------------------ MODULE MCWaiting ------------------------------
(* What waits for others, and gets on.  Scenes, one per behaviour: three    *)
(* tasks with a handle each on a lock file (the variables of DirLock);      *)
(* overlapping commands on the networks of two projects that fix common     *)
(* ports; the start of a containerised network; and canister migrate-id.    *)
EXTENDS DirLock, Containers, IdMigration, TLC

CONSTANTS
    t1, t2, t3, h1, h2, h3, c1, c2, p1, p2, q1, q2, Scenes, Torn,
    Clis, Projects, Ports, PortsOf, GatewayOf, MaxLaunches, Commands, Faults

VARIABLES
    scene,
    cli, rootLock, portLock, rootDesc, portDesc, stateDir, mapping, proc, ownerOf, pidOf, signalled

OwnHandles == (t1 :> h1) @@ (t2 :> h2) @@ (t3 :> h3)
SharedHandle == (t1 :> h1) @@ (t2 :> h1) @@ (t3 :> h2)

OneCommon == (p1 :> {q1, q2}) @@ (p2 :> {q1})
BothCommon == (p1 :> {q1, q2}) @@ (p2 :> {q1, q2})
SameGateway == (p1 :> q1) @@ (p2 :> q1)

Network == INSTANCE NetworkLifecycle

ASSUME Containable

networkVars == <<cli, rootLock, portLock, rootDesc, portDesc, stateDir, mapping, proc, ownerOf, pidOf, signalled>>

\* Bound: two mappings only with a daemon that is in order.
OneMappingInTrouble == trouble # None => Len(options.ports) <= 1

\* Bound: one of the two invocations may be killed, the other one may be a stop.
ByOne ==
    /\ \A p \in Projects : ~Network!Begin(c2, p, "stop")
    /\ ~Network!Kill(c1)

NoContainer ==
    /\ options = None /\ trouble = None /\ image = None /\ container = None /\ written = None /\ status = None
    /\ at = None /\ guard = None /\ follower = None /\ shown = None /\ failure = None /\ reported = None
NoMigration ==
    /\ source = None /\ target = None /\ attempts = None /\ migrations = None
    /\ own = 0 /\ consented = None /\ doing = None /\ polls = None /\ report = Silent

SceneInit ==
    /\ scene \in Scenes
    /\ Init
    /\ Network!Init
    /\ IF scene = "container" THEN ContainersInit /\ OneMappingInTrouble ELSE NoContainer
    /\ IF scene = "migration" THEN MigrationInit ELSE NoMigration

SceneNext ==
    /\ UNCHANGED scene
    /\ \/ scene = "lock" /\ Next /\ UNCHANGED <<networkVars, containerVars, migrationVars>>
       \/ scene = "network" /\ Network!Next /\ ByOne /\ UNCHANGED <<vars, containerVars, migrationVars>>
       \/ scene = "container" /\ ContainersNext /\ UNCHANGED <<vars, networkVars, migrationVars>>
       \/ scene = "migration" /\ MigrationNext /\ UNCHANGED <<vars, networkVars, containerVars>>

\* The fairness of each module's own specification.
SceneSpec ==
    /\ SceneInit /\ [][SceneNext]_<<scene, vars, networkVars, containerVars, migrationVars>>
    /\ \A t \in Tasks : WF_vars(scene = "lock" /\ Progress(t))
    /\ \A c \in Clis : WF_networkVars(scene = "network" /\ Network!Step(c))
    /\ \A l \in 1 .. MaxLaunches :
        /\ WF_networkVars(scene = "network" /\ Network!Bind(l))
        /\ WF_networkVars(scene = "network" /\ Network!Exit(l))
    /\ WF_containerVars(scene = "container" /\ Cli)
    /\ WF_containerVars(scene = "container" /\ Follower)
    /\ WF_<<doing, polls>>(scene = "migration" /\ Command)

(* NetworkLifecycle: whatever fails, a command on a network returns.        *)
CommandsReturn == scene = "network" => Network!CommandsReturn

(* NetworkLifecycle: a start finds each of its ports in use or claims it.   *)
PortsAnswered == scene = "network" => Network!PortsAnswered

(* Containers, IdMigration: a start comes to an end if the container does   *)
(* its part, and migrate-id stops watching in the end.                      *)
WaitsEnd ==
    /\ scene = "container" => StartEnds
    /\ scene = "migration" => WatchEnds
===============================================================================
