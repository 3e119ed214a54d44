------------------------ MODULE MCNetworkLifecycle ------------------------
(* Scenes, one per behaviour:                                              *)
(*   apart      two projects that share no port, one with a fixed and one  *)
(*              with a random one, whose launchers may die                 *)
(*   same       two projects that fix the same gateway port                *)
(*   project    loading and bundling a project with its dependencies       *)
(*   telemetry  the records of two commands at a time, and their sending   *)
EXTENDS NetworkLifecycle, Telemetry, TLC

CONSTANTS c1, c2, d1, d2, p1, p2, p3, p4, q1, q2, Scenes

VARIABLES
    scene,
    cwd, root, manifests, archive, frames, registry, canisters, members, project, outcome,
    stage, found, todo, source

Fixed == (p1 :> {q1}) @@ (p2 :> {}) @@ (p3 :> {q2}) @@ (p4 :> {q2})
Gateway == (p1 :> q1) @@ (p2 :> None) @@ (p3 :> q2) @@ (p4 :> q2)

\* Which projects have networks in a scene; launchers of "same" do not die.
Playing == IF scene = "apart" THEN {p1, p2} ELSE {p3, p4}
InScene ==
    /\ \A c \in Clis : cli'[c].p \in Playing \cup {None}
    /\ scene = "same" => \A l \in Launchers : Live(l) /\ proc'[l] = "dead" => l \in signalled \/ proc[l] = "starting"

Alike == Permutations(Clis) \cup Permutations(Invocations)

NoScope == ""
Sources == INSTANCE ProjectTrees WITH Bare <- NoScope
SomeTrees == Sources!AllTrees
SomePaths == Sources!AnyPath
SomeDirs == {"app", "svc", "lib", "mail"}
RefusedNames == {"a:b", "x:y"}
Project ==
    INSTANCE Bundle
        WITH Dirs <- SomeDirs, Path <- SomePaths, Bare <- NoScope, BadNames <- RefusedNames,
             Workspaces <- SomeTrees, files <- manifests

ASSUME Project!WorkspaceAssumption /\ TelemetryAssumption

projectVars == <<cwd, root, manifests, archive, frames, registry, canisters, members, project, outcome,
                 stage, found, todo, source>>

NoProject ==
    /\ cwd = None /\ root = None /\ manifests = None /\ archive = None /\ frames = None
    /\ registry = None /\ canisters = None /\ members = None /\ project = None /\ outcome = None
    /\ stage = None /\ found = None /\ todo = None /\ source = None

SceneInit ==
    /\ scene \in Scenes
    /\ Init
    /\ IF scene = "project" THEN Project!Init ELSE NoProject
    /\ TelemetryInit /\ (scene = "telemetry" \/ next = None)

\* Commands go on for ever on a network; a project is bundled once, and the
\* clock of the telemetry stops at its bound.
SceneNext ==
    /\ UNCHANGED scene
    /\ \/ scene \in {"apart", "same"} /\ Next /\ InScene /\ UNCHANGED <<projectVars, telemetryVars>>
       \/ scene = "project" /\ Project!Next /\ UNCHANGED <<vars, telemetryVars>>
       \/ scene = "telemetry" /\ TelemetryNext /\ UNCHANGED <<vars, projectVars>>
       \/ scene \in {"project", "telemetry"} /\ UNCHANGED <<vars, projectVars, telemetryVars>>

SceneSpec == SceneInit /\ [][SceneNext]_<<scene, vars, projectVars, telemetryVars>>

(* Workspace: a member is the same in the workspace as alone.            *)
MembersFaithful == scene = "project" => Project!UrlPerChain /\ Project!StandsAlone /\ Project!ScopedToMember

(* Bundle: an extracted bundle is the project it was made from.          *)
BundledFaithfully == scene = "project" => Project!BundleFaithful
===========================================================================
