------------------------- MODULE MCCanisterCreation -------------------------
(* Commands of one project at the same time.  Scenes, one per behaviour:   *)
(*   create   two deploys, of two canisters that are each other's          *)
(*            controller                                                   *)
(*   beside   a deploy of a canister that exists, whose next module is     *)
(*            large, beside installations and stops of it                  *)
EXTENDS CanisterCreation, TLC

CONSTANTS a, b, i1, i2, i3, s1, r1, r2, m1, m2, deploy, other, Torn, Faults, Scenes

VARIABLES scene, run, task, art, code, running, chunks, excused

AB == <<a, b>>
Interchangeable == Permutations(Ids) \cup Permutations(Runs)
EachOther == (a :> {b}) @@ (b :> {a})

Terminals == {deploy, other}
Breaks == {<<m1, m2>>}
ResultsOfOne == [k \in {a} |-> {m1, m2}]
DeployBesideOthers ==
    [r \in Terminals |-> IF r = deploy THEN {"deploy"} ELSE {"install", "stop"}]
OnlyOne == [r \in Terminals |-> {{a}}]

Beside == INSTANCE CanisterInstall WITH
    Runs <- Terminals, Canisters <- {a}, Synced <- {a}, Modules <- {m1, m2}, Big <- {m2},
    Breaking <- Breaks, BuildsOf <- ResultsOfOne, Modes <- {"auto"},
    KindsOf <- DeployBesideOthers, ScopeOf <- OnlyOne

ASSUME Beside!InstallAssumption

besideVars == <<run, task, art, code, running, chunks, excused>>

SceneInit == scene \in Scenes /\ CreationInit /\ Beside!Init

SceneNext ==
    /\ UNCHANGED scene
    /\ \/ scene = "create" /\ CreationNext /\ UNCHANGED besideVars
       \/ scene = "beside" /\ Beside!Next /\ UNCHANGED creationVars

SceneSpec == SceneInit /\ [][SceneNext]_<<scene, creationVars, besideVars>>

-----------------------------------------------------------------------------
(* CanisterInstall: however the commands meet at the chunk store of the    *)
(* canister and fail, none leaves it stopped.                              *)
NothingLeftStopped == Beside!NothingLeftStopped
=============================================================================
