--------------------------- MODULE MCCanisterLife ---------------------------
(* How canisters come to be, and how their state is carried away and back.  *)
(* Scenes, one per behaviour:                                               *)
(*   create     two canisters that are each other's controller are created, *)
(*              on an application subnet and an engine                      *)
(*   transfer   a snapshot with no module, three chunks of memory, one of   *)
(*              stable memory and a chunk store, downloaded and uploaded    *)
EXTENDS CanisterCreation, SnapshotTransfer, TLC

CONSTANTS s1, s2, t1, t2, h1, a, b, x, y, r1, Scenes

VARIABLE scene

AllBlobs == <<"wasm_module", "wasm_memory", "stable_memory">>
Sizes == ("wasm_module" :> 0) @@ ("wasm_memory" :> 3) @@ ("stable_memory" :> 1)

-----------------------------------------------------------------------------
AB == <<a, b>>
AnyTarget == {None, s1, "proxy"}
EachOther == (a :> {b}) @@ (b :> {a})

-----------------------------------------------------------------------------
SceneInit == scene \in Scenes /\ TransferInit /\ CreationInit

SceneNext ==
    /\ UNCHANGED scene
    /\ \/ scene = "transfer" /\ TransferNext /\ UNCHANGED creationVars
       \/ scene = "create" /\ CreationNext /\ UNCHANGED <<vars, upload>>

\* The fairness of TransferSpec and of CanisterCreation.
SceneSpec ==
    /\ SceneInit /\ [][SceneNext]_<<scene, vars, upload, creationVars>>
    /\ WF_vars(scene = "transfer" /\ Step)
    /\ WF_uploadVars(scene = "transfer" /\ (U!Step \/ U!Failure))
    /\ SF_<<vars, upload>>(scene = "transfer" /\ ResumeUpload)
    /\ \A r \in Runs : WF_creationVars(scene = "create" /\ RunStep(r))
    /\ WF_creationVars(scene = "create" /\ DeployAll)

-----------------------------------------------------------------------------
(* CanisterCreation: repeating a deploy completes it.                       *)
DeployCompletes == scene = "create" => DeploysComplete
=============================================================================
