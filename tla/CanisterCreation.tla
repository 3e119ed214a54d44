-------------------------- MODULE CanisterCreation --------------------------
(***************************************************************************)
(* `icp deploy`, up to the point where code is installed, and              *)
(* `icp canister create`: the canisters of an environment are created,     *)
(* recorded in its id store and given their settings.                      *)
(*                                                                         *)
(*   crates/icp-cli/src/commands/deploy.rs, commands/canister/create.rs    *)
(*   crates/icp-cli/src/operations/settings.rs                             *)
(*   crates/icp/src/store_id.rs                                            *)
(*                                                                         *)
(* The id store is one JSON file, loaded and saved as a whole; its lock is *)
(* a mutex of the process, so only other invocations interfere, and all of *)
(* Runs may.  Of the settings the model keeps the controllers that are     *)
(* canisters of the project, which can be set once these have an id.       *)
(*                                                                         *)
(* An id stands for a canister as long as something refers to it; then it  *)
(* may stand for a new one.                                                *)
(***************************************************************************)
EXTENDS CreateOperation

CONSTANTS
    Listing,    \* the names in the order of the manifest's map
    Refs,       \* per name: the canisters its settings list as controllers
    CutShort    \* what a kill inside a write leaves of the id store

ASSUME ManifestAssumption ==
    /\ Listing \in Seq(Names) /\ Names = {Listing[k] : k \in 1 .. Len(Listing)}
    /\ Refs \in [Names -> SUBSET Names]
    /\ CutShort \notin [Names -> Ids \cup {None}]

VARIABLES
    store,          \* {env}.ids.json: the id of each name, or CutShort
    controllers,    \* per id: the canisters among its controllers
    runs,           \* per run: what it is doing
    unwired         \* history: names whose settings a failed run left behind

creationVars == <<network, store, controllers, runs, unwired>>

Mappings == [Names -> Ids \cup {None}]
NoIds == [n \in Names |-> None]

(* pc       where the run is                                               *)
(* kind     deploy or create; when idle, whether the last run was killed   *)
(* want     the names it is for                                            *)
(* left     the names whose creation it has still to look at               *)
(* name     the canister being registered                                  *)
(* failed   an error is cached                                             *)
(* ids      the id mapping it read last, mem the one it is saving          *)
(* pend     the names whose settings it has to sync, seen the controllers  *)
(*          that a sync in progress has read                               *)
Steps == {"idle", "create", "register", "truncate", "write", "load_dependents", "dependents",
          "load_settings", "settings"}

Idle == [pc |-> "idle", kind |-> None, want |-> {}, left |-> {}, name |-> None, failed |-> FALSE,
         ids |-> NoIds, mem |-> NoIds, pend |-> {}, seen |-> NoIds]

CreationInit ==
    /\ InitNetwork
    /\ store = NoIds
    /\ controllers = [i \in Ids |-> {}]
    /\ runs = [r \in Runs |-> Idle]
    /\ unwired = {}

At(r, pc) == runs[r].pc = pc
Known(ids) == {n \in Names : ids[n] # None}

(* resolve_controllers                                                     *)
Resolve(n, ids) == {ids[m] : m \in Refs[n] \cap Known(ids)}

-----------------------------------------------------------------------------
(* A run begins. *)

(* The one of these names that the manifest has first.                     *)
FirstIn(S) ==
    Listing[CHOOSE k \in DOMAIN Listing :
              Listing[k] \in S /\ \A j \in DOMAIN Listing : Listing[j] \in S => k <= j]

(* existing_canisters.values().first()                                     *)
FirstOf(ids) == IF Known(ids) = {} THEN None ELSE ids[FirstIn(Known(ids))]

MissingAll(S) == S     \* mutant: canisters that exist are created again

Missing(S) == S \ Known(store)

Begin(r, kind, S, target, withIcp) ==
    /\ At(r, "idle")
    /\ store # CutShort
    /\ StartCalls(r, Missing(S), [target |-> target, icp |-> withIcp,
                                  first |-> FirstOf(store), subnet |-> None])
    /\ runs' = [runs EXCEPT ![r].kind = kind, ![r].want = S, ![r].ids = store,
                          ![r].left = Missing(S),
                          ![r].pc = IF Missing(S) = {} THEN "load_settings" ELSE "create"]
    /\ UNCHANGED <<made, store, controllers, unwired>>

(* deploy is for some of the canisters, or all.                            *)
BeginDeploy(r, S, target) == Begin(r, "deploy", S, target, FALSE)

(* canister create is for one that has no id yet.                          *)
BeginCreate(r, n, target, withIcp) ==
    /\ store # CutShort
    /\ n \in Missing(Names)
    /\ Begin(r, "create", {n}, target, withIcp)

-----------------------------------------------------------------------------
(* A run ends. *)

RefersTo(r) ==
    {runs[r].ids[n] : n \in Names} \cup {runs[r].mem[n] : n \in Names}
        \cup {call[r][n] : n \in Names} \cup {block[r][n] : n \in Names} \cup {op[r].first}
        \cup UNION {runs[r].seen[n] : n \in {m \in Names : runs[r].seen[m] # None}}
Recorded == IF store = CutShort THEN {} ELSE {store[n] : n \in Names}

(* What the store, another run or a controller list refers to; the rest    *)
(* leaves the model.                                                       *)
Kept(r) ==
    LET ids == Ids \cap (Recorded \cup UNION {RefersTo(q) : q \in Runs \ {r}})
    IN ids \cup UNION {controllers[i] : i \in ids}

End(r, bad, how) ==
    /\ made' = [i \in Ids |-> IF i \in Kept(r) THEN made[i] ELSE None]
    /\ controllers' = [i \in Ids |-> IF i \in Kept(r) THEN controllers[i] ELSE {}]
    /\ StartCalls(r, {}, NoOperation)
    /\ runs' = [runs EXCEPT ![r] = [Idle EXCEPT !.kind = how]]
    /\ unwired' = unwired \cup bad
    /\ UNCHANGED store

(* An error return: what it wanted may lack settings.                      *)
EndInError(r) == End(r, runs[r].want, None)

(* Nothing of the run survives; any settings it owed may be missing.       *)
Kill(r) ==
    /\ "kill" \in Mishaps
    /\ ~At(r, "idle")
    /\ At(r, "write") => "tear" \in Mishaps
    /\ End(r, Names, "killed")

-----------------------------------------------------------------------------
(* The creation calls go on by themselves. *)

CallMoves(r) ==
    /\ \E n \in Names : CallStep(r, n)
    /\ UNCHANGED <<store, runs, unwired>>
    /\ controllers' = [i \in Ids |->     \* create asks for the controllers, deploy for none
          IF made[i] = None /\ made'[i] # None /\ runs[r].kind = "create"
          THEN Resolve(made'[i].name, runs[r].ids) ELSE controllers[i]]

CallBreaks(r) ==
    /\ \E n \in Names : CallFailure(r, n)
    /\ UNCHANGED <<store, controllers, runs, unwired>>

SharedSubnet(r) == ResolveSubnet(r) /\ UNCHANGED <<store, controllers, runs, unwired>>

(* FuturesOrdered: results are taken in the order of the names.            *)
NextResult(r) == FirstIn(runs[r].left)

AnyResult(r) ==     \* mutant: FuturesUnordered, with the names still counted off in order
    /\ At(r, "create") /\ runs[r].left # {}
    /\ \E n \in runs[r].left :
          /\ call[r][n] \in Ids
          /\ runs' = [runs EXCEPT ![r].pc = "register", ![r].name = NextResult(r),
                                ![r].left = runs[r].left \ {NextResult(r)},
                                ![r].mem = [NoIds EXCEPT ![NextResult(r)] = call[r][n]]]
    /\ UNCHANGED <<network, store, controllers, unwired>>

(* "Created canister {name} with ID {id}" is printed.                      *)
TakeCreated(r) ==
    /\ At(r, "create") /\ runs[r].left # {}
    /\ LET n == NextResult(r) IN
          /\ call[r][n] \in Ids
          /\ runs' = [runs EXCEPT ![r].pc = "register", ![r].name = n,
                                ![r].left = runs[r].left \ {n},
                                ![r].mem = [NoIds EXCEPT ![n] = call[r][n]]]
    /\ UNCHANGED <<network, store, controllers, unwired>>

TakeErrorReturns(r) ==     \* mutant: the first error is returned at once
    /\ At(r, "create") /\ runs[r].left # {}
    /\ call[r][NextResult(r)] = "failed"
    /\ EndInError(r)

(* Errors are cached "until all futures are processed".                    *)
TakeError(r) ==
    /\ At(r, "create") /\ runs[r].left # {}
    /\ call[r][NextResult(r)] = "failed"
    /\ runs' = [runs EXCEPT ![r].failed = TRUE, ![r].left = runs[r].left \ {NextResult(r)}]
    /\ UNCHANGED <<network, store, controllers, unwired>>

AllTaken(r) ==
    /\ At(r, "create") /\ runs[r].left = {}
    /\ IF runs[r].failed THEN EndInError(r)
       ELSE IF runs[r].kind = "create" THEN End(r, {}, None)
       ELSE /\ runs' = [runs EXCEPT ![r].pc = "load_settings"]
            /\ UNCHANGED <<network, store, controllers, unwired>>

-----------------------------------------------------------------------------
(* set_canister_id_for_env, which registers the id in the store. *)

Register(r) ==
    /\ At(r, "register")
    /\ store # CutShort
    /\ store[runs[r].name] = None
    /\ runs' = [runs EXCEPT ![r].pc = "truncate",
                          ![r].mem = [store EXCEPT ![runs[r].name] = runs[r].mem[runs[r].name]]]
    /\ UNCHANGED <<network, store, controllers, unwired>>

(* The file does not parse, or the name is AlreadyRegistered: the `?`      *)
(* returns from the loop over the futures.                                 *)
RegisterFails(r) ==
    /\ At(r, "register")
    /\ store # CutShort => store[runs[r].name] # None
    /\ EndInError(r)

(* json::save, in place.                                                   *)
Truncate(r) ==
    /\ At(r, "truncate")
    /\ store' = CutShort
    /\ runs' = [runs EXCEPT ![r].pc = "write"]
    /\ UNCHANGED <<network, controllers, unwired>>

Write(r) ==
    /\ At(r, "write")
    /\ store' = runs[r].mem
    /\ runs' = [runs EXCEPT ![r].pc = "load_dependents", ![r].mem = NoIds]
    /\ UNCHANGED <<network, controllers, unwired>>

-----------------------------------------------------------------------------
(* Settings: of the canisters that waited for the new one to be their      *)
(* controller, and in the end of all that are deployed. *)

Load(r, from, to, S) ==
    /\ At(r, from)
    /\ store # CutShort
    /\ S \subseteq Known(store)
    /\ runs' = [runs EXCEPT ![r].pc = to, ![r].ids = store, ![r].pend = S]
    /\ UNCHANGED <<network, store, controllers, unwired>>

(* sync_controller_dependents                                              *)
LoadDependents(r) ==
    Load(r, "load_dependents", "dependents",
         {n \in Names : store # CutShort /\ runs[r].name \in Refs[n] /\ store[n] # None})

LoadSettings(r) == Load(r, "load_settings", "settings", runs[r].want)

LoadFails(r) ==
    /\ runs[r].pc \in {"load_dependents", "load_settings"}
    /\ store # CutShort => At(r, "load_settings") /\ ~ runs[r].want \subseteq Known(store)
    /\ EndInError(r)

(* The dependents one by one, the deployed canisters side by side.         *)
MaySync(r, n) ==
    /\ n \in runs[r].pend
    /\ At(r, "dependents") => n = FirstIn(runs[r].pend)

(* sync_settings reads the canister's settings ...                         *)
SyncRead(r, n) ==
    /\ MaySync(r, n)
    /\ runs[r].seen[n] = None
    /\ runs' = [runs EXCEPT ![r].seen = [runs[r].seen EXCEPT ![n] = controllers[runs[r].ids[n]]]]
    /\ UNCHANGED <<network, store, controllers, unwired>>

(* ... and sets them to those and the resolved ones, if there is a change. *)
SyncUpdate(r, n) ==
    /\ MaySync(r, n)
    /\ runs[r].seen[n] # None
    /\ LET i == runs[r].ids[n]
           desired == runs[r].seen[n] \cup Resolve(n, runs[r].ids)
       IN controllers' = IF desired = runs[r].seen[n] THEN controllers
                         ELSE [controllers EXCEPT ![i] = desired]
    /\ runs' = [runs EXCEPT ![r].pend = runs[r].pend \ {n},
                          ![r].seen = [runs[r].seen EXCEPT ![n] = None]]
    /\ unwired' = unwired \ {n}
    /\ UNCHANGED <<network, store>>

(* A warning for a dependent, an error in the end for the others.          *)
SyncFails(r, n) ==
    /\ "fail" \in Mishaps
    /\ MaySync(r, n)
    /\ runs' = [runs EXCEPT ![r].pend = runs[r].pend \ {n},
                          ![r].seen = [runs[r].seen EXCEPT ![n] = None],
                          ![r].failed = runs[r].failed \/ At(r, "settings")]
    /\ unwired' = unwired \cup {n}
    /\ UNCHANGED <<network, store, controllers>>

DependentsDone(r) ==
    /\ At(r, "dependents") /\ runs[r].pend = {}
    /\ runs' = [runs EXCEPT ![r].pc = "create"]
    /\ UNCHANGED <<network, store, controllers, unwired>>

(* With all settings in place deploy goes on to install the code.          *)
SettingsDone(r) ==
    /\ At(r, "settings") /\ runs[r].pend = {}
    /\ End(r, {}, None)

-----------------------------------------------------------------------------
RunStep(r) ==
    \/ SharedSubnet(r) \/ CallMoves(r)
    \/ TakeCreated(r) \/ TakeError(r) \/ AllTaken(r)
    \/ Register(r) \/ RegisterFails(r) \/ Truncate(r) \/ Write(r)
    \/ LoadDependents(r) \/ LoadSettings(r) \/ LoadFails(r)
    \/ \E n \in Names : SyncRead(r, n) \/ SyncUpdate(r, n)
    \/ DependentsDone(r) \/ SettingsDone(r)

Failure == \E r \in Runs : CallBreaks(r) \/ Kill(r) \/ \E n \in Names : SyncFails(r, n)

DeployAll == \E r \in Runs, t \in Placements : BeginDeploy(r, Names, t)

DeploySome == \E r \in Runs, t \in Placements : \E S \in SUBSET Names \ {{}, Names} : BeginDeploy(r, S, t)

CreateOne ==
    \E r \in Runs, n \in Names, t \in Placements, withIcp \in BOOLEAN : BeginCreate(r, n, t, withIcp)

CreationNext == DeployAll \/ DeploySome \/ CreateOne \/ (\E r \in Runs : RunStep(r)) \/ Failure

CreationSpec == CreationInit /\ [][CreationNext]_creationVars

(* A run goes on: its calls are answered or fail.  A deploy that did not   *)
(* complete is repeated.                                                   *)
FairSpec ==
    /\ CreationSpec
    /\ \A r \in Runs : WF_creationVars(RunStep(r))
    /\ WF_creationVars(DeployAll)

-----------------------------------------------------------------------------
CreationTypeOK ==
    /\ NetworkTypeOK
    /\ store \in Mappings \cup {CutShort}
    /\ controllers \in [Ids -> SUBSET Ids]
    /\ unwired \subseteq Names
    /\ \A r \in Runs :
          /\ runs[r].pc \in Steps /\ runs[r].kind \in {None, "deploy", "create", "killed"}
          /\ runs[r].want \subseteq Names /\ runs[r].left \subseteq runs[r].want
          /\ runs[r].name \in Names \cup {None} /\ runs[r].failed \in BOOLEAN
          /\ runs[r].ids \in Mappings /\ runs[r].mem \in Mappings
          /\ runs[r].pend \subseteq Known(runs[r].ids)
          /\ runs[r].seen \in [Names -> (SUBSET Ids) \cup {None}]

(* Every id in the store is that of a canister created for its name,       *)
(* whatever order the creations finish in.                                 *)
RecordedUnderItsName ==
    store # CutShort => \A n \in Known(store) : made[store[n]] # None /\ made[store[n]].name = n

(* No sync, however late it comes and whatever it had read, gives a        *)
(* canister a controller that its manifest does not name.                  *)
OnlyNamedControllers ==
    store # CutShort => \A n \in Known(store) :
        \A c \in controllers[store[n]] : made[c] # None /\ made[c].name \in Refs[n]

(* Whatever two runs lose, no id gets under a wrong name and no canister   *)
(* gets a controller that is not its own.                                  *)
NamesKept == RecordedUnderItsName /\ OnlyNamedControllers

(* What the store holds, or will hold when the save in progress is over.   *)
Saved(n) ==
    IF store # CutShort THEN store[n]
    ELSE IF \E r \in Runs : At(r, "write") THEN runs[CHOOSE r \in Runs : At(r, "write")].mem[n]
    ELSE None

(* An id that was recorded stays: no later registration drops or replaces  *)
(* it.                                                                     *)
IdsKept == [][\A n \in Names : Saved(n) # None => Saved(n)' = Saved(n)]_creationVars

(* A run that ends by itself has taken the id of every creation that was   *)
(* answered, and so printed it: "Cache errors until all futures are        *)
(* processed. Otherwise we risk dropping a canister id." (deploy.rs 252).  *)
NoIdDropped ==
    [][\A r \in Runs :
          ~At(r, "idle") /\ At(r, "idle")' /\ runs[r].kind' # "killed" =>
              \A n \in runs[r].left : call[r][n] \notin Ids]_creationVars

(* No id is lost once it is recorded, nor before it is.                    *)
StoreKept == IdsKept /\ NoIdDropped

(* Once no run is under way, a canister has all controllers its manifest   *)
(* names that have an id, in whatever order they were created, unless a    *)
(* failure kept its settings from being synced: "it will be set as a       *)
(* controller once created" (settings.rs 357-358).                         *)
Wired ==
    (\A r \in Runs : At(r, "idle")) /\ store # CutShort =>
        \A n \in Known(store) \ unwired : Resolve(n, store) \subseteq controllers[store[n]]

(* "If canisters already exist in the environment, new canisters are       *)
(* created on the same subnet" (docs/guides/deploying-to-specific-         *)
(* subnets.md 20): all that were not placed by the user are together.      *)
Colocated ==
    store # CutShort =>
        LET all == {made[store[n]] : n \in Known(store)}
        IN (\A c \in all : ~c.placed) => \A c, d \in all : c.subnet = d.subnet

(* Once nothing is under way, the canisters are arranged as declared; none *)
(* was paid for twice, and the variables keep their types.                 *)
Arranged == CreationTypeOK /\ ChargedOnce /\ Wired /\ Colocated

(* However often creations and settings failed or deploy was killed, once  *)
(* that ends, repeating it brings every canister into the store with its   *)
(* controllers.                                                            *)
DeploysComplete ==
    <>[][~Failure /\ ~DeploySome /\ ~CreateOne]_creationVars
        => <>[](/\ store # CutShort /\ Known(store) = Names
                /\ \A n \in Names : Resolve(n, store) \subseteq controllers[store[n]])
=============================================================================
