---------------------------- MODULE MCUserCommands ----------------------------
(* Commands of one user.  Scenes, one per behaviour:                           *)
(*   store      two names, two keys of either kind and one principal behind    *)
(*              web logins, devices and other people's chains                  *)
(*   file       one key on its way through files and passwords                 *)
(*   login      one login in a browser                                         *)
(*   modules    an old and a new icp-cli over one cache of wasm modules        *)
(*   recipes    of recipe templates                                            *)
(*   launchers  and of launchers                                               *)
(*   settings   every settings request, and an environment that overrides      *)
(*              what the manifest declares of a canister                       *)
(*   race       two users who change its controllers at the same time          *)
(*   overlap    two terminals that delete or link one canister at once         *)
(*   serial     one that does so with two, and every call answered             *)
(*   selection  arguments, environments and a project that is edited           *)
EXTENDS IdentityStore, WebLogin, KeyFile, CanisterSettings, CanisterDeletion, ContextSelection,
        PackageCache, TLC

CONSTANTS a, b, da, db, p1, p2, k1, k2, r, Scenes, good, bad

VARIABLE scene

DelegationUser == (a :> da) @@ (b :> db)
Interchangeable == Permutations(P256) \cup Permutations(Keys)

OldAndNew == ("old" :> 1) @@ ("new" :> 2)

ASSUME NamesApart /\ LoginAssumption /\ KeyAssumption /\ ContextAssumption
ASSUME SettingsAssumption /\ DeletionAssumption
ASSUME CacheAssumption

-------------------------------------------------------------------------------
NoLogs == [fix |-> None, set |-> None, add |-> {}, remove |-> {}]
Ask == [force |-> FALSE, removeAll |-> FALSE, add |-> {}, remove |-> {}, setVars |-> <<>>,
        dropVars |-> {}, logs |-> NoLogs, limit |-> None]

ControllerRequests ==
    {[Ask EXCEPT !.remove = {"alice"}], [Ask EXCEPT !.remove = {"bob"}, !.add = {"proxy"}],
     [Ask EXCEPT !.removeAll = TRUE], [Ask EXCEPT !.removeAll = TRUE, !.force = TRUE, !.add = {"peer"}]}
AllRequests ==
    ControllerRequests \cup
    {[Ask EXCEPT !.setVars = ("own" :> "user"), !.dropVars = {"conf"}],
     [Ask EXCEPT !.logs.add = {"bob"}], [Ask EXCEPT !.logs.set = {"bob"}],
     [Ask EXCEPT !.logs.fix = "public", !.limit = "user"]}

Controlled == [controllers |-> {"bob", "peer"}, vars |-> None, logs |-> None, limit |-> None]
Configured == [Controlled EXCEPT !.vars = ("conf" :> "base"), !.limit = "base"]
Overridden(e) ==
    CASE e = "local" -> Configured
      [] e = "shared" -> Controlled
      [] e = "production" ->
         [Configured EXCEPT !.vars = ("conf" :> "over"), !.limit = "over",
                            !.logs = [policy |-> "viewers", viewers |-> {"alice"}]]
AtFirst == [controllers |-> {"alice", "bob"}, vars |-> <<>>,
            logs |-> [policy |-> "controllers", viewers |-> {}], limit |-> "default"]

Env(n, m, c) == [network |-> n, managed |-> m, canisters |-> c]
TwoVersions ==
    {[networks |-> ("local" :> "n1") @@ ("ic" :> "mainnet"), undeclared |-> {},
      environments |-> ("local" :> Env("n1", TRUE, {"a", "b"})) @@ ("prod" :> Env("mainnet", FALSE, {"a"}))],
     [networks |-> ("local" :> "n1") @@ ("test" :> "n2") @@ ("ic" :> "mainnet"), undeclared |-> {"local"},
      environments |-> ("local" :> Env("n2", FALSE, {"a"})) @@ ("prod" :> Env("n1", TRUE, {"a", "b"}))]}

-------------------------------------------------------------------------------
NoFile == key = None /\ file = None /\ wrapping = None /\ kept = None /\ misread = None
NoLogin ==
    /\ expected = None /\ waiting = None /\ posts = None /\ chain = None
    /\ shutdown = None /\ served = None /\ events = None /\ result = None
Plain == [status |-> "running", module |-> "app", large |-> FALSE, liquid |-> FALSE]
NoSettings == SettingsInit /\ ids = {}
NoDeletion ==
    /\ DeletionInit
    /\ \A i \in Ids : net[i] = Plain
    /\ \A n \in Canisters : recorded[n] = None
NoSelection == files = None /\ cached = None /\ input = None /\ phase = None /\ agent = None /\ found = None

\* What is asked of the cache in its scenes, what URLs then serve, and whether
\* there are new launchers.
OnlyFor(kinds) ==
    /\ \A c \in Clis : cli'[c].kind \in kinds \cup {"none"}
    /\ \A u \in Wasms \cup Recipes : u \notin kinds => serves'[u] = serves[u]
    /\ "start" \notin kinds => released' = released
Unchanging == serves' = serves /\ \A c \in Clis : cli'[c].pin # bad

\* Who runs what in the scenes of the settings and of the deletion.
OneEdits == \A u \in Editors : work'[u] # Resting => u = "alice" /\ work'[u].env # "shared"
BothEdit ==
    \A u \in Editors : work'[u] # Resting =>
        /\ work'[u].kind \in {"update", "deploy"} \/ (work'[u].kind = "sync" /\ u = "alice")
        /\ work'[u].env \notin {"local", "production"}
        /\ work'[u].asked = None \/ work'[u].asked \in ControllerRequests
OneCanister == \A t \in Terminals : cmd'[t] # Idle => cmd'[t].id = "x" /\ cmd'[t].name # "b"
OneTerminal == cmd'["t2"] = Idle /\ ~overlapped' /\ faults' = 0 /\ \A id \in Ids : net'[id].liquid

SceneInit ==
    /\ scene \in Scenes
    /\ Init
    /\ IF scene = "file" THEN KeyInit ELSE NoFile
    /\ IF scene = "login" THEN LoginInit ELSE NoLogin
    /\ CacheInit
    /\ scene # "modules" => serves["wasm"] = good
    /\ scene # "recipes" => serves["recipe"] = good
    /\ IF scene = "settings" THEN SettingsInit ELSE NoSettings
    /\ CASE scene = "overlap" -> DeletionInit /\ recorded["b"] = None /\ recorded["a"] # "y"
                                 /\ net["y"] = Plain
         [] scene = "serial" -> DeletionInit /\ \A id \in Ids : net[id].liquid
         [] OTHER -> NoDeletion
    /\ IF scene = "selection" THEN ContextInit ELSE NoSelection

SceneNext ==
    /\ UNCHANGED scene
    /\ \/ scene = "store" /\ Next
       \/ scene = "file" /\ KeyNext
       \/ scene = "login" /\ LoginNext
       \/ scene = "modules" /\ CacheNext /\ OnlyFor({"wasm"})
       \/ scene = "recipes" /\ CacheNext /\ OnlyFor({"recipe"})
       \/ scene = "launchers" /\ CacheNext /\ OnlyFor({"recipe", "start", "update"}) /\ Unchanging
       \/ scene = "settings" /\ SettingsNext /\ OneEdits
       \/ scene = "race" /\ SettingsNext /\ BothEdit
       \/ scene = "overlap" /\ DeletionNext /\ OneCanister
       \/ scene = "serial" /\ DeletionNext /\ OneTerminal
       \/ scene = "selection" /\ ContextNext
    /\ scene # "store" => UNCHANGED vars
    /\ scene # "file" => UNCHANGED keyVars
    /\ scene # "login" => UNCHANGED loginVars
    /\ scene \notin {"modules", "recipes", "launchers"} => UNCHANGED cacheVars
    /\ scene \notin {"settings", "race"} => UNCHANGED settingsVars
    /\ scene \notin {"overlap", "serial"} => UNCHANGED deletionVars
    /\ scene # "selection" => UNCHANGED contextVars

SceneSpec ==
    /\ SceneInit
    /\ [][SceneNext]_<<scene, vars, keyVars, loginVars, cacheVars, settingsVars, deletionVars, contextVars>>

===============================================================================
