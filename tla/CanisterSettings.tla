-------------------------- MODULE CanisterSettings --------------------------
(***************************************************************************)
(* The settings of one canister and the commands that write them: canister *)
(* settings update and sync, the two settings steps of deploy, and the     *)
(* synchronisation that follows the creation of a canister which the       *)
(* manifest names as a controller.  Each reads the status, computes whole  *)
(* lists from it and writes them in a later call; several users do so at   *)
(* once, as themselves or through a proxy canister.                        *)
(***************************************************************************)
EXTENDS Absent, Naturals, FiniteSets, Functions

CONSTANTS Editors,      \* the people who run commands
          Proxy,        \* the canister --proxy names
          Peer,         \* a canister of the project that may be a controller
          Wire,         \* the variable that binds this canister to Peer
          Environments, \* the environments the commands are run for
          BaseManifest, \* the canister's settings before any override
          Declared(_),  \* its settings in an environment
          Requests,     \* what settings update is asked for
          Kinds,        \* the commands that are run
          Initial,      \* the canister's settings at the start
          People,       \* who may be listed as a controller
          VarNames,     \* what variables are called
          Values        \* and what they hold

VARIABLES canister,     \* its settings on the network
          ids,          \* the canisters the id store knows
          yielded,      \* someone gave control away knowingly
          work          \* the command each user is running or has finished

settingsVars == <<canister, ids, yielded, work>>

Callers == Editors \cup {Proxy}
Resting == [at |-> "idle"]

Lists == SUBSET People
Vars == UNION {[D -> Values] : D \in SUBSET VarNames}

(* What requests and manifests list, with None for what they leave alone.  *)
SettingsAssumption ==
    /\ \A l \in Lists \cup Vars : l # None
    /\ Wire \in VarNames /\ Peer \in Values
    /\ DOMAIN Initial = {"controllers", "vars", "logs", "limit"}
    /\ Initial.controllers \in Lists /\ Initial.vars \in Vars
    /\ \A d \in {BaseManifest} \cup {Declared(e) : e \in Environments} :
          (d.controllers = None \/ d.controllers \in Lists) /\ (d.vars = None \/ d.vars \in Vars)
    /\ \A r \in Requests : r.add \in Lists /\ r.setVars \in Vars

SettingsInit ==
    /\ canister = Initial
    /\ ids \in {{}, {Peer}}
    /\ yielded = FALSE
    /\ work = [u \in Editors |-> Resting]

-----------------------------------------------------------------------------
(* What a request or a manifest makes of the settings that were read.      *)

Over(new, old) == [n \in DOMAIN new \cup DOMAIN old |-> IF n \in DOMAIN new THEN new[n] ELSE old[n]]

NeedsStatus(r) ==
    \/ ~r.removeAll /\ r.add \cup r.remove # {}
    \/ r.logs.add \cup r.logs.remove # {}
    \/ DOMAIN r.setVars \cup r.dropVars # {}

NewControllers(r, current) ==
    IF r.removeAll THEN r.add
    ELSE IF r.add \cup r.remove # {} THEN (current.controllers \cup r.add) \ r.remove
    ELSE None

Viewers(logs) == IF logs.policy = "viewers" THEN logs.viewers ELSE {}

NewLogs(r, current) ==
    CASE r.logs.fix # None -> [policy |-> r.logs.fix, viewers |-> {}]
      [] r.logs.fix = None /\ r.logs.set # None -> [policy |-> "viewers", viewers |-> r.logs.set]
      [] r.logs.fix = None /\ r.logs.set = None /\ r.logs.add \cup r.logs.remove # {} ->
            [policy |-> "viewers", viewers |-> (Viewers(current.logs) \cup r.logs.add) \ r.logs.remove]
      [] OTHER -> None

NewVars(r, current) ==
    IF DOMAIN r.setVars \cup r.dropVars = {} THEN None
    ELSE Restrict(Over(r.setVars, current.vars),
                  (DOMAIN r.setVars \cup DOMAIN current.vars) \ r.dropVars)

Edited(r, current) ==
    [controllers |-> NewControllers(r, current), logs |-> NewLogs(r, current),
     vars |-> NewVars(r, current), limit |-> r.limit]

(* sync_settings: variables and controllers are merged into the current.   *)
Resolved(refs, known) == refs \ ({Peer} \ known)

MergedReplacesControllers(d, current, known) ==     \* mutant: nobody else stays
    [controllers |-> IF d.controllers = None THEN None ELSE Resolved(d.controllers, known),
     vars |-> IF d.vars = None THEN None ELSE Over(d.vars, current.vars),
     logs |-> d.logs, limit |-> d.limit]

Merged(d, current, known) ==
    [controllers |-> IF d.controllers = None THEN None
                     ELSE current.controllers \cup Resolved(d.controllers, known),
     vars |-> IF d.vars = None THEN None ELSE Over(d.vars, current.vars),
     logs |-> d.logs, limit |-> d.limit]

(* set_env_vars_for_canister: what the manifest declares and the bindings  *)
(* replace all variables.                                                  *)
Bindings(known) == IF Peer \in known THEN [n \in {Wire} |-> Peer] ELSE <<>>

Bound(d, known) ==
    [controllers |-> None, logs |-> None, limit |-> None,
     vars |-> Over(Bindings(known), IF d.vars = None THEN <<>> ELSE d.vars)]

Applied(s, to) == [f \in DOMAIN to |-> IF s[f] = None THEN to[f] ELSE s[f]]

-----------------------------------------------------------------------------
(* The manifest a command of this kind applies: deploy and the             *)
(* synchronisation of dependents take the canister from the environment,   *)
(* settings sync takes it from the project.                                *)
Manifest(kind, e) == IF kind = "sync" THEN BaseManifest ELSE Declared(e)

MoveOn(u, at) == work' = [work EXCEPT ![u].at = at]

(* What is kept of a command that has ended well with the canister for     *)
(* itself; of any other nothing is.                                        *)
Ended(c) ==
    IF c.alone /\ c.kind # "update" THEN [c EXCEPT !.at = "done", !.write = None] ELSE Resting

Finish(u) == work' = [work EXCEPT ![u] = Ended(work[u])]
Fail(u) == work' = [work EXCEPT ![u] = Resting]

(* A command begins: it reads the ids, and from here on no command that    *)
(* overlaps it has the canister for itself.  Of one that has it and        *)
(* applies a manifest, the settings it found are kept to compare with.     *)
Begin(u, kind, as, e, r) ==
    LET active == {v \in Editors : work[v].at \notin {"idle", "done"}} IN
    /\ work[u].at \in {"idle", "done"}
    /\ ids' = IF kind = "dependents" THEN ids \cup {Peer} ELSE ids
    /\ work' = [v \in Editors |->
         IF v = u
         THEN [at |-> IF kind = "deploy" THEN "bind"
                      ELSE IF kind = "update" /\ ~NeedsStatus(r) THEN "decide" ELSE "status",
               kind |-> kind, as |-> as, env |-> e, asked |-> r, status |-> None,
               write |-> None, known |-> ids', alone |-> active = {},
               before |-> IF active = {} /\ kind # "update" THEN canister ELSE None]
         ELSE IF v \in active THEN [work[v] EXCEPT !.alone = FALSE, !.before = None] ELSE Resting]
    /\ UNCHANGED <<canister, yielded>>

BeginUpdate(u) ==
    /\ "update" \in Kinds
    /\ \E as \in {u, Proxy}, r \in Requests : Begin(u, "update", as, None, r)

(* Deploy, settings sync, and canister create for Peer, which is then      *)
(* registered before its dependents are synchronised.                      *)
BeginSync(u) ==
    \E kind \in Kinds \ {"update"}, as \in {u, Proxy}, e \in Environments :
        /\ kind = "dependents" =>
              /\ Peer \notin ids
              /\ Declared(e).controllers # None
              /\ Peer \in Declared(e).controllers
        /\ Begin(u, kind, as, e, None)

(* The management canister answers only the canister's controllers.        *)
Accepted(u) == work[u].as \in canister.controllers

Bind(u) ==
    /\ work[u].at = "bind" /\ Accepted(u)
    /\ canister' = Applied(Bound(Declared(work[u].env), work[u].known), canister)
    /\ MoveOn(u, "status")
    /\ UNCHANGED <<ids, yielded>>

ReadStatus(u) ==
    /\ work[u].at = "status" /\ Accepted(u)
    /\ work' = [work EXCEPT ![u].status = canister, ![u].at = "decide"]
    /\ UNCHANGED <<canister, ids, yielded>>

(* A sync that finds no difference sends nothing.                          *)
Settle(u) ==
    LET c == work[u]
        write == Merged(Manifest(c.kind, c.env), c.status, c.known)
    IN
    /\ c.at = "decide" /\ c.kind # "update"
    /\ IF Applied(write, c.status) = c.status
       THEN Finish(u)
       ELSE work' = [work EXCEPT ![u].write = write, ![u].at = "send"]
    /\ UNCHANGED <<canister, ids, yielded>>

(* settings update asks before the caller, or the proxy that calls for     *)
(* him, leaves the controllers; --force goes ahead without asking.         *)
Consent(u) ==
    LET c == work[u]
        write == Edited(c.asked, c.status)
        leaving == write.controllers # None /\ c.as \notin write.controllers
    IN
    /\ c.at = "decide" /\ c.kind = "update"
    /\ \/ /\ yielded' = (yielded \/ leaving)
          /\ work' = [work EXCEPT ![u].write = write, ![u].status = None, ![u].at = "send"]
       \/ leaving /\ ~c.asked.force /\ Fail(u) /\ UNCHANGED yielded
    /\ UNCHANGED <<canister, ids>>

UpdateSettings(u) ==
    /\ work[u].at = "send" /\ Accepted(u)
    /\ canister' = Applied(work[u].write, canister)
    /\ Finish(u)
    /\ UNCHANGED <<ids, yielded>>

(* A call is refused to a caller that is no controller (any more): the     *)
(* command ends there.                                                     *)
Refused(u) ==
    /\ work[u].at \in {"bind", "status", "send"}
    /\ ~Accepted(u)
    /\ Fail(u)
    /\ UNCHANGED <<canister, ids, yielded>>

SettingsNext ==
    \E u \in Editors : BeginUpdate(u) \/ BeginSync(u) \/ Bind(u) \/ ReadStatus(u)
                        \/ Settle(u) \/ Consent(u) \/ UpdateSettings(u) \/ Refused(u)

SettingsSpec == SettingsInit /\ [][SettingsNext]_settingsVars

-----------------------------------------------------------------------------
(* settings update, settings.rs sync_settings: as long as nobody gave      *)
(* control away knowingly, some caller is left who can call the canister,  *)
(* however the commands overlap and however old the lists are they write.  *)
(* One of several callers may still be written out by an older list.       *)
SomeoneInControl == ~yielded => canister.controllers \cap Callers # {}

Carries(d, known) ==
    /\ d.controllers # None => Resolved(d.controllers, known) \subseteq canister.controllers
    /\ d.vars # None => \A n \in DOMAIN d.vars : n \in DOMAIN canister.vars /\ canister.vars[n] = d.vars[n]
    /\ d.logs # None => canister.logs = d.logs
    /\ d.limit # None => canister.limit = d.limit

Named(d) == IF d.vars = None THEN {} ELSE DOMAIN d.vars

(* deploy.rs exec, binding_env_vars.rs, settings.rs: a command that        *)
(* applies a manifest and that nothing overlapped leaves the canister with *)
(* what the manifest declares and with every controller it had before.  A  *)
(* deploy leaves it with the declared variables and its bindings and no    *)
(* others, whatever it had before; the other commands take none away.      *)
AsDeclared ==
    \A u \in Editors :
        LET c == work[u]
            d == Manifest(c.kind, c.env)
        IN  c.at = "done" /\ c.alone =>
            /\ Carries(d, c.known)
            /\ c.before.controllers \subseteq canister.controllers
            /\ IF c.kind = "deploy"
               THEN DOMAIN canister.vars = Named(d) \cup (IF Peer \in c.known THEN {Wire} ELSE {})
               ELSE DOMAIN c.before.vars \subseteq DOMAIN canister.vars

SettingsKept == SomeoneInControl /\ AsDeclared

=============================================================================
