-------------------------- MODULE CanisterInstall --------------------------
(***************************************************************************)
(* From a build to a canister that runs it: the artifact store, and the    *)
(* part of `icp deploy` around creation, `icp build`, `icp canister        *)
(* install`, `icp sync`, `icp canister stop` and `start`.                  *)
(*                                                                         *)
(*   crates/icp-cli/src/commands/{deploy,build,sync}.rs                    *)
(*   crates/icp-cli/src/commands/canister/{install,stop,start}.rs          *)
(*   crates/icp-cli/src/operations/{build,install,candid_compat,sync}.rs   *)
(*   crates/icp/src/store_artifact.rs                                      *)
(*                                                                         *)
(* A run works in phases.  In a phase it does one task per canister, all   *)
(* of them concurrently; the phase ends when every task has an outcome.    *)
(* The canisters exist and have ids (CanisterCreation).  A canister that   *)
(* is stopping counts as stopped: neither is Running.                      *)
(***************************************************************************)
EXTENDS Naturals, FiniteSets

CONSTANTS
    Runs,           \* invocations that can run at the same time
    Canisters,      \* those of the environment
    Synced,         \* the canisters that have sync steps
    Modules,        \* what builds may result in
    BuildsOf,       \* per canister, what its build may result in
    Big,            \* modules too large for one message
    Breaking,       \* <<old, new>> whose Candid interfaces are incompatible
    KindsOf,        \* per run, the commands it may be,
    ScopeOf,        \* and the sets of canisters they may name
    Modes,          \* --mode, of AllModes
    Faults,         \* which of AllFaults may happen
    None, Torn

(* kill  a run is killed, also inside the write of an artifact             *)
(* fail  a build, a call to the network or a sync step fails               *)
(* lost  a call is carried out, but its answer does not arrive             *)
AllFaults == {"kill", "fail", "lost"}
AllKinds == {"deploy", "build", "install", "sync", "stop", "start"}
AllModes == {"auto", "install", "reinstall", "upgrade"}

Phases == {"build", "resolve", "check", "install", "start", "wait", "status", "sync", "call"}
Parts == {1, 2}         \* a module of Big is cut into two chunks

ASSUME InstallAssumption ==
    /\ Synced \subseteq Canisters
    /\ Big \subseteq Modules /\ Breaking \subseteq Modules \X Modules
    /\ BuildsOf \in [Canisters -> SUBSET Modules]
    /\ KindsOf \in [Runs -> SUBSET AllKinds] /\ ScopeOf \in [Runs -> SUBSET SUBSET Canisters]
    /\ Modes \subseteq AllModes /\ Faults \subseteq AllFaults
    /\ None \notin Modules /\ Torn \notin Modules \cup {None}

VARIABLES
    run,        \* per run: its phase and its command line
    task,       \* per run and canister: the task of the phase
    art,        \* per canister: its file in the artifact store
    code,       \* per canister: the module it runs
    running,    \* the canisters that are Running
    chunks,     \* per canister: its chunk store, <<module, part>>
    excused     \* ghost: canisters that a user or a fault left stopped

canister == <<code, running, chunks, excused>>
vars == <<run, task, art, canister>>

Resting == [phase |-> "idle", kind |-> "none", names |-> {}, yes |-> FALSE, mode |-> "auto"]

(* wasm: what is going to be installed; mode and guard: what               *)
(* resolve_install_mode_and_status said; ok: what the task will return;    *)
(* ghosts: built, by this run; compared, the candid interfaces, and nobody *)
(* confirmed that it does not matter.                                      *)
NoTask == [step |-> "none", wasm |-> None, mode |-> "none", guard |-> FALSE, ok |-> TRUE,
           built |-> None, compared |-> FALSE]

Init ==
    /\ run = [r \in Runs |-> Resting]
    /\ task = [r \in Runs |-> [k \in Canisters |-> NoTask]]
    /\ art = [k \in Canisters |-> None]
    /\ code = [k \in Canisters |-> None]
    /\ running = Canisters
    /\ chunks = [k \in Canisters |-> {}]
    /\ excused = {}

-----------------------------------------------------------------------------
(* Runs and their phases. *)

Active(r) == run[r].phase # "idle"
At(r, k, phase, step) == run[r].phase = phase /\ task[r][k].step = step

(* A task goes on to another step, or ends well or not.                    *)
Move(r, k, t) == task' = [task EXCEPT ![r][k] = t] /\ UNCHANGED run
Goto(r, k, step) == Move(r, k, [task[r][k] EXCEPT !.step = step])
Succeed(r, k) == Goto(r, k, "done")
Fail(r, k) == Move(r, k, [task[r][k] EXCEPT !.step = "done", !.ok = FALSE])

(* try_join_all: the first error ends the run.                             *)
Abort(r) ==
    /\ run' = [run EXCEPT ![r] = Resting]
    /\ task' = [task EXCEPT ![r] = [k \in Canisters |-> NoTask]]

FirstPhase(kind) ==
    CASE kind \in {"deploy", "build"} -> "build"
      [] kind = "install" -> "resolve"
      [] kind = "sync" -> "status"
      [] kind \in {"stop", "start"} -> "call"

(* A phase asks for a task of each canister it is about.                   *)
AfterInstall == {"start", "wait", "status", "sync"}
TasksOf(phase, names) == IF phase \in AfterInstall THEN names \cap Synced ELSE names

Enter(r, phase) ==
    /\ run' = [run EXCEPT ![r].phase = phase]
    /\ task' = [task EXCEPT ![r] =
                   [k \in Canisters |->
                       [(IF phase \in AfterInstall THEN NoTask ELSE task[r][k]) EXCEPT
                           !.step = IF k \in TasksOf(phase, run[r].names) THEN "todo" ELSE "none"]]]

Begin(r, kind, names, mode, yes, wasm) ==
    /\ ~Active(r)
    /\ kind \in KindsOf[r] /\ names \in ScopeOf[r]
    /\ run' = [run EXCEPT ![r] = [phase |-> FirstPhase(kind), kind |-> kind, names |-> names,
                                  yes |-> yes, mode |-> mode]]
    /\ task' = [task EXCEPT ![r] =
                   [k \in Canisters |-> IF k \in TasksOf(FirstPhase(kind), names)
                                        THEN [NoTask EXCEPT !.step = "todo", !.wasm = wasm] ELSE NoTask]]
    /\ UNCHANGED <<art, canister>>

BeginDeploy(r) ==
    \E names \in ScopeOf[r], mode \in Modes, yes \in BOOLEAN : Begin(r, "deploy", names, mode, yes, None)

(* install.rs reads its module, from the artifact store or a file, before  *)
(* anything else.                                                          *)
BeginInstall(r, k) ==
    \E mode \in Modes, yes \in BOOLEAN, wasm \in (BuildsOf[k] \cup {art[k]}) \ {None} :
        Begin(r, "install", {k}, mode, yes, wasm)

BeginOther(r) ==
    \/ \E kind \in {"build", "sync"}, names \in ScopeOf[r] : Begin(r, kind, names, "auto", FALSE, None)
    \/ \E kind \in {"stop", "start"}, k \in Canisters : Begin(r, kind, {k}, "auto", FALSE, None)

(* What comes after a phase all of whose tasks are done.                   *)
NextPhase(r) ==
    LET p == run[r].phase  kind == run[r].kind IN
    CASE p = "build" /\ kind = "deploy" -> "resolve"
      [] p = "resolve" -> IF run[r].yes THEN "install" ELSE "check"
      [] p = "check" -> "install"
      [] p = "install" /\ kind = "deploy" /\ run[r].names \cap Synced # {} -> "start"
      [] p = "start" -> "wait"
      [] p \in {"wait", "status"} -> "sync"
      [] OTHER -> "idle"

PhaseDone(r) ==
    Active(r) /\ \A k \in TasksOf(run[r].phase, run[r].names) : task[r][k].step = "done"

EndPhaseRegardless(r) ==     \* mutant: the errors of a phase are only printed
    /\ PhaseDone(r)
    /\ IF NextPhase(r) # "idle" THEN Enter(r, NextPhase(r)) ELSE Abort(r)
    /\ UNCHANGED <<art, canister>>

(* Errors are collected until every task has ended; then they end the run. *)
EndPhase(r) ==
    /\ PhaseDone(r)
    /\ IF NextPhase(r) # "idle" /\ \A k \in run[r].names : task[r][k].ok
       THEN Enter(r, NextPhase(r))
       ELSE Abort(r)
    /\ UNCHANGED <<art, canister>>

-----------------------------------------------------------------------------
(* build: the steps, then the module is saved under its canister's name.   *)
Build(r, k) ==
    /\ At(r, k, "build", "todo")
    /\ \E m \in BuildsOf[k] :
          /\ art' = [art EXCEPT ![k] = m]
          /\ Move(r, k, [task[r][k] EXCEPT !.step = "done", !.built = m])
    /\ UNCHANGED canister

BuildFails(r, k) ==
    /\ "fail" \in Faults
    /\ At(r, k, "build", "todo")
    /\ Fail(r, k)
    /\ UNCHANGED <<art, canister>>

ModeForInstall(r, k) ==     \* mutant: "auto" does not ask for the module hash
    IF run[r].mode # "auto" THEN run[r].mode ELSE "install"

(* resolve_install_mode_and_status.                                        *)
ModeFor(r, k) ==
    IF run[r].mode # "auto" THEN run[r].mode
    ELSE IF code[k] = None THEN "install" ELSE "upgrade"

Resolve(r, k) ==
    /\ At(r, k, "resolve", "todo")
    /\ Move(r, k, [task[r][k] EXCEPT !.step = "done", !.mode = ModeFor(r, k),
                      !.guard = ModeFor(r, k) \in {"upgrade", "reinstall"} /\ k \in running])
    /\ UNCHANGED <<art, canister>>

(* The module that is at hand: install.rs has it in memory, the others     *)
(* look it up when they need it.                                           *)
Wasm(r, k) == IF run[r].kind = "install" THEN task[r][k].wasm ELSE art[k]

(* Metadata that cannot be fetched skips the check of the interfaces; at a *)
(* terminal, `install` (and not deploy) asks whether to go on regardless.  *)
Fetched == {TRUE} \cup (IF "fail" \in Faults THEN {FALSE} ELSE {})
Confirmed(r) == {FALSE} \cup (IF run[r].kind = "install" THEN {TRUE} ELSE {})

CheckWarns(r, k) ==     \* mutant: an incompatibility is only reported
    /\ At(r, k, "check", "todo")
    /\ \E fetched \in Fetched, confirmed \in Confirmed(r) :
          LET compared == fetched /\ ~confirmed /\ task[r][k].mode = "upgrade" IN
          Move(r, k, [task[r][k] EXCEPT !.step = "done", !.compared = compared])
    /\ UNCHANGED <<art, canister>>

(* check_candid_compatibility, for upgrades.                               *)
Check(r, k) ==
    /\ At(r, k, "check", "todo")
    /\ \E fetched \in Fetched, confirmed \in Confirmed(r) :
          LET compared == fetched /\ ~confirmed /\ task[r][k].mode = "upgrade" IN
          Move(r, k, [task[r][k] EXCEPT !.step = "done", !.compared = compared,
                         !.ok = ~(compared /\ <<code[k], Wasm(r, k)>> \in Breaking)])
    /\ UNCHANGED <<art, canister>>

-----------------------------------------------------------------------------
(* install_canister.  o is the outcome of a call.                          *)
Outcomes == {"ok"} \cup (Faults \cap {"fail", "lost"})

(* stop_and_start_if_upgrade, once a module is in place, and what is left  *)
(* to do after it.                                                         *)
StopFirst(r, k) == IF task[r][k].guard THEN "stop" ELSE "code"
Rest(wasm) == IF wasm \in Big THEN "clear_after" ELSE "done"

Lookup(r, k) ==
    /\ At(r, k, "install", "todo")
    /\ LET w == Wasm(r, k) IN
       IF w = None THEN Fail(r, k)
       ELSE Move(r, k, [task[r][k] EXCEPT !.wasm = w,
                           !.step = IF w \in Big THEN "clear" ELSE StopFirst(r, k)])
    /\ UNCHANGED <<art, canister>>

Clear(r, k, o) ==
    /\ At(r, k, "install", "clear")
    /\ chunks' = [chunks EXCEPT ![k] = IF o = "fail" THEN @ ELSE {}]
    /\ IF o = "ok" THEN Goto(r, k, "upload") ELSE Fail(r, k)
    /\ UNCHANGED <<art, code, running, excused>>

UploadFirst(r, k, o) ==
    /\ At(r, k, "install", "upload")
    /\ chunks' = [chunks EXCEPT ![k] = IF o = "fail" THEN @ ELSE @ \cup {<<task[r][k].wasm, 1>>}]
    /\ IF o = "ok" THEN Goto(r, k, "upload_rest") ELSE Fail(r, k)
    /\ UNCHANGED <<art, code, running, excused>>

UploadRest(r, k, o) ==
    /\ At(r, k, "install", "upload_rest")
    /\ chunks' = [chunks EXCEPT ![k] = IF o = "fail" THEN @ ELSE @ \cup {<<task[r][k].wasm, 2>>}]
    /\ IF o = "ok" THEN Goto(r, k, StopFirst(r, k)) ELSE Fail(r, k)
    /\ UNCHANGED <<art, code, running, excused>>

Stop(r, k, o) ==
    /\ At(r, k, "install", "stop")
    /\ running' = IF o = "fail" THEN running ELSE running \ {k}
    /\ excused' = IF o = "lost" THEN excused \cup {k} ELSE excused
    /\ Move(r, k, IF o = "ok" THEN [task[r][k] EXCEPT !.step = "code"]
                  ELSE [task[r][k] EXCEPT !.step = Rest(task[r][k].wasm), !.ok = FALSE])
    /\ UNCHANGED <<art, code, chunks>>

(* What install_code and install_chunked_code accept.                      *)
Accepted(r, k) ==
    /\ task[r][k].wasm \in Modules
    /\ task[r][k].mode = "install" => code[k] = None
    /\ task[r][k].mode = "upgrade" => code[k] # None
    /\ task[r][k].wasm \in Big => {task[r][k].wasm} \X Parts \subseteq chunks[k]

InstallCodeReturns(r, k, o) ==     \* mutant: an error returns before the restart
    LET done == o # "fail" /\ Accepted(r, k)  ok == done /\ o = "ok" IN
    /\ At(r, k, "install", "code")
    /\ Accepted(r, k) \/ o = "ok"
    /\ code' = [code EXCEPT ![k] = IF done THEN task[r][k].wasm ELSE @]
    /\ Move(r, k, [task[r][k] EXCEPT !.ok = ok,
                      !.step = IF ok /\ task[r][k].guard THEN "restart" ELSE Rest(task[r][k].wasm)])
    /\ UNCHANGED <<art, running, chunks, excused>>

(* Whether it succeeded or not, a canister that was stopped is restarted.  *)
(* A call that is not accepted is rejected, whatever its outcome would be. *)
InstallCode(r, k, o) ==
    LET done == o # "fail" /\ Accepted(r, k) IN
    /\ At(r, k, "install", "code")
    /\ Accepted(r, k) \/ o = "ok"
    /\ code' = [code EXCEPT ![k] = IF done THEN task[r][k].wasm ELSE @]
    /\ Move(r, k, [task[r][k] EXCEPT !.ok = done /\ o = "ok",
                      !.step = IF task[r][k].guard THEN "restart" ELSE Rest(task[r][k].wasm)])
    /\ UNCHANGED <<art, running, chunks, excused>>

Restart(r, k, o) ==
    /\ At(r, k, "install", "restart")
    /\ running' = IF o = "fail" THEN running ELSE running \cup {k}
    /\ excused' = IF o = "fail" THEN excused \cup ({k} \ running) ELSE excused \ {k}
    /\ Move(r, k, [task[r][k] EXCEPT !.step = Rest(task[r][k].wasm), !.ok = @ /\ o = "ok"])
    /\ UNCHANGED <<art, code, chunks>>

ClearAfter(r, k, o) ==
    /\ At(r, k, "install", "clear_after")
    /\ chunks' = [chunks EXCEPT ![k] = IF o = "fail" THEN @ ELSE {}]
    /\ Move(r, k, [task[r][k] EXCEPT !.step = "done", !.ok = @ /\ o = "ok"])
    /\ UNCHANGED <<art, code, running, excused>>

-----------------------------------------------------------------------------
(* start_canister for each canister that will be synced; stop.rs, start.rs. *)

SetRunning(k, on) ==
    /\ running' = IF on THEN running \cup {k} ELSE running \ {k}
    /\ excused' = IF on THEN excused \ {k} ELSE excused \cup {k}

CallStart(r, k, o) ==
    /\ At(r, k, "start", "todo") \/ (At(r, k, "call", "todo") /\ run[r].kind = "start")
    /\ IF o = "fail" THEN UNCHANGED <<running, excused>> ELSE SetRunning(k, TRUE)
    /\ IF o = "ok" THEN Succeed(r, k) ELSE Abort(r)
    /\ UNCHANGED <<art, code, chunks>>

CallStop(r, k, o) ==
    /\ At(r, k, "call", "todo") /\ run[r].kind = "stop"
    /\ IF o = "fail" THEN UNCHANGED <<running, excused>> ELSE SetRunning(k, FALSE)
    /\ IF o = "ok" THEN Succeed(r, k) ELSE Abort(r)
    /\ UNCHANGED <<art, code, chunks>>

(* wait_until_serving_queries, for at most READINESS_BUDGET; and the       *)
(* status that sync.rs asks for.                                           *)
SeesRunning(r, k) ==
    /\ At(r, k, "wait", "todo") \/ At(r, k, "status", "todo")
    /\ k \in running
    /\ Succeed(r, k)
    /\ UNCHANGED <<art, canister>>

SeesStopped(r, k) ==
    /\ At(r, k, "wait", "todo") \/ At(r, k, "status", "todo")
    /\ k \notin running
    /\ Abort(r)
    /\ UNCHANGED <<art, canister>>

(* sync_canister: its steps call the canister.                             *)
Sync(r, k) ==
    /\ At(r, k, "sync", "todo")
    /\ IF k \in running THEN Succeed(r, k) ELSE Fail(r, k)
    /\ UNCHANGED <<art, canister>>

(* Between a stop and its restart.                                        *)
Guarding(r, k) ==
    run[r].phase = "install" /\ task[r][k].guard /\ task[r][k].step \in {"code", "restart"}

(* A status, a probe or a sync step that fails.                            *)
ReadFails(r, k) ==
    /\ "fail" \in Faults
    /\ \/ /\ \E p \in {"resolve", "wait", "status"} : At(r, k, p, "todo")
          /\ Abort(r)
       \/ At(r, k, "sync", "todo") /\ Fail(r, k)
    /\ UNCHANGED <<art, canister>>

(* What is killed between a stop and its restart stays stopped.            *)
Kill(r) ==
    /\ "kill" \in Faults
    /\ Active(r)
    /\ Abort(r)
    /\ excused' = excused \cup {k \in Canisters \ running : Guarding(r, k)}
    /\ \/ UNCHANGED art
       \/ \E k \in Canisters : At(r, k, "build", "todo") /\ art' = [art EXCEPT ![k] = Torn]
    /\ UNCHANGED <<code, running, chunks>>

-----------------------------------------------------------------------------
Call(r, k, o) ==
    \/ Clear(r, k, o) \/ UploadFirst(r, k, o) \/ UploadRest(r, k, o)
    \/ Stop(r, k, o) \/ InstallCode(r, k, o) \/ Restart(r, k, o) \/ ClearAfter(r, k, o)
    \/ CallStart(r, k, o) \/ CallStop(r, k, o)

Step(r) ==
    \/ EndPhase(r)
    \/ \E k \in Canisters :
        \/ Build(r, k) \/ Resolve(r, k) \/ Check(r, k) \/ Lookup(r, k)
        \/ SeesRunning(r, k) \/ SeesStopped(r, k) \/ Sync(r, k)
        \/ Call(r, k, "ok")

Failure(r) ==
    \/ Kill(r)
    \/ \E k \in Canisters :
        \/ BuildFails(r, k) \/ ReadFails(r, k)
        \/ \E o \in Outcomes \ {"ok"} : Call(r, k, o)

Next ==
    \E r \in Runs :
        \/ BeginDeploy(r) \/ BeginOther(r)
        \/ \E k \in Canisters : BeginInstall(r, k)
        \/ Step(r) \/ Failure(r)

Spec == Init /\ [][Next]_vars

(* Builds end and calls are answered or fail, so a run goes on until it    *)
(* ends; and users deploy again.                                           *)
Redeploy == \E r \in Runs : Begin(r, "deploy", Canisters, "auto", TRUE, None)
FairSpec == Spec /\ (\A r \in Runs : WF_vars(Step(r))) /\ WF_vars(Redeploy)

-----------------------------------------------------------------------------
Tasks == [step : {"none", "todo", "done", "clear", "upload", "upload_rest", "stop", "code",
                  "restart", "clear_after"},
          wasm : Modules \cup {None, Torn}, mode : (AllModes \ {"auto"}) \cup {"none"}, guard : BOOLEAN,
          ok : BOOLEAN, built : Modules \cup {None}, compared : BOOLEAN]

TypeOK ==
    /\ run \in [Runs -> [phase : Phases \cup {"idle"}, kind : AllKinds \cup {"none"},
                         names : SUBSET Canisters, yes : BOOLEAN, mode : AllModes]]
    /\ task \in [Runs -> [Canisters -> Tasks]]
    /\ art \in [Canisters -> Modules \cup {None, Torn}]
    /\ code \in [Canisters -> Modules \cup {None}]
    /\ running \subseteq Canisters /\ excused \subseteq Canisters \ running
    /\ chunks \in [Canisters -> SUBSET (Big \X Parts)]

(* A canister is not Running only while an upgrade is under way, or        *)
(* because a user stopped it or a fault kept the restart from happening:   *)
(* a rejected or failed installation, of this or of an overlapping run,    *)
(* leaves no canister stopped (install.rs 335).                            *)
NothingLeftStopped ==
    \A k \in Canisters \ (running \cup excused) : \E r \in Runs : Guarding(r, k)

(* What follows is about runs that come one after the other.               *)

(* deploy installs only what it has built itself, and only if all of its   *)
(* builds succeeded: nothing stale, nothing cut short, no half of a        *)
(* project (deploy.rs 185-193).                                            *)
InstallsItsBuilds ==
    [][\A r \in Runs, k \in Canisters :
          At(r, k, "install", "code") /\ run[r].kind = "deploy" /\ code'[k] # code[k]
              => /\ code'[k] = task[r][k].built
                 /\ \A j \in run[r].names : task[r][j].built # None]_vars

(* Without --yes no canister of the run is changed while one of them would *)
(* be upgraded to an interface that breaks its clients, as far as the      *)
(* interfaces could be compared (candid_compat.rs 19-20, "Aborts if any    *)
(* canister has an incompatible interface") and the user of `install` did  *)
(* not confirm it at the terminal (install.rs 171-179).                    *)
BreaksNothing ==
    [][\A r \in Runs, k \in Canisters :
          At(r, k, "install", "code") /\ ~run[r].yes /\ code'[k] # code[k]
              => \A j \in run[r].names :
                    task[r][j].compared /\ task[r][j].step \notin {"done", "clear_after", "restart"}
                        => <<code[j], Wasm(r, j)>> \notin Breaking]_vars

(* Only canisters that are Running are synced, however they were left by   *)
(* earlier runs (deploy.rs 441-446).                                       *)
SyncsRunning ==
    \A r \in Runs, k \in Canisters :
        At(r, k, "sync", "todo") => k \in running

(* A deploy installs what it built, and only if all of it was, and syncs   *)
(* canisters that run, however they were left by earlier commands.         *)
DeploysInOrder == InstallsItsBuilds /\ []SyncsRunning /\ []TypeOK

(* Whatever failed or was killed before, deploying again until it succeeds *)
(* brings every canister to what was built last, and those with sync steps *)
(* to Running. The antecedent: from some point on nothing fails from the   *)
(* outside (a step that Failure also allows must be one that the run takes *)
(* by itself, so that the code's own errors are not assumed away), and a   *)
(* new run is a deploy of the project.                                     *)
Healthy == Synced \subseteq running /\ \A k \in Canisters : code[k] = art[k] /\ code[k] # None
Healing ==
    \A r \in Runs : (Failure(r) => Step(r)) /\ (~Active(r) => (Redeploy \/ run'[r] = run[r]))
RedeployHeals == <>[][Healing]_vars => []<>Healthy
=============================================================================
