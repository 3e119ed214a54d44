----------------------- MODULE CanisterInstall_proofs -----------------------
(* No canister is left stopped by the way runs are put together, for any   *)
(* number of runs and canisters, any modules and any faults; and of runs   *)
(* that come one after the other, what a deploy installs, what a check has *)
(* compared, and what is synced.                                           *)
EXTENDS CanisterInstall, TLAPS

Placed(r, k) == Active(r) /\ k \in TasksOf(run[r].phase, run[r].names)

(* A task is one of a canister that its run's phase is about.              *)
WellPlaced == \A r \in Runs, k \in Canisters : task[r][k].step # "none" => Placed(r, k)

(* What is stopped is a canister that will be restarted.                   *)
StopGuarded == \A r \in Runs, k \in Canisters : task[r][k].step = "stop" => task[r][k].guard

(* The chunk store is for large modules.                                   *)
Chunking == {"clear", "upload", "upload_rest"}
ChunkedIsBig == \A r \in Runs, k \in Canisters : task[r][k].step \in Chunking => task[r][k].wasm \in Big

Orderly == WellPlaced /\ StopGuarded /\ ChunkedIsBig
IInv == TypeOK /\ Orderly /\ NothingLeftStopped

AllOutcomes == {"ok", "fail", "lost"}

RunType == [Runs -> [phase : Phases \cup {"idle"}, kind : AllKinds \cup {"none"},
                     names : SUBSET Canisters, yes : BOOLEAN, mode : AllModes]]
TaskType == [Runs -> [Canisters -> Tasks]]


-----------------------------------------------------------------------------
(* One task moves on.                                                      *)
LEMMA MoveIsOrderly ==
    ASSUME IInv, NEW r \in Runs, NEW k \in Canisters, NEW t \in Tasks, Move(r, k, t),
           task[r][k].step # "none",
           t.step = "stop" => t.guard,
           t.step \in Chunking => t.wasm \in Big
    PROVE  run' \in RunType /\ task' \in TaskType /\ Orderly'
<1>1. run' = run /\ task' = [task EXCEPT ![r][k] = t]
  BY DEF Move
<1>2. run \in RunType /\ task \in TaskType
  BY DEF IInv, TypeOK, RunType, TaskType
<1>3. task' \in TaskType /\ task'[r][k] = t
  BY <1>1, <1>2 DEF TaskType
<1>4. \A s \in Runs, j \in Canisters : <<s, j>> # <<r, k>> => task'[s][j] = task[s][j]
  BY <1>1, <1>2 DEF TaskType
<1>5. WellPlaced'
  BY <1>1, <1>3, <1>4 DEF IInv, Orderly, WellPlaced, Placed, Active
<1>6. StopGuarded'
  BY <1>3, <1>4 DEF IInv, Orderly, StopGuarded
<1>7. ChunkedIsBig'
  BY <1>3, <1>4 DEF IInv, Orderly, ChunkedIsBig
<1> QED BY <1>1, <1>2, <1>3, <1>5, <1>6, <1>7 DEF Orderly

(* It may let a canister go that it has restarted or that is excused, and  *)
(* must hold on to one that it has stopped.                                *)
LEMMA MoveLeavesNone ==
    ASSUME IInv, NEW r \in Runs, NEW k \in Canisters, NEW t \in Tasks, Move(r, k, t),
           \A j \in Canisters \ {k} : j \in running \cup excused => j \in running' \cup excused',
           \/ k \in running' \cup excused'
           \/ run[r].phase = "install" /\ t.guard /\ t.step \in {"code", "restart"}
           \/ ~Guarding(r, k) /\ (k \in running \cup excused => k \in running' \cup excused')
    PROVE  NothingLeftStopped'
<1>1. run' = run /\ task' = [task EXCEPT ![r][k] = t]
  BY DEF Move
<1>2. task \in TaskType
  BY DEF IInv, TypeOK, TaskType
<1>3. task'[r][k] = t
  BY <1>1, <1>2 DEF TaskType
<1>4. \A s \in Runs, j \in Canisters : <<s, j>> # <<r, k>> => task'[s][j] = task[s][j]
  BY <1>1, <1>2 DEF TaskType
<1>5. \A s \in Runs, j \in Canisters : <<s, j>> # <<r, k>> /\ Guarding(s, j) => Guarding(s, j)'
  BY <1>1, <1>4 DEF Guarding
<1>6. SUFFICES ASSUME NEW j \in Canisters, j \notin running' \cup excused'
               PROVE  \E s \in Runs : Guarding(s, j)'
  BY DEF NothingLeftStopped
<1>7. CASE j # k
  <2>1. PICK s \in Runs : Guarding(s, j)
    BY <1>6, <1>7 DEF IInv, NothingLeftStopped
  <2> QED BY <2>1, <1>5, <1>7
<1>8. CASE j = k /\ run[r].phase = "install" /\ t.guard /\ t.step \in {"code", "restart"}
  BY <1>1, <1>3, <1>8 DEF Guarding
<1>9. CASE j = k /\ ~Guarding(r, k) /\ (k \in running \cup excused => k \in running' \cup excused')
  <2>1. PICK s \in Runs : Guarding(s, j)
    BY <1>6, <1>9 DEF IInv, NothingLeftStopped
  <2> QED BY <2>1, <1>5, <1>9
<1> QED BY <1>6, <1>7, <1>8, <1>9

(* A run ends while none of its tasks holds on to a canister, or excuses   *)
(* those that are stopped.                                                 *)
LEMMA AbortKeeps ==
    ASSUME IInv, NEW r \in Runs, Abort(r),
           running \cup excused \subseteq running' \cup excused',
           \A k \in Canisters : Guarding(r, k) => k \in running' \cup excused'
    PROVE  run' \in RunType /\ task' \in TaskType /\ Orderly' /\ NothingLeftStopped'
<1>1. /\ run' = [run EXCEPT ![r] = Resting]
      /\ task' = [task EXCEPT ![r] = [k \in Canisters |-> NoTask]]
  BY DEF Abort
<1>2. run \in RunType /\ task \in TaskType
  BY DEF IInv, TypeOK, RunType, TaskType
<1>3. Resting \in [phase : Phases \cup {"idle"}, kind : AllKinds \cup {"none"},
                   names : SUBSET Canisters, yes : BOOLEAN, mode : AllModes]
  BY DEF Resting, AllModes
<1>4. NoTask \in Tasks /\ NoTask.step = "none"
  BY DEF NoTask, Tasks
<1>5. run' \in RunType /\ task' \in TaskType
  BY <1>1, <1>2, <1>3, <1>4 DEF RunType, TaskType
<1>6. \A k \in Canisters : task'[r][k].step = "none"
  BY <1>1, <1>2, <1>4 DEF TaskType
<1>7. \A s \in Runs \ {r}, k \in Canisters : task'[s][k] = task[s][k] /\ run'[s] = run[s]
  BY <1>1, <1>2 DEF RunType
<1>8. WellPlaced'
  BY <1>6, <1>7 DEF IInv, Orderly, WellPlaced, Placed, Active
<1>9. StopGuarded'
  BY <1>6, <1>7 DEF IInv, Orderly, StopGuarded
<1>10. ChunkedIsBig'
  BY <1>6, <1>7 DEF IInv, Orderly, ChunkedIsBig, Chunking
<1>11. NothingLeftStopped'
  <2>1. SUFFICES ASSUME NEW j \in Canisters, j \notin running' \cup excused'
                 PROVE  \E s \in Runs : Guarding(s, j)'
    BY DEF NothingLeftStopped
  <2>2. PICK s \in Runs : Guarding(s, j)
    BY <2>1 DEF IInv, NothingLeftStopped
  <2>3. s # r
    BY <2>1, <2>2
  <2> QED BY <2>2, <2>3, <1>7 DEF Guarding
<1> QED BY <1>5, <1>8, <1>9, <1>10, <1>11 DEF Orderly
-----------------------------------------------------------------------------
LEMMA InitIInv == Init => IInv
<1> SUFFICES ASSUME Init PROVE IInv
  OBVIOUS
<1>1. Resting \in [phase : Phases \cup {"idle"}, kind : AllKinds \cup {"none"},
                   names : SUBSET Canisters, yes : BOOLEAN, mode : AllModes]
  BY DEF Resting, AllModes
<1>2. NoTask \in Tasks /\ NoTask.step = "none"
  BY DEF NoTask, Tasks
<1>3. TypeOK
  BY <1>1, <1>2 DEF Init, TypeOK
<1>4. Orderly
  BY <1>2 DEF Init, Orderly, WellPlaced, StopGuarded, ChunkedIsBig, Chunking
<1>5. NothingLeftStopped
  BY DEF Init, NothingLeftStopped
<1> QED BY <1>3, <1>4, <1>5 DEF IInv

(* A run begins: it has no task yet, and its tasks are to do.              *)
LEMMA BeginKeeps ==
    ASSUME IInv, NEW r \in Runs, NEW kind \in AllKinds, NEW names, NEW mode \in AllModes,
           NEW yes \in BOOLEAN, NEW wasm \in Modules \cup {None, Torn},
           Begin(r, kind, names, mode, yes, wasm)
    PROVE  IInv'
<1>1. /\ run[r].phase = "idle" /\ names \in SUBSET Canisters
      /\ run' = [run EXCEPT ![r] = [phase |-> FirstPhase(kind), kind |-> kind, names |-> names,
                                    yes |-> yes, mode |-> mode]]
      /\ task' = [task EXCEPT ![r] =
                     [k \in Canisters |-> IF k \in TasksOf(FirstPhase(kind), names)
                                          THEN [NoTask EXCEPT !.step = "todo", !.wasm = wasm] ELSE NoTask]]
      /\ UNCHANGED <<art, canister>>
  BY InstallAssumption DEF Begin, Active
<1>2. run \in RunType /\ task \in TaskType
  BY DEF IInv, TypeOK, RunType, TaskType
<1>3. FirstPhase(kind) \in Phases
  BY DEF FirstPhase, Phases, AllKinds
<1>4. NoTask \in Tasks /\ NoTask.step = "none"
  BY DEF NoTask, Tasks
<1>5. /\ [NoTask EXCEPT !.step = "todo", !.wasm = wasm] \in Tasks
      /\ [NoTask EXCEPT !.step = "todo", !.wasm = wasm].step = "todo"
  BY DEF NoTask, Tasks
<1>6. run' \in RunType /\ task' \in TaskType
  BY <1>1, <1>2, <1>3, <1>4, <1>5 DEF RunType, TaskType
<1>7. \A k \in Canisters : \/ task'[r][k].step = "none"
                           \/ task'[r][k].step = "todo" /\ k \in TasksOf(FirstPhase(kind), names)
  BY <1>1, <1>2, <1>4, <1>5 DEF TaskType
<1>8. run'[r].phase = FirstPhase(kind) /\ run'[r].names = names /\ FirstPhase(kind) # "idle"
  BY <1>1, <1>2, <1>3 DEF RunType, Phases
<1>9. \A s \in Runs \ {r} : task'[s] = task[s] /\ run'[s] = run[s]
  BY <1>1, <1>2 DEF RunType, TaskType
<1>10. TypeOK'
  BY <1>1, <1>6 DEF IInv, TypeOK, RunType, TaskType, canister
<1>11. WellPlaced'
  BY <1>7, <1>8, <1>9 DEF IInv, Orderly, WellPlaced, Placed, Active
<1>12. StopGuarded'
  BY <1>7, <1>9 DEF IInv, Orderly, StopGuarded
<1>13. ChunkedIsBig'
  BY <1>7, <1>9 DEF IInv, Orderly, ChunkedIsBig, Chunking
<1>14. NothingLeftStopped'
  BY <1>1, <1>9 DEF IInv, NothingLeftStopped, Guarding, canister
<1> QED BY <1>10, <1>11, <1>12, <1>13, <1>14 DEF IInv, Orderly

(* The next phase begins: a canister that was stopped is restarted by now. *)
LEMMA EndPhaseKeeps == ASSUME IInv, NEW r \in Runs, EndPhase(r) PROVE IInv'
<1>1. Active(r) /\ PhaseDone(r) /\ UNCHANGED <<art, canister>>
  BY DEF EndPhase, PhaseDone
<1>2. run \in RunType /\ task \in TaskType
  BY DEF IInv, TypeOK, RunType, TaskType
<1>3. \A k \in Canisters : ~Guarding(r, k)
  BY <1>1 DEF PhaseDone, Guarding, IInv, Orderly, WellPlaced, Placed
<1>4. CASE Abort(r)
  <2>1. run' \in RunType /\ task' \in TaskType /\ Orderly' /\ NothingLeftStopped'
    BY <1>1, <1>3, <1>4, AbortKeeps DEF canister
  <2> QED BY <2>1, <1>1 DEF IInv, TypeOK, RunType, TaskType, canister
<1>5. CASE NextPhase(r) # "idle" /\ Enter(r, NextPhase(r))
  <2> DEFINE phase == NextPhase(r)
             names == run[r].names
             t(k) == [(IF phase \in AfterInstall THEN NoTask ELSE task[r][k]) EXCEPT
                          !.step = IF k \in TasksOf(phase, names) THEN "todo" ELSE "none"]
  <2>1. phase \in Phases
    BY <1>5 DEF NextPhase, Phases
  <2>2. NoTask \in Tasks
    BY DEF NoTask, Tasks
  <2>3. \A k \in Canisters :
          /\ t(k) \in Tasks
          /\ \/ t(k).step = "none"
             \/ t(k).step = "todo" /\ k \in TasksOf(phase, names)
    <3> SUFFICES ASSUME NEW k \in Canisters
                 PROVE  /\ t(k) \in Tasks
                        /\ \/ t(k).step = "none"
                           \/ t(k).step = "todo" /\ k \in TasksOf(phase, names)
      OBVIOUS
    <3> DEFINE before == IF phase \in AfterInstall THEN NoTask ELSE task[r][k]
    <3>1. before \in Tasks
      BY <1>2, <2>2 DEF TaskType
    <3> HIDE DEF before
    <3>2. CASE k \in TasksOf(phase, names) /\ t(k) = [before EXCEPT !.step = "todo"]
      BY <3>1, <3>2 DEF Tasks
    <3>3. CASE t(k) = [before EXCEPT !.step = "none"]
      BY <3>1, <3>3 DEF Tasks
    <3>4. t(k) = [before EXCEPT !.step = IF k \in TasksOf(phase, names) THEN "todo" ELSE "none"]
      BY DEF before
    <3> QED BY <3>2, <3>3, <3>4
  <2>4. /\ run' = [run EXCEPT ![r].phase = phase]
        /\ task' = [task EXCEPT ![r] = [k \in Canisters |-> t(k)]]
    BY <1>5 DEF Enter
  <2> HIDE DEF t
  <2>5. run' \in RunType
    BY <1>2, <2>1, <2>4 DEF RunType
  <2>6. task' \in TaskType
    BY <1>2, <2>3, <2>4 DEF TaskType
  <2>7. \A k \in Canisters : task'[r][k] = t(k)
    BY <1>2, <2>4 DEF TaskType
  <2>8. run'[r].phase = phase /\ run'[r].names = names /\ phase # "idle"
    BY <1>2, <1>5, <2>4 DEF RunType
  <2> HIDE DEF phase, names
  <2>9. \A s \in Runs \ {r} : task'[s] = task[s] /\ run'[s] = run[s]
    BY <1>2, <2>4 DEF RunType, TaskType
  <2>10. WellPlaced'
    BY <2>3, <2>7, <2>8, <2>9 DEF IInv, Orderly, WellPlaced, Placed, Active
  <2>11. StopGuarded'
    BY <2>3, <2>7, <2>9 DEF IInv, Orderly, StopGuarded
  <2>12. ChunkedIsBig'
    BY <2>3, <2>7, <2>9 DEF IInv, Orderly, ChunkedIsBig, Chunking
  <2>13. NothingLeftStopped'
    BY <1>1, <1>3, <2>9 DEF IInv, NothingLeftStopped, Guarding, canister
  <2>14. TypeOK'
    BY <1>1, <2>5, <2>6 DEF IInv, TypeOK, RunType, TaskType, canister
  <2> QED BY <2>10, <2>11, <2>12, <2>13, <2>14 DEF IInv, Orderly
<1> QED BY <1>4, <1>5 DEF EndPhase
-----------------------------------------------------------------------------
(* Steps of a task that leave the canister's status alone.                 *)
LEMMA QuietStepKeeps ==
    ASSUME IInv, NEW r \in Runs, NEW k \in Canisters, NEW t \in Tasks, Move(r, k, t),
           task[r][k].step # "none",
           t.step = "stop" => t.guard,
           t.step \in Chunking => t.wasm \in Big,
           ~Guarding(r, k),
           UNCHANGED <<running, excused>>
    PROVE  run' \in RunType /\ task' \in TaskType /\ Orderly' /\ NothingLeftStopped'
<1>1. run' \in RunType /\ task' \in TaskType /\ Orderly'
  BY MoveIsOrderly
<1>2. NothingLeftStopped'
  BY MoveLeavesNone
<1> QED BY <1>1, <1>2

LEMMA BuildKeeps == ASSUME IInv, NEW r \in Runs, NEW k \in Canisters, Build(r, k) PROVE IInv'
<1>1. PICK m \in BuildsOf[k] :
         /\ art' = [art EXCEPT ![k] = m]
         /\ Move(r, k, [task[r][k] EXCEPT !.step = "done", !.built = m])
  BY DEF Build
<1> DEFINE t == [task[r][k] EXCEPT !.step = "done", !.built = m]
<1>2. m \in Modules
  BY InstallAssumption
<1>3. t \in Tasks /\ t.step = "done"
  <2>1. task[r][k] \in Tasks
    BY DEF IInv, TypeOK
  <2> QED BY <1>2, <2>1 DEF Tasks
<1>4. task[r][k].step # "none" /\ ~Guarding(r, k) /\ UNCHANGED canister
  BY DEF Build, At, Guarding
<1>5. run' \in RunType /\ task' \in TaskType /\ Orderly' /\ NothingLeftStopped'
  BY <1>1, <1>3, <1>4, QuietStepKeeps DEF canister, Chunking
<1> QED BY <1>1, <1>2, <1>4, <1>5 DEF IInv, TypeOK, RunType, TaskType, canister

(* A task fails, or succeeds, without further effect.                      *)
LEMMA DoneKeeps ==
    ASSUME IInv, NEW r \in Runs, NEW k \in Canisters, Fail(r, k) \/ Succeed(r, k),
           task[r][k].step # "none", ~Guarding(r, k), UNCHANGED <<running, excused>>
    PROVE  run' \in RunType /\ task' \in TaskType /\ Orderly' /\ NothingLeftStopped'
<1>1. task[r][k] \in Tasks
  BY DEF IInv, TypeOK
<1>2. CASE Fail(r, k)
  <2> DEFINE t == [task[r][k] EXCEPT !.step = "done", !.ok = FALSE]
  <2>1. t \in Tasks /\ t.step = "done"
    BY <1>1 DEF Tasks
  <2> QED BY <1>2, <2>1, QuietStepKeeps DEF Fail, Chunking
<1>3. CASE Succeed(r, k)
  <2> DEFINE t == [task[r][k] EXCEPT !.step = "done"]
  <2>1. t \in Tasks /\ t.step = "done"
    BY <1>1 DEF Tasks
  <2> QED BY <1>3, <2>1, QuietStepKeeps DEF Succeed, Goto, Chunking
<1> QED BY <1>2, <1>3

(* The phases before anything is installed.                                *)
LEMMA PlanKeeps ==
    ASSUME IInv, NEW r \in Runs, NEW k \in Canisters, Resolve(r, k) \/ Check(r, k) PROVE IInv'
<1>1. task[r][k] \in Tasks /\ run[r] \in [phase : Phases \cup {"idle"}, kind : AllKinds \cup {"none"},
                                         names : SUBSET Canisters, yes : BOOLEAN, mode : AllModes]
  BY DEF IInv, TypeOK
<1>2. task[r][k].step = "todo" /\ ~Guarding(r, k) /\ UNCHANGED <<art, canister>>
  BY DEF Resolve, Check, At, Guarding
<1>3. CASE Resolve(r, k)
  <2> DEFINE g == ModeFor(r, k) \in {"upgrade", "reinstall"} /\ k \in running
             t == [task[r][k] EXCEPT !.step = "done", !.mode = ModeFor(r, k), !.guard = g]
  <2>1. ModeFor(r, k) \in AllModes \ {"auto"} /\ g \in BOOLEAN
    BY <1>1 DEF ModeFor, AllModes
  <2>2. Move(r, k, t)
    BY <1>3 DEF Resolve
  <2> HIDE DEF g
  <2>3. t \in Tasks /\ t.step = "done"
    BY <1>1, <2>1 DEF Tasks
  <2>4. run' \in RunType /\ task' \in TaskType /\ Orderly' /\ NothingLeftStopped'
    BY <1>2, <2>2, <2>3, QuietStepKeeps DEF canister, Chunking
  <2> QED BY <1>2, <2>4 DEF IInv, TypeOK, RunType, TaskType, canister
<1>4. CASE Check(r, k)
  <2>1. PICK c \in BOOLEAN, o \in BOOLEAN :
           Move(r, k, [task[r][k] EXCEPT !.step = "done", !.compared = c, !.ok = o])
    BY <1>4 DEF Check
  <2> DEFINE t == [task[r][k] EXCEPT !.step = "done", !.compared = c, !.ok = o]
  <2>2. t \in Tasks /\ t.step = "done"
    BY <1>1 DEF Tasks
  <2>3. run' \in RunType /\ task' \in TaskType /\ Orderly' /\ NothingLeftStopped'
    BY <1>2, <2>1, <2>2, QuietStepKeeps DEF canister, Chunking
  <2> QED BY <1>2, <2>3 DEF IInv, TypeOK, RunType, TaskType, canister
<1> QED BY <1>3, <1>4
-----------------------------------------------------------------------------
(* The calls of an installation that are about its chunk store.            *)
LEMMA LookupKeeps == ASSUME IInv, NEW r \in Runs, NEW k \in Canisters, Lookup(r, k) PROVE IInv'
<1>1. task[r][k] \in Tasks /\ art[k] \in Modules \cup {None, Torn}
  BY DEF IInv, TypeOK
<1>2. task[r][k].step = "todo" /\ ~Guarding(r, k) /\ UNCHANGED <<art, canister>>
  BY DEF Lookup, At, Guarding
<1>3. CASE Fail(r, k)
  <2>1. run' \in RunType /\ task' \in TaskType /\ Orderly' /\ NothingLeftStopped'
    BY <1>2, <1>3, DoneKeeps DEF canister
  <2> QED BY <1>2, <2>1 DEF IInv, TypeOK, RunType, TaskType, canister
<1>4. CASE ~Fail(r, k)
  <2> DEFINE w == Wasm(r, k)
             step == IF w \in Big THEN "clear" ELSE StopFirst(r, k)
             t == [task[r][k] EXCEPT !.wasm = w, !.step = step]
  <2>1. w \in Modules \cup {None, Torn}
    BY <1>1 DEF Wasm, Tasks
  <2>2. /\ step \in {"clear", "stop", "code"}
        /\ step = "clear" => w \in Big
        /\ step = "stop" => task[r][k].guard
    BY DEF StopFirst
  <2>3. Move(r, k, t)
    BY <1>4 DEF Lookup
  <2> HIDE DEF w, step
  <2>4. t \in Tasks /\ t.step = step /\ t.wasm = w /\ t.guard = task[r][k].guard
    BY <1>1, <2>1, <2>2 DEF Tasks
  <2>5. run' \in RunType /\ task' \in TaskType /\ Orderly' /\ NothingLeftStopped'
    BY <1>2, <2>2, <2>3, <2>4, QuietStepKeeps DEF canister, Chunking
  <2> QED BY <1>2, <2>5 DEF IInv, TypeOK, RunType, TaskType, canister
<1> QED BY <1>3, <1>4

LEMMA ChunkCallKeeps ==
    ASSUME IInv, NEW r \in Runs, NEW k \in Canisters, NEW o \in AllOutcomes,
           Clear(r, k, o) \/ UploadFirst(r, k, o) \/ UploadRest(r, k, o) \/ ClearAfter(r, k, o)
    PROVE  IInv'
<1>1. task[r][k] \in Tasks /\ chunks \in [Canisters -> SUBSET (Big \X Parts)]
  BY DEF IInv, TypeOK
<1>2. task[r][k].step # "none" /\ ~Guarding(r, k) /\ UNCHANGED <<art, code, running, excused>>
  BY DEF Clear, UploadFirst, UploadRest, ClearAfter, At, Guarding
<1>3. task[r][k].step \in {"clear", "upload", "upload_rest"} => task[r][k].wasm \in Big
  BY DEF IInv, Orderly, ChunkedIsBig, Chunking
<1>4. \A i \in {1, 2} : task[r][k].step \in {"upload", "upload_rest"} =>
         {<<task[r][k].wasm, i>>} \in SUBSET (Big \X Parts)
  BY <1>3 DEF Parts
<1>5. chunks' \in [Canisters -> SUBSET (Big \X Parts)]
  BY <1>1, <1>4 DEF Clear, UploadFirst, UploadRest, ClearAfter, At
<1>6. run' \in RunType /\ task' \in TaskType /\ Orderly' /\ NothingLeftStopped'
  <2>1. CASE Fail(r, k)
    BY <1>2, <2>1, DoneKeeps
  <2>2. CASE Clear(r, k, o) /\ ~Fail(r, k)
    <3> DEFINE t == [task[r][k] EXCEPT !.step = "upload"]
    <3>1. Move(r, k, t)
      BY <2>2 DEF Clear, Goto
    <3>2. t \in Tasks /\ t.step = "upload" /\ t.wasm = task[r][k].wasm
      BY <1>1 DEF Tasks
    <3>3. t.wasm \in Big
      BY <1>3, <2>2, <3>2 DEF Clear, At
    <3> QED BY <1>2, <3>1, <3>2, <3>3, QuietStepKeeps
  <2>3. CASE UploadFirst(r, k, o) /\ ~Fail(r, k)
    <3> DEFINE t == [task[r][k] EXCEPT !.step = "upload_rest"]
    <3>1. Move(r, k, t)
      BY <2>3 DEF UploadFirst, Goto
    <3>2. t \in Tasks /\ t.step = "upload_rest" /\ t.wasm = task[r][k].wasm
      BY <1>1 DEF Tasks
    <3>3. t.wasm \in Big
      BY <1>3, <2>3, <3>2 DEF UploadFirst, At
    <3> QED BY <1>2, <3>1, <3>2, <3>3, QuietStepKeeps
  <2>4. CASE UploadRest(r, k, o) /\ ~Fail(r, k)
    <3> DEFINE step == StopFirst(r, k)
               t == [task[r][k] EXCEPT !.step = step]
    <3>1. Move(r, k, t)
      BY <2>4 DEF UploadRest, Goto
    <3>2. step \in {"stop", "code"} /\ (step = "stop" => task[r][k].guard)
      BY DEF StopFirst
    <3> HIDE DEF step
    <3>3. t \in Tasks /\ t.step = step /\ t.guard = task[r][k].guard
      BY <1>1, <3>2 DEF Tasks
    <3> QED BY <1>2, <3>1, <3>2, <3>3, QuietStepKeeps DEF Chunking
  <2>5. CASE ClearAfter(r, k, o)
    <3> DEFINE ok == task[r][k].ok /\ o = "ok"
               t == [task[r][k] EXCEPT !.step = "done", !.ok = ok]
    <3>1. Move(r, k, t)
      BY <2>5 DEF ClearAfter
    <3>2. ok \in BOOLEAN
      OBVIOUS
    <3> HIDE DEF ok
    <3>3. t \in Tasks /\ t.step = "done"
      BY <1>1, <3>2 DEF Tasks
    <3> QED BY <1>2, <3>1, <3>3, QuietStepKeeps DEF Chunking
  <2> QED BY <2>1, <2>2, <2>3, <2>4, <2>5
<1> QED BY <1>2, <1>5, <1>6 DEF IInv, TypeOK, RunType, TaskType

(* The calls that change the status.                                       *)
LEMMA StopKeeps ==
    ASSUME IInv, NEW r \in Runs, NEW k \in Canisters, NEW o \in AllOutcomes, Stop(r, k, o) PROVE IInv'
<1>1. task[r][k] \in Tasks
  BY DEF IInv, TypeOK
<1>2. /\ task[r][k].step = "stop" /\ run[r].phase = "install" /\ task[r][k].guard
      /\ UNCHANGED <<art, code, chunks>>
  BY DEF Stop, At, IInv, Orderly, StopGuarded
<1>3. /\ running' = IF o = "fail" THEN running ELSE running \ {k}
      /\ excused' = IF o = "lost" THEN excused \cup {k} ELSE excused
  BY DEF Stop
<1>4. running' \subseteq Canisters /\ excused' \subseteq Canisters \ running'
  BY <1>3 DEF IInv, TypeOK
<1>5. CASE o = "ok"
  <2> DEFINE t == [task[r][k] EXCEPT !.step = "code"]
  <2>1. Move(r, k, t)
    BY <1>5 DEF Stop
  <2>2. t \in Tasks /\ t.step = "code" /\ t.guard
    BY <1>1, <1>2 DEF Tasks
  <2>3. run' \in RunType /\ task' \in TaskType /\ Orderly'
    BY <1>2, <2>1, <2>2, MoveIsOrderly DEF Chunking
  <2>4. NothingLeftStopped'
    BY <1>2, <1>3, <2>1, <2>2, MoveLeavesNone
  <2> QED BY <1>2, <1>4, <2>3, <2>4 DEF IInv, TypeOK, RunType, TaskType
<1>6. CASE o # "ok"
  <2> DEFINE step == Rest(task[r][k].wasm)
             t == [task[r][k] EXCEPT !.step = step, !.ok = FALSE]
  <2>1. Move(r, k, t)
    BY <1>6 DEF Stop
  <2>2. step \in {"clear_after", "done"}
    BY DEF Rest
  <2> HIDE DEF step
  <2>3. t \in Tasks /\ t.step = step
    BY <1>1, <2>2 DEF Tasks
  <2>4. run' \in RunType /\ task' \in TaskType /\ Orderly'
    BY <1>2, <2>1, <2>2, <2>3, MoveIsOrderly DEF Chunking
  <2>5. ~Guarding(r, k)
    BY <1>2 DEF Guarding
  <2>6. NothingLeftStopped'
    BY <1>3, <1>6, <2>1, <2>3, <2>5, MoveLeavesNone DEF AllOutcomes
  <2> QED BY <1>2, <1>4, <2>4, <2>6 DEF IInv, TypeOK, RunType, TaskType
<1> QED BY <1>5, <1>6

LEMMA InstallCodeKeeps ==
    ASSUME IInv, NEW r \in Runs, NEW k \in Canisters, NEW o \in AllOutcomes, InstallCode(r, k, o) PROVE IInv'
<1>1. task[r][k] \in Tasks
  BY DEF IInv, TypeOK
<1>2. /\ task[r][k].step = "code" /\ run[r].phase = "install"
      /\ UNCHANGED <<art, running, chunks, excused>>
  BY DEF InstallCode, At
<1> DEFINE done == o # "fail" /\ Accepted(r, k)
           ok == done /\ o = "ok"
           step == IF task[r][k].guard THEN "restart" ELSE Rest(task[r][k].wasm)
           t == [task[r][k] EXCEPT !.ok = ok, !.step = step]
<1>3. Move(r, k, t) /\ code' = [code EXCEPT ![k] = IF done THEN task[r][k].wasm ELSE @]
  BY DEF InstallCode
<1>4. done => task[r][k].wasm \in Modules
  BY DEF Accepted
<1>5. step \in {"restart", "clear_after", "done"} /\ (task[r][k].guard => step = "restart")
  BY DEF Rest
<1>6. ok \in BOOLEAN
  OBVIOUS
<1> HIDE DEF ok, step
<1>7. t \in Tasks /\ t.step = step /\ t.guard = task[r][k].guard
  BY <1>1, <1>5, <1>6 DEF Tasks
<1>8. run' \in RunType /\ task' \in TaskType /\ Orderly'
  BY <1>2, <1>3, <1>5, <1>7, MoveIsOrderly DEF Chunking
<1>9. NothingLeftStopped'
  BY <1>2, <1>3, <1>5, <1>7, MoveLeavesNone DEF Guarding
<1>10. code' \in [Canisters -> Modules \cup {None}]
  BY <1>3, <1>4 DEF IInv, TypeOK
<1> QED BY <1>2, <1>8, <1>9, <1>10 DEF IInv, TypeOK, RunType, TaskType

LEMMA RestartKeeps ==
    ASSUME IInv, NEW r \in Runs, NEW k \in Canisters, NEW o \in AllOutcomes, Restart(r, k, o) PROVE IInv'
<1>1. task[r][k] \in Tasks
  BY DEF IInv, TypeOK
<1>2. task[r][k].step = "restart" /\ UNCHANGED <<art, code, chunks>>
  BY DEF Restart, At
<1>3. /\ running' = IF o = "fail" THEN running ELSE running \cup {k}
      /\ excused' = IF o = "fail" THEN excused \cup ({k} \ running) ELSE excused \ {k}
  BY DEF Restart
<1>4. running' \subseteq Canisters /\ excused' \subseteq Canisters \ running'
  BY <1>3 DEF IInv, TypeOK
<1> DEFINE step == Rest(task[r][k].wasm)
           ok == task[r][k].ok /\ o = "ok"
           t == [task[r][k] EXCEPT !.step = step, !.ok = ok]
<1>5. Move(r, k, t)
  BY DEF Restart
<1>6. step \in {"clear_after", "done"} /\ ok \in BOOLEAN
  BY DEF Rest
<1> HIDE DEF ok, step
<1>7. t \in Tasks /\ t.step = step
  BY <1>1, <1>6 DEF Tasks
<1>8. run' \in RunType /\ task' \in TaskType /\ Orderly'
  BY <1>2, <1>5, <1>6, <1>7, MoveIsOrderly DEF Chunking
<1>9. k \in running' \cup excused' /\ \A j \in Canisters \ {k} : j \in running \cup excused => j \in running' \cup excused'
  BY <1>3
<1>10. NothingLeftStopped'
  BY <1>5, <1>7, <1>9, MoveLeavesNone
<1> QED BY <1>2, <1>4, <1>8, <1>10 DEF IInv, TypeOK, RunType, TaskType
-----------------------------------------------------------------------------
(* Starting and stopping a canister as a command or before syncing.        *)
LEMMA StatusCallKeeps ==
    ASSUME IInv, NEW r \in Runs, NEW k \in Canisters, NEW o \in AllOutcomes,
           CallStart(r, k, o) \/ CallStop(r, k, o)
    PROVE  IInv'
<1>1. /\ task[r][k].step = "todo" /\ run[r].phase # "install"
      /\ UNCHANGED <<art, code, chunks>>
  BY DEF CallStart, CallStop, At
<1>2. PICK on \in BOOLEAN : UNCHANGED <<running, excused>> \/ SetRunning(k, on)
  BY DEF CallStart, CallStop
<1>3. /\ running' \subseteq Canisters /\ excused' \subseteq Canisters \ running'
      /\ running \cup excused \subseteq running' \cup excused'
  BY <1>2 DEF SetRunning, IInv, TypeOK
<1>4. \A j \in Canisters : ~Guarding(r, j)
  BY <1>1 DEF Guarding
<1>5. run' \in RunType /\ task' \in TaskType /\ Orderly' /\ NothingLeftStopped'
  <2>1. CASE Abort(r)
    BY <1>3, <1>4, <2>1, AbortKeeps
  <2>2. CASE Succeed(r, k)
    <3> DEFINE t == [task[r][k] EXCEPT !.step = "done"]
    <3>1. Move(r, k, t)
      BY <2>2 DEF Succeed, Goto
    <3>2. t \in Tasks /\ t.step = "done"
      <4>1. task[r][k] \in Tasks
        BY DEF IInv, TypeOK
      <4> QED BY <4>1 DEF Tasks
    <3>3. run' \in RunType /\ task' \in TaskType /\ Orderly'
      BY <1>1, <3>1, <3>2, MoveIsOrderly DEF Chunking
    <3>4. NothingLeftStopped'
      BY <1>3, <1>4, <3>1, <3>2, MoveLeavesNone
    <3> QED BY <3>3, <3>4
  <2> QED BY <2>1, <2>2 DEF CallStart, CallStop
<1> QED BY <1>1, <1>3, <1>5 DEF IInv, TypeOK, RunType, TaskType

(* Reads, syncs and failures that end a task or the run.                   *)
LEMMA ReadKeeps ==
    ASSUME IInv, NEW r \in Runs, NEW k \in Canisters,
           BuildFails(r, k) \/ SeesRunning(r, k) \/ SeesStopped(r, k) \/ Sync(r, k) \/ ReadFails(r, k)
    PROVE  IInv'
<1>1. /\ task[r][k].step = "todo" /\ run[r].phase # "install"
      /\ Fail(r, k) \/ Succeed(r, k) \/ Abort(r)
      /\ UNCHANGED <<art, canister>>
  BY DEF BuildFails, SeesRunning, SeesStopped, Sync, ReadFails, At
<1>2. \A j \in Canisters : ~Guarding(r, j)
  BY <1>1 DEF Guarding
<1>3. run' \in RunType /\ task' \in TaskType /\ Orderly' /\ NothingLeftStopped'
  <2>1. CASE Abort(r)
    BY <1>1, <1>2, <2>1, AbortKeeps DEF canister
  <2>2. CASE Fail(r, k) \/ Succeed(r, k)
    BY <1>1, <1>2, <2>2, DoneKeeps DEF canister
  <2> QED BY <1>1, <2>1, <2>2
<1> QED BY <1>1, <1>3 DEF IInv, TypeOK, RunType, TaskType, canister

LEMMA KillKeeps == ASSUME IInv, NEW r \in Runs, Kill(r) PROVE IInv'
<1>1. /\ Abort(r)
      /\ excused' = excused \cup {k \in Canisters \ running : Guarding(r, k)}
      /\ UNCHANGED <<code, running, chunks>>
      /\ art' \in [Canisters -> Modules \cup {None, Torn}]
  BY DEF Kill, IInv, TypeOK
<1>2. excused' \subseteq Canisters \ running' /\ running \cup excused \subseteq running' \cup excused'
  BY <1>1 DEF IInv, TypeOK
<1>3. \A k \in Canisters : Guarding(r, k) => k \in running' \cup excused'
  BY <1>1
<1>4. run' \in RunType /\ task' \in TaskType /\ Orderly' /\ NothingLeftStopped'
  BY <1>1, <1>2, <1>3, AbortKeeps
<1> QED BY <1>1, <1>2, <1>4 DEF IInv, TypeOK, RunType, TaskType

LEMMA CallKeeps ==
    ASSUME IInv, NEW r \in Runs, NEW k \in Canisters, NEW o \in AllOutcomes, Call(r, k, o) PROVE IInv'
BY ChunkCallKeeps, StopKeeps, InstallCodeKeeps, RestartKeeps, StatusCallKeeps DEF Call

(* A command line is one of those that Begin takes.                        *)
LEMMA BeginsKeep ==
    ASSUME IInv, NEW r \in Runs,
           BeginDeploy(r) \/ BeginOther(r) \/ \E k \in Canisters : BeginInstall(r, k)
    PROVE  IInv'
<1>1. Modes \subseteq AllModes /\ "auto" \in AllModes
  BY InstallAssumption DEF AllModes
<1>2. CASE BeginDeploy(r)
  BY <1>1, <1>2, BeginKeeps DEF BeginDeploy, AllKinds
<1>3. CASE BeginOther(r)
  BY <1>1, <1>3, BeginKeeps DEF BeginOther, AllKinds
<1>4. ASSUME NEW k \in Canisters, BeginInstall(r, k) PROVE IInv'
  <2>1. BuildsOf[k] \cup {art[k]} \subseteq Modules \cup {None, Torn}
    BY InstallAssumption DEF IInv, TypeOK
  <2> QED BY <1>1, <1>4, <2>1, BeginKeeps DEF BeginInstall, AllKinds
<1> QED BY <1>2, <1>3, <1>4

LEMMA IInvStep == ASSUME IInv, [Next]_vars PROVE IInv'
<1>1. ASSUME NEW r \in Runs, Step(r) PROVE IInv'
  <2>1. CASE EndPhase(r)
    BY <2>1, EndPhaseKeeps
  <2>2. ASSUME NEW k \in Canisters, Build(r, k) \/ Resolve(r, k) \/ Check(r, k) \/ Lookup(r, k)
        PROVE  IInv'
    BY <2>2, BuildKeeps, PlanKeeps, LookupKeeps
  <2>3. ASSUME NEW k \in Canisters, SeesRunning(r, k) \/ SeesStopped(r, k) \/ Sync(r, k)
        PROVE  IInv'
    BY <2>3, ReadKeeps
  <2>4. ASSUME NEW k \in Canisters, Call(r, k, "ok") PROVE IInv'
    BY <2>4, CallKeeps DEF AllOutcomes
  <2> QED BY <1>1, <2>1, <2>2, <2>3, <2>4 DEF Step
<1>2. ASSUME NEW r \in Runs, Failure(r) PROVE IInv'
  <2>1. ASSUME NEW k \in Canisters, NEW o \in Outcomes \ {"ok"}, Call(r, k, o) PROVE IInv'
    BY <2>1, CallKeeps DEF AllOutcomes, Outcomes
  <2>2. ASSUME NEW k \in Canisters, BuildFails(r, k) \/ ReadFails(r, k) PROVE IInv'
    BY <2>2, ReadKeeps
  <2> QED BY <1>2, <2>1, <2>2, KillKeeps DEF Failure
<1>3. CASE UNCHANGED vars
  BY <1>3 DEF vars, canister, IInv, TypeOK, Orderly, WellPlaced, Placed, Active, TasksOf, StopGuarded,
     ChunkedIsBig, NothingLeftStopped, Guarding
<1> QED BY <1>1, <1>2, <1>3, BeginsKeep DEF Next

(* Every variable keeps its type, whatever overlaps and fails.             *)
THEOREM InstallTypeCorrect == Spec => []TypeOK
<1>1. IInv => TypeOK
  BY DEF IInv
<1> QED BY <1>1, InitIInv, IInvStep, PTL DEF Spec

(* However runs overlap and fail, a canister that is not Running is being  *)
(* upgraded, or a user, a kill or a failing call left it so: install.rs    *)
(* restarts what it stopped whether or not the installation succeeded.     *)
THEOREM NoneLeftStopped == Spec => []NothingLeftStopped
<1>1. IInv => NothingLeftStopped
  BY DEF IInv
<1> QED BY <1>1, InitIInv, IInvStep, PTL DEF Spec
-----------------------------------------------------------------------------
(* What holds of runs that come one after the other.                       *)
OneAtATime == \A r, s \in Runs : Active(r) /\ Active(s) => r = s

(* A run that has ended left no task.                                      *)
Rests == \A r \in Runs : ~Active(r) => \A k \in Canisters : task[r][k] = NoTask

(* What a deploy has built is in the store, and nothing else is, once the  *)
(* build of a canister has succeeded.                                      *)
HasBuilt(r, k) ==
    /\ run[r].kind = "deploy" /\ k \in run[r].names
    /\ \/ run[r].phase = "build" /\ task[r][k].step = "done" /\ task[r][k].ok
       \/ run[r].phase \in {"resolve", "check", "install"}
    => task[r][k].built = art[k] /\ task[r][k].built # None

(* A module is looked up before anything is done with it.                  *)
AtHand == {"clear", "upload", "upload_rest", "stop", "code", "restart", "clear_after"}
HoldsItsModule(r, k) == task[r][k].step \in AtHand => task[r][k].wasm = Wasm(r, k)

(* What was compared is compatible, if the check let it pass, until it is  *)
(* installed.                                                              *)
Incompatible(r, k) == <<code[k], Wasm(r, k)>> \in Breaking
Compared(r, k) ==
    task[r][k].compared =>
        /\ run[r].phase \in {"check", "install"} /\ k \in run[r].names
        /\ run[r].phase = "check" => task[r][k].step = "done" /\ (task[r][k].ok => ~Incompatible(r, k))
        /\ run[r].phase = "install" /\ task[r][k].step \notin {"done", "clear_after", "restart"}
               => ~Incompatible(r, k)

(* What has been seen Running is still so.                                 *)
Ready(r, k) ==
    \/ run[r].phase \in {"wait", "status"} /\ task[r][k].step = "done"
    \/ At(r, k, "sync", "todo")
    => k \in running

Sound(r, k) == HasBuilt(r, k) /\ HoldsItsModule(r, k) /\ Compared(r, k) /\ Ready(r, k)
SInv == IInv /\ Rests /\ \A r \in Runs, k \in Canisters : Sound(r, k)

-----------------------------------------------------------------------------
(* The other runs are idle.                                                *)
LEMMA OthersRest ==
    ASSUME SInv, OneAtATime, NEW r \in Runs, Active(r), NEW s \in Runs \ {r}
    PROVE  ~Active(s) /\ \A k \in Canisters : task[s][k] = NoTask
BY DEF SInv, OneAtATime, Rests

LEMMA IdleIsSound ==
    ASSUME NEW s \in Runs, NEW k \in Canisters, ~Active(s)', task'[s][k] = NoTask
    PROVE  Sound(s, k)'
<1>1. run'[s].phase = "idle" /\ task'[s][k].step = "none" /\ task'[s][k].compared = FALSE
  BY DEF Active, NoTask
<1>2. HasBuilt(s, k)'
  BY <1>1 DEF HasBuilt
<1>3. HoldsItsModule(s, k)'
  BY <1>1 DEF HoldsItsModule, AtHand
<1>4. Compared(s, k)'
  BY <1>1 DEF Compared
<1>5. Ready(s, k)'
  BY <1>1 DEF Ready, At
<1> QED BY <1>2, <1>3, <1>4, <1>5 DEF Sound

(* One task moves on, and touches its own canister only.                   *)
LEMMA MoveIsSound ==
    ASSUME SInv, OneAtATime, NEW r \in Runs, NEW k \in Canisters, NEW t \in Tasks, Move(r, k, t),
           Active(r),
           \A j \in Canisters \ {k} : /\ code'[j] = code[j] /\ art'[j] = art[j]
                                      /\ j \in running => j \in running',
           Sound(r, k)'
    PROVE  Rests' /\ \A s \in Runs, j \in Canisters : Sound(s, j)'
<1>1. run' = run /\ task' = [task EXCEPT ![r][k] = t]
  BY DEF Move
<1>2. task \in TaskType
  BY DEF SInv, IInv, TypeOK, TaskType
<1>3. \A s \in Runs, j \in Canisters : <<s, j>> # <<r, k>> => task'[s][j] = task[s][j]
  BY <1>1, <1>2 DEF TaskType
<1>4. \A s \in Runs \ {r} : ~Active(s)' /\ \A j \in Canisters : task'[s][j] = NoTask
  BY <1>1, <1>3, OthersRest DEF Active
<1>5. Rests'
  BY <1>1, <1>4 DEF Rests, Active
<1>6. ASSUME NEW j \in Canisters \ {k} PROVE Sound(r, j)'
  <2>1. Sound(r, j)
    BY DEF SInv
  <2>2. task'[r][j] = task[r][j] /\ code'[j] = code[j] /\ art'[j] = art[j]
    BY <1>3
  <2>3. HasBuilt(r, j)'
    BY <1>1, <2>1, <2>2 DEF Sound, HasBuilt
  <2>4. Wasm(r, j)' = Wasm(r, j)
    BY <1>1, <2>2 DEF Wasm
  <2>5. HoldsItsModule(r, j)'
    BY <2>1, <2>2, <2>4 DEF Sound, HoldsItsModule
  <2>6. Compared(r, j)'
    BY <1>1, <2>1, <2>2, <2>4 DEF Sound, Compared, Incompatible
  <2>7. Ready(r, j)'
    BY <1>1, <2>1, <2>2 DEF Sound, Ready, At
  <2> QED BY <2>3, <2>5, <2>6, <2>7 DEF Sound
<1>7. ASSUME NEW s \in Runs, NEW j \in Canisters PROVE Sound(s, j)'
  <2>1. CASE s = r /\ j = k
    BY <2>1
  <2>2. CASE s = r /\ j # k
    BY <1>6, <2>2
  <2>3. CASE s # r
    BY <1>4, <2>3, IdleIsSound
  <2> QED BY <2>1, <2>2, <2>3
<1> QED BY <1>5, <1>7

(* A run ends: now all of them rest.                                       *)
LEMMA AbortIsSound ==
    ASSUME SInv, OneAtATime, NEW r \in Runs, Active(r), Abort(r)
    PROVE  Rests' /\ \A s \in Runs, j \in Canisters : Sound(s, j)'
<1>1. /\ run' = [run EXCEPT ![r] = Resting]
      /\ task' = [task EXCEPT ![r] = [k \in Canisters |-> NoTask]]
  BY DEF Abort
<1>2. run \in RunType /\ task \in TaskType
  BY DEF SInv, IInv, TypeOK, RunType, TaskType
<1>3. \A s \in Runs \ {r} : run'[s] = run[s] /\ \A j \in Canisters : task'[s][j] = task[s][j]
  BY <1>1, <1>2 DEF RunType, TaskType
<1>4. run'[r].phase = "idle" /\ \A j \in Canisters : task'[r][j] = NoTask
  BY <1>1, <1>2 DEF RunType, TaskType, Resting
<1>5. \A s \in Runs : ~Active(s)' /\ \A j \in Canisters : task'[s][j] = NoTask
  BY <1>3, <1>4, OthersRest DEF Active
<1> QED BY <1>5, IdleIsSound DEF Rests

(* A run begins, with everything to do.                                    *)
LEMMA BeginIsSound ==
    ASSUME SInv, OneAtATime', NEW r \in Runs, NEW kind \in AllKinds, NEW names, NEW mode, NEW yes, NEW wasm,
           Begin(r, kind, names, mode, yes, wasm)
    PROVE  Rests' /\ \A s \in Runs, j \in Canisters : Sound(s, j)'
<1>1. /\ run' = [run EXCEPT ![r] = [phase |-> FirstPhase(kind), kind |-> kind, names |-> names,
                                    yes |-> yes, mode |-> mode]]
      /\ task' = [task EXCEPT ![r] =
                     [k \in Canisters |-> IF k \in TasksOf(FirstPhase(kind), names)
                                          THEN [NoTask EXCEPT !.step = "todo", !.wasm = wasm] ELSE NoTask]]
  BY DEF Begin
<1>2. run \in RunType /\ task \in TaskType
  BY DEF SInv, IInv, TypeOK, RunType, TaskType
<1>3. /\ run'[r].phase = FirstPhase(kind) /\ run'[r].kind = kind
      /\ \A j \in Canisters :
            task'[r][j] = IF j \in TasksOf(FirstPhase(kind), names)
                          THEN [NoTask EXCEPT !.step = "todo", !.wasm = wasm] ELSE NoTask
  BY <1>1, <1>2 DEF RunType, TaskType
<1>4. \A s \in Runs \ {r} : run'[s] = run[s] /\ \A j \in Canisters : task'[s][j] = task[s][j]
  BY <1>1, <1>2 DEF RunType, TaskType
<1>5. /\ FirstPhase(kind) \in {"build", "resolve", "status", "call"}
      /\ kind = "deploy" => FirstPhase(kind) = "build"
  BY DEF FirstPhase, AllKinds
<1>6. Active(r)'
  BY <1>3, <1>5 DEF Active
<1>7. \A s \in Runs \ {r} : ~Active(s)' /\ \A j \in Canisters : task'[s][j] = NoTask
  <2>1. ASSUME NEW s \in Runs \ {r} PROVE ~Active(s)' /\ ~Active(s)
    BY <1>4, <1>6 DEF OneAtATime, Active
  <2> QED BY <1>4, <2>1 DEF SInv, Rests
<1>8. Rests'
  BY <1>6, <1>7 DEF Rests
<1>9. ASSUME NEW j \in Canisters PROVE Sound(r, j)'
  <2> DEFINE todo == [NoTask EXCEPT !.step = "todo", !.wasm = wasm]
  <2>1. /\ todo.step = "todo" /\ todo.compared = FALSE
        /\ NoTask.step = "none" /\ NoTask.compared = FALSE
    BY DEF NoTask
  <2> HIDE DEF todo
  <2>2. task'[r][j] = todo \/ task'[r][j] = NoTask
    BY <1>3 DEF todo
  <2>3. task'[r][j].step \in {"todo", "none"} /\ task'[r][j].compared = FALSE
    BY <2>1, <2>2
  <2>4. HasBuilt(r, j)'
    BY <1>3, <1>5, <2>3 DEF HasBuilt
  <2>5. HoldsItsModule(r, j)'
    BY <2>3 DEF HoldsItsModule, AtHand
  <2>6. Compared(r, j)'
    BY <2>3 DEF Compared
  <2>7. Ready(r, j)'
    BY <1>3, <1>5, <2>3 DEF Ready, At
  <2> QED BY <2>4, <2>5, <2>6, <2>7 DEF Sound
<1>10. ASSUME NEW s \in Runs \ {r}, NEW j \in Canisters PROVE Sound(s, j)'
  BY <1>7, IdleIsSound
<1>11. ASSUME NEW s \in Runs, NEW j \in Canisters PROVE Sound(s, j)'
  <2>1. CASE s = r
    BY <1>9, <2>1
  <2>2. CASE s # r
    BY <1>10, <2>2
  <2> QED BY <2>1, <2>2
<1> QED BY <1>8, <1>11

(* The next phase begins with what the tasks of this one have brought.     *)
LEMMA EndPhaseIsSound ==
    ASSUME SInv, OneAtATime, NEW r \in Runs, EndPhase(r)
    PROVE  Rests' /\ \A s \in Runs, j \in Canisters : Sound(s, j)'
<1>1. Active(r) /\ PhaseDone(r) /\ UNCHANGED <<art, canister>>
  BY DEF EndPhase, PhaseDone
<1>2. run \in RunType /\ task \in TaskType
  BY DEF SInv, IInv, TypeOK, RunType, TaskType
<1>3. CASE Abort(r)
  BY <1>1, <1>3, AbortIsSound
<1>4. CASE /\ NextPhase(r) # "idle" /\ Enter(r, NextPhase(r))
           /\ \A k \in run[r].names : task[r][k].ok
  <2> DEFINE phase == NextPhase(r)
             before(k) == IF phase \in AfterInstall THEN NoTask ELSE task[r][k]
             todo(k) == IF k \in TasksOf(phase, run[r].names) THEN "todo" ELSE "none"
             t(k) == [before(k) EXCEPT !.step = todo(k)]
  <2>1. /\ run' = [run EXCEPT ![r].phase = phase]
        /\ task' = [task EXCEPT ![r] = [k \in Canisters |-> t(k)]]
    BY <1>4 DEF Enter
  <2>2. \A s \in Runs \ {r} : run'[s] = run[s] /\ \A j \in Canisters : task'[s][j] = task[s][j]
    BY <1>2, <2>1 DEF RunType, TaskType
  <2>3. \A s \in Runs \ {r} : ~Active(s)' /\ \A j \in Canisters : task'[s][j] = NoTask
    BY <1>1, <2>2, OthersRest DEF Active
  <2>4. /\ run'[r].phase = phase /\ run'[r].kind = run[r].kind /\ run'[r].names = run[r].names
    BY <1>2, <2>1 DEF RunType
  <2>5. Rests'
    BY <1>4, <2>3, <2>4 DEF Rests, Active
  <2>6. ASSUME NEW j \in Canisters PROVE Sound(r, j)'
    <3>1. task'[r][j] = t(j)
      BY <1>2, <2>1 DEF TaskType
    <3>2. /\ before(j) \in Tasks /\ todo(j) \in {"todo", "none"}
          /\ phase \notin AfterInstall => before(j) = task[r][j]
          /\ phase \in AfterInstall => before(j).compared = FALSE
      BY <1>2 DEF TaskType, Tasks, NoTask
    <3> HIDE DEF before
    <3>3. /\ task'[r][j].step = todo(j) /\ task'[r][j].wasm = before(j).wasm
          /\ task'[r][j].built = before(j).built /\ task'[r][j].compared = before(j).compared
      BY <3>1, <3>2 DEF Tasks
    <3>4. Sound(r, j)
      BY DEF SInv
    <3>5. phase = "resolve" => run[r].phase = "build" /\ phase \notin AfterInstall
      BY <1>4 DEF NextPhase, AfterInstall
    <3>6. phase = "check" => run[r].phase = "resolve" /\ phase \notin AfterInstall
      BY <1>4 DEF NextPhase, AfterInstall
    <3>7. phase = "install" => run[r].phase \in {"resolve", "check"} /\ phase \notin AfterInstall
      BY <1>4 DEF NextPhase, AfterInstall
    <3>8. phase = "sync" => run[r].phase \in {"wait", "status"} /\ phase \in AfterInstall
      BY <1>4 DEF NextPhase, AfterInstall
    <3>9. phase \in {"resolve", "check", "install", "start", "wait", "sync"}
      BY <1>4 DEF NextPhase
    <3> HIDE DEF phase, todo, t
    <3>10. HasBuilt(r, j)'
      <4>1. SUFFICES ASSUME run[r].kind = "deploy", j \in run[r].names, phase \in {"resolve", "check", "install"}
                     PROVE  task'[r][j].built = art'[j] /\ task'[r][j].built # None
        BY <2>4, <3>9 DEF HasBuilt
      <4>2. run[r].phase = "build" => task[r][j].step = "done"
        BY <1>1, <4>1 DEF PhaseDone, TasksOf, AfterInstall
      <4>3. task[r][j].ok
        BY <1>4, <4>1
      <4>4. task[r][j].built = art[j] /\ task[r][j].built # None
        BY <3>4, <3>5, <3>6, <3>7, <4>1, <4>2, <4>3 DEF Sound, HasBuilt
      <4> QED BY <1>1, <3>2, <3>3, <3>5, <3>6, <3>7, <4>1, <4>4
    <3>11. HoldsItsModule(r, j)'
      BY <3>2, <3>3 DEF HoldsItsModule, AtHand
    <3>12. Compared(r, j)'
      <4>1. SUFFICES ASSUME task[r][j].compared, phase \notin AfterInstall
                     PROVE  /\ phase = "install" /\ j \in run[r].names
                            /\ ~Incompatible(r, j)'
        BY <2>4, <3>2, <3>3 DEF Compared
      <4>2. run[r].phase \in {"check", "install"} /\ j \in run[r].names
        BY <3>4, <4>1 DEF Sound, Compared
      <4>3. phase = "install" /\ run[r].phase = "check"
        BY <1>4, <4>1, <4>2, <3>5, <3>6, <3>7, <3>9 DEF AfterInstall
      <4>4. task[r][j].ok
        BY <1>4, <4>2
      <4>5. ~Incompatible(r, j)
        BY <3>4, <4>1, <4>3, <4>4 DEF Sound, Compared
      <4>6. Wasm(r, j)' = Wasm(r, j)
        BY <1>1, <2>4, <3>2, <3>3, <4>1 DEF Wasm
      <4> QED BY <1>1, <4>2, <4>3, <4>5, <4>6 DEF Incompatible, canister
    <3>13. Ready(r, j)'
      <4>1. SUFFICES ASSUME phase = "sync", task'[r][j].step = "todo"
                     PROVE  j \in running'
        BY <2>4, <3>2, <3>3 DEF Ready, At
      <4>2. j \in run[r].names \cap Synced
        BY <3>3, <3>8, <4>1 DEF TasksOf, todo
      <4>3. task[r][j].step = "done"
        BY <1>1, <3>8, <4>1, <4>2 DEF PhaseDone, TasksOf, AfterInstall
      <4> QED BY <1>1, <3>4, <3>8, <4>1, <4>3 DEF Sound, Ready, canister
    <3> QED BY <3>10, <3>11, <3>12, <3>13 DEF Sound
  <2>7. ASSUME NEW s \in Runs, NEW j \in Canisters PROVE Sound(s, j)'
    <3>1. CASE s = r
      BY <2>6, <3>1
    <3>2. CASE s # r
      BY <2>3, <3>2, IdleIsSound
    <3> QED BY <3>1, <3>2
  <2> QED BY <2>5, <2>7
<1> QED BY <1>3, <1>4 DEF EndPhase

-----------------------------------------------------------------------------
(* The tasks of the phases before and after the installation.              *)
LEMMA BuildIsSound ==
    ASSUME SInv, OneAtATime, NEW r \in Runs, NEW k \in Canisters, Build(r, k) \/ BuildFails(r, k)
    PROVE  Rests' /\ \A s \in Runs, j \in Canisters : Sound(s, j)'
<1>1. task[r][k] \in Tasks /\ task \in TaskType /\ art \in [Canisters -> Modules \cup {None, Torn}]
  BY DEF SInv, IInv, TypeOK, TaskType
<1>2. /\ run[r].phase = "build" /\ Active(r) /\ UNCHANGED canister
  BY DEF Build, BuildFails, At, Active
<1>3. task[r][k].compared = FALSE
  BY <1>1, <1>2 DEF SInv, Sound, Compared, Tasks
<1>4. ASSUME NEW t \in Tasks, Move(r, k, t), t.compared = FALSE, t.step = "done",
             t.ok => t.built = art'[k] /\ t.built # None
      PROVE  Sound(r, k)'
  <2>1. run' = run /\ task'[r][k] = t
    BY <1>1, <1>4 DEF Move, TaskType
  <2> QED BY <1>2, <1>4, <2>1 DEF Sound, HasBuilt, HoldsItsModule, AtHand, Compared, Ready, At
<1>5. CASE Build(r, k)
  <2>1. PICK m \in BuildsOf[k] :
           /\ art' = [art EXCEPT ![k] = m]
           /\ Move(r, k, [task[r][k] EXCEPT !.step = "done", !.built = m])
    BY <1>5 DEF Build
  <2> DEFINE t == [task[r][k] EXCEPT !.step = "done", !.built = m]
  <2>2. m \in Modules /\ m # None
    BY InstallAssumption
  <2>3. t \in Tasks /\ t.step = "done" /\ t.compared = FALSE /\ t.built = m
    BY <1>1, <1>3, <2>2 DEF Tasks
  <2>4. art'[k] = m /\ \A j \in Canisters \ {k} : art'[j] = art[j]
    BY <1>1, <2>1
  <2> HIDE DEF t
  <2>5. Move(r, k, t)
    BY <2>1 DEF t
  <2>6. Sound(r, k)'
    BY <1>4, <2>2, <2>3, <2>4, <2>5
  <2> QED BY <1>2, <2>3, <2>4, <2>5, <2>6, MoveIsSound DEF canister
<1>6. CASE BuildFails(r, k)
  <2> DEFINE t == [task[r][k] EXCEPT !.step = "done", !.ok = FALSE]
  <2>1. t \in Tasks /\ t.step = "done" /\ t.compared = FALSE /\ t.ok = FALSE
    BY <1>1, <1>3 DEF Tasks
  <2>2. Move(r, k, t) /\ art' = art
    BY <1>6 DEF BuildFails, Fail
  <2> HIDE DEF t
  <2>3. Sound(r, k)'
    BY <1>4, <2>1, <2>2
  <2> QED BY <1>2, <2>1, <2>2, <2>3, MoveIsSound DEF canister
<1> QED BY <1>5, <1>6

LEMMA PlanIsSound ==
    ASSUME SInv, OneAtATime, NEW r \in Runs, NEW k \in Canisters, Resolve(r, k) \/ Check(r, k)
    PROVE  Rests' /\ \A s \in Runs, j \in Canisters : Sound(s, j)'
<1>1. task[r][k] \in Tasks /\ task \in TaskType /\ run[r].mode \in AllModes
  BY DEF SInv, IInv, TypeOK, TaskType
<1>2. /\ run[r].phase \in {"resolve", "check"} /\ Active(r) /\ UNCHANGED <<art, canister>>
      /\ task[r][k].step = "todo"
  BY DEF Resolve, Check, At, Active
<1>3. k \in run[r].names
  BY <1>2 DEF SInv, IInv, Orderly, WellPlaced, Placed, TasksOf, AfterInstall
<1>4. ASSUME NEW t \in Tasks, Move(r, k, t), t.step = "done", t.built = task[r][k].built, t.wasm = task[r][k].wasm,
             t.compared => /\ run[r].phase = "check"
                           /\ t.ok => ~Incompatible(r, k)
      PROVE  Sound(r, k)'
  <2>1. run' = run /\ task'[r][k] = t
    BY <1>1, <1>4 DEF Move, TaskType
  <2>2. HasBuilt(r, k)'
    BY <1>2, <1>3, <1>4, <2>1 DEF SInv, Sound, HasBuilt
  <2>3. HoldsItsModule(r, k)'
    BY <1>4, <2>1 DEF HoldsItsModule, AtHand
  <2>4. Incompatible(r, k)' = Incompatible(r, k)
    BY <1>2, <1>4, <2>1 DEF Incompatible, Wasm, canister
  <2>5. Compared(r, k)'
    BY <1>3, <1>4, <2>1, <2>4 DEF Compared
  <2>6. Ready(r, k)'
    BY <1>2, <2>1 DEF Ready, At
  <2> QED BY <2>2, <2>3, <2>5, <2>6 DEF Sound
<1>5. CASE Resolve(r, k)
  <2> DEFINE g == ModeFor(r, k) \in {"upgrade", "reinstall"} /\ k \in running
             t == [task[r][k] EXCEPT !.step = "done", !.mode = ModeFor(r, k), !.guard = g]
  <2>1. ModeFor(r, k) \in AllModes \ {"auto"} /\ g \in BOOLEAN
    BY <1>1 DEF ModeFor, AllModes
  <2>2. Move(r, k, t)
    BY <1>5 DEF Resolve
  <2>3. task[r][k].compared = FALSE
    BY <1>1, <1>5 DEF SInv, Sound, Compared, Resolve, At, Tasks
  <2> HIDE DEF g
  <2>4. /\ t \in Tasks /\ t.step = "done" /\ t.compared = FALSE
        /\ t.built = task[r][k].built /\ t.wasm = task[r][k].wasm
    BY <1>1, <2>1, <2>3 DEF Tasks
  <2> HIDE DEF t
  <2>5. Sound(r, k)'
    BY <1>4, <2>2, <2>4
  <2> QED BY <1>2, <2>2, <2>4, <2>5, MoveIsSound DEF canister
<1>6. CASE Check(r, k)
  <2>1. PICK fetched \in Fetched, confirmed \in Confirmed(r) :
           LET compared == fetched /\ ~confirmed /\ task[r][k].mode = "upgrade" IN
           Move(r, k, [task[r][k] EXCEPT !.step = "done", !.compared = compared,
                          !.ok = ~(compared /\ <<code[k], Wasm(r, k)>> \in Breaking)])
    BY <1>6 DEF Check
  <2> DEFINE c == fetched /\ ~confirmed /\ task[r][k].mode = "upgrade"
             o == ~(c /\ Incompatible(r, k))
             t == [task[r][k] EXCEPT !.step = "done", !.compared = c, !.ok = o]
  <2>2. Move(r, k, t)
    BY <2>1 DEF Incompatible
  <2>3. c \in BOOLEAN /\ o \in BOOLEAN /\ (c /\ o => ~Incompatible(r, k))
    OBVIOUS
  <2> HIDE DEF c, o
  <2>4. /\ t \in Tasks /\ t.step = "done" /\ t.compared = c /\ t.ok = o
        /\ t.built = task[r][k].built /\ t.wasm = task[r][k].wasm
    BY <1>1, <2>3 DEF Tasks
  <2>5. run[r].phase = "check"
    BY <1>6 DEF Check, At
  <2> HIDE DEF t
  <2>6. Sound(r, k)'
    BY <1>4, <2>2, <2>3, <2>4, <2>5
  <2> QED BY <1>2, <2>2, <2>4, <2>6, MoveIsSound DEF canister
<1> QED BY <1>5, <1>6

-----------------------------------------------------------------------------
(* A task of the installation moves on.                                    *)
Over == {"done", "clear_after", "restart"}
LEMMA InstallMoveIsSound ==
    ASSUME SInv, OneAtATime, NEW r \in Runs, NEW k \in Canisters, NEW t \in Tasks, Move(r, k, t),
           run[r].phase = "install", task[r][k].step # "none",
           t.built = task[r][k].built, t.compared = task[r][k].compared,
           t.step # "done" => \/ t.wasm = task[r][k].wasm /\ task[r][k].step \in AtHand
                              \/ t.wasm = Wasm(r, k),
           run[r].kind = "install" => t.wasm = task[r][k].wasm,
           task[r][k].step \in Over => t.step \in Over,
           code'[k] = code[k] \/ t.step \in Over,
           \A j \in Canisters \ {k} : code'[j] = code[j] /\ (j \in running => j \in running'),
           art' = art
    PROVE  Rests' /\ \A s \in Runs, j \in Canisters : Sound(s, j)'
<1>1. task \in TaskType /\ Active(r)
  BY DEF SInv, IInv, TypeOK, TaskType, Active
<1>2. run' = run /\ task'[r][k] = t
  BY <1>1 DEF Move, TaskType
<1>3. Sound(r, k) /\ k \in run[r].names
  BY DEF SInv, IInv, Orderly, WellPlaced, Placed, TasksOf, AfterInstall
<1>4. HasBuilt(r, k)'
  BY <1>2, <1>3 DEF Sound, HasBuilt
<1>5. Wasm(r, k)' = IF run[r].kind = "install" THEN t.wasm ELSE art[k]
  BY <1>2 DEF Wasm
<1>6. HoldsItsModule(r, k)'
  <2>1. SUFFICES ASSUME t.step \in AtHand PROVE t.wasm = Wasm(r, k)'
    BY <1>2 DEF HoldsItsModule
  <2>2. t.wasm = Wasm(r, k)
    BY <1>3, <2>1 DEF Sound, HoldsItsModule, AtHand
  <2> QED BY <1>5, <2>2 DEF Wasm
<1>7. Compared(r, k)'
  <2>1. SUFFICES ASSUME t.compared, t.step \notin Over PROVE ~Incompatible(r, k)'
    BY <1>2, <1>3 DEF Compared, Over
  <2>2. ~Incompatible(r, k)
    BY <1>3, <2>1 DEF Sound, Compared, Over
  <2>3. Wasm(r, k)' = Wasm(r, k)
    BY <1>5 DEF Wasm
  <2> QED BY <2>1, <2>2, <2>3 DEF Incompatible
<1>8. Ready(r, k)'
  BY <1>2 DEF Ready, At
<1>9. Sound(r, k)'
  BY <1>4, <1>6, <1>7, <1>8 DEF Sound
<1> QED BY <1>1, <1>9, MoveIsSound

LEMMA LookupIsSound ==
    ASSUME SInv, OneAtATime, NEW r \in Runs, NEW k \in Canisters, Lookup(r, k)
    PROVE  Rests' /\ \A s \in Runs, j \in Canisters : Sound(s, j)'
<1>1. task[r][k] \in Tasks /\ art[k] \in Modules \cup {None, Torn}
  BY DEF SInv, IInv, TypeOK
<1>2. task[r][k].step = "todo" /\ run[r].phase = "install" /\ UNCHANGED <<art, canister>>
  BY DEF Lookup, At
<1>3. CASE Fail(r, k)
  <2> DEFINE t == [task[r][k] EXCEPT !.step = "done", !.ok = FALSE]
  <2>1. Move(r, k, t)
    BY <1>3 DEF Fail
  <2>2. /\ t \in Tasks /\ t.step = "done" /\ t.built = task[r][k].built
        /\ t.wasm = task[r][k].wasm /\ t.compared = task[r][k].compared
    BY <1>1 DEF Tasks
  <2> HIDE DEF t
  <2> QED BY <1>2, <2>1, <2>2, InstallMoveIsSound DEF Over, canister
<1>4. CASE ~Fail(r, k)
  <2> DEFINE w == Wasm(r, k)
             step == IF w \in Big THEN "clear" ELSE StopFirst(r, k)
             t == [task[r][k] EXCEPT !.wasm = w, !.step = step]
  <2>1. w \in Modules \cup {None, Torn} /\ (run[r].kind = "install" => w = task[r][k].wasm)
    BY <1>1 DEF Wasm, Tasks
  <2>2. step \in {"clear", "stop", "code"}
    BY DEF StopFirst
  <2>3. Move(r, k, t) /\ w = Wasm(r, k)
    BY <1>4 DEF Lookup
  <2> HIDE DEF w, step
  <2>4. /\ t \in Tasks /\ t.step = step /\ t.wasm = w
        /\ t.built = task[r][k].built /\ t.compared = task[r][k].compared
    BY <1>1, <2>1, <2>2 DEF Tasks
  <2> HIDE DEF t
  <2> QED BY <1>2, <2>1, <2>2, <2>3, <2>4, InstallMoveIsSound DEF Over, canister
<1> QED BY <1>3, <1>4

(* A call sets the step of its task and what it will return, and gets to   *)
(* "done", "clear_after" or "restart" no later than it changes the code.   *)
LEMMA CallIsSound ==
    ASSUME SInv, OneAtATime, NEW r \in Runs, NEW k \in Canisters, NEW o \in AllOutcomes,
           \/ Clear(r, k, o) \/ UploadFirst(r, k, o) \/ UploadRest(r, k, o)
           \/ Stop(r, k, o) \/ InstallCode(r, k, o) \/ Restart(r, k, o) \/ ClearAfter(r, k, o)
    PROVE  Rests' /\ \A s \in Runs, j \in Canisters : Sound(s, j)'
<1>1. task[r][k] \in Tasks /\ code \in [Canisters -> Modules \cup {None}]
  BY DEF SInv, IInv, TypeOK
<1>2. run[r].phase = "install" /\ task[r][k].step \in AtHand /\ art' = art
  BY DEF Clear, UploadFirst, UploadRest, Stop, InstallCode, Restart, ClearAfter, At, AtHand
<1>3. \A j \in Canisters \ {k} : code'[j] = code[j] /\ (j \in running => j \in running')
  BY <1>1 DEF Clear, UploadFirst, UploadRest, Stop, InstallCode, Restart, ClearAfter
<1>4. Rest(task[r][k].wasm) \in {"done", "clear_after"} /\ StopFirst(r, k) \in {"stop", "code"}
  BY DEF Rest, StopFirst
<1>5. ASSUME NEW step \in {"upload", "upload_rest", "stop", "code", "restart", "done", "clear_after"},
             NEW ok \in BOOLEAN,
             Move(r, k, [task[r][k] EXCEPT !.step = step, !.ok = ok]),
             task[r][k].step \in Over => step \in Over,
             code' = code \/ step \in Over
      PROVE  Rests' /\ \A s \in Runs, j \in Canisters : Sound(s, j)'
  <2> DEFINE t == [task[r][k] EXCEPT !.step = step, !.ok = ok]
  <2>1. /\ t \in Tasks /\ t.step = step /\ t.wasm = task[r][k].wasm
        /\ t.built = task[r][k].built /\ t.compared = task[r][k].compared
    BY <1>1 DEF Tasks
  <2>2. Move(r, k, t)
    BY <1>5
  <2> HIDE DEF t
  <2>3. task[r][k].step # "none"
    BY <1>2 DEF AtHand
  <2> QED BY <1>2, <1>3, <1>5, <2>1, <2>2, <2>3, InstallMoveIsSound
<1>6. ASSUME NEW step \in {"upload", "upload_rest", "stop", "code"}, Goto(r, k, step),
             task[r][k].step \notin Over, code' = code
      PROVE  Rests' /\ \A s \in Runs, j \in Canisters : Sound(s, j)'
  <2>1. [task[r][k] EXCEPT !.step = step] = [task[r][k] EXCEPT !.step = step, !.ok = task[r][k].ok]
    BY <1>1 DEF Tasks
  <2>2. task[r][k].ok \in BOOLEAN
    BY <1>1 DEF Tasks
  <2> QED BY <1>5, <1>6, <2>1, <2>2 DEF Goto
<1>7. ASSUME Fail(r, k) PROVE Rests' /\ \A s \in Runs, j \in Canisters : Sound(s, j)'
  BY <1>5, <1>7 DEF Fail, Over
<1>8. CASE Clear(r, k, o)
  BY <1>6, <1>7, <1>8 DEF Clear, At, Over
<1>9. CASE UploadFirst(r, k, o)
  BY <1>6, <1>7, <1>9 DEF UploadFirst, At, Over
<1>10. CASE UploadRest(r, k, o)
  BY <1>4, <1>6, <1>7, <1>10 DEF UploadRest, At, Over
<1>11. CASE Stop(r, k, o)
  <2>1. task[r][k].step \notin Over /\ code' = code
    BY <1>11 DEF Stop, At, Over
  <2>2. CASE o = "ok"
    <3>1. Goto(r, k, "code")
      BY <1>11, <2>2 DEF Stop, Goto
    <3> QED BY <1>6, <2>1, <3>1
  <2>3. CASE o # "ok"
    <3>1. Move(r, k, [task[r][k] EXCEPT !.step = Rest(task[r][k].wasm), !.ok = FALSE])
      BY <1>11, <2>3 DEF Stop
    <3> QED BY <1>4, <1>5, <2>1, <3>1
  <2> QED BY <2>2, <2>3
<1>12. CASE InstallCode(r, k, o)
  <2> DEFINE step == IF task[r][k].guard THEN "restart" ELSE Rest(task[r][k].wasm)
             ok == o # "fail" /\ Accepted(r, k) /\ o = "ok"
  <2>1. Move(r, k, [task[r][k] EXCEPT !.ok = ok, !.step = step])
    BY <1>12 DEF InstallCode
  <2>2. step \in Over /\ step \in {"restart", "done", "clear_after"} /\ ok \in BOOLEAN
    BY <1>4 DEF Over
  <2> HIDE DEF step, ok
  <2>3. [task[r][k] EXCEPT !.ok = ok, !.step = step] = [task[r][k] EXCEPT !.step = step, !.ok = ok]
    BY <1>1 DEF Tasks
  <2> QED BY <1>5, <2>1, <2>2, <2>3
<1>13. CASE Restart(r, k, o) \/ ClearAfter(r, k, o)
  <2>1. PICK step \in {"done", "clear_after"}, ok \in BOOLEAN :
           Move(r, k, [task[r][k] EXCEPT !.step = step, !.ok = ok])
    <3>1. (task[r][k].ok /\ o = "ok") \in BOOLEAN
      OBVIOUS
    <3> QED BY <1>4, <1>13, <3>1 DEF Restart, ClearAfter
  <2> QED BY <1>5, <2>1 DEF Over
<1> QED BY <1>8, <1>9, <1>10, <1>11, <1>12, <1>13

-----------------------------------------------------------------------------
(* The tasks of the phases around it: they look at the canister's status   *)
(* or set it.                                                              *)
LEMMA StatusIsSound ==
    ASSUME SInv, OneAtATime, NEW r \in Runs, NEW k \in Canisters,
           \/ SeesRunning(r, k) \/ SeesStopped(r, k) \/ Sync(r, k) \/ ReadFails(r, k)
           \/ \E o \in AllOutcomes : CallStart(r, k, o) \/ CallStop(r, k, o)
    PROVE  Rests' /\ \A s \in Runs, j \in Canisters : Sound(s, j)'
<1>1. task[r][k] \in Tasks /\ task \in TaskType
  BY DEF SInv, IInv, TypeOK, TaskType
<1>2. /\ run[r].phase \in {"resolve", "start", "wait", "status", "sync", "call"} /\ Active(r)
      /\ art' = art /\ code' = code
      /\ Abort(r) \/ Succeed(r, k) \/ Fail(r, k)
      /\ \A j \in Canisters \ {k} : j \in running => j \in running'
  BY DEF SeesRunning, SeesStopped, Sync, ReadFails, CallStart, CallStop, SetRunning, At, Active, canister
<1>3. CASE Abort(r)
  BY <1>2, <1>3, AbortIsSound
<1>4. CASE ~Abort(r)
  <2>1. /\ run[r].phase \in {"start", "wait", "status", "sync", "call"}
        /\ run[r].phase \in {"wait", "status"} => k \in running /\ running' = running
    BY <1>2, <1>4 DEF SeesRunning, SeesStopped, Sync, ReadFails, CallStart, CallStop, At, canister
  <2>2. task[r][k].compared = FALSE
    BY <1>1, <2>1 DEF SInv, Sound, Compared, Tasks
  <2>3. ASSUME NEW t \in Tasks, t.step = "done", t.compared = FALSE, Move(r, k, t)
        PROVE  Rests' /\ \A s \in Runs, j \in Canisters : Sound(s, j)'
    <3>1. run' = run /\ task'[r][k] = t
      BY <1>1, <2>3 DEF Move, TaskType
    <3>2. Sound(r, k)'
      BY <2>1, <2>3, <3>1 DEF Sound, HasBuilt, HoldsItsModule, AtHand, Compared, Ready, At
    <3> QED BY <1>2, <2>3, <3>2, MoveIsSound
  <2>4. CASE Succeed(r, k)
    <3> DEFINE t == [task[r][k] EXCEPT !.step = "done"]
    <3>1. t \in Tasks /\ t.step = "done" /\ t.compared = FALSE
      BY <1>1, <2>2 DEF Tasks
    <3>2. Move(r, k, t)
      BY <2>4 DEF Succeed, Goto
    <3> HIDE DEF t
    <3> QED BY <2>3, <3>1, <3>2
  <2>5. CASE Fail(r, k)
    <3> DEFINE t == [task[r][k] EXCEPT !.step = "done", !.ok = FALSE]
    <3>1. t \in Tasks /\ t.step = "done" /\ t.compared = FALSE
      BY <1>1, <2>2 DEF Tasks
    <3>2. Move(r, k, t)
      BY <2>5 DEF Fail
    <3> HIDE DEF t
    <3> QED BY <2>3, <3>1, <3>2
  <2> QED BY <1>2, <1>4, <2>4, <2>5
<1> QED BY <1>3, <1>4

LEMMA InitSInv == Init => SInv
<1> SUFFICES ASSUME Init PROVE SInv
  OBVIOUS
<1>1. \A r \in Runs : ~Active(r) /\ \A k \in Canisters : task[r][k] = NoTask
  BY DEF Init, Active, Resting
<1>2. NoTask.step = "none" /\ NoTask.compared = FALSE
  BY DEF NoTask
<1>3. ASSUME NEW r \in Runs, NEW k \in Canisters PROVE Sound(r, k)
  BY <1>1, <1>2 DEF Sound, HasBuilt, HoldsItsModule, AtHand, Compared, Ready, At, Active
<1> QED BY <1>1, <1>3, InitIInv DEF SInv, Rests

LEMMA SInvStep == ASSUME SInv, OneAtATime, OneAtATime', [Next]_vars PROVE SInv'
<1> DEFINE Goal == Rests' /\ \A s \in Runs, j \in Canisters : Sound(s, j)'
<1>1. ASSUME NEW r \in Runs, BeginDeploy(r) \/ BeginOther(r) \/ \E k \in Canisters : BeginInstall(r, k)
      PROVE  Goal
  <2>1. PICK kind \in AllKinds : \E names, mode, yes, wasm : Begin(r, kind, names, mode, yes, wasm)
    <3>1. CASE BeginDeploy(r)
      BY <3>1 DEF BeginDeploy, AllKinds
    <3>2. CASE BeginOther(r)
      BY <3>2 DEF BeginOther, AllKinds
    <3>3. CASE \E k \in Canisters : BeginInstall(r, k)
      BY <3>3 DEF BeginInstall, AllKinds
    <3> QED BY <1>1, <3>1, <3>2, <3>3
  <2> QED BY <2>1, BeginIsSound
<1>2. ASSUME NEW r \in Runs, NEW k \in Canisters, NEW o \in AllOutcomes, Call(r, k, o) PROVE Goal
  BY <1>2, CallIsSound, StatusIsSound DEF Call
<1>3. ASSUME NEW r \in Runs, Step(r) PROVE Goal
  <2>1. CASE EndPhase(r)
    BY <2>1, EndPhaseIsSound
  <2>2. ASSUME NEW k \in Canisters, Build(r, k) \/ Resolve(r, k) \/ Check(r, k) \/ Lookup(r, k) PROVE Goal
    BY <2>2, BuildIsSound, PlanIsSound, LookupIsSound
  <2>3. ASSUME NEW k \in Canisters, SeesRunning(r, k) \/ SeesStopped(r, k) \/ Sync(r, k) PROVE Goal
    BY <2>3, StatusIsSound
  <2>4. ASSUME NEW k \in Canisters, Call(r, k, "ok") PROVE Goal
    BY <1>2, <2>4 DEF AllOutcomes
  <2> QED BY <1>3, <2>1, <2>2, <2>3, <2>4 DEF Step
<1>4. ASSUME NEW r \in Runs, Failure(r) PROVE Goal
  <2>1. CASE Kill(r)
    BY <2>1, AbortIsSound DEF Kill
  <2>2. ASSUME NEW k \in Canisters, BuildFails(r, k) \/ ReadFails(r, k) PROVE Goal
    BY <2>2, BuildIsSound, StatusIsSound
  <2>3. ASSUME NEW k \in Canisters, NEW o \in Outcomes \ {"ok"}, Call(r, k, o) PROVE Goal
    BY <1>2, <2>3 DEF AllOutcomes, Outcomes
  <2> QED BY <1>4, <2>1, <2>2, <2>3 DEF Failure
<1>5. ASSUME UNCHANGED vars PROVE Goal
  BY <1>5 DEF vars, canister, SInv, Rests, Active, Sound, HasBuilt, HoldsItsModule, Wasm, Compared,
     Incompatible, Ready, At
<1>6. IInv'
  BY IInvStep DEF SInv
<1>7. Goal
  <2> HIDE DEF Goal
  <2> QED BY <1>1, <1>3, <1>4, <1>5 DEF Next
<1> QED BY <1>6, <1>7 DEF SInv
-----------------------------------------------------------------------------
(* What the steps of an installation do to the code.                       *)
LEMMA OnlyCodeCallChanges ==
    ASSUME SInv, OneAtATime, [Next]_vars, NEW r \in Runs, NEW k \in Canisters,
           At(r, k, "install", "code"), code'[k] # code[k]
    PROVE  code'[k] = task[r][k].wasm
<1>1. Active(r) /\ code \in [Canisters -> Modules \cup {None}]
  BY DEF At, Active, SInv, IInv, TypeOK
<1>2. ASSUME NEW s \in Runs, NEW j \in Canisters, NEW o, InstallCode(s, j, o)
      PROVE  code'[k] = task[r][k].wasm
  <2>1. s = r /\ k = j
    BY <1>1, <1>2 DEF InstallCode, At, Active, OneAtATime
  <2> QED BY <1>1, <1>2, <2>1 DEF InstallCode
<1>3. ASSUME NEW s \in Runs, NEW j \in Canisters, NEW o, Call(s, j, o)
      PROVE  code'[k] = task[r][k].wasm
  BY <1>2, <1>3 DEF Call, Clear, UploadFirst, UploadRest, Stop, Restart, ClearAfter, CallStart, CallStop
<1>4. ASSUME NEW s \in Runs, Step(s) PROVE code'[k] = task[r][k].wasm
  <2>1. PICK j \in Canisters : Call(s, j, "ok")
    BY <1>4 DEF Step, EndPhase, Build, Resolve, Check, Lookup, SeesRunning, SeesStopped, Sync, canister
  <2> QED BY <1>3, <2>1
<1>5. ASSUME NEW s \in Runs, Failure(s) PROVE code'[k] = task[r][k].wasm
  <2>1. PICK j \in Canisters, o \in Outcomes \ {"ok"} : Call(s, j, o)
    BY <1>5 DEF Failure, Kill, BuildFails, ReadFails, canister
  <2> QED BY <1>3, <2>1
<1>6. CASE UNCHANGED vars
  BY <1>6 DEF vars, canister
<1>7. ASSUME NEW s \in Runs, BeginDeploy(s) \/ BeginOther(s) \/ \E j \in Canisters : BeginInstall(s, j)
      PROVE  code'[k] = task[r][k].wasm
  BY <1>7 DEF BeginDeploy, BeginOther, BeginInstall, Begin, canister
<1> QED BY <1>4, <1>5, <1>6, <1>7 DEF Next

LEMMA DeployStep ==
    ASSUME SInv, OneAtATime, [Next]_vars
    PROVE  \A r \in Runs, k \in Canisters :
              At(r, k, "install", "code") /\ run[r].kind = "deploy" /\ code'[k] # code[k]
                  => /\ code'[k] = task[r][k].built
                     /\ \A j \in run[r].names : task[r][j].built # None
<1> SUFFICES ASSUME NEW r \in Runs, NEW k \in Canisters,
                    At(r, k, "install", "code"), run[r].kind = "deploy", code'[k] # code[k]
             PROVE  /\ code'[k] = task[r][k].built
                    /\ \A j \in run[r].names : task[r][j].built # None
  OBVIOUS
<1>1. code'[k] = task[r][k].wasm
  BY OnlyCodeCallChanges
<1>2. task[r][k].wasm = art[k]
  BY DEF SInv, Sound, HoldsItsModule, At, AtHand, Wasm
<1>3. k \in run[r].names /\ run[r].names \subseteq Canisters
  BY DEF SInv, IInv, TypeOK, Orderly, WellPlaced, Placed, TasksOf, At, AfterInstall
<1>4. \A j \in run[r].names : task[r][j].built = art[j] /\ task[r][j].built # None
  BY <1>3 DEF SInv, Sound, HasBuilt, At
<1> QED BY <1>1, <1>2, <1>3, <1>4

LEMMA CompatibleStep ==
    ASSUME SInv
    PROVE  \A r \in Runs, k \in Canisters :
              At(r, k, "install", "code") /\ ~run[r].yes /\ code'[k] # code[k]
                  => \A j \in run[r].names :
                        task[r][j].compared /\ task[r][j].step \notin {"done", "clear_after", "restart"}
                            => <<code[j], Wasm(r, j)>> \notin Breaking
<1> SUFFICES ASSUME NEW r \in Runs, NEW k \in Canisters, At(r, k, "install", "code"), NEW j \in run[r].names,
                    task[r][j].compared, task[r][j].step \notin {"done", "clear_after", "restart"}
             PROVE  <<code[j], Wasm(r, j)>> \notin Breaking
  OBVIOUS
<1>1. j \in Canisters
  BY DEF SInv, IInv, TypeOK
<1> QED BY <1>1 DEF SInv, Sound, Compared, Incompatible, At

(* Among runs that come one after the other, a deploy installs what it has *)
(* built itself, and only once all of its builds have succeeded, and only  *)
(* canisters that are Running are synced (deploy.rs 185-193 and 441-446):  *)
(* however earlier runs failed, were killed or lost an answer.             *)
THEOREM DeployedInOrder == Spec /\ []OneAtATime => DeploysInOrder
<1>1. SInv => SyncsRunning /\ TypeOK
  BY DEF SInv, IInv, SyncsRunning, Sound, Ready
<1>2. SInv /\ OneAtATime /\ OneAtATime' /\ [Next]_vars
        => [\A r \in Runs, k \in Canisters :
              At(r, k, "install", "code") /\ run[r].kind = "deploy" /\ code'[k] # code[k]
                  => /\ code'[k] = task[r][k].built
                     /\ \A j \in run[r].names : task[r][j].built # None]_vars
  BY DeployStep
<1> QED BY <1>1, <1>2, InitSInv, SInvStep, PTL DEF Spec, DeploysInOrder, InstallsItsBuilds

(* Among such runs, one that was not told --yes changes no canister while  *)
(* it knows of one that would break its clients: the check is of all of    *)
(* them, before the first is installed (candid_compat.rs 19-20), and what  *)
(* it compared is what is installed.                                       *)
THEOREM NothingBroken == Spec /\ []OneAtATime => BreaksNothing
<1>1. SInv => [\A r \in Runs, k \in Canisters :
              At(r, k, "install", "code") /\ ~run[r].yes /\ code'[k] # code[k]
                  => \A j \in run[r].names :
                        task[r][j].compared /\ task[r][j].step \notin {"done", "clear_after", "restart"}
                            => <<code[j], Wasm(r, j)>> \notin Breaking]_vars
  BY CompatibleStep
<1> QED BY <1>1, InitSInv, SInvStep, PTL DEF Spec, BreaksNothing
=============================================================================
