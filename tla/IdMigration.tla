---------------------------- MODULE IdMigration ----------------------------
(***************************************************************************)
(* canister migrate-id: the checks on the two canisters, the NNS migration *)
(* canister as a controller of both, the request, and the watch that polls *)
(* for its outcome until it is known or the time is up; one invocation     *)
(* after another, after a failed attempt, a lost answer or a watch that    *)
(* ended early.  The migration canister is as the command uses it: it      *)
(* validates the request again, and a query to it tells of the pair's      *)
(* latest migration.  Another user may request one of the same pair.       *)
(***************************************************************************)
EXTENDS Naturals

CONSTANTS MaxPolls,    \* the polls twelve minutes have room for
          MaxAttempts  \* bound on the migrations that are accepted

ASSUME MigrationAssumption == MaxPolls \in Nat /\ MaxAttempts \in Nat

VARIABLES source, target, \* the two canisters
          attempts,       \* how many migrations of the one to the other there were
          migrations,     \* what has become of each
          own,            \* the one this command requested, or 0
          consented,      \* its user knows that the surplus is burnt
          doing, polls,
          report          \* what it said last, and of which migration

migrationVars == <<source, target, attempts, migrations, own, consented, doing, polls, report>>
Nns == <<attempts, migrations>>

Silent == [what |-> "none", of |-> 0]

InProgress == {"Accepted", "MigratedCanisterDeleted"}
NotRunning == [at |-> "idle"]

(* elsewhere: on another subnet than the source.                           *)
MigrationInit ==
    /\ source \in [stopped : BOOLEAN, ready : BOOLEAN, cycles : {"few", "enough", "surplus"}, nns : BOOLEAN]
    /\ target \in [stopped : BOOLEAN, snapshots : BOOLEAN, elsewhere : BOOLEAN, nns : BOOLEAN]
    /\ attempts = 0 /\ migrations = [n \in 1 .. MaxAttempts |-> "none"]
    /\ own = 0 /\ consented = FALSE
    /\ doing = NotRunning /\ polls = 0 /\ report = Silent

-----------------------------------------------------------------------------
At(step) == doing.at = step
Step(next) == doing' = [doing EXCEPT !.at = next]
Conclude(what) == doing' = NotRunning /\ report' = [what |-> what, of |-> attempts]

StateOf(n) == IF n = 0 THEN "none" ELSE migrations[n]

(* migration_status: what the migration canister says of the pair.         *)
Latest == StateOf(attempts)

BeginMigrate ==
    \E yes, resume, skip, tty \in BOOLEAN :
        /\ At("idle")
        /\ doing' = [at |-> IF resume THEN "watch" ELSE IF yes \/ ~tty THEN "status" ELSE "confirm",
                     yes |-> yes, skip |-> skip, tty |-> tty]
        /\ own' = 0 /\ consented' = FALSE /\ polls' = 0 /\ report' = Silent
        /\ UNCHANGED <<source, target, Nns>>

Confirm ==
    /\ At("confirm")
    /\ \/ Step("status") /\ UNCHANGED report
       \/ Conclude("cancelled")
    /\ UNCHANGED <<source, target, Nns, own, consented, polls>>

BothStopped == source.stopped /\ target.stopped

FitAnyway ==     \* mutant: a surplus is burnt unasked
    BothStopped /\ source.ready /\ source.cycles # "few"

(* Both stopped, the source ready and with enough cycles; a surplus is     *)
(* burnt only with --yes or when a user at a terminal agrees.              *)
Fit ==
    /\ BothStopped
    /\ source.ready
    /\ source.cycles # "few"
    /\ source.cycles = "surplus" => doing.yes \/ doing.tty

Validate ==
    /\ At("status")
    /\ \/ /\ Fit /\ Step("snapshots") /\ UNCHANGED report
          /\ consented' = (source.cycles = "surplus" /\ (doing.yes \/ doing.tty))
       \/ ~Fit /\ Conclude("refused") /\ UNCHANGED consented
       \/ Fit /\ source.cycles = "surplus" /\ ~doing.yes /\ Conclude("cancelled") /\ UNCHANGED consented
    /\ UNCHANGED <<source, target, Nns, own, polls>>

CountSnapshots ==
    /\ At("snapshots")
    /\ \/ ~target.snapshots /\ Step("subnets") /\ UNCHANGED report
       \/ Conclude("refused")
    /\ UNCHANGED <<source, target, Nns, own, consented, polls>>

(* The registry is asked until it answers, or for as long as it makes      *)
(* sense.                                                                  *)
CompareSubnets ==
    /\ At("subnets")
    /\ \/ target.elsewhere /\ Step("source") /\ UNCHANGED report
       \/ Conclude("refused")
    /\ UNCHANGED <<source, target, Nns, own, consented, polls>>

AddController ==
    /\ \/ At("source") /\ source' = [source EXCEPT !.nns = TRUE] /\ Step("target") /\ UNCHANGED <<target, report>>
       \/ At("target") /\ target' = [target EXCEPT !.nns = TRUE] /\ Step("request") /\ UNCHANGED <<source, report>>
       \/ (At("source") \/ At("target")) /\ Conclude("refused") /\ UNCHANGED <<source, target>>
    /\ UNCHANGED <<Nns, own, consented, polls>>

Acceptable ==
    /\ attempts < MaxAttempts /\ Latest \notin InProgress \cup {"Succeeded"}
    /\ BothStopped /\ source.ready /\ source.cycles # "few"
    /\ source.nns /\ target.nns /\ ~target.snapshots /\ target.elsewhere

Accept ==
    /\ Acceptable
    /\ attempts' = attempts + 1
    /\ migrations' = [migrations EXCEPT ![attempts + 1] = "Accepted"]

(* Accepted, with or without the answer, or refused.                       *)
Request ==
    /\ At("request")
    /\ \/ /\ Accept
          /\ own' = attempts + 1
          /\ \/ Step("watch") /\ UNCHANGED report
             \/ Conclude("no answer")
       \/ Conclude("refused") /\ UNCHANGED <<Nns, own>>
    /\ UNCHANGED <<source, target, consented, polls>>

AgainForEver ==     \* mutant: the clock is not looked at
    polls' = (polls + 1) % MaxPolls /\ UNCHANGED <<doing, report>>

(* One poll: nothing is known of the pair yet, the query fails, or the     *)
(* state of the attempt comes back; then the clock is looked at.           *)
Again ==
    /\ polls' = polls + 1
    /\ IF polls' > MaxPolls THEN Conclude("timeout") ELSE UNCHANGED <<doing, report>>

Poll ==
    /\ At("watch")
    /\ \/ Latest = "Succeeded" /\ Conclude("succeeded") /\ UNCHANGED polls
       \/ Latest = "Failed" /\ Conclude("failed") /\ UNCHANGED polls
       \/ Latest = "MigratedCanisterDeleted" /\ doing.skip /\ Conclude("left") /\ UNCHANGED polls
       \/ Again
    /\ UNCHANGED <<source, target, Nns, own, consented>>

(* The migration canister at work.                                         *)
Advance ==
    /\ \E next \in {"MigratedCanisterDeleted", "Succeeded", "Failed"} :
        /\ \/ Latest = "Accepted" /\ next # "Succeeded"
           \/ Latest = "MigratedCanisterDeleted" /\ next = "Succeeded"
        /\ migrations' = [migrations EXCEPT ![attempts] = next]
    /\ UNCHANGED <<source, target, attempts, own, consented, doing, polls, report>>

(* Someone else starts or stops the source while it is there, or requests  *)
(* the migration of the pair too.                                          *)
Meddle ==
    /\ Latest \notin InProgress \cup {"Succeeded"}
    /\ source' = [source EXCEPT !.stopped = ~@]
    /\ UNCHANGED <<target, Nns, own, consented, doing, polls, report>>

RequestElsewhere ==
    /\ Accept
    /\ UNCHANGED <<source, target, own, consented, doing, polls, report>>

Command == Confirm \/ Validate \/ CountSnapshots \/ CompareSubnets \/ AddController \/ Request \/ Poll
MigrationNext == BeginMigrate \/ Command \/ Advance \/ Meddle \/ RequestElsewhere

MigrationSpec == MigrationInit /\ [][MigrationNext]_migrationVars /\ WF_<<doing, polls>>(Command)

-----------------------------------------------------------------------------
(* migrate_id.rs exec: what the command reports is so.  Success, failure   *)
(* and a migration that it leaves past the point of no return are those of *)
(* a migration of the pair that is no older than the one it requested, and *)
(* stay true of that migration whatever is requested after it; a command   *)
(* that says it was cancelled or refused has requested none; and a request *)
(* that burns a surplus of cycles had the consent of its own user.         *)
ReportTruthful ==
    /\ report.what = "succeeded" => StateOf(report.of) = "Succeeded"
    /\ report.what = "failed" => StateOf(report.of) = "Failed"
    /\ report.what = "left" => StateOf(report.of) \in {"MigratedCanisterDeleted", "Succeeded"}
    /\ report.what \in {"succeeded", "failed", "left"} => report.of >= own
    /\ report.what \in {"cancelled", "refused"} => own = 0
    /\ own # 0 /\ source.cycles = "surplus" => consented

(* migrate_id.rs exec: a migrate-id that is started ends, whatever becomes *)
(* of the migration and of the queries for it.                             *)
WatchEnds == doing # NotRunning ~> doing = NotRunning
=============================================================================
