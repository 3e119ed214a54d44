----------------------------- MODULE Telemetry ------------------------------
(***************************************************************************)
(* The telemetry of the CLI: every command appends one record to           *)
(* events.jsonl when it finishes, and now and then one of them rotates the *)
(* file into a batch and spawns a process that posts it.                   *)
(*                                                                         *)
(*   crates/icp-cli/src/telemetry.rs                                       *)
(*   crates/icp-cli/src/main.rs           run                              *)
(*                                                                         *)
(* Commands and senders share the telemetry directory and nothing locks    *)
(* it.  A file is represented by its inode, so that renaming events.jsonl  *)
(* changes what its name leads to and not where an open handle writes; the *)
(* inode stands for the uuid of the batch as well.  All times are on one   *)
(* coarse clock.                                                           *)
(***************************************************************************)
EXTENDS Absent, Naturals, Sequences, FiniteSets

CONSTANTS
    Invocations,    \* commands that can finish at the same time
    MaxRecords,     \* bound: invocations in all
    MaxTime,        \* bound on the clock
    Interval,       \* random_send_interval, in ticks
    Guard,          \* SEND_GUARD_SECS, in ticks
    MaxAge,         \* MAX_BATCH_AGE_SECS, in ticks
    SizeLimit,      \* MAX_EVENTS_SIZE_BYTES, in records
    MaxBatches      \* MAX_BATCH_COUNT

Files == 1 .. MaxRecords

TelemetryAssumption == MaxRecords \in Nat /\ MaxBatches \in Nat /\ MaxAge \in Nat

VARIABLES
    now,        \* the clock
    began,      \* invocations so far; the number of the last record
    file,       \* inode -> [name, time, records, tried]
    next,       \* the time in next-send-time; None if absent or unreadable
    recording,  \* command -> its step, its record, the inode it holds, the
                \* batches it has yet to remove
    sender,     \* inode -> the step of the process that sends it
    server,     \* what the endpoint accepted: <<batch, sequence, record>>
    logged,     \* ghost: inode -> the records that were in it when it was rotated
    crowded     \* ghost: the batches beside which there have been MaxBatches others,
                \* none of them older

ghosts == <<logged, crowded>>
telemetryVars == <<now, began, file, next, recording, sender, server, ghosts>>

Named(name) == {f \in Files : file[f].name = name}
Fresh(f) == file[f].name = "unused" /\ \A g \in Named("unused") : f <= g
Idle == [at |-> "idle", record |-> None, holds |-> None, old |-> {}, extra |-> {}]
Doing(c, step) == recording[c].at = step
GoOn(c, step) == recording' = [recording EXCEPT ![c].at = step]
Done(c) == recording' = [recording EXCEPT ![c] = Idle]

TelemetryInit ==
    /\ now = 0 /\ began = 0
    /\ file = [f \in Files |-> [name |-> "unused", time |-> 0, records |-> <<>>,
                                tried |-> FALSE]]
    /\ next \in {None, 0}
    /\ recording = [c \in Invocations |-> Idle]
    /\ sender = [f \in Files |-> [at |-> "none", records |-> <<>>]]
    /\ server = {}
    /\ logged = [f \in Files |-> 0] /\ crowded = {}

Tick ==
    /\ now < MaxTime
    /\ now' = now + 1
    /\ UNCHANGED <<began, file, next, recording, sender, server, ghosts>>

----------------------------------------------------------------------------
(* A command finishes: append_record, then maybe_send.                     *)

Finish(c) ==
    /\ Doing(c, "idle") /\ began < MaxRecords
    /\ began' = began + 1
    /\ recording' = [recording EXCEPT ![c] = [@ EXCEPT !.at = "open", !.record = began + 1]]
    /\ UNCHANGED <<now, file, next, sender, server, ghosts>>

Open(c) ==
    /\ Doing(c, "open")
    /\ \E f \in Files :
        /\ IF Named("events") = {} THEN Fresh(f) ELSE f \in Named("events")
        /\ file' = [file EXCEPT ![f].name = "events"]
        /\ recording' = [recording EXCEPT ![c] = [@ EXCEPT !.at = "write", !.holds = f]]
    /\ UNCHANGED <<now, began, next, sender, server, ghosts>>

Write(c) ==
    /\ Doing(c, "write")
    /\ file' = [file EXCEPT ![recording[c].holds].records = Append(@, recording[c].record)]
    /\ GoOn(c, "decide")
    /\ UNCHANGED <<now, began, next, sender, server, ghosts>>

(* should_send.  The size is that of the file under its name; without a    *)
(* time that can be read, one is written and nothing is sent.              *)
Big == \E f \in Named("events") : Len(file[f].records) >= SizeLimit

Due == Big \/ (next # None /\ now >= next)

Decide(c) ==
    /\ Doing(c, "decide")
    /\ IF Due THEN GoOn(c, "guard") /\ UNCHANGED next
       ELSE /\ Done(c)
            /\ next' = IF next # None THEN next ELSE now + Interval
    /\ UNCHANGED <<now, began, file, sender, server, ghosts>>

GuardSlot(c) ==
    /\ Doing(c, "guard")
    /\ IF Named("events") = {} THEN Done(c) /\ UNCHANGED next
       ELSE GoOn(c, "rotate") /\ next' = now + Guard
    /\ UNCHANGED <<now, began, file, sender, server, ghosts>>

(* A file becomes a batch, beside those that there are.                    *)
BecomesBatch(f) ==
    LET times == [g \in Files |-> IF g = f THEN now ELSE file[g].time] IN
    /\ logged' = [logged EXCEPT ![f] = Len(file[f].records)]
    /\ crowded' = crowded \cup {g \in Named("batch") \cup {f} :
                     Cardinality({h \in (Named("batch") \cup {f}) \ {g} : times[g] <= times[h]}) >= MaxBatches}

RotateCopies(c) ==     \* mutant: the batch is a copy, and the log is left where it is
    /\ Doing(c, "rotate")
    /\ \E f \in Named("events"), g \in Files :
        /\ Fresh(g)
        /\ file' = [file EXCEPT ![g] = [file[f] EXCEPT !.name = "batch", !.time = now]]
        /\ recording' = [recording EXCEPT ![c] = [@ EXCEPT !.at = "cleanup", !.holds = g]]
        /\ BecomesBatch(g)
    /\ UNCHANGED <<now, began, next, sender, server>>

(* The rename takes whatever is the log by now, also from under a command  *)
(* that has it open.                                                       *)
Rotate(c) ==
    /\ Doing(c, "rotate")
    /\ \/ /\ Named("events") = {}
          /\ Done(c) /\ UNCHANGED <<file, ghosts>>
       \/ \E f \in Named("events") :
            /\ file' = [file EXCEPT ![f] = [@ EXCEPT !.name = "batch", !.time = now]]
            /\ recording' = [recording EXCEPT ![c] = [@ EXCEPT !.at = "cleanup", !.holds = f]]
            /\ BecomesBatch(f)
    /\ UNCHANGED <<now, began, next, sender, server>>

(* cleanup_stale_batches lists the batches.  Those too old are removed,    *)
(* then the oldest of the others if they are too many (those of one second *)
(* in the order of their uuids), one after the other and whatever other    *)
(* commands and senders have done to them since.                           *)
TooOld(f) == file[f].time + MaxAge < now

Surplus(kept) ==
    {out \in SUBSET kept :
        /\ Cardinality(out) = (IF Cardinality(kept) > MaxBatches
                               THEN Cardinality(kept) - MaxBatches ELSE 0)
        /\ \A f \in out, g \in kept \ out : file[f].time <= file[g].time}

Cleanup(c) ==
    /\ Doing(c, "cleanup")
    /\ LET old == {f \in Named("batch") : TooOld(f)}
       IN \E out \in Surplus(Named("batch") \ old) :
            recording' = [recording EXCEPT ![c] = [@ EXCEPT !.at = "remove", !.old = old, !.extra = out]]
    /\ UNCHANGED <<now, began, file, next, sender, server, ghosts>>

First(c) ==
    LET old == recording[c].old  extra == recording[c].extra
    IN IF old # {} THEN old ELSE {f \in extra : \A g \in extra : file[f].time <= file[g].time}

RemoveStale(c) ==
    /\ Doing(c, "remove")
    /\ \E f \in First(c) :
        /\ file' = [file EXCEPT ![f].name = "gone"]
        /\ recording' = [recording EXCEPT ![c] = [@ EXCEPT !.old = recording[c].old \ {f},
                                                  !.extra = recording[c].extra \ {f}]]
    /\ UNCHANGED <<now, began, next, sender, server, ghosts>>

Cleaned(c) ==
    /\ Doing(c, "remove") /\ First(c) = {}
    /\ GoOn(c, "spawn")
    /\ UNCHANGED <<now, began, file, next, sender, server, ghosts>>

SpawnSender(c) ==
    /\ Doing(c, "spawn")
    /\ sender' = [sender EXCEPT ![recording[c].holds].at = "read"]
    /\ Done(c)
    /\ UNCHANGED <<now, began, file, next, server, ghosts>>

(* The rename or the spawn fails, or the command is killed: anywhere.      *)
EndsEarly(c) ==
    /\ recording[c].at # "idle"
    /\ Done(c)
    /\ UNCHANGED <<now, began, file, next, sender, server, ghosts>>

----------------------------------------------------------------------------
(* handle_send_batch, in the process of its own.                           *)

Read(f) ==
    /\ sender[f].at = "read"
    /\ sender' = [sender EXCEPT ![f] =
           IF file[f].name = "batch" THEN [at |-> "post", records |-> file[f].records]
           ELSE [at |-> "none", records |-> <<>>]]
    /\ UNCHANGED <<now, began, file, next, recording, server, ghosts>>

(* add_batch_metadata numbers the lines and stamps them with the batch.    *)
Payload(f) == {<<f, i, sender[f].records[i]>> : i \in DOMAIN sender[f].records}

(* The endpoint may take the batch or not, and its answer may come or not. *)
Post(f) ==
    /\ sender[f].at = "post"
    /\ \E taken \in BOOLEAN, answered \in BOOLEAN :
        /\ server' = IF taken THEN server \cup Payload(f) ELSE server
        /\ sender' = [sender EXCEPT ![f].at =
               IF taken /\ answered THEN "accepted" ELSE "failed"]
    /\ UNCHANGED <<now, began, file, next, recording, ghosts>>

RemoveBatch(f) ==
    /\ sender[f].at = "accepted"
    /\ file' = [file EXCEPT ![f].name = "gone"]
    /\ next' = now + Interval
    /\ sender' = [sender EXCEPT ![f] = [at |-> "none", records |-> <<>>]]
    /\ UNCHANGED <<now, began, recording, server, ghosts>>

GiveUpRemoves(f) ==     \* mutant: the batch goes whatever the endpoint answered
    /\ sender[f].at = "failed"
    /\ file' = [file EXCEPT ![f] = [@ EXCEPT !.name = "gone", !.tried = TRUE]]
    /\ sender' = [sender EXCEPT ![f] = [at |-> "none", records |-> <<>>]]
    /\ UNCHANGED <<now, began, next, recording, server, ghosts>>

GiveUp(f) ==
    /\ sender[f].at = "failed"
    /\ file' = [file EXCEPT ![f].tried = TRUE]
    /\ sender' = [sender EXCEPT ![f] = [at |-> "none", records |-> <<>>]]
    /\ UNCHANGED <<now, began, next, recording, server, ghosts>>

Command(c) ==
    Finish(c) \/ Open(c) \/ Write(c) \/ Decide(c) \/ GuardSlot(c) \/ Rotate(c)
    \/ Cleanup(c) \/ RemoveStale(c) \/ Cleaned(c) \/ SpawnSender(c) \/ EndsEarly(c)
Sending(f) == Read(f) \/ Post(f) \/ RemoveBatch(f) \/ GiveUp(f)

TelemetryNext == Tick \/ (\E c \in Invocations : Command(c)) \/ (\E f \in Files : Sending(f))

TelemetrySpec == TelemetryInit /\ [][TelemetryNext]_telemetryVars

----------------------------------------------------------------------------
(* A record that was in the log when it was rotated leaves the disk only   *)
(* if the endpoint took it, its batch was too old, or there had been       *)
(* MaxBatches others that were not older ("records are kept locally"):     *)
(* whatever commands and senders do between a listing and its removals,    *)
(* or between reading a batch and removing it.                             *)
KeptUntilTaken ==
    [][\A f \in Named("batch") :
          file'[f].name = "gone" =>
              \/ \A i \in 1 .. logged[f] : \E t \in server : t[3] = file[f].records[i]
              \/ TooOld(f)
              \/ f \in crowded]_telemetryVars

(* The endpoint never takes one record under two batches or numbers: it    *)
(* drops repeats by batch and sequence, so it would count such a record    *)
(* twice.                                                                  *)
CountedOnce == \A s, t \in server : s[3] = t[3] => s = t

(* A batch whose sending failed is sent again when the next one is: "On    *)
(* failure the batch file remains for retry on the next trigger"           *)
(* (handle_send_batch), "retried later" (docs/telemetry.md).               *)
RetriedOnTrigger ==
    [][\A f \in Named("batch") :
          /\ file[f].tried
          /\ \E g \in Files : sender[g].at # "read" /\ sender'[g].at = "read"
          => sender'[f].at # "none"]_telemetryVars
=============================================================================
