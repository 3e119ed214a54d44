-------------------------- MODULE CanisterDeletion --------------------------
(***************************************************************************)
(* canister delete, which first moves the cycles out of the canister by    *)
(* installing a module of its own in it, and canister link, stop, start,   *)
(* install, settings update and top-up: one call at a time, in several     *)
(* terminals, any of which may lose an answer.  With them what the project *)
(* keeps of a canister: its id in the id store and its entry in the        *)
(* network's custom-domains.txt.                                           *)
(***************************************************************************)
EXTENDS Absent, Naturals, Sequences, FiniteSets, Functions

CONSTANTS Canisters,  \* the canisters of the environment
          Ids,        \* the canisters on the network
          Terminals,  \* where commands are run
          MaxFaults   \* bound on lost calls and answers

VARIABLES net,        \* the canisters on the network
          recorded,   \* the id store
          domains,    \* custom-domains.txt: the id behind each friendly name
          waived,     \* ghost: canisters deleted with --no-recover-cycles,
          unseen,     \* deleted by their principal, or gone when they were linked,
          disturbed,  \* whose balance was changed in the midst of its recovery
          overlapped, \* ghost: commands have been run at once
          cmd, faults

deletionVars == <<net, recorded, domains, waived, unseen, disturbed, overlapped, cmd, faults>>

Idle == [at |-> "idle"]
Busy == {t \in Terminals : cmd[t] # Idle}

(* liquid: the freezing threshold leaves the balance to be spent.          *)
DeletionInit ==
    /\ net \in [Ids -> [status : {"running", "stopped"}, module : {"app"},
                        large : BOOLEAN, liquid : BOOLEAN]]
    /\ recorded \in [Canisters -> Ids \cup {None}] /\ IsInjective(Restrict(recorded, {n \in Canisters : recorded[n] # None}))
    /\ domains = recorded
    /\ waived = {} /\ unseen = {} /\ disturbed = {} /\ overlapped = FALSE
    /\ cmd = [t \in Terminals |-> Idle]
    /\ faults = 0

DeletionAssumption == Terminals # {} /\ None \notin Canisters \cup Ids

-----------------------------------------------------------------------------
Free(t) == cmd[t] = Idle
Store == <<recorded, domains>>
Ghosts == <<waived, unseen, disturbed>>
Move(t, at) == cmd' = [cmd EXCEPT ![t].at = at]
End(t) == cmd' = [cmd EXCEPT ![t] = Idle]

(* delete: by principal or by name, with or without the recovery.          *)
BeginDelete(t) ==
    \E id \in Ids, recover \in BOOLEAN : \E n \in {m \in Canisters : recorded[m] = id} \cup {None} :
        /\ Free(t)
        /\ cmd' = [cmd EXCEPT ![t] =
                     [at |-> IF recover THEN "status" ELSE "stop", id |-> id, name |-> n, recover |-> recover]]
        /\ UNCHANGED <<net, Store, Ghosts, faults>>

RecoveryCallsFrozen ==     \* mutant: the freezing threshold is left as it is
    <<"reinstall", "start", "recover", "stop", "delete">>

(* The calls of a delete in their order, what each needs and what it does  *)
(* to the canister.                                                        *)
RecoveryCalls == <<"unfreeze", "reinstall", "start", "recover", "stop", "delete">>

Following(at) ==
    IF at = "delete" THEN "unregister"
    ELSE RecoveryCalls[CHOOSE i \in DOMAIN RecoveryCalls : i > 1 /\ RecoveryCalls[i - 1] = at]

Needs(at, c) ==
    /\ c.status # "gone"
    /\ at = "recover" => c.status = "running" /\ c.module = "recover"
    /\ at = "delete" => c.status = "stopped"

Effect(at, c) ==
    CASE at = "unfreeze" -> [c EXCEPT !.liquid = TRUE]
      [] at = "reinstall" -> [c EXCEPT !.module = "recover"]
      [] at = "start" -> [c EXCEPT !.status = "running"]
      [] at = "recover" -> [c EXCEPT !.large = @ /\ ~c.liquid]
      [] at = "stop" -> [c EXCEPT !.status = "stopped"]
      [] at = "delete" -> [c EXCEPT !.status = "gone"]

(* Only a meaningful balance is worth the recovery.                        *)
Status(t) ==
    LET c == net[cmd[t].id] IN
    /\ cmd[t].at = "status" /\ Needs("status", c)
    /\ Move(t, IF c.large THEN Head(RecoveryCalls) ELSE "stop")
    /\ UNCHANGED <<net, Store, Ghosts, faults>>

(* The call has its effect; the answer may be lost, which ends the delete  *)
(* with an error.  recover_cycles deposits what is liquid, and has nothing *)
(* to recover when nothing is.                                             *)
Call(t) ==
    LET at == cmd[t].at  id == cmd[t].id  c == net[id] IN
    /\ at \in Range(RecoveryCalls)
    /\ Needs(at, c)
    /\ net' = [net EXCEPT ![id] = Effect(at, c)]
    /\ waived' = IF at = "delete" /\ ~cmd[t].recover THEN waived \cup {id} ELSE waived
    /\ unseen' = IF at = "delete" /\ cmd[t].name = None THEN unseen \cup {id} ELSE unseen
    /\ disturbed' = IF at = "recover" /\ c.liquid THEN disturbed \ {id} ELSE disturbed
    /\ \/ Move(t, IF at = "delete" /\ cmd[t].name = None THEN "end" ELSE Following(at)) /\ UNCHANGED faults
       \/ faults < MaxFaults /\ faults' = faults + 1 /\ End(t)
    /\ UNCHANGED Store

(* A call that is refused, or never arrives, or a deposit that fails: the  *)
(* delete ends with an error.                                              *)
CallFails(t) ==
    /\ cmd[t].at \in Range(RecoveryCalls) \cup {"status"}
    /\ \/ ~Needs(cmd[t].at, net[cmd[t].id]) /\ UNCHANGED faults
       \/ Needs(cmd[t].at, net[cmd[t].id]) /\ faults < MaxFaults /\ faults' = faults + 1
    /\ End(t)
    /\ UNCHANGED <<net, Store, Ghosts>>

(* The name's record goes, whatever it holds by now.                       *)
Unregister(t) ==
    /\ cmd[t].at = "unregister"
    /\ recorded' = [recorded EXCEPT ![cmd[t].name] = None]
    /\ Move(t, "domains")
    /\ UNCHANGED <<net, domains, Ghosts, faults>>

(* Best effort, from all that is recorded.                                 *)
UpdateDomains(t) ==
    /\ cmd[t].at = "domains"
    /\ domains' = recorded
    /\ End(t)
    /\ UNCHANGED <<net, recorded, Ghosts, faults>>

EndById(t) == cmd[t].at = "end" /\ End(t) /\ UNCHANGED <<net, Store, Ghosts, faults>>

-----------------------------------------------------------------------------

(* link: the principal must be free in the environment; --force clears the *)
(* name's record, then the id is registered under a name without one.  The *)
(* network is not asked whether there is such a canister.                  *)
Claimable(n, id) == \A m \in Canisters \ {n} : recorded[m] # id

BeginLink(t) ==
    \E n \in Canisters, id \in Ids, force \in BOOLEAN :
        /\ Free(t)
        /\ Claimable(n, id)
        /\ cmd' = [cmd EXCEPT ![t] = [at |-> IF force THEN "clear" ELSE "set", id |-> id, name |-> n]]
        /\ UNCHANGED <<net, Store, Ghosts, faults>>

Clear(t) ==
    /\ cmd[t].at = "clear"
    /\ recorded' = [recorded EXCEPT ![cmd[t].name] = None]
    /\ Move(t, "set")
    /\ UNCHANGED <<net, domains, Ghosts, faults>>

Register(t) ==
    LET n == cmd[t].name  id == cmd[t].id IN
    /\ cmd[t].at = "set"
    /\ recorded' = [recorded EXCEPT ![n] = IF @ = None THEN id ELSE @]
    /\ unseen' = IF recorded[n] = None /\ net[id].status = "gone" THEN unseen \cup {id} ELSE unseen
    /\ End(t)
    /\ UNCHANGED <<net, domains, waived, disturbed, faults>>

(* A delete of the canister is at one of these steps.                      *)
Deleting(id, steps) == \E t \in Terminals : cmd[t].at \in steps /\ cmd[t].id = id

(* Other commands on a canister, by name, which nothing keeps from running *)
(* beside a delete: canister stop and start, a reinstallation; a settings  *)
(* update that reserves the balance again, perhaps after a delete has      *)
(* unfrozen it; and a top-up, perhaps after a delete has emptied it.       *)
Reset(id) ==
    /\ \/ \E at \in {"stop", "start"} : net' = [net EXCEPT ![id] = Effect(at, @)]
       \/ net' = [net EXCEPT ![id].module = "app"]
    /\ UNCHANGED disturbed

Reserve(id) ==
    /\ net' = [net EXCEPT ![id].liquid = FALSE]
    /\ disturbed' = IF Deleting(id, {"reinstall", "start", "recover"}) THEN disturbed \cup {id} ELSE disturbed

TopUp(id) ==
    /\ net' = [net EXCEPT ![id].large = TRUE]
    /\ disturbed' = IF Deleting(id, {"stop", "delete"}) THEN disturbed \cup {id} ELSE disturbed

OtherCommand(t) ==
    \E id \in {recorded[n] : n \in Canisters} \ {None} :
        /\ Free(t) /\ net[id].status # "gone"
        /\ Reset(id) \/ Reserve(id) \/ TopUp(id)
        /\ UNCHANGED <<Store, waived, unseen, cmd, faults>>

DeletionNext ==
    \E t \in Terminals :
        \/ /\ BeginDelete(t) \/ BeginLink(t) \/ OtherCommand(t)
           /\ overlapped' = (overlapped \/ Busy # {})
        \/ /\ \/ Status(t) \/ Call(t) \/ CallFails(t) \/ Unregister(t) \/ UpdateDomains(t) \/ EndById(t)
              \/ Clear(t) \/ Register(t)
           /\ UNCHANGED overlapped

DeletionSpec == DeletionInit /\ [][DeletionNext]_deletionVars

-----------------------------------------------------------------------------
(* recover_cycles.rs, "so the user can retry rather than silently lose     *)
(* cycles": a canister goes with a meaningful balance only if its deletion *)
(* said so, whichever calls fail and whatever else is run at the same      *)
(* time; but for a command that reserves the balance again between the     *)
(* calls that unfreeze and recover it, which the deletion takes for        *)
(* nothing to recover (184-190), or that tops it up once it is recovered.  *)
CyclesKept ==
    \A id \in Ids : net[id].status = "gone" /\ net[id].large => id \in waived \cup disturbed

(* delete.rs, link.rs, context update_custom_domains: with one command at  *)
(* a time and no call lost, a canister that is gone is no longer recorded  *)
(* and no friendly name leads to it, unless it was deleted by principal or *)
(* was linked when it was gone already.                                    *)
RecordedLives ==
    ~overlapped /\ Busy = {} /\ faults = 0 =>
        \A n \in Canisters, id \in Ids \ unseen :
            net[id].status = "gone" => recorded[n] # id /\ domains[n] # id

DeletionSafe == CyclesKept /\ RecordedLives
=============================================================================
