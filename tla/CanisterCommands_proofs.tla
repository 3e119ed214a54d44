---------------------- MODULE CanisterCommands_proofs -----------------------
(* Commands on a canister, for any canisters, users and terminals.  Where it *)
(* goes, nothing is lost that nobody agreed to lose: canister delete, with   *)
(* commands that overlap and any number of lost calls, and migrate-id, for   *)
(* any number of attempts and polls.  While it stays, someone controls it    *)
(* and a deploy leaves it as declared, and a command talks to the network    *)
(* its id is of.                                                             *)
EXTENDS CanisterDeletion, IdMigration, CanisterSettings, ContextSelection, TLAPS

Canister == [status : {"running", "stopped", "gone"}, module : {"app", "recover"},
             large : BOOLEAN, liquid : BOOLEAN]

Calls == {"unfreeze", "reinstall", "start", "recover", "stop", "delete"}
Deletes == [at : Calls \cup {"status", "unregister", "domains", "end"}, id : Ids,
            name : Canisters \cup {None}, recover : BOOLEAN]
Links == [at : {"clear", "set"}, id : Ids, name : Canisters]

Typed ==
    /\ net \in [Ids -> Canister]
    /\ recorded \in [Canisters -> Ids \cup {None}]
    /\ waived \subseteq Ids /\ disturbed \subseteq Ids
    /\ cmd \in [Terminals -> {Idle} \cup Deletes \cup Links]

(* Between the call that lowers the freezing threshold and the deposit,     *)
(* the whole balance of the canister can be spent, if nobody reserves it.   *)
Spendable ==
    \A t \in Terminals :
        cmd[t].at \in {"reinstall", "start", "recover"} => net[cmd[t].id].liquid \/ cmd[t].id \in disturbed

(* A delete that recovers comes to its last calls only with a canister that *)
(* has nothing left to lose, unless the others are to blame.                *)
Emptied ==
    \A t \in Terminals :
        cmd[t].at \in {"stop", "delete"} /\ cmd[t].recover => ~net[cmd[t].id].large \/ cmd[t].id \in disturbed

IInv == Typed /\ Spendable /\ Emptied /\ CyclesKept

-----------------------------------------------------------------------------
(* The calls of a delete, one after the other.                              *)
LEMMA CallsInOrder ==
    /\ DOMAIN RecoveryCalls = 1 .. 6
    /\ RecoveryCalls[1] = "unfreeze" /\ RecoveryCalls[2] = "reinstall" /\ RecoveryCalls[3] = "start"
    /\ RecoveryCalls[4] = "recover" /\ RecoveryCalls[5] = "stop" /\ RecoveryCalls[6] = "delete"
BY DEF RecoveryCalls

LEMMA CallsAre == Range(RecoveryCalls) = Calls /\ Head(RecoveryCalls) = "unfreeze"
<1>1. \A i \in 1 .. 6 : i \in {1, 2, 3, 4, 5, 6}
  OBVIOUS
<1>2. Range(RecoveryCalls) = Calls
  BY <1>1, CallsInOrder DEF Range, Calls
<1>3. Head(RecoveryCalls) = "unfreeze"
  BY DEF RecoveryCalls
<1> QED BY <1>2, <1>3

LEMMA FollowingIs ==
    /\ Following("unfreeze") = "reinstall" /\ Following("reinstall") = "start"
    /\ Following("start") = "recover" /\ Following("recover") = "stop"
    /\ Following("stop") = "delete" /\ Following("delete") = "unregister"
<1>1. ASSUME NEW n \in 1 .. 5 PROVE Following(RecoveryCalls[n]) = RecoveryCalls[n + 1]
  <2> DEFINE P(i) == i > 1 /\ RecoveryCalls[i - 1] = RecoveryCalls[n]
  <2>1. RecoveryCalls[n] # "delete"
    BY <1>1, CallsInOrder
  <2>2. n + 1 \in DOMAIN RecoveryCalls /\ P(n + 1)
    BY CallsInOrder
  <2>3. \A i \in DOMAIN RecoveryCalls : P(i) => i = n + 1
    BY CallsInOrder
  <2>4. (CHOOSE i \in DOMAIN RecoveryCalls : P(i)) = n + 1
    <3> HIDE DEF P
    <3> QED BY <2>2, <2>3
  <2> QED BY <2>1, <2>4 DEF Following
<1>2. Following("delete") = "unregister"
  BY DEF Following
<1> QED BY <1>1, <1>2, CallsInOrder

(* What a call does to a canister.                                          *)
LEMMA EffectIs ==
    ASSUME NEW c \in Canister, NEW at \in Calls
    PROVE  /\ Effect(at, c) \in Canister
           /\ Effect(at, c).large => c.large
           /\ c.liquid => Effect(at, c).liquid
           /\ at = "unfreeze" => Effect(at, c).liquid
           /\ at = "recover" /\ c.liquid => ~Effect(at, c).large
           /\ Effect(at, c).status = "gone" => at = "delete" \/ c.status = "gone"
BY DEF Effect, Canister, Calls

LEMMA InitIInv == DeletionInit => IInv
BY DEF DeletionInit, IInv, Typed, Spendable, Emptied, CyclesKept, Canister, Idle

-----------------------------------------------------------------------------
(* What a terminal is about to do, without an effect on the canisters.      *)
LEMMA CommandKeeps ==
    ASSUME IInv, NEW t \in Terminals, NEW c \in {Idle} \cup Deletes \cup Links,
           cmd' = [cmd EXCEPT ![t] = c], UNCHANGED <<net, waived, disturbed>>,
           recorded' \in [Canisters -> Ids \cup {None}],
           c.at \in {"reinstall", "start", "recover"} => net[c.id].liquid \/ c.id \in disturbed,
           c.at \in {"stop", "delete"} /\ c.recover => ~net[c.id].large \/ c.id \in disturbed
    PROVE  IInv'
<1>1. cmd \in [Terminals -> {Idle} \cup Deletes \cup Links]
  BY DEF IInv, Typed
<1>2. cmd'[t] = c /\ \A s \in Terminals \ {t} : cmd'[s] = cmd[s]
  BY <1>1
<1>3. Typed'
  BY <1>1 DEF IInv, Typed
<1>4. Spendable'
  BY <1>2 DEF IInv, Spendable
<1>5. Emptied'
  BY <1>2 DEF IInv, Emptied
<1>6. CyclesKept'
  BY DEF IInv, CyclesKept
<1> QED BY <1>3, <1>4, <1>5, <1>6 DEF IInv

(* A command ends, with or without having changed what is recorded.         *)
LEMMA EndKeeps ==
    ASSUME IInv, NEW t \in Terminals, End(t), UNCHANGED <<net, waived, disturbed>>,
           recorded' \in [Canisters -> Ids \cup {None}]
    PROVE  IInv'
BY CommandKeeps DEF End, Idle

(* It moves on within a delete or a link.                                   *)
LEMMA MoveStays ==
    ASSUME IInv, NEW t \in Terminals, cmd[t] \in Deletes, NEW at \in Calls \cup {"unregister", "domains", "end"}
    PROVE  /\ [cmd[t] EXCEPT !.at = at] \in Deletes
           /\ [cmd[t] EXCEPT !.at = at].at = at
           /\ [cmd[t] EXCEPT !.at = at].id = cmd[t].id
           /\ [cmd[t] EXCEPT !.at = at].recover = cmd[t].recover
           /\ Move(t, at) => cmd' = [cmd EXCEPT ![t] = [cmd[t] EXCEPT !.at = at]]
BY DEF Deletes, Calls, Move

LEMMA DeleteAt ==
    ASSUME IInv, NEW t \in Terminals, cmd[t].at \in Calls \cup {"status", "unregister", "domains", "end"}
    PROVE  /\ cmd[t] \in Deletes
           /\ net[cmd[t].id] \in Canister
<1>1. cmd[t] \in {Idle} \cup Deletes \cup Links
  BY DEF IInv, Typed
<1>2. cmd[t] \in Deletes
  BY <1>1 DEF Idle, Links, Calls
<1> QED BY <1>2 DEF IInv, Typed, Deletes

LEMMA BeginDeleteKeeps == ASSUME IInv, NEW t \in Terminals, BeginDelete(t) PROVE IInv'
<1>1. PICK id \in Ids, recover \in BOOLEAN, n \in Canisters \cup {None} :
        /\ cmd' = [cmd EXCEPT ![t] =
                     [at |-> IF recover THEN "status" ELSE "stop", id |-> id, name |-> n, recover |-> recover]]
        /\ UNCHANGED <<net, Store, Ghosts, faults>>
  BY DEF BeginDelete
<1> DEFINE c == [at |-> IF recover THEN "status" ELSE "stop", id |-> id, name |-> n, recover |-> recover]
<1>2. c \in Deletes
  BY DEF Deletes, Calls
<1>3. c.at \in {"status", "stop"} /\ (c.at = "stop" => ~c.recover)
  OBVIOUS
<1>4. UNCHANGED <<recorded, waived, net, disturbed>>
  BY <1>1 DEF Store, Ghosts
<1>5. cmd' = [cmd EXCEPT ![t] = c]
  BY <1>1
<1> HIDE DEF c
<1> QED BY <1>2, <1>3, <1>4, <1>5, CommandKeeps DEF IInv, Typed

LEMMA StatusKeeps == ASSUME IInv, NEW t \in Terminals, Status(t) PROVE IInv'
<1> DEFINE at == IF net[cmd[t].id].large THEN "unfreeze" ELSE "stop"
           c == [cmd[t] EXCEPT !.at = at]
<1>1. cmd[t] \in Deletes
  BY DeleteAt DEF Status
<1>2. Move(t, at) /\ UNCHANGED <<net, waived, disturbed, recorded>>
  BY CallsAre DEF Status, Store, Ghosts
<1>3. at \in Calls \cup {"unregister", "domains", "end"}
  BY DEF Calls
<1>4. c \in Deletes /\ c.at = at /\ c.id = cmd[t].id /\ cmd' = [cmd EXCEPT ![t] = c]
  BY <1>1, <1>2, <1>3, MoveStays
<1>5. c.at \in {"stop", "delete"} => ~net[c.id].large
  BY <1>4
<1>6. c.at \notin {"reinstall", "start", "recover"}
  BY <1>4
<1> HIDE DEF at, c
<1> QED BY <1>2, <1>4, <1>5, <1>6, CommandKeeps DEF IInv, Typed

(* A call changes one canister, and takes its delete to the next call or to *)
(* an end.                                                                  *)
LEMMA CallKeeps == ASSUME IInv, NEW t \in Terminals, Call(t) PROVE IInv'
<1> DEFINE at == cmd[t].at
           id == cmd[t].id
           next == IF at = "delete" /\ cmd[t].name = None THEN "end" ELSE Following(at)
           c == IF Move(t, next) THEN [cmd[t] EXCEPT !.at = next] ELSE Idle
<1>1. at \in Calls /\ cmd[t] \in Deletes /\ id \in Ids
  <2>1. at \in Calls
    BY CallsAre DEF Call
  <2> QED BY <2>1, DeleteAt DEF Deletes
<1>2. net[id] \in Canister /\ net \in [Ids -> Canister] /\ cmd \in [Terminals -> {Idle} \cup Deletes \cup Links]
  BY <1>1 DEF IInv, Typed
<1>3. /\ net' = [net EXCEPT ![id] = Effect(at, net[id])]
      /\ waived' = IF at = "delete" /\ ~cmd[t].recover THEN waived \cup {id} ELSE waived
      /\ disturbed' = IF at = "recover" /\ net[id].liquid THEN disturbed \ {id} ELSE disturbed
      /\ Move(t, next) \/ End(t)
      /\ recorded' = recorded
  BY DEF Call, Store
<1>4. next \in Calls \cup {"unregister", "domains", "end"}
  BY <1>1, FollowingIs DEF Calls
<1>5. cmd' = [cmd EXCEPT ![t] = c] /\ c \in {Idle} \cup Deletes
  BY <1>1, <1>3, <1>4, MoveStays DEF End
<1>6. c # Idle => c.at = next /\ c.id = id /\ c.recover = cmd[t].recover
  BY <1>1, <1>4, MoveStays
<1>7. /\ next \in {"reinstall", "start", "recover"} => at \in {"unfreeze", "reinstall", "start"}
      /\ next = "stop" => at = "recover"
      /\ next = "delete" => at = "stop"
  BY <1>1, FollowingIs DEF Calls
<1>8. cmd'[t] = c /\ \A s \in Terminals \ {t} : cmd'[s] = cmd[s]
  BY <1>2, <1>5
<1>9. /\ net'[id].large => net[id].large
      /\ net[id].liquid => net'[id].liquid
      /\ at = "unfreeze" => net'[id].liquid
      /\ at = "recover" /\ net[id].liquid => ~net'[id].large
      /\ net'[id].status = "gone" => at = "delete" \/ net[id].status = "gone"
  <2>1. net'[id] = Effect(at, net[id])
    BY <1>1, <1>2, <1>3
  <2> QED BY <1>1, <1>2, <2>1, EffectIs
<1>10. \A j \in Ids \ {id} : net'[j] = net[j]
  BY <1>2, <1>3
<1>11. net' \in [Ids -> Canister]
  BY <1>1, <1>2, <1>3, EffectIs
<1>12. \A j \in Ids : (net'[j].large => net[j].large) /\ (net[j].liquid => net'[j].liquid)
  <2> SUFFICES ASSUME NEW j \in Ids PROVE (net'[j].large => net[j].large) /\ (net[j].liquid => net'[j].liquid)
    OBVIOUS
  <2>1. CASE j = id
    BY <1>9, <2>1
  <2>2. CASE j # id
    BY <1>10, <2>2
  <2> QED BY <2>1, <2>2
<1>17. \A j \in disturbed \ disturbed' : j = id /\ at = "recover" /\ net'[j].liquid /\ ~net'[j].large
  BY <1>3, <1>9
<1> HIDE DEF at, id, next, c
<1>13. Typed'
  BY <1>1, <1>2, <1>3, <1>5, <1>11 DEF IInv, Typed
<1>14. Spendable'
  <2> SUFFICES ASSUME NEW s \in Terminals, cmd'[s].at \in {"reinstall", "start", "recover"}
               PROVE  net'[cmd'[s].id].liquid \/ cmd'[s].id \in disturbed'
    BY DEF Spendable
  <2>1. CASE s # t
    <3>1. cmd'[s] = cmd[s] /\ (net[cmd[s].id].liquid \/ cmd[s].id \in disturbed)
      BY <1>8, <2>1 DEF IInv, Spendable
    <3>2. cmd[s].id \in Ids
      BY <1>2, <3>1 DEF Idle, Links, Deletes
    <3> QED BY <3>1, <3>2, <1>12, <1>17
  <2>2. CASE s = t
    <3>1. c # Idle /\ c = cmd'[t]
      BY <1>8, <2>2 DEF Idle
    <3>2. next \in {"reinstall", "start", "recover"} /\ cmd'[t].id = id
      BY <1>6, <3>1, <2>2
    <3>3. at = "unfreeze" \/ net[id].liquid \/ id \in disturbed
      BY <1>7, <3>2 DEF IInv, Spendable, at, id
    <3>4. at # "recover"
      BY <1>7, <3>2
    <3> QED BY <1>9, <1>17, <3>2, <3>3, <3>4, <2>2
  <2> QED BY <2>1, <2>2
<1>15. Emptied'
  <2> SUFFICES ASSUME NEW s \in Terminals, cmd'[s].at \in {"stop", "delete"}, cmd'[s].recover
               PROVE  ~net'[cmd'[s].id].large \/ cmd'[s].id \in disturbed'
    BY DEF Emptied
  <2>1. CASE s # t
    <3>1. cmd'[s] = cmd[s] /\ (~net[cmd[s].id].large \/ cmd[s].id \in disturbed)
      BY <1>8, <2>1 DEF IInv, Emptied
    <3>2. cmd[s].id \in Ids
      BY <1>2, <3>1 DEF Idle, Links, Deletes
    <3> QED BY <3>1, <3>2, <1>12, <1>17
  <2>2. CASE s = t
    <3>1. c # Idle /\ c = cmd'[t]
      BY <1>8, <2>2 DEF Idle
    <3>2. next \in {"stop", "delete"} /\ cmd'[t].id = id /\ cmd[t].recover
      BY <1>6, <3>1, <2>2
    <3>3. (at = "recover" /\ net[id].liquid) \/ ~net[id].large \/ id \in disturbed
      BY <1>7, <3>2 DEF IInv, Spendable, Emptied, at, id
    <3>4. ~net'[id].large \/ id \in disturbed'
      <4>1. CASE at = "recover" /\ net[id].liquid
        BY <1>9, <4>1
      <4>2. CASE ~net[id].large
        BY <1>9, <4>2
      <4>3. CASE id \in disturbed
        BY <1>17, <4>3
      <4> QED BY <3>3, <4>1, <4>2, <4>3
    <3> QED BY <3>2, <3>4, <2>2
  <2> QED BY <2>1, <2>2
<1>16. CyclesKept'
  <2> SUFFICES ASSUME NEW j \in Ids, net'[j].status = "gone", net'[j].large
               PROVE  j \in waived' \cup disturbed'
    BY DEF CyclesKept
  <2>1. CASE net[j].status = "gone"
    BY <1>3, <1>12, <1>17, <2>1 DEF IInv, CyclesKept
  <2>2. CASE net[j].status # "gone"
    <3>1. j = id /\ at = "delete"
      BY <1>9, <1>10, <2>2
    <3>2. net[id].large
      BY <3>1, <1>12
    <3>3. ~cmd[t].recover \/ id \in disturbed
      BY <3>1, <3>2 DEF IInv, Emptied, at, id
    <3> QED BY <3>1, <3>3, <1>3
  <2> QED BY <2>1, <2>2
<1> QED BY <1>13, <1>14, <1>15, <1>16 DEF IInv

-----------------------------------------------------------------------------
LEMMA CallFailsKeeps == ASSUME IInv, NEW t \in Terminals, CallFails(t) PROVE IInv'
BY EndKeeps DEF CallFails, Store, Ghosts, IInv, Typed

LEMMA UnregisterKeeps == ASSUME IInv, NEW t \in Terminals, Unregister(t) PROVE IInv'
<1> DEFINE c == [cmd[t] EXCEPT !.at = "domains"]
<1>1. cmd[t] \in Deletes
  BY DeleteAt DEF Unregister
<1>2. c \in Deletes /\ c.at = "domains" /\ cmd' = [cmd EXCEPT ![t] = c]
  BY <1>1, MoveStays DEF Unregister
<1>3. UNCHANGED <<net, waived, disturbed>> /\ recorded' \in [Canisters -> Ids \cup {None}]
  BY DEF Unregister, Ghosts, IInv, Typed
<1> HIDE DEF c
<1> QED BY <1>2, <1>3, CommandKeeps

LEMMA UpdateDomainsKeeps == ASSUME IInv, NEW t \in Terminals, UpdateDomains(t) PROVE IInv'
BY EndKeeps DEF UpdateDomains, Ghosts, IInv, Typed

LEMMA EndByIdKeeps == ASSUME IInv, NEW t \in Terminals, EndById(t) PROVE IInv'
BY EndKeeps DEF EndById, Ghosts, Store, IInv, Typed

LEMMA LinkKeeps ==
    ASSUME IInv, NEW t \in Terminals, BeginLink(t) \/ Clear(t) \/ Register(t)
    PROVE  IInv'
<1>1. CASE BeginLink(t)
  <2>1. PICK n \in Canisters, id \in Ids, force \in BOOLEAN :
          /\ cmd' = [cmd EXCEPT ![t] = [at |-> IF force THEN "clear" ELSE "set", id |-> id, name |-> n]]
          /\ UNCHANGED <<net, Store, Ghosts, faults>>
    BY <1>1 DEF BeginLink
  <2> DEFINE c == [at |-> IF force THEN "clear" ELSE "set", id |-> id, name |-> n]
  <2>2. c \in Links /\ c.at \in {"clear", "set"} /\ cmd' = [cmd EXCEPT ![t] = c]
    BY <2>1 DEF Links
  <2>3. UNCHANGED <<net, waived, disturbed, recorded>>
    BY <2>1 DEF Store, Ghosts
  <2> HIDE DEF c
  <2> QED BY <2>2, <2>3, CommandKeeps DEF IInv, Typed
<1>2. CASE Clear(t)
  <2> DEFINE c == [cmd[t] EXCEPT !.at = "set"]
  <2>1. cmd[t] \in {Idle} \cup Deletes \cup Links /\ cmd[t].at = "clear"
    BY <1>2 DEF Clear, IInv, Typed
  <2>2. cmd[t] \in Links
    BY <2>1 DEF Idle, Deletes, Calls
  <2>3. c \in Links /\ c.at = "set" /\ cmd' = [cmd EXCEPT ![t] = c]
    BY <1>2, <2>2 DEF Clear, Move, Links
  <2>4. UNCHANGED <<net, waived, disturbed>> /\ recorded' \in [Canisters -> Ids \cup {None}]
    BY <1>2 DEF Clear, Ghosts, IInv, Typed
  <2> HIDE DEF c
  <2> QED BY <2>3, <2>4, CommandKeeps
<1>3. CASE Register(t)
  <2>1. cmd[t] \in {Idle} \cup Deletes \cup Links /\ cmd[t].at = "set"
    BY <1>3 DEF Register, IInv, Typed
  <2>2. cmd[t].id \in Ids
    BY <2>1 DEF Idle, Deletes, Links, Calls
  <2>3. recorded \in [Canisters -> Ids \cup {None}]
    BY DEF IInv, Typed
  <2>4. recorded' = [recorded EXCEPT ![cmd[t].name] = IF recorded[cmd[t].name] = None THEN cmd[t].id ELSE recorded[cmd[t].name]]
    BY <1>3 DEF Register
  <2>5. cmd[t].name \in Canisters
    BY <2>1 DEF Idle, Deletes, Links, Calls
  <2>6. UNCHANGED <<net, waived, disturbed>> /\ recorded' \in [Canisters -> Ids \cup {None}]
    BY <1>3, <2>2, <2>3, <2>4, <2>5 DEF Register, Ghosts
  <2> QED BY <1>3, <2>6, EndKeeps DEF Register
<1> QED BY <1>1, <1>2, <1>3

(* Others may do what they like to a canister: what they reserve or add too *)
(* late for a delete is accounted for.                                      *)
LEMMA OtherIs ==
    ASSUME IInv, NEW t \in Terminals, OtherCommand(t)
    PROVE  \E id \in Ids :
              /\ net[id].status # "gone" /\ (Reset(id) \/ Reserve(id) \/ TopUp(id))
              /\ cmd[t] = Idle /\ UNCHANGED <<recorded, domains, waived, unseen, cmd, faults>>
BY DEF OtherCommand, Free, Store, IInv, Typed

LEMMA OtherEffect ==
    ASSUME IInv, NEW id \in Ids, net[id].status # "gone", Reset(id) \/ Reserve(id) \/ TopUp(id)
    PROVE  /\ net' \in [Ids -> Canister] /\ disturbed' \subseteq Ids /\ disturbed \subseteq disturbed'
           /\ \A j \in Ids : net'[j].status = "gone" => net[j].status = "gone"
           /\ \A j \in Ids \ {id} : net'[j] = net[j]
           /\ net[id].liquid => net'[id].liquid \/ ~Deleting(id, {"reinstall", "start", "recover"}) \/ id \in disturbed'
           /\ ~net[id].large => ~net'[id].large \/ ~Deleting(id, {"stop", "delete"}) \/ id \in disturbed'
<1>1. net[id] \in Canister /\ net \in [Ids -> Canister] /\ disturbed \subseteq Ids
  BY DEF IInv, Typed
<1>2. CASE Reset(id)
  <2>1. PICK c \in Canister :
          /\ net' = [net EXCEPT ![id] = c]
          /\ (c.large => net[id].large) /\ (net[id].liquid => c.liquid) /\ c.status # "gone"
    <3>1. ASSUME NEW at \in {"stop", "start"}, net' = [net EXCEPT ![id] = Effect(at, net[id])]
          PROVE  \E c \in Canister :
                    /\ net' = [net EXCEPT ![id] = c]
                    /\ (c.large => net[id].large) /\ (net[id].liquid => c.liquid) /\ c.status # "gone"
      <4>1. at \in Calls /\ at # "delete"
        BY <3>1 DEF Calls
      <4> QED BY <1>1, <3>1, <4>1, EffectIs
    <3>2. CASE net' = [net EXCEPT ![id].module = "app"]
      <4>1. [net[id] EXCEPT !.module = "app"] \in Canister
        BY <1>1 DEF Canister
      <4>2. /\ [net[id] EXCEPT !.module = "app"].large = net[id].large
            /\ [net[id] EXCEPT !.module = "app"].liquid = net[id].liquid
            /\ [net[id] EXCEPT !.module = "app"].status = net[id].status
        BY <1>1 DEF Canister
      <4> QED BY <1>1, <3>2, <4>1, <4>2
    <3> QED BY <1>2, <3>1, <3>2 DEF Reset
  <2>2. disturbed' = disturbed
    BY <1>2 DEF Reset
  <2> QED BY <1>1, <2>1, <2>2
<1>3. CASE Reserve(id)
  <2>1. net'[id] \in Canister /\ net'[id].status = net[id].status /\ net'[id].large = net[id].large
    BY <1>1, <1>3 DEF Reserve, Canister
  <2>2. net' \in [Ids -> Canister] /\ \A j \in Ids \ {id} : net'[j] = net[j]
    BY <1>1, <1>3, <2>1 DEF Reserve
  <2>3. disturbed' = IF Deleting(id, {"reinstall", "start", "recover"}) THEN disturbed \cup {id} ELSE disturbed
    BY <1>3 DEF Reserve
  <2> QED BY <1>1, <2>1, <2>2, <2>3
<1>4. CASE TopUp(id)
  <2>1. net'[id] \in Canister /\ net'[id].status = net[id].status /\ net'[id].liquid = net[id].liquid
    BY <1>1, <1>4 DEF TopUp, Canister
  <2>2. net' \in [Ids -> Canister] /\ \A j \in Ids \ {id} : net'[j] = net[j]
    BY <1>1, <1>4, <2>1 DEF TopUp
  <2>3. disturbed' = IF Deleting(id, {"stop", "delete"}) THEN disturbed \cup {id} ELSE disturbed
    BY <1>4 DEF TopUp
  <2> QED BY <1>1, <2>1, <2>2, <2>3
<1> QED BY <1>2, <1>3, <1>4

LEMMA OtherCommandKeeps == ASSUME IInv, NEW t \in Terminals, OtherCommand(t) PROVE IInv'
<1>1. PICK id \in Ids :
        /\ net[id].status # "gone" /\ (Reset(id) \/ Reserve(id) \/ TopUp(id))
        /\ UNCHANGED <<recorded, waived, cmd>>
  BY OtherIs
<1>2. /\ net' \in [Ids -> Canister] /\ disturbed' \subseteq Ids /\ disturbed \subseteq disturbed'
      /\ \A j \in Ids : net'[j].status = "gone" => net[j].status = "gone"
      /\ \A j \in Ids \ {id} : net'[j] = net[j]
      /\ net[id].liquid => net'[id].liquid \/ ~Deleting(id, {"reinstall", "start", "recover"}) \/ id \in disturbed'
      /\ ~net[id].large => ~net'[id].large \/ ~Deleting(id, {"stop", "delete"}) \/ id \in disturbed'
  BY <1>1, OtherEffect
<1>3. \A s \in Terminals : cmd[s].at \in Calls => cmd[s].id \in Ids
  BY DeleteAt DEF Deletes
<1>4. Typed'
  BY <1>1, <1>2 DEF IInv, Typed
<1>5. Spendable'
  <2> SUFFICES ASSUME NEW s \in Terminals, cmd[s].at \in {"reinstall", "start", "recover"}
               PROVE  net'[cmd[s].id].liquid \/ cmd[s].id \in disturbed'
    BY <1>1 DEF Spendable
  <2>1. net[cmd[s].id].liquid \/ cmd[s].id \in disturbed
    BY DEF IInv, Spendable
  <2>2. cmd[s].id \in Ids
    BY <1>3 DEF Calls
  <2>3. cmd[s].id = id => Deleting(id, {"reinstall", "start", "recover"})
    BY DEF Deleting
  <2> QED BY <1>2, <2>1, <2>2, <2>3
<1>6. Emptied'
  <2> SUFFICES ASSUME NEW s \in Terminals, cmd[s].at \in {"stop", "delete"}, cmd[s].recover
               PROVE  ~net'[cmd[s].id].large \/ cmd[s].id \in disturbed'
    BY <1>1 DEF Emptied
  <2>1. ~net[cmd[s].id].large \/ cmd[s].id \in disturbed
    BY DEF IInv, Emptied
  <2>2. cmd[s].id \in Ids
    BY <1>3 DEF Calls
  <2>3. cmd[s].id = id => Deleting(id, {"stop", "delete"})
    BY DEF Deleting
  <2> QED BY <1>2, <2>1, <2>2, <2>3
<1>7. CyclesKept'
  <2> SUFFICES ASSUME NEW j \in Ids, net'[j].status = "gone", net'[j].large PROVE j \in waived' \cup disturbed'
    BY DEF CyclesKept
  <2>1. j # id /\ net'[j] = net[j]
    BY <1>1, <1>2
  <2> QED BY <1>1, <1>2, <2>1 DEF IInv, CyclesKept
<1> QED BY <1>4, <1>5, <1>6, <1>7 DEF IInv

LEMMA IInvStep == ASSUME IInv, [DeletionNext]_deletionVars PROVE IInv'
<1>1. CASE DeletionNext
  BY <1>1, BeginDeleteKeeps, StatusKeeps, CallKeeps, CallFailsKeeps, UnregisterKeeps, UpdateDomainsKeeps,
     EndByIdKeeps, LinkKeeps, OtherCommandKeeps DEF DeletionNext
<1>2. CASE UNCHANGED deletionVars
  BY <1>2 DEF deletionVars, IInv, Typed, Spendable, Emptied, CyclesKept
<1> QED BY <1>1, <1>2

(* recover_cycles.rs, "so the user can retry rather than silently lose      *)
(* cycles": whatever overlaps and whatever fails, a canister goes with a    *)
(* balance worth recovering only if its deletion waived it, or if someone   *)
(* reserved or raised the balance when the deletion no longer looked.       *)
THEOREM NoCyclesLost == DeletionSpec => []CyclesKept
<1>1. DeletionSpec => []IInv
  BY InitIInv, IInvStep, PTL DEF DeletionSpec
<1>2. IInv => CyclesKept
  BY DEF IInv
<1> QED BY <1>1, <1>2, PTL

-----------------------------------------------------------------------------
(* canister migrate-id.                                                     *)
Checks == {"confirm", "status"}
Past == {"snapshots", "subnets", "source", "target", "request"}
Steps == Checks \cup Past \cup {"watch"}
Running == [at : Steps, yes : BOOLEAN, skip : BOOLEAN, tty : BOOLEAN]
MigrationStates == {"none", "Accepted", "MigratedCanisterDeleted", "Succeeded", "Failed"}
Sources == [stopped : BOOLEAN, ready : BOOLEAN, cycles : {"few", "enough", "surplus"}, nns : BOOLEAN]

MigrationTyped ==
    /\ source \in Sources
    /\ doing \in {NotRunning} \cup Running
    /\ consented \in BOOLEAN
    /\ attempts \in 0 .. MaxAttempts
    /\ migrations \in [1 .. MaxAttempts -> MigrationStates]
    /\ own \in 0 .. attempts /\ report.of \in 0 .. attempts

(* A report is the last thing a command does, and none outlives the next.    *)
ReportIsLast == doing # NotRunning => report = Silent

(* A surplus was spoken of before anything is requested, and nothing is      *)
(* requested before the checks are passed.                                   *)
AskedFirst ==
    /\ source.cycles = "surplus" /\ doing.at \in Past => consented
    /\ doing.at \in Checks \cup Past => own = 0

MigrationIInv == MigrationTyped /\ ReportIsLast /\ AskedFirst /\ ReportTruthful

-----------------------------------------------------------------------------
LEMMA MigrationInitIInv == ASSUME MigrationInit PROVE MigrationIInv
<1>1. /\ doing = NotRunning /\ doing.at = "idle" /\ report.what = "none" /\ report.of = 0
      /\ attempts = 0 /\ own = 0 /\ source \in Sources /\ consented \in BOOLEAN
      /\ migrations = [n \in 1 .. MaxAttempts |-> "none"]
  BY DEF MigrationInit, NotRunning, Silent, Sources
<1>2. MigrationTyped
  BY <1>1, MigrationAssumption DEF MigrationTyped, MigrationStates
<1>3. ReportIsLast
  BY <1>1 DEF ReportIsLast
<1>4. AskedFirst
  BY <1>1 DEF AskedFirst, Past, Checks
<1>5. ReportTruthful
  BY <1>1 DEF ReportTruthful
<1> QED BY <1>2, <1>3, <1>4, <1>5 DEF MigrationIInv

(* A command moves on to its next step.                                      *)
LEMMA StepKeeps ==
    ASSUME MigrationIInv, doing # NotRunning, NEW s \in Steps, Step(s), UNCHANGED <<Nns, own, report>>,
           source'.cycles = source.cycles, source' \in Sources,
           consented' \in BOOLEAN, own # 0 => consented' = consented,
           s \in Checks \cup Past => own = 0,
           source.cycles = "surplus" /\ s \in Past => consented'
    PROVE  MigrationIInv'
<1>1. doing \in Running /\ doing' = [doing EXCEPT !.at = s] /\ doing'.at = s /\ doing' \in Running
  BY DEF MigrationIInv, MigrationTyped, Step, Running
<1>2. MigrationTyped'
  BY <1>1 DEF MigrationIInv, MigrationTyped, Nns
<1>3. report' = Silent /\ report = Silent
  BY DEF MigrationIInv, ReportIsLast
<1>4. ReportIsLast' /\ AskedFirst'
  BY <1>1, <1>3 DEF ReportIsLast, AskedFirst
<1>5. ReportTruthful'
  BY <1>3 DEF MigrationIInv, ReportTruthful, Silent
<1> QED BY <1>2, <1>4, <1>5 DEF MigrationIInv

(* It ends with a report that is true of the latest migration.               *)
LEMMA ReportKeeps ==
    ASSUME MigrationIInv, NEW what, Conclude(what), UNCHANGED <<source, Nns, own, consented>>,
           what = "succeeded" => Latest = "Succeeded",
           what = "left" => Latest \in {"MigratedCanisterDeleted", "Succeeded"},
           what = "failed" => Latest = "Failed",
           what \in {"cancelled", "refused"} => own = 0
    PROVE  MigrationIInv'
<1>1. doing' = NotRunning /\ report'.what = what /\ report'.of = attempts
  BY DEF Conclude
<1>2. MigrationTyped'
  BY <1>1 DEF MigrationIInv, MigrationTyped, Nns
<1>3. ReportIsLast' /\ AskedFirst'
  BY <1>1 DEF ReportIsLast, AskedFirst, NotRunning, Past, Checks
<1>4. StateOf(attempts)' = Latest /\ attempts >= own
  BY DEF Latest, StateOf, Nns, MigrationIInv, MigrationTyped
<1>5. ReportTruthful'
  BY <1>1, <1>4 DEF MigrationIInv, ReportTruthful, StateOf, Nns
<1> QED BY <1>2, <1>3, <1>5 DEF MigrationIInv

LEMMA BeginKeeps == ASSUME MigrationIInv, BeginMigrate PROVE MigrationIInv'
<1>1. /\ doing' \in Running /\ doing'.at \in {"watch", "status", "confirm"} /\ report' = Silent
      /\ own' = 0 /\ consented' \in BOOLEAN /\ UNCHANGED <<source, Nns>>
  <2>1. doing' \in Running /\ doing'.at \in {"watch", "status", "confirm"}
    BY DEF BeginMigrate, Running, Steps, Checks
  <2>2. report' = Silent /\ own' = 0 /\ consented' = FALSE /\ UNCHANGED <<source, Nns>>
    BY DEF BeginMigrate
  <2> QED BY <2>1, <2>2
<1>3. report'.what = "none" /\ report'.of = 0
  BY <1>1 DEF Silent
<1>2. MigrationTyped'
  <2>1. source' \in Sources
    BY <1>1 DEF MigrationIInv, MigrationTyped
  <2>2. migrations' \in [1 .. MaxAttempts -> MigrationStates]
    BY <1>1 DEF MigrationIInv, MigrationTyped, Nns
  <2>3. attempts' \in 0 .. MaxAttempts /\ own' \in 0 .. attempts' /\ report'.of \in 0 .. attempts'
    BY <1>1, <1>3 DEF MigrationIInv, MigrationTyped, Nns
  <2> QED BY <1>1, <2>1, <2>2, <2>3 DEF MigrationTyped
<1>4. ReportIsLast' /\ AskedFirst'
  BY <1>1 DEF ReportIsLast, AskedFirst, Past
<1>5. ReportTruthful'
  BY <1>1, <1>3 DEF ReportTruthful
<1> QED BY <1>2, <1>4, <1>5 DEF MigrationIInv

LEMMA Underway == ASSUME MigrationIInv, NEW s \in Steps, At(s) PROVE doing # NotRunning
BY DEF At, NotRunning, Steps, Checks, Past

LEMMA ConfirmKeeps == ASSUME MigrationIInv, Confirm PROVE MigrationIInv'
<1>1. doing # NotRunning /\ doing.at = "confirm" /\ UNCHANGED <<source, Nns, own, consented>>
  BY Underway DEF Confirm, Nns, Steps, Checks, At
<1>2. own = 0
  BY <1>1 DEF MigrationIInv, AskedFirst, Checks
<1>3. CASE Step("status") /\ UNCHANGED report
  BY <1>1, <1>2, <1>3, StepKeeps DEF MigrationIInv, MigrationTyped, Steps, Checks, Past
<1>4. CASE Conclude("cancelled")
  BY <1>1, <1>2, <1>4, ReportKeeps
<1> QED BY <1>3, <1>4 DEF Confirm

LEMMA ValidateKeeps == ASSUME MigrationIInv, Validate PROVE MigrationIInv'
<1>1. doing # NotRunning /\ doing.at = "status" /\ UNCHANGED <<source, Nns, own>>
  BY Underway DEF Validate, Nns, Steps, Checks, At
<1>2. own = 0
  BY <1>1 DEF MigrationIInv, AskedFirst, Checks
<1>3. CASE /\ Fit /\ Step("snapshots") /\ UNCHANGED report
           /\ consented' = (source.cycles = "surplus" /\ (doing.yes \/ doing.tty))
  <2>1. doing.yes \in BOOLEAN /\ doing.tty \in BOOLEAN
    BY <1>1 DEF MigrationIInv, MigrationTyped, Running
  <2>2. consented' \in BOOLEAN /\ (source.cycles = "surplus" => consented')
    BY <1>3, <2>1 DEF Fit
  <2> QED BY <1>1, <1>2, <1>3, <2>2, StepKeeps DEF MigrationIInv, MigrationTyped, Steps, Past
<1>4. CASE (Conclude("refused") \/ Conclude("cancelled")) /\ UNCHANGED consented
  BY <1>1, <1>2, <1>4, ReportKeeps
<1> QED BY <1>3, <1>4 DEF Validate

LEMMA LookKeeps == ASSUME MigrationIInv, CountSnapshots \/ CompareSubnets PROVE MigrationIInv'
<1>1. /\ doing.at \in Past /\ doing # NotRunning
      /\ UNCHANGED <<source, Nns, own, consented>>
  BY Underway DEF CountSnapshots, CompareSubnets, At, Past, Nns, Steps
<1>2. own = 0 /\ (source.cycles = "surplus" => consented)
  BY <1>1 DEF MigrationIInv, AskedFirst
<1>3. CASE (Step("subnets") \/ Step("source")) /\ UNCHANGED report
  BY <1>1, <1>2, <1>3, StepKeeps DEF MigrationIInv, MigrationTyped, Steps, Past
<1>4. CASE Conclude("refused")
  BY <1>1, <1>2, <1>4, ReportKeeps
<1> QED BY <1>3, <1>4 DEF CountSnapshots, CompareSubnets

LEMMA AddControllerKeeps == ASSUME MigrationIInv, AddController PROVE MigrationIInv'
<1>1. /\ doing.at \in Past /\ doing # NotRunning
      /\ UNCHANGED <<Nns, own, consented>>
  BY Underway DEF AddController, At, Past, Nns, Steps
<1>2. own = 0 /\ (source.cycles = "surplus" => consented)
  BY <1>1 DEF MigrationIInv, AskedFirst
<1>3. CASE (Step("target") \/ Step("request")) /\ source' = [source EXCEPT !.nns = TRUE] /\ UNCHANGED report
  <2>1. source'.cycles = source.cycles /\ source' \in Sources
    BY <1>3 DEF MigrationIInv, MigrationTyped, Sources
  <2> QED BY <1>1, <1>2, <1>3, <2>1, StepKeeps DEF MigrationIInv, MigrationTyped, Steps, Past
<1>4. CASE Step("request") /\ source' = source /\ UNCHANGED report
  BY <1>1, <1>2, <1>4, StepKeeps DEF MigrationIInv, MigrationTyped, Steps, Past
<1>5. CASE Conclude("refused") /\ source' = source
  BY <1>1, <1>2, <1>5, ReportKeeps
<1> QED BY <1>3, <1>4, <1>5 DEF AddController

(* A request that is accepted adds a migration, and leaves what was said of  *)
(* the ones before it as true as it was.                                     *)
LEMMA AcceptKeeps ==
    ASSUME MigrationTyped, Accept
    PROVE  /\ attempts \in 0 .. MaxAttempts - 1 /\ attempts' = attempts + 1
           /\ attempts' \in 0 .. MaxAttempts /\ migrations' \in [1 .. MaxAttempts -> MigrationStates]
           /\ \A n \in 0 .. attempts : StateOf(n)' = StateOf(n)
<1>1. attempts \in 0 .. MaxAttempts - 1 /\ attempts' = attempts + 1 /\ attempts' \in 1 .. MaxAttempts
  BY MigrationAssumption DEF Accept, Acceptable, MigrationTyped
<1>2. migrations' = [migrations EXCEPT ![attempts + 1] = "Accepted"] /\ migrations' \in [1 .. MaxAttempts -> MigrationStates]
  BY DEF Accept, MigrationTyped, MigrationStates
<1>3. ASSUME NEW n \in 1 .. attempts PROVE migrations'[n] = migrations[n]
  BY <1>1, <1>2, MigrationAssumption DEF MigrationTyped
<1> QED BY <1>1, <1>2, <1>3 DEF StateOf

(* A migration is requested only by a command that has come past the checks. *)
LEMMA RequestKeeps == ASSUME MigrationIInv, Request PROVE MigrationIInv'
<1>1. /\ doing.at \in Past /\ doing \in Running /\ doing # NotRunning
      /\ UNCHANGED <<source, consented>>
  <2>1. doing.at = "request" /\ UNCHANGED <<source, consented>>
    BY DEF Request, At
  <2> QED BY <2>1 DEF MigrationIInv, MigrationTyped, Past, NotRunning
<1>2. own = 0 /\ (source.cycles = "surplus" => consented) /\ report = Silent
  BY <1>1 DEF MigrationIInv, AskedFirst, ReportIsLast
<1>3. CASE Conclude("refused") /\ UNCHANGED <<Nns, own>>
  BY <1>1, <1>2, <1>3, ReportKeeps
<1>4. CASE Accept /\ own' = attempts + 1 /\ ((Step("watch") /\ UNCHANGED report) \/ Conclude("no answer"))
  <2>1. /\ attempts \in 0 .. MaxAttempts - 1 /\ attempts' = attempts + 1
        /\ attempts' \in 0 .. MaxAttempts /\ migrations' \in [1 .. MaxAttempts -> MigrationStates]
    BY <1>4, AcceptKeeps DEF MigrationIInv
  <2>4. source' \in Sources /\ consented' \in BOOLEAN
    BY <1>1 DEF MigrationIInv, MigrationTyped
  <2>5. own' \in 0 .. attempts' /\ 0 \in 0 .. attempts' /\ attempts \in 0 .. attempts'
    <3>1. own' = attempts + 1
      BY <1>4
    <3> QED BY <2>1, <3>1, MigrationAssumption
  <2>2. CASE Step("watch") /\ UNCHANGED report
    <3>1. doing' \in Running /\ doing'.at = "watch" /\ report' = Silent
      BY <1>1, <1>2, <2>2 DEF Step, Running, Steps
    <3>3. report'.what = "none" /\ report'.of = 0
      BY <3>1 DEF Silent
    <3>2. MigrationTyped'
      BY <2>1, <2>4, <2>5, <3>1, <3>3 DEF MigrationTyped
    <3>4. ReportIsLast' /\ AskedFirst'
      BY <3>1 DEF ReportIsLast, AskedFirst, Past, Checks
    <3>5. ReportTruthful'
      BY <1>1, <1>2, <3>3 DEF ReportTruthful
    <3> QED BY <3>2, <3>4, <3>5 DEF MigrationIInv
  <2>3. CASE Conclude("no answer")
    <3>1. doing' = NotRunning /\ report'.what = "no answer" /\ report'.of = attempts
      BY <2>3 DEF Conclude
    <3>2. MigrationTyped'
      BY <2>1, <2>4, <2>5, <3>1 DEF MigrationTyped
    <3>3. ReportIsLast' /\ AskedFirst'
      BY <3>1 DEF ReportIsLast, AskedFirst, Past, Checks, NotRunning
    <3>4. ReportTruthful'
      BY <1>1, <1>2, <3>1 DEF ReportTruthful
    <3> QED BY <3>2, <3>3, <3>4 DEF MigrationIInv
  <2> QED BY <1>4, <2>2, <2>3
<1> QED BY <1>3, <1>4 DEF Request

LEMMA PollKeeps == ASSUME MigrationIInv, Poll PROVE MigrationIInv'
<1>1. UNCHANGED <<source, Nns, own, consented>>
  BY DEF Poll, Nns
<1>2. CASE Conclude("timeout")
  BY <1>1, <1>2, ReportKeeps
<1>3. CASE Latest = "Succeeded" /\ Conclude("succeeded")
  BY <1>1, <1>3, ReportKeeps
<1>4. CASE Latest = "Failed" /\ Conclude("failed")
  BY <1>1, <1>4, ReportKeeps
<1>5. CASE Latest = "MigratedCanisterDeleted" /\ Conclude("left")
  BY <1>1, <1>5, ReportKeeps
<1>6. CASE UNCHANGED <<doing, report>>
  <2>1. MigrationTyped' /\ ReportIsLast' /\ AskedFirst'
    BY <1>1, <1>6 DEF MigrationIInv, MigrationTyped, ReportIsLast, AskedFirst, Nns
  <2>2. ReportTruthful'
    BY <1>1, <1>6 DEF MigrationIInv, ReportTruthful, StateOf, Nns
  <2> QED BY <2>1, <2>2 DEF MigrationIInv
<1> QED BY <1>2, <1>3, <1>4, <1>5, <1>6 DEF Poll, Again

(* What was reported of a migration stays so: failed and succeeded are its   *)
(* last state, and one that is past the point of no return can only succeed. *)
LEMMA AdvanceKeeps == ASSUME MigrationIInv, Advance PROVE MigrationIInv'
<1>1. UNCHANGED <<source, attempts, own, consented, doing, report>>
  BY DEF Advance
<1>2. PICK s \in {"MigratedCanisterDeleted", "Succeeded", "Failed"} :
         /\ Latest = "Accepted" \/ (Latest = "MigratedCanisterDeleted" /\ s = "Succeeded")
         /\ migrations' = [migrations EXCEPT ![attempts] = s]
  BY DEF Advance
<1>3. MigrationTyped'
  BY <1>1, <1>2 DEF MigrationIInv, MigrationTyped, MigrationStates
<1>4. attempts \in 1 .. MaxAttempts /\ Latest = migrations[attempts] /\ migrations'[attempts] = s
  BY <1>2 DEF MigrationIInv, MigrationTyped, Latest, StateOf
<1>5. ASSUME NEW n \in 0 .. attempts
      PROVE  /\ StateOf(n) \in {"Succeeded", "Failed"} => StateOf(n)' = StateOf(n)
             /\ StateOf(n) = "MigratedCanisterDeleted" => StateOf(n)' \in {"MigratedCanisterDeleted", "Succeeded"}
  <2>1. CASE n = attempts
    BY <1>2, <1>4, <2>1 DEF StateOf
  <2>2. CASE n # attempts
    BY <1>2, <1>4, <2>2 DEF StateOf, MigrationIInv, MigrationTyped
  <2> QED BY <2>1, <2>2
<1>6. StateOf(report.of)' = migrations'[report.of] \/ report.of = 0
  BY <1>1 DEF StateOf
<1>7. ReportTruthful'
  <2>1. /\ StateOf(report.of) \in {"Succeeded", "Failed"} => (StateOf(report.of))' = StateOf(report.of)
        /\ StateOf(report.of) = "MigratedCanisterDeleted" =>
              (StateOf(report.of))' \in {"MigratedCanisterDeleted", "Succeeded"}
    BY <1>1, <1>5 DEF MigrationIInv, MigrationTyped, StateOf
  <2> QED BY <1>1, <2>1 DEF MigrationIInv, ReportTruthful
<1> QED BY <1>1, <1>3, <1>7 DEF MigrationIInv, ReportIsLast, AskedFirst

(* Others start and stop the source, which says nothing about its cycles,    *)
(* and request a migration of the same pair.                                 *)
LEMMA OthersKeep == ASSUME MigrationIInv, Meddle \/ RequestElsewhere PROVE MigrationIInv'
<1>1. UNCHANGED <<own, consented, doing, report>>
  BY DEF Meddle, RequestElsewhere
<1>2. source'.cycles = source.cycles /\ source' \in Sources
  BY DEF Meddle, RequestElsewhere, MigrationIInv, MigrationTyped, Sources
<1>3. /\ attempts' \in 0 .. MaxAttempts /\ attempts' >= attempts
      /\ migrations' \in [1 .. MaxAttempts -> MigrationStates]
      /\ \A n \in 0 .. attempts : StateOf(n)' = StateOf(n)
  <2>1. CASE Meddle
    BY <2>1 DEF Meddle, Nns, StateOf, MigrationIInv, MigrationTyped
  <2>2. CASE RequestElsewhere
    BY <2>2, AcceptKeeps DEF RequestElsewhere, MigrationIInv, MigrationTyped
  <2> QED BY <2>1, <2>2
<1>4. MigrationTyped'
  BY <1>1, <1>2, <1>3 DEF MigrationIInv, MigrationTyped
<1>5. (StateOf(report.of))' = StateOf(report.of)
  BY <1>1, <1>3 DEF MigrationIInv, MigrationTyped, StateOf
<1> QED BY <1>1, <1>2, <1>4, <1>5 DEF MigrationIInv, ReportIsLast, AskedFirst, ReportTruthful

LEMMA MigrationIInvStep == ASSUME MigrationIInv, [MigrationNext]_migrationVars PROVE MigrationIInv'
<1>1. CASE BeginMigrate
  BY <1>1, BeginKeeps
<1>2. CASE Command
  BY <1>2, ConfirmKeeps, ValidateKeeps, LookKeeps, AddControllerKeeps, RequestKeeps, PollKeeps DEF Command
<1>3. CASE Advance
  BY <1>3, AdvanceKeeps
<1>4. CASE Meddle \/ RequestElsewhere
  BY <1>4, OthersKeep
<1>5. CASE UNCHANGED migrationVars
  <2>1. (StateOf(report.of))' = StateOf(report.of)
    BY <1>5 DEF migrationVars, StateOf
  <2> QED BY <1>5, <2>1 DEF migrationVars, MigrationIInv, MigrationTyped, ReportIsLast, AskedFirst, ReportTruthful
<1> QED BY <1>1, <1>2, <1>3, <1>4, <1>5 DEF MigrationNext

(* migrate_id.rs exec: success, failure and a migration that it leaves are   *)
(* reported of a migration that is so and no older than its own, whoever     *)
(* requests another; a command that was cancelled or refused has requested   *)
(* none; and no surplus of cycles is burnt by a command whose user did not   *)
(* agree to it.                                                              *)
THEOREM ReportsAreTrue == MigrationSpec => []ReportTruthful
<1>1. MigrationInit => MigrationIInv
  BY MigrationInitIInv
<1>2. MigrationIInv /\ [MigrationNext]_migrationVars => MigrationIInv'
  BY MigrationIInvStep
<1>3. MigrationIInv => ReportTruthful
  BY DEF MigrationIInv
<1> QED BY <1>1, <1>2, <1>3, PTL DEF MigrationSpec

-----------------------------------------------------------------------------
(* What one command at a time leaves of a canister that is gone: its record *)
(* until the delete that took it removes that, and its friendly name until  *)
(* the same delete writes the names anew.  c is the only command.           *)
LivesAt(c) ==
    /\ \A n, m \in Canisters : recorded[n] = recorded[m] /\ recorded[n] # None => n = m
    /\ c.at \in Calls \cup {"status", "unregister"} /\ c.name # None => recorded[c.name] = c.id
    /\ c.at \in {"clear", "set"} => Claimable(c.name, c.id)
    /\ \A n \in Canisters, id \in Ids \ unseen : net[id].status = "gone" =>
          /\ recorded[n] = id => c.at = "unregister" /\ c.name = n
          /\ domains[n] = id => c.at \in {"unregister", "domains"}

LivesInv ==
    /\ faults \in Nat /\ overlapped \in BOOLEAN
    /\ ~overlapped => \A s, t \in Terminals : cmd[s] # Idle /\ cmd[t] # Idle => s = t
    /\ ~overlapped /\ faults = 0 => \A t \in Terminals : (\A s \in Terminals \ {t} : cmd[s] = Idle) => LivesAt(cmd[t])

LEMMA LivesStarts == DeletionInit => LivesInv
<1> SUFFICES ASSUME DeletionInit PROVE LivesInv
  OBVIOUS
<1>1. \A n, m \in Canisters : recorded[n] = recorded[m] /\ recorded[n] # None => n = m
  BY DEF DeletionInit, IsInjective, Restrict
<1>2. (\A t \in Terminals : cmd[t] = Idle) /\ (\A id \in Ids : net[id].status # "gone")
      /\ faults = 0 /\ overlapped = FALSE
  BY DEF DeletionInit
<1>3. Idle.at = "idle"
  BY DEF Idle
<1> QED BY <1>1, <1>2, <1>3 DEF LivesInv, LivesAt, Calls

(* The only command takes a step.                                           *)
LEMMA OnlyCommand ==
    ASSUME IInv, LivesInv, NEW t \in Terminals, NEW c, cmd' = [cmd EXCEPT ![t] = c],
           overlapped' \in BOOLEAN, ~overlapped' => ~overlapped /\ (cmd[t] # Idle \/ Busy = {}),
           faults' \in Nat, faults' = 0 => faults = 0, faults' = 0 /\ LivesAt(cmd[t]) => LivesAt(c)'
    PROVE  LivesInv'
<1>0. SUFFICES ASSUME ~overlapped' PROVE LivesInv'
  BY DEF LivesInv
<1>1. cmd'[t] = c /\ \A s \in Terminals \ {t} : cmd'[s] = cmd[s]
  BY DEF IInv, Typed
<1>2. \A s \in Terminals \ {t} : cmd[s] = Idle /\ cmd'[s] = Idle
  BY <1>0, <1>1 DEF LivesInv, Busy
<1>3. \A r, s \in Terminals : cmd'[r] # Idle /\ cmd'[s] # Idle => r = s
  BY <1>2
<1>4. faults' = 0 => LivesAt(c)'
  BY <1>0, <1>2 DEF LivesInv
<1>5. ASSUME faults' = 0, NEW s \in Terminals, \A r \in Terminals \ {s} : cmd'[r] = Idle PROVE LivesAt(cmd[s])'
  <2>1. CASE s = t
    BY <1>1, <1>4, <1>5, <2>1
  <2>2. CASE s # t
    <3>1. cmd'[s] = Idle /\ c = Idle
      BY <1>1, <1>2, <1>5, <2>2
    <3> QED BY <1>4, <1>5, <3>1
  <2> QED BY <2>1, <2>2
<1> QED BY <1>0, <1>3, <1>5 DEF LivesInv

LEMMA NotIdle == ASSUME NEW t \in Terminals, NEW step \in Calls \cup {"status", "unregister", "domains", "end", "clear", "set"},
                        cmd[t].at = step PROVE cmd[t] # Idle
BY DEF Idle, Calls

LEMMA LivesBegins ==
    ASSUME IInv, LivesInv, DeletionAssumption, NEW t \in Terminals, BeginDelete(t) \/ BeginLink(t),
           overlapped' = (overlapped \/ Busy # {})
    PROVE  LivesInv'
<1>1. cmd[t] = Idle /\ overlapped' \in BOOLEAN /\ (~overlapped' => ~overlapped /\ Busy = {})
  BY DEF BeginDelete, BeginLink, Free, LivesInv
<1>2. UNCHANGED <<net, recorded, domains, unseen, faults>>
  BY DEF BeginDelete, BeginLink, Store, Ghosts
<1>3. Idle.at = "idle"
  BY DEF Idle
<1>4. CASE BeginDelete(t)
  <2>1. PICK id \in Ids, recover \in BOOLEAN, n \in Canisters \cup {None} :
           /\ n # None => recorded[n] = id
           /\ cmd' = [cmd EXCEPT ![t] =
                     [at |-> IF recover THEN "status" ELSE "stop", id |-> id, name |-> n, recover |-> recover]]
    BY <1>4 DEF BeginDelete
  <2>2. PICK c : c = [at |-> IF recover THEN "status" ELSE "stop", id |-> id, name |-> n, recover |-> recover]
    OBVIOUS
  <2>3. /\ c.at \in {"status", "stop"} /\ cmd' = [cmd EXCEPT ![t] = c]
        /\ c.name # None => recorded[c.name] = c.id
    BY <2>1, <2>2
  <2>4. LivesAt(Idle) => LivesAt(c)'
    BY <1>2, <1>3, <2>3 DEF LivesAt, Calls
  <2> QED BY <1>1, <1>2, <2>3, <2>4, OnlyCommand DEF LivesInv
<1>5. CASE BeginLink(t)
  <2>1. PICK n \in Canisters, id \in Ids, force \in BOOLEAN :
          /\ Claimable(n, id)
          /\ cmd' = [cmd EXCEPT ![t] = [at |-> IF force THEN "clear" ELSE "set", id |-> id, name |-> n]]
    BY <1>5 DEF BeginLink
  <2>2. PICK c : c = [at |-> IF force THEN "clear" ELSE "set", id |-> id, name |-> n]
    OBVIOUS
  <2>3. c.at \in {"clear", "set"} /\ c.id = id /\ c.name = n /\ cmd' = [cmd EXCEPT ![t] = c]
    BY <2>1, <2>2
  <2>4. LivesAt(Idle) => LivesAt(c)'
    BY <1>2, <1>3, <2>1, <2>3 DEF LivesAt, Calls, Claimable
  <2> QED BY <1>1, <1>2, <2>3, <2>4, OnlyCommand DEF LivesInv
<1> QED BY <1>4, <1>5

(* A delete goes on to another step, or ends, and nothing else changes.     *)
LEMMA LivesGoesOn ==
    ASSUME IInv, LivesInv, NEW t \in Terminals, Status(t) \/ CallFails(t) \/ EndById(t), UNCHANGED overlapped
    PROVE  LivesInv'
<1>1. cmd[t].at \in Calls \cup {"status", "end"} /\ cmd[t] # Idle
  BY CallsAre, NotIdle DEF Status, CallFails, EndById
<1>2. UNCHANGED <<net, recorded, domains, unseen>> /\ Idle.at = "idle"
  BY DEF Status, CallFails, EndById, Store, Ghosts, Idle
<1>3. faults' \in Nat /\ (faults' = 0 => faults = 0) /\ overlapped' \in BOOLEAN /\ (~overlapped' => ~overlapped)
  BY DEF Status, CallFails, EndById, LivesInv
<1>4. CASE End(t)
  <2>1. LivesAt(cmd[t]) => LivesAt(Idle)'
    BY <1>1, <1>2 DEF LivesAt, Calls
  <2> QED BY <1>1, <1>3, <1>4, <2>1, OnlyCommand DEF End
<1>5. CASE Status(t)
  <2>1. PICK at \in {"unfreeze", "stop"} : Move(t, at)
    BY <1>5, CallsAre DEF Status
  <2>2. PICK c : c = [cmd[t] EXCEPT !.at = at]
    OBVIOUS
  <2>3. cmd[t] \in Deletes /\ cmd[t].at = "status"
    BY <1>5, DeleteAt DEF Status
  <2>4. c.at = at /\ c.id = cmd[t].id /\ c.name = cmd[t].name /\ cmd' = [cmd EXCEPT ![t] = c]
    BY <2>1, <2>2, <2>3 DEF Deletes, Move
  <2>5. LivesAt(cmd[t]) => LivesAt(c)'
    BY <1>2, <2>3, <2>4 DEF LivesAt, Calls
  <2> QED BY <1>1, <1>3, <2>4, <2>5, OnlyCommand
<1> QED BY <1>4, <1>5 DEF CallFails, EndById

LEMMA LivesCall ==
    ASSUME IInv, LivesInv, DeletionAssumption, NEW t \in Terminals, Call(t), UNCHANGED overlapped PROVE LivesInv'
<1>1. PICK at \in Calls : at = cmd[t].at
  BY CallsAre DEF Call
<1>2. PICK id : id = cmd[t].id
  OBVIOUS
<1>3. cmd[t] \in Deletes /\ id \in Ids /\ net[id] \in Canister /\ net \in [Ids -> Canister] /\ cmd[t] # Idle
  BY <1>1, <1>2, DeleteAt, NotIdle DEF Deletes, IInv, Typed
<1>4. net'[id].status = "gone" => at = "delete"
  <2>1. net'[id] = Effect(at, net[id]) /\ net[id].status # "gone"
    BY <1>1, <1>2, <1>3 DEF Call, Needs
  <2> QED BY <1>3, <2>1, EffectIs
<1>5. \A j \in Ids \ {id} : net'[j] = net[j]
  BY <1>2, <1>3 DEF Call
<1>6. /\ UNCHANGED <<recorded, domains>> /\ unseen \subseteq unseen'
      /\ at = "delete" /\ cmd[t].name = None => id \in unseen'
  BY <1>1, <1>2 DEF Call, Store
<1>7. net[id].status # "gone"
  BY <1>1, <1>2 DEF Call, Needs
<1>8. CASE faults' = faults + 1
  <2>1. PICK c : cmd' = [cmd EXCEPT ![t] = c]
    BY DEF Call, Move, End
  <2>2. faults' \in Nat /\ faults' # 0 /\ overlapped' \in BOOLEAN
    BY <1>8 DEF LivesInv
  <2> QED BY <1>3, <2>1, <2>2, OnlyCommand
<1>9. CASE faults' = faults /\ Move(t, IF at = "delete" /\ cmd[t].name = None THEN "end" ELSE Following(at))
  <2>1. PICK next : next = IF at = "delete" /\ cmd[t].name = None THEN "end" ELSE Following(at)
    OBVIOUS
  <2>2. PICK c : c = [cmd[t] EXCEPT !.at = next]
    OBVIOUS
  <2>3. c.at = next /\ c.id = id /\ c.name = cmd[t].name /\ cmd' = [cmd EXCEPT ![t] = c]
    BY <1>2, <1>3, <1>9, <2>1, <2>2 DEF Deletes, Move
  <2>4. /\ next \in Calls \cup {"unregister", "end"} /\ (next = "unregister" => at = "delete" /\ cmd[t].name # None)
        /\ at = "delete" => next = "unregister" \/ id \in unseen'
    BY <1>6, <2>1, FollowingIs DEF Calls
  <2>5. ASSUME LivesAt(cmd[t]) PROVE LivesAt(c)'
    <3>1. c.name # None /\ next # "end" => recorded[c.name] = id
      BY <1>1, <1>2, <2>3, <2>4, <2>5 DEF LivesAt
    <3>2. \A n \in Canisters, j \in Ids \ unseen' : net'[j].status = "gone" =>
             /\ recorded[n] = j => next = "unregister" /\ c.name = n
             /\ domains[n] = j => next \in {"unregister", "domains"}
      <4> SUFFICES ASSUME NEW n \in Canisters, NEW j \in Ids \ unseen', net'[j].status = "gone"
                   PROVE  /\ recorded[n] = j => next = "unregister" /\ c.name = n
                          /\ domains[n] = j => next \in {"unregister", "domains"}
        OBVIOUS
      <4>1. CASE j # id
        BY <1>1, <1>5, <1>6, <2>5, <4>1 DEF LivesAt, Calls
      <4>2. CASE j = id
        <5>1. at = "delete" /\ next = "unregister" /\ cmd[t].name # None
          BY <1>4, <2>4, <4>2
        <5>2. recorded[c.name] = id /\ id # None
          BY <2>3, <3>1, <5>1, <1>3 DEF DeletionAssumption
        <5>3. recorded[n] = id => n = c.name
          BY <2>3, <2>5, <5>1, <5>2, <1>3 DEF LivesAt, Deletes
        <5> QED BY <4>2, <5>1, <5>3
      <4> QED BY <4>1, <4>2
    <3> QED BY <1>6, <2>3, <2>4, <2>5, <3>1, <3>2 DEF LivesAt, Calls
  <2> QED BY <1>3, <1>9, <2>3, <2>5, OnlyCommand DEF LivesInv
<1> QED BY <1>1, <1>8, <1>9 DEF Call

LEMMA LivesRecords ==
    ASSUME IInv, LivesInv, DeletionAssumption, NEW t \in Terminals,
           Unregister(t) \/ UpdateDomains(t) \/ Clear(t) \/ Register(t), UNCHANGED overlapped
    PROVE  LivesInv'
<1>1. UNCHANGED <<net, faults>> /\ recorded \in [Canisters -> Ids \cup {None}] /\ Idle.at = "idle"
  BY DEF Unregister, UpdateDomains, Clear, Register, IInv, Typed, Idle
<1>0. unseen \subseteq unseen' /\ (Unregister(t) \/ UpdateDomains(t) \/ Clear(t) => unseen' = unseen)
  BY DEF Unregister, UpdateDomains, Clear, Register, Ghosts
<1>2. cmd[t] # Idle /\ cmd[t] \in Deletes \cup Links
  BY NotIdle DEF Unregister, UpdateDomains, Clear, Register, IInv, Typed
<1>3. CASE Unregister(t)
  <2>1. PICK c : c = [cmd[t] EXCEPT !.at = "domains"]
    OBVIOUS
  <2>2. cmd[t] \in Deletes /\ cmd[t].at = "unregister"
    BY <1>3, DeleteAt DEF Unregister
  <2>3. c.at = "domains" /\ cmd' = [cmd EXCEPT ![t] = c]
    BY <1>3, <2>1, <2>2 DEF Unregister, Move, Deletes
  <2>4. /\ \A n \in Canisters : recorded'[n] = IF n = cmd[t].name THEN None ELSE recorded[n]
        /\ domains' = domains
    BY <1>1, <1>3 DEF Unregister
  <2>5. LivesAt(cmd[t]) => LivesAt(c)'
    BY <1>1, <1>3, <1>0, <2>2, <2>3, <2>4 DEF LivesAt, Calls, DeletionAssumption
  <2> QED BY <1>1, <1>2, <2>3, <2>5, OnlyCommand DEF LivesInv
<1>4. CASE UpdateDomains(t)
  <2>1. LivesAt(cmd[t]) => LivesAt(Idle)'
    BY <1>1, <1>4, <1>0 DEF UpdateDomains, LivesAt, Calls
  <2> QED BY <1>1, <1>2, <1>4, <2>1, OnlyCommand DEF UpdateDomains, End, LivesInv
<1>5. CASE Clear(t)
  <2>1. PICK c : c = [cmd[t] EXCEPT !.at = "set"]
    OBVIOUS
  <2>2. cmd[t] \in Links /\ cmd[t].at = "clear"
    BY <1>2, <1>5 DEF Clear, Deletes, Calls
  <2>3. c.at = "set" /\ c.id = cmd[t].id /\ c.name = cmd[t].name /\ c.id \in Ids /\ cmd' = [cmd EXCEPT ![t] = c]
    BY <1>5, <2>1, <2>2 DEF Clear, Move, Links
  <2>4. /\ \A n \in Canisters : recorded'[n] = IF n = cmd[t].name THEN None ELSE recorded[n]
        /\ domains' = domains
    BY <1>1, <1>5 DEF Clear
  <2>5. ASSUME LivesAt(cmd[t]) PROVE LivesAt(c)'
    <3>1. Claimable(c.name, c.id)'
      BY <1>1, <2>2, <2>3, <2>4, <2>5 DEF LivesAt, Claimable, DeletionAssumption
    <3> QED BY <1>1, <1>5, <1>0, <2>2, <2>3, <2>4, <2>5, <3>1 DEF LivesAt, Calls, DeletionAssumption
  <2> QED BY <1>1, <1>2, <2>3, <2>5, OnlyCommand DEF LivesInv
<1>6. CASE Register(t)
  <2>1. cmd[t].at = "set" /\ cmd' = [cmd EXCEPT ![t] = Idle] /\ domains' = domains
    BY <1>6 DEF Register, End
  <2>2. PICK n : n = cmd[t].name
    OBVIOUS
  <2>3. \A m \in Canisters : recorded'[m] = IF m = n /\ recorded[n] = None THEN cmd[t].id ELSE recorded[m]
    BY <1>1, <1>6, <2>2 DEF Register
  <2>4. recorded[n] = None /\ net[cmd[t].id].status = "gone" => cmd[t].id \in unseen'
    BY <1>6, <2>2 DEF Register
  <2>6. LivesAt(cmd[t]) => LivesAt(Idle)'
    <3> SUFFICES ASSUME LivesAt(cmd[t]) PROVE LivesAt(Idle)'
      OBVIOUS
    <3>1. \A k, m \in Canisters : recorded'[k] = recorded'[m] /\ recorded'[k] # None => k = m
      BY <2>1, <2>2, <2>3 DEF LivesAt, Claimable
    <3>2. \A k \in Canisters, id \in Ids \ unseen' : net'[id].status = "gone" => recorded'[k] # id /\ domains'[k] # id
      BY <1>1, <1>0, <2>1, <2>2, <2>3, <2>4 DEF LivesAt
    <3> QED BY <1>1, <3>1, <3>2 DEF LivesAt, Calls
  <2> QED BY <1>1, <1>2, <2>1, <2>6, OnlyCommand DEF LivesInv
<1> QED BY <1>3, <1>4, <1>5, <1>6

LEMMA LivesOther ==
    ASSUME IInv, LivesInv, NEW t \in Terminals, OtherCommand(t), overlapped' = (overlapped \/ Busy # {})
    PROVE  LivesInv'
<1>1. PICK id \in Ids :
        /\ net[id].status # "gone" /\ (Reset(id) \/ Reserve(id) \/ TopUp(id))
        /\ cmd[t] = Idle /\ UNCHANGED <<recorded, domains, unseen, cmd, faults>>
  BY OtherIs
<1>2. \A j \in Ids : net'[j].status = "gone" => net[j].status = "gone"
  BY <1>1, OtherEffect
<1>3. UNCHANGED <<recorded, domains, unseen, faults>> /\ cmd' = [cmd EXCEPT ![t] = Idle] /\ Idle.at = "idle"
  BY <1>1 DEF IInv, Typed, Idle
<1>4. LivesAt(cmd[t]) => LivesAt(Idle)'
  BY <1>1, <1>2, <1>3 DEF LivesAt, Calls
<1>5. /\ overlapped' \in BOOLEAN /\ (~overlapped' => ~overlapped /\ Busy = {})
      /\ faults' = faults /\ faults \in Nat
  BY <1>1 DEF LivesInv
<1> QED BY <1>3, <1>4, <1>5, OnlyCommand

LEMMA LivesStep ==
    ASSUME DeletionAssumption PROVE IInv /\ LivesInv /\ [DeletionNext]_deletionVars => LivesInv'
<1> SUFFICES ASSUME IInv, LivesInv, [DeletionNext]_deletionVars PROVE LivesInv'
  OBVIOUS
<1>1. CASE UNCHANGED deletionVars
  BY <1>1 DEF deletionVars, LivesInv, LivesAt, Claimable
<1>2. CASE DeletionNext
  BY <1>2, LivesBegins, LivesGoesOn, LivesCall, LivesRecords, LivesOther DEF DeletionNext
<1> QED BY <1>1, <1>2

(* delete.rs, link.rs, update_custom_domains: with one command at a time    *)
(* and no call lost, a canister that is gone is not recorded, and no        *)
(* friendly name leads to it, unless it was deleted by its principal or was *)
(* gone when it was linked: for any names and canisters.                    *)
THEOREM WhatIsRecordedLives == ASSUME DeletionAssumption PROVE DeletionSpec => []RecordedLives
<1>1. LivesInv => RecordedLives
  <2> SUFFICES ASSUME LivesInv, ~overlapped, Busy = {}, faults = 0,
                      NEW n \in Canisters, NEW id \in Ids \ unseen, net[id].status = "gone"
               PROVE  recorded[n] # id /\ domains[n] # id
    BY DEF RecordedLives
  <2>1. PICK t \in Terminals : TRUE
    BY DEF DeletionAssumption
  <2>2. LivesAt(Idle)
    BY <2>1 DEF LivesInv, Busy
  <2> QED BY <2>2 DEF LivesAt, Idle
<1> QED BY <1>1, InitIInv, IInvStep, LivesStarts, LivesStep, PTL DEF DeletionSpec

(* Both together, as the run checks them.                                   *)
THEOREM DeletionsAreSafe == ASSUME DeletionAssumption PROVE DeletionSpec => []DeletionSafe
BY NoCyclesLost, WhatIsRecordedLives, PTL DEF DeletionSafe

-----------------------------------------------------------------------------
(* Lists and variables stay lists and variables, whatever is made of them.  *)
Fields == {"controllers", "vars", "logs", "limit"}
Settings(s) == DOMAIN s = Fields /\ s.controllers \in Lists /\ s.vars \in Vars
Writing(w) == (w.controllers = None \/ w.controllers \in Lists) /\ (w.vars = None \/ w.vars \in Vars)

LEMMA VarsAre ==
    ASSUME NEW f \in Vars
    PROVE  /\ DOMAIN f \subseteq VarNames /\ \A n \in DOMAIN f : f[n] \in Values
           /\ f = [n \in DOMAIN f |-> f[n]]
BY DEF Vars

LEMMA AreVars ==
    ASSUME NEW D \in SUBSET VarNames, NEW f, f = [n \in D |-> f[n]], \A n \in D : f[n] \in Values
    PROVE  f \in Vars
<1>1. f \in [D -> Values]
  OBVIOUS
<1> QED BY <1>1 DEF Vars

LEMMA EmptyVars == <<>> \in Vars /\ DOMAIN <<>> = {}
<1>1. DOMAIN <<>> = {}
  OBVIOUS
<1>2. <<>> \in [{} -> Values]
  OBVIOUS
<1> QED BY <1>1, <1>2 DEF Vars

LEMMA OverIs ==
    ASSUME NEW f \in Vars, NEW g \in Vars
    PROVE  /\ Over(f, g) \in Vars
           /\ DOMAIN Over(f, g) = DOMAIN f \cup DOMAIN g
           /\ \A n \in DOMAIN f : Over(f, g)[n] = f[n]
<1> DEFINE h == Over(f, g)
<1>1. h = [n \in DOMAIN f \cup DOMAIN g |-> IF n \in DOMAIN f THEN f[n] ELSE g[n]]
  BY DEF Over
<1>2. DOMAIN h = DOMAIN f \cup DOMAIN g /\ \A n \in DOMAIN h : h[n] = IF n \in DOMAIN f THEN f[n] ELSE g[n]
  BY <1>1
<1>3. h = [n \in DOMAIN f \cup DOMAIN g |-> h[n]]
  BY <1>1
<1> HIDE DEF h
<1>4. \A n \in DOMAIN f \cup DOMAIN g : h[n] \in Values
  BY <1>2, VarsAre
<1>5. DOMAIN f \cup DOMAIN g \subseteq VarNames
  BY VarsAre
<1>6. h \in Vars
  BY <1>3, <1>4, <1>5, AreVars
<1> QED BY <1>2, <1>6 DEF h

LEMMA RestrictIs ==
    ASSUME NEW f \in Vars, NEW D \in SUBSET DOMAIN f
    PROVE  Restrict(f, D) \in Vars
<1>1. Restrict(f, D) = [n \in D |-> f[n]]
  BY DEF Restrict
<1>2. D \subseteq VarNames /\ \A n \in D : f[n] \in Values
  BY VarsAre
<1>3. [n \in D |-> f[n]] \in [D -> Values]
  BY <1>2
<1> QED BY <1>1, <1>2, <1>3 DEF Vars

LEMMA AppliedIs ==
    ASSUME SettingsAssumption, NEW s, NEW to, Settings(to), Writing(s)
    PROVE  /\ Settings(Applied(s, to))
           /\ \A f \in Fields : Applied(s, to)[f] = IF s[f] = None THEN to[f] ELSE s[f]
<1>1. DOMAIN Applied(s, to) = Fields /\ \A f \in Fields : Applied(s, to)[f] = IF s[f] = None THEN to[f] ELSE s[f]
  BY DEF Applied, Settings
<1>2. Applied(s, to).controllers \in Lists /\ Applied(s, to).vars \in Vars
  BY <1>1 DEF Fields, Settings, Writing
<1> QED BY <1>1, <1>2 DEF Settings

LEMMA BoundIs ==
    ASSUME SettingsAssumption, NEW e \in Environments, NEW known \in SUBSET {Peer}
    PROVE  LET d == Declared(e)
               w == Bound(d, known)
           IN  /\ w.vars \in Vars /\ w.controllers = None
               /\ DOMAIN w.vars = Named(d) \cup (IF Peer \in known THEN {Wire} ELSE {})
<1> DEFINE d == Declared(e)
           listed == IF d.vars = None THEN <<>> ELSE d.vars
<1>1. listed \in Vars /\ DOMAIN listed = Named(d)
  BY EmptyVars DEF SettingsAssumption, Named
<1>2. [n \in {Wire} |-> Peer] \in Vars
  <2>1. {Wire} \in SUBSET VarNames
    BY DEF SettingsAssumption
  <2>2. [n \in {Wire} |-> Peer] \in [{Wire} -> Values]
    BY DEF SettingsAssumption
  <2> QED BY <2>1, <2>2 DEF Vars
<1>3. Bindings(known) \in Vars /\ DOMAIN Bindings(known) = IF Peer \in known THEN {Wire} ELSE {}
  BY <1>2, EmptyVars DEF Bindings
<1>4. Bound(d, known).vars = Over(Bindings(known), listed) /\ Bound(d, known).controllers = None
  BY DEF Bound
<1> HIDE DEF listed, d
<1>5. /\ Over(Bindings(known), listed) \in Vars
      /\ DOMAIN Over(Bindings(known), listed) = DOMAIN Bindings(known) \cup DOMAIN listed
  BY <1>1, <1>3, OverIs
<1> QED BY <1>1, <1>3, <1>4, <1>5 DEF d

LEMMA BoundKeeps ==
    ASSUME SettingsAssumption, NEW e \in Environments, NEW known \in SUBSET {Peer}, NEW b, Settings(b)
    PROVE  LET d == Declared(e)
               s == Applied(Bound(d, known), b)
           IN  /\ Settings(s) /\ s.controllers = b.controllers
               /\ DOMAIN s.vars = Named(d) \cup (IF Peer \in known THEN {Wire} ELSE {})
<1> DEFINE w == Bound(Declared(e), known)
<1>1. /\ w.vars \in Vars /\ w.controllers = None
      /\ DOMAIN w.vars = Named(Declared(e)) \cup (IF Peer \in known THEN {Wire} ELSE {})
  BY BoundIs
<1> HIDE DEF w
<1>2. Writing(w) /\ w.vars # None
  BY <1>1 DEF Writing, SettingsAssumption
<1>3. /\ Settings(Applied(w, b)) /\ Applied(w, b).controllers = b.controllers
      /\ Applied(w, b).vars = w.vars
  BY <1>1, <1>2, AppliedIs DEF Fields
<1> QED BY <1>1, <1>3 DEF w

LEMMA ManifestIs ==
    ASSUME SettingsAssumption, NEW kind, NEW e \in Environments
    PROVE  Writing(Manifest(kind, e))
BY DEF SettingsAssumption, Manifest, Writing

LEMMA MergedIs ==
    ASSUME SettingsAssumption, NEW d, Writing(d), NEW s, Settings(s), NEW known
    PROVE  /\ Writing(Merged(d, s, known))
           /\ Merged(d, s, known).controllers # None => s.controllers \subseteq Merged(d, s, known).controllers
<1> DEFINE m == Merged(d, s, known)
<1>1. m.controllers = IF d.controllers = None THEN None ELSE s.controllers \cup Resolved(d.controllers, known)
  BY DEF Merged
<1>2. m.vars = IF d.vars = None THEN None ELSE Over(d.vars, s.vars)
  BY DEF Merged
<1>3. m.controllers \in Lists \cup {None}
  BY <1>1 DEF Writing, Settings, Lists, Resolved
<1>4. m.vars \in Vars \cup {None}
  BY <1>2, OverIs DEF Writing, Settings
<1> QED BY <1>1, <1>3, <1>4 DEF Writing

LEMMA EditedIs ==
    ASSUME SettingsAssumption, NEW r \in Requests, NEW s, Settings(s) \/ ~NeedsStatus(r)
    PROVE  Writing(Edited(r, s))
<1>1. Edited(r, s).controllers = NewControllers(r, s) /\ Edited(r, s).vars = NewVars(r, s)
  BY DEF Edited
<1>2. NewControllers(r, s) \in Lists \cup {None}
  BY DEF SettingsAssumption, NewControllers, NeedsStatus, Settings, Lists
<1>3. NewVars(r, s) \in Vars \cup {None}
  <2>1. CASE DOMAIN r.setVars \cup r.dropVars = {}
    BY <2>1 DEF NewVars
  <2>2. CASE DOMAIN r.setVars \cup r.dropVars # {}
    <3>1. s.vars \in Vars /\ r.setVars \in Vars
      BY <2>2 DEF NeedsStatus, Settings, SettingsAssumption
    <3>2. NewVars(r, s) = Restrict(Over(r.setVars, s.vars), (DOMAIN r.setVars \cup DOMAIN s.vars) \ r.dropVars)
      BY <2>2 DEF NewVars
    <3>3. /\ Over(r.setVars, s.vars) \in Vars
          /\ (DOMAIN r.setVars \cup DOMAIN s.vars) \ r.dropVars \in SUBSET DOMAIN Over(r.setVars, s.vars)
      BY <3>1, OverIs
    <3> QED BY <3>2, <3>3, RestrictIs
  <2> QED BY <2>1, <2>2
<1> QED BY <1>1, <1>2, <1>3 DEF Writing

-----------------------------------------------------------------------------
CommandFields == {"at", "kind", "as", "env", "asked", "status", "write", "known", "alone", "before"}

Work(c) ==
    /\ DOMAIN c = CommandFields
    /\ c.at \in {"bind", "status", "decide", "send", "done"}
    /\ c.as \in Callers /\ c.known \in SUBSET {Peer}
    /\ IF c.kind = "update" THEN c.asked \in Requests ELSE c.env \in Environments
    /\ c.at = "bind" => c.kind = "deploy"
    /\ c.at = "done" => c.kind # "update"

(* What a command has read of the settings, and what it is about to write.  *)
Holding(c) ==
    /\ c.at = "decide" => (c.kind = "update" /\ ~NeedsStatus(c.asked)) \/ Settings(c.status)
    /\ c.at = "send" => Writing(c.write)
    /\ c.at \in {"send", "done"} /\ c.kind # "update" => Settings(c.status)

SettingsTyped ==
    /\ Settings(canister) /\ ids \in SUBSET {Peer} /\ yielded \in BOOLEAN
    /\ DOMAIN work = Editors
    /\ \A u \in Editors : work[u] = Resting \/ (Work(work[u]) /\ Holding(work[u]))

(* Nobody who has read or is about to write the list of controllers would   *)
(* leave it without a caller, unless someone gave control away.             *)
Controls(list) == list \cap Callers # {}

Careful(c) ==
    /\ c.at = "decide" /\ c.kind # "update" => Controls(c.status.controllers)
    /\ c.at = "send" /\ c.write.controllers # None => Controls(c.write.controllers)

InControl == ~yielded => Controls(canister.controllers) /\ \A u \in Editors : Careful(work[u])

(* A command that has had the canister for itself knows what it has.        *)
Read(c) ==
    IF c.kind = "deploy" THEN Applied(Bound(Declared(c.env), c.known), c.before) ELSE c.before

Knows(c) ==
    /\ Settings(c.before)
    /\ c.at = "bind" => canister = c.before
    /\ c.at = "status" => canister = Read(c)
    /\ c.at \in {"decide", "send", "done"} => c.status = Read(c)
    /\ c.at \in {"decide", "send"} => canister = c.status
    /\ c.at = "send" => c.write = Merged(Manifest(c.kind, c.env), c.status, c.known)
    /\ c.at = "done" => canister = Applied(Merged(Manifest(c.kind, c.env), c.status, c.known), c.status)

Undisturbed ==
    \A u \in Editors :
        work[u] # Resting /\ work[u].alone =>
            /\ \A v \in Editors \ {u} : work[v] = Resting
            /\ work[u].kind # "update" => Knows(work[u])

SettingsInv == SettingsTyped /\ InControl /\ Undisturbed

-----------------------------------------------------------------------------
LEMMA InitSettingsInv == SettingsAssumption /\ Controls(Initial.controllers) /\ SettingsInit => SettingsInv
<1> SUFFICES ASSUME SettingsAssumption, Controls(Initial.controllers), SettingsInit PROVE SettingsInv
  OBVIOUS
<1>1. \A u \in Editors : work[u] = Resting /\ work[u].at = "idle"
  BY DEF SettingsInit, Resting
<1>2. SettingsTyped
  BY <1>1 DEF SettingsInit, SettingsTyped, SettingsAssumption, Settings, Fields
<1>3. InControl
  BY <1>1 DEF SettingsInit, InControl, Careful
<1> QED BY <1>1, <1>2, <1>3 DEF SettingsInv, Undisturbed

(* The step of one command that is under way.                               *)
LEMMA OneMoves ==
    ASSUME SettingsInv, NEW u \in Editors, work[u] # Resting, NEW c, work' = [work EXCEPT ![u] = c],
           ids' = ids, yielded' \in BOOLEAN, yielded => yielded', Settings(canister'),
           c # Resting => Work(c) /\ Holding(c) /\ c.alone = work[u].alone,
           ~yielded' => Controls(canister'.controllers) /\ (c # Resting => Careful(c)),
           c # Resting /\ c.alone /\ c.kind # "update" => Knows(c)'
    PROVE  SettingsInv'
<1>1. DOMAIN work' = Editors /\ work'[u] = c /\ \A v \in Editors \ {u} : work'[v] = work[v]
  BY DEF SettingsInv, SettingsTyped
<1>2. SettingsTyped'
  BY <1>1 DEF SettingsInv, SettingsTyped
<1>3. InControl'
  <2>1. Careful(Resting)
    BY DEF Careful, Resting
  <2>2. SUFFICES ASSUME ~yielded' PROVE \A v \in Editors : Careful(work'[v])
    BY DEF InControl, Careful
  <2>3. ASSUME NEW v \in Editors \ {u} PROVE Careful(work[v])
    BY <2>2 DEF SettingsInv, InControl, SettingsTyped
  <2> QED BY <1>1, <2>1, <2>2, <2>3
<1>4. Undisturbed'
  <2>1. SUFFICES ASSUME NEW w \in Editors, work'[w] # Resting, work'[w].alone
                 PROVE  /\ \A v \in Editors \ {w} : work'[v] = Resting
                        /\ work'[w].kind # "update" => Knows(work[w])'
    BY DEF Undisturbed
  <2>2. w = u
    BY <1>1, <2>1 DEF SettingsInv, Undisturbed
  <2>3. Knows(work[w])' <=> Knows(c)'
    BY <1>1, <2>2 DEF Knows, Read
  <2>4. \A v \in Editors \ {u} : work[v] = Resting
    BY <1>1, <2>1, <2>2 DEF SettingsInv, Undisturbed
  <2> QED BY <1>1, <2>1, <2>2, <2>3, <2>4
<1> QED BY <1>2, <1>3, <1>4 DEF SettingsInv

LEMMA AtWork == ASSUME NEW u \in Editors, work[u].at # "idle" PROVE work[u] # Resting
BY DEF Resting

LEMMA FailKeeps ==
    ASSUME SettingsInv, NEW u \in Editors, work[u] # Resting, Fail(u), UNCHANGED <<canister, ids, yielded>> PROVE SettingsInv'
<1>1. work' = [work EXCEPT ![u] = Resting]
  BY DEF Fail
<1> QED BY <1>1, OneMoves DEF SettingsInv, SettingsTyped, InControl

LEMMA BindStep == ASSUME SettingsAssumption, SettingsInv, NEW u \in Editors, Bind(u) PROVE SettingsInv'
<1> DEFINE old == work[u]  write == Bound(Declared(old.env), old.known)
<1>1. Work(old) /\ old.at = "bind" /\ work[u] # Resting /\ old.kind # "update"
  BY DEF Bind, Resting, SettingsInv, SettingsTyped, Work
<1>2. PICK c : c = [old EXCEPT !.at = "status"]
  OBVIOUS
<1>3. DOMAIN c = CommandFields /\ c.at = "status" /\ \A f \in CommandFields \ {"at"} : c[f] = old[f]
  BY <1>1, <1>2 DEF Work, CommandFields
<1>4. work' = [work EXCEPT ![u] = c]
  BY <1>2 DEF Bind, MoveOn
<1>5. write.vars \in Vars /\ write.controllers = None
  BY <1>1, BoundIs DEF Work
<1>6. canister' = Applied(write, canister) /\ UNCHANGED <<ids, yielded>>
  BY DEF Bind
<1> HIDE DEF write, old
<1>7. Settings(canister') /\ canister'.controllers = canister.controllers /\ canister'.vars = write.vars
  BY <1>5, <1>6, AppliedIs DEF SettingsInv, SettingsTyped, Fields, Writing, SettingsAssumption
<1>8. Work(c) /\ Holding(c) /\ Careful(c) /\ c.alone = old.alone
  BY <1>1, <1>3 DEF Work, Holding, Careful, CommandFields
<1>9. ASSUME c.alone PROVE Knows(c)'
  <2>1. old.alone /\ c.kind = old.kind /\ c.env = old.env /\ c.known = old.known /\ c.before = old.before
    BY <1>3, <1>9 DEF CommandFields
  <2>2. Settings(old.before) /\ canister = old.before
    BY <1>1, <2>1 DEF SettingsInv, Undisturbed, Knows, old
  <2>3. old.kind = "deploy"
    BY <1>1 DEF Work
  <2>4. canister' = Read(c)
    BY <1>6, <2>1, <2>2, <2>3 DEF Read, write
  <2> QED BY <1>3, <2>1, <2>2, <2>4 DEF Knows
<1> QED BY <1>1, <1>4, <1>6, <1>7, <1>8, <1>9, OneMoves DEF SettingsInv, SettingsTyped, InControl, old

LEMMA ReadStep == ASSUME SettingsAssumption, SettingsInv, NEW u \in Editors, ReadStatus(u) PROVE SettingsInv'
<1> DEFINE old == work[u]
<1>1. Work(old) /\ old.at = "status" /\ work[u] # Resting
  BY DEF ReadStatus, Resting, SettingsInv, SettingsTyped, Work
<1>2. PICK c : c = [old EXCEPT !.status = canister, !.at = "decide"]
  OBVIOUS
<1>3. /\ DOMAIN c = CommandFields /\ c.at = "decide" /\ c.status = canister
      /\ \A f \in CommandFields \ {"at", "status"} : c[f] = old[f]
  BY <1>1, <1>2 DEF Work, CommandFields
<1>4. work' = [work EXCEPT ![u] = c] /\ UNCHANGED <<canister, ids, yielded>>
  BY <1>2 DEF ReadStatus
<1>5. Work(c) /\ Holding(c) /\ c.alone = old.alone /\ c.kind = old.kind
  BY <1>1, <1>3 DEF Work, Holding, CommandFields, SettingsInv, SettingsTyped
<1>6. ~yielded => Controls(canister.controllers) /\ Careful(c)
  BY <1>3 DEF Careful, SettingsInv, InControl
<1>7. c.alone /\ c.kind # "update" => Knows(c)'
  <2>1. c.alone /\ c.kind # "update" => Settings(old.before) /\ canister = Read(old)
    BY <1>1, <1>5 DEF SettingsInv, Undisturbed, Knows
  <2>2. Read(c) = Read(old) /\ c.before = old.before
    BY <1>3 DEF Read, CommandFields
  <2>3. UNCHANGED canister
    BY <1>4
  <2> QED BY <1>3, <2>1, <2>2, <2>3 DEF Knows
<1> HIDE DEF old
<1> QED BY <1>1, <1>4, <1>5, <1>6, <1>7, OneMoves DEF SettingsInv, SettingsTyped, old

(* A command that has ended well with the canister to itself.               *)
LEMMA FinishKeeps ==
    ASSUME SettingsInv, NEW u \in Editors, Work(work[u]), Holding(work[u]), Finish(u), UNCHANGED <<ids, yielded>>,
           Settings(canister'), ~yielded => Controls(canister'.controllers),
           work[u].at \in {"decide", "send"},
           work[u].kind # "update" =>
               canister' = Applied(Merged(Manifest(work[u].kind, work[u].env), work[u].status, work[u].known), work[u].status)
               \/ ~work[u].alone
    PROVE  SettingsInv'
<1> DEFINE old == work[u]
<1>1. PICK c : c = Ended(old)
  OBVIOUS
<1>2. work' = [work EXCEPT ![u] = c]
  BY <1>1 DEF Finish
<1>3. work[u] # Resting
  BY DEF Resting
<1>4. CASE c = Resting
  BY <1>2, <1>3, <1>4, OneMoves DEF SettingsInv, SettingsTyped
<1>5. CASE c # Resting
  <2>1. old.alone /\ old.kind # "update" /\ c = [old EXCEPT !.at = "done", !.write = None]
    BY <1>1, <1>5 DEF Ended
  <2>2. /\ DOMAIN c = CommandFields /\ c.at = "done"
        /\ \A f \in CommandFields \ {"at", "write"} : c[f] = old[f]
    BY <2>1 DEF Work, CommandFields
  <2>3. Settings(old.status)
    BY <2>1 DEF Holding
  <2>4. Work(c) /\ Holding(c) /\ Careful(c) /\ c.alone = old.alone
    <3>1. /\ c.kind = old.kind /\ c.as = old.as /\ c.env = old.env /\ c.asked = old.asked
          /\ c.status = old.status /\ c.known = old.known /\ c.alone = old.alone
      BY <2>2 DEF CommandFields
    <3>2. Work(c)
      BY <2>1, <2>2, <3>1 DEF Work
    <3> QED BY <2>2, <2>3, <3>1, <3>2 DEF Holding, Careful
  <2>5. Settings(old.before) /\ old.status = Read(old)
    BY <1>3, <2>1 DEF SettingsInv, Undisturbed, Knows
  <2>6. Knows(c)'
    <3>1. Read(c) = Read(old) /\ c.before = old.before /\ c.status = old.status
      BY <2>2 DEF Read, CommandFields
    <3>2. canister' = Applied(Merged(Manifest(c.kind, c.env), c.status, c.known), c.status)
      BY <2>1, <2>2 DEF CommandFields
    <3> QED BY <2>2, <2>5, <3>1, <3>2 DEF Knows
  <2> HIDE DEF old
  <2> QED BY <1>2, <1>3, <2>4, <2>6, OneMoves DEF SettingsInv, SettingsTyped, old
<1> QED BY <1>4, <1>5

LEMMA SettleStep == ASSUME SettingsAssumption, SettingsInv, NEW u \in Editors, Settle(u) PROVE SettingsInv'
<1> DEFINE old == work[u]  write == Merged(Manifest(old.kind, old.env), old.status, old.known)
<1>1. Work(old) /\ Holding(old) /\ old.at = "decide" /\ work[u] # Resting /\ old.kind # "update"
  BY DEF Settle, Resting, SettingsInv, SettingsTyped
<1>2. Settings(old.status)
  BY <1>1 DEF Holding
<1>3. Writing(write) /\ (write.controllers # None => old.status.controllers \subseteq write.controllers)
  BY <1>1, <1>2, ManifestIs, MergedIs DEF Work
<1>4. UNCHANGED <<canister, ids, yielded>>
  BY DEF Settle
<1>5. old.alone => canister = old.status
  BY <1>1 DEF SettingsInv, Undisturbed, Knows
<1>6. CASE Applied(write, old.status) = old.status
  <2>1. Finish(u)
    BY <1>6 DEF Settle
  <2> QED BY <1>1, <1>4, <1>5, <1>6, <2>1, FinishKeeps DEF SettingsInv, SettingsTyped, InControl
<1>7. CASE Applied(write, old.status) # old.status
  <2>1. PICK c : c = [old EXCEPT !.write = write, !.at = "send"]
    OBVIOUS
  <2>2. work' = [work EXCEPT ![u] = c]
    BY <1>7, <2>1 DEF Settle
  <2> HIDE DEF write
  <2>3. /\ DOMAIN c = CommandFields /\ c.at = "send" /\ c.write = write
        /\ \A f \in CommandFields \ {"at", "write"} : c[f] = old[f]
    BY <1>1, <2>1 DEF Work, CommandFields
  <2>4. Work(c) /\ Holding(c) /\ c.alone = old.alone
    BY <1>1, <1>2, <1>3, <2>3 DEF Work, Holding, CommandFields
  <2>5. ~yielded => Controls(canister.controllers) /\ Careful(c)
    <3>1. ~yielded => Controls(old.status.controllers) /\ Controls(canister.controllers)
      BY <1>1 DEF SettingsInv, InControl, Careful
    <3> QED BY <1>3, <2>3, <3>1 DEF Careful, Controls
  <2>6. c.alone => Knows(c)'
    <3>1. old.alone => Settings(old.before) /\ old.status = Read(old)
      BY <1>1 DEF SettingsInv, Undisturbed, Knows
    <3>2. /\ c.kind = old.kind /\ c.env = old.env /\ c.status = old.status /\ c.known = old.known
          /\ c.alone = old.alone /\ c.before = old.before
      BY <2>3 DEF CommandFields
    <3>3. Read(c) = Read(old)
      BY <3>2 DEF Read
    <3>4. c.write = Merged(Manifest(c.kind, c.env), c.status, c.known)
      BY <2>3, <3>2 DEF write
    <3> QED BY <1>4, <1>5, <2>3, <3>1, <3>2, <3>3, <3>4 DEF Knows
  <2> HIDE DEF old
  <2> QED BY <1>1, <1>4, <2>2, <2>4, <2>5, <2>6, OneMoves DEF SettingsInv, SettingsTyped, old
<1> QED BY <1>6, <1>7

LEMMA ConsentStep == ASSUME SettingsAssumption, SettingsInv, NEW u \in Editors, Consent(u) PROVE SettingsInv'
<1> DEFINE old == work[u]
           write == Edited(old.asked, old.status)
           leaving == write.controllers # None /\ old.as \notin write.controllers
<1>1. Work(old) /\ Holding(old) /\ old.at = "decide" /\ work[u] # Resting /\ old.kind = "update"
  BY DEF Consent, Resting, SettingsInv, SettingsTyped
<1>2. Writing(write)
  BY <1>1, EditedIs DEF Work, Holding
<1>3. UNCHANGED <<canister, ids>>
  BY DEF Consent
<1>4. CASE Fail(u) /\ UNCHANGED yielded
  BY <1>1, <1>3, <1>4, FailKeeps
<1>5. CASE /\ yielded' = (yielded \/ leaving)
           /\ work' = [work EXCEPT ![u].write = write, ![u].status = None, ![u].at = "send"]
  <2>1. PICK c : c = [old EXCEPT !.write = write, !.status = None, !.at = "send"]
    OBVIOUS
  <2>2. work' = [work EXCEPT ![u] = c]
    BY <1>5, <2>1
  <2>3. yielded' \in BOOLEAN /\ (yielded => yielded') /\ (~yielded' => ~leaving)
    BY <1>5 DEF SettingsInv, SettingsTyped
  <2> HIDE DEF write
  <2>4. /\ DOMAIN c = CommandFields /\ c.at = "send" /\ c.write = write
        /\ \A f \in CommandFields \ {"at", "write", "status"} : c[f] = old[f]
    BY <1>1, <2>1 DEF Work, CommandFields
  <2>5. Work(c) /\ Holding(c) /\ c.alone = old.alone /\ c.kind = "update"
    BY <1>1, <1>2, <2>4 DEF Work, Holding, CommandFields
  <2>6. ~yielded' => Controls(canister'.controllers) /\ Careful(c)
    <3>1. ~yielded' => Controls(canister.controllers)
      BY <2>3 DEF SettingsInv, InControl
    <3> QED BY <1>1, <1>3, <2>3, <2>4, <3>1 DEF Careful, Controls, Work
  <2> HIDE DEF old
  <2> QED BY <1>1, <1>3, <2>2, <2>3, <2>5, <2>6, OneMoves DEF SettingsInv, SettingsTyped, old
<1> QED BY <1>4, <1>5 DEF Consent

LEMMA SendStep == ASSUME SettingsAssumption, SettingsInv, NEW u \in Editors, UpdateSettings(u) PROVE SettingsInv'
<1> DEFINE old == work[u]
<1>1. Work(old) /\ Holding(old) /\ old.at = "send" /\ work[u] # Resting
  BY DEF UpdateSettings, Resting, SettingsInv, SettingsTyped
<1>2. canister' = Applied(old.write, canister) /\ Finish(u) /\ UNCHANGED <<ids, yielded>>
  BY DEF UpdateSettings
<1>3. Writing(old.write) /\ Settings(canister)
  BY <1>1 DEF Holding, SettingsInv, SettingsTyped
<1>4. /\ Settings(canister')
      /\ canister'.controllers = IF old.write.controllers = None THEN canister.controllers ELSE old.write.controllers
  BY <1>2, <1>3, AppliedIs DEF Fields
<1>5. ~yielded => Controls(canister.controllers) /\ Careful(old)
  BY DEF SettingsInv, InControl
<1>6. ~yielded => Controls(canister'.controllers)
  BY <1>1, <1>4, <1>5 DEF Careful
<1>7. old.kind # "update" /\ old.alone =>
          canister' = Applied(Merged(Manifest(old.kind, old.env), old.status, old.known), old.status)
  BY <1>1, <1>2 DEF SettingsInv, Undisturbed, Knows
<1> QED BY <1>1, <1>2, <1>4, <1>6, <1>7, FinishKeeps

LEMMA RefusedStep == ASSUME SettingsInv, NEW u \in Editors, Refused(u) PROVE SettingsInv'
BY FailKeeps, AtWork DEF Refused

-----------------------------------------------------------------------------
(* A command begins, and those that are under way are no longer alone.      *)
LEMMA BeginKeepsSettings ==
    ASSUME SettingsAssumption, SettingsInv, NEW u \in Editors, NEW kind, NEW as \in Callers, NEW e, NEW r,
           IF kind = "update" THEN r \in Requests ELSE e \in Environments,
           Begin(u, kind, as, e, r)
    PROVE  SettingsInv'
<1> DEFINE active == {v \in Editors : work[v].at \notin {"idle", "done"}}
<1>1. UNCHANGED <<canister, yielded>> /\ ids' \in SUBSET {Peer}
  BY DEF Begin, SettingsInv, SettingsTyped
<1>2. PICK known : known = ids'
  OBVIOUS
<1>3. PICK c : c = [at |-> IF kind = "deploy" THEN "bind"
                           ELSE IF kind = "update" /\ ~NeedsStatus(r) THEN "decide" ELSE "status",
                    kind |-> kind, as |-> as, env |-> e, asked |-> r, status |-> None,
                    write |-> None, known |-> known, alone |-> active = {},
                    before |-> IF active = {} /\ kind # "update" THEN canister ELSE None]
  OBVIOUS
<1>4. work' = [v \in Editors |-> IF v = u THEN c
                              ELSE IF v \in active THEN [work[v] EXCEPT !.alone = FALSE, !.before = None] ELSE Resting]
  BY <1>2, <1>3 DEF Begin
<1>5. /\ DOMAIN c = CommandFields /\ c.kind = kind /\ c.as = as /\ c.env = e /\ c.asked = r /\ c.known = known
      /\ c.alone = (active = {}) /\ c.before = IF active = {} /\ kind # "update" THEN canister ELSE None
      /\ c.at = IF kind = "deploy" THEN "bind"
                ELSE IF kind = "update" /\ ~NeedsStatus(r) THEN "decide" ELSE "status"
  BY <1>3 DEF CommandFields
<1> HIDE DEF active
<1>6. Work(c) /\ Holding(c) /\ Careful(c)
  BY <1>1, <1>2, <1>5 DEF Work, Holding, Careful
<1>7. ASSUME NEW v \in Editors \ {u}
      PROVE  \/ work'[v] = Resting
             \/ /\ Work(work'[v]) /\ Holding(work'[v]) /\ ~work'[v].alone
                /\ Careful(work[v]) => Careful(work'[v])
  <2>1. CASE v \notin active
    BY <1>4, <1>7, <2>1
  <2>2. CASE v \in active
    <3>1. Work(work[v]) /\ Holding(work[v])
      BY <1>7, <2>2 DEF active, SettingsInv, SettingsTyped, Resting
    <3>2. PICK d : d = [work[v] EXCEPT !.alone = FALSE, !.before = None]
      OBVIOUS
    <3>3. work'[v] = d
      BY <1>4, <1>7, <2>2, <3>2
    <3>4. DOMAIN d = CommandFields /\ ~d.alone /\ \A f \in CommandFields \ {"alone", "before"} : d[f] = work[v][f]
      BY <3>1, <3>2 DEF Work, CommandFields
    <3>5. Work(d) /\ Holding(d) /\ (Careful(work[v]) => Careful(d))
      BY <3>1, <3>4 DEF Work, Holding, Careful, CommandFields
    <3> QED BY <3>3, <3>4, <3>5
  <2> QED BY <2>1, <2>2
<1>8. DOMAIN work' = Editors /\ work'[u] = c
  BY <1>4
<1>9. SettingsTyped'
  BY <1>1, <1>6, <1>7, <1>8 DEF SettingsInv, SettingsTyped
<1>10. InControl'
  <2>1. Careful(Resting)
    BY DEF Careful, Resting
  <2> QED BY <1>1, <1>6, <1>7, <1>8, <2>1 DEF SettingsInv, InControl, Careful
<1>11. Undisturbed'
  <2>1. SUFFICES ASSUME NEW w \in Editors, work'[w] # Resting, work'[w].alone
                 PROVE  /\ \A v \in Editors \ {w} : work'[v] = Resting
                        /\ work'[w].kind # "update" => Knows(work[w])'
    BY DEF Undisturbed
  <2>2. w = u
    BY <1>7, <2>1
  <2>3. active = {}
    BY <1>5, <1>8, <2>1, <2>2
  <2>4. \A v \in Editors \ {u} : work'[v] = Resting
    BY <1>4, <2>3
  <2>5. c.kind # "update" => Knows(c)'
    <3>1. SUFFICES ASSUME c.kind # "update" PROVE Knows(c)'
      OBVIOUS
    <3>2. c.before = canister /\ Settings(canister) /\ UNCHANGED canister
      BY <1>1, <1>5, <2>3, <3>1 DEF SettingsInv, SettingsTyped
    <3>3. c.at = "bind" \/ (c.at = "status" /\ c.kind # "deploy")
      BY <1>5, <3>1
    <3> QED BY <3>2, <3>3 DEF Knows, Read
  <2>6. Knows(work[w])' <=> Knows(c)'
    BY <1>8, <2>2 DEF Knows, Read
  <2> QED BY <1>8, <2>2, <2>4, <2>5, <2>6
<1> QED BY <1>9, <1>10, <1>11 DEF SettingsInv

LEMMA SettingsInvStep == ASSUME SettingsAssumption PROVE SettingsInv /\ [SettingsNext]_settingsVars => SettingsInv'
<1> SUFFICES ASSUME SettingsInv, [SettingsNext]_settingsVars PROVE SettingsInv'
  OBVIOUS
<1>1. CASE UNCHANGED settingsVars
  <2>1. UNCHANGED <<canister, ids, yielded, work>>
    BY <1>1 DEF settingsVars
  <2> QED BY <2>1 DEF SettingsInv, SettingsTyped, InControl, Undisturbed, Knows
<1>2. CASE SettingsNext
  <2>1. PICK u \in Editors : BeginUpdate(u) \/ BeginSync(u) \/ Bind(u) \/ ReadStatus(u)
                              \/ Settle(u) \/ Consent(u) \/ UpdateSettings(u) \/ Refused(u)
    BY <1>2 DEF SettingsNext
  <2>2. CASE BeginUpdate(u)
    BY <2>2, BeginKeepsSettings DEF BeginUpdate, Callers
  <2>3. CASE BeginSync(u)
    BY <2>3, BeginKeepsSettings DEF BeginSync, Callers
  <2> QED BY <2>1, <2>2, <2>3, BindStep, ReadStep, SettleStep, ConsentStep, SendStep, RefusedStep
<1> QED BY <1>1, <1>2

LEMMA SettingsInvAlways ==
    ASSUME SettingsAssumption, Initial.controllers \cap Callers # {} PROVE SettingsSpec => []SettingsInv
<1>1. SettingsInit => SettingsInv
  BY InitSettingsInv DEF Controls
<1> QED BY <1>1, SettingsInvStep, PTL DEF SettingsSpec

(* settings.rs: whoever runs update, sync and deploy on a canister, however *)
(* their calls interleave and however old the lists are that they write,    *)
(* someone who runs commands can call the canister, unless one of them gave *)
(* his control away knowingly.                                              *)
THEOREM SomeoneStaysInControl ==
    ASSUME SettingsAssumption, Initial.controllers \cap Callers # {} PROVE SettingsSpec => []SomeoneInControl
<1>1. SettingsInv => SomeoneInControl
  BY DEF SettingsInv, InControl, SomeoneInControl, Controls
<1> QED BY <1>1, SettingsInvAlways, PTL

LEMMA AloneIsDeclared ==
    ASSUME SettingsAssumption, SettingsInv, NEW u \in Editors, work[u].at = "done", work[u].alone
    PROVE  LET c == work[u]
               d == Manifest(c.kind, c.env)
           IN  /\ Carries(d, c.known)
               /\ c.before.controllers \subseteq canister.controllers
               /\ IF c.kind = "deploy"
                  THEN DOMAIN canister.vars = Named(d) \cup (IF Peer \in c.known THEN {Wire} ELSE {})
                  ELSE DOMAIN c.before.vars \subseteq DOMAIN canister.vars
<1> DEFINE c == work[u]  d == Manifest(c.kind, c.env)  s == c.status  b == c.before  m == Merged(d, s, c.known)
<1>1. Work(c) /\ Holding(c) /\ c.at = "done" /\ c.alone /\ work[u] # Resting
  BY DEF Resting, SettingsInv, SettingsTyped
<1>2. c.kind # "update" /\ Settings(s)
  BY <1>1 DEF Holding, Work
<1>3. Knows(c)
  BY <1>1, <1>2 DEF SettingsInv, Undisturbed
<1>4. Writing(d)
  BY <1>1, <1>2, ManifestIs DEF Work
<1>5. canister = Applied(m, s) /\ s = Read(c) /\ Settings(b)
  BY <1>1, <1>3 DEF Knows
<1>6. /\ m.controllers = IF d.controllers = None THEN None ELSE s.controllers \cup Resolved(d.controllers, c.known)
      /\ m.vars = IF d.vars = None THEN None ELSE Over(d.vars, s.vars)
      /\ m.logs = d.logs /\ m.limit = d.limit
  BY DEF Merged
<1>7. Writing(m)
  BY <1>2, <1>4, MergedIs
<1>8. s.controllers = b.controllers /\ (c.kind # "deploy" => s = b)
  <2>1. CASE c.kind = "deploy"
    <3>1. c.env \in Environments /\ c.known \in SUBSET {Peer}
      BY <1>1, <2>1 DEF Work
    <3>2. s = Applied(Bound(Declared(c.env), c.known), b)
      BY <1>5, <2>1 DEF Read
    <3> HIDE DEF m, d, s, c, b
    <3>3. s.controllers = b.controllers
      BY <1>5, <3>1, <3>2, BoundIs, BoundKeeps
    <3> QED BY <2>1, <3>3
  <2>2. CASE c.kind # "deploy"
    BY <1>5, <2>2 DEF Read
  <2> QED BY <2>1, <2>2
<1>9. c.kind = "deploy" => DOMAIN s.vars = Named(d) \cup (IF Peer \in c.known THEN {Wire} ELSE {})
  <2>1. SUFFICES ASSUME c.kind = "deploy" PROVE DOMAIN s.vars = Named(d) \cup (IF Peer \in c.known THEN {Wire} ELSE {})
    OBVIOUS
  <2>2. c.env \in Environments /\ c.known \in SUBSET {Peer} /\ d = Declared(c.env)
    BY <1>1, <2>1 DEF Work, Manifest
  <2>3. s = Applied(Bound(Declared(c.env), c.known), b)
    BY <1>5, <2>1 DEF Read
  <2> HIDE DEF m, d, s, c, b
  <2> QED BY <1>5, <2>2, <2>3, BoundKeeps
<1> HIDE DEF m, d, s, c, b
<1>10. /\ canister.controllers = IF m.controllers = None THEN s.controllers ELSE m.controllers
       /\ canister.vars = IF m.vars = None THEN s.vars ELSE m.vars
       /\ canister.logs = IF m.logs = None THEN s.logs ELSE m.logs
       /\ canister.limit = IF m.limit = None THEN s.limit ELSE m.limit
  BY <1>2, <1>5, <1>7, AppliedIs DEF Fields
<1>11. d.vars # None =>
          /\ Over(d.vars, s.vars) \in Vars
          /\ DOMAIN Over(d.vars, s.vars) = DOMAIN d.vars \cup DOMAIN s.vars
          /\ \A n \in DOMAIN d.vars : Over(d.vars, s.vars)[n] = d.vars[n]
  BY <1>2, <1>4, OverIs DEF Settings, Writing
<1>12. d.vars # None => canister.vars = Over(d.vars, s.vars)
  BY <1>6, <1>10, <1>11 DEF SettingsAssumption
<1>13. d.controllers # None => canister.controllers = s.controllers \cup Resolved(d.controllers, c.known)
  <2>1. d.controllers # None => s.controllers \cup Resolved(d.controllers, c.known) \in Lists
    BY <1>2, <1>4 DEF Writing, Settings, Lists, Resolved
  <2> QED BY <1>6, <1>10, <2>1 DEF SettingsAssumption
<1>14. Carries(d, c.known)
  BY <1>6, <1>10, <1>11, <1>12, <1>13 DEF Carries
<1>15. s.controllers \subseteq canister.controllers /\ DOMAIN canister.vars = Named(d) \cup DOMAIN s.vars
  BY <1>6, <1>10, <1>11, <1>12, <1>13 DEF Named
<1>16. c.kind = "deploy" => DOMAIN canister.vars = Named(d) \cup (IF Peer \in c.known THEN {Wire} ELSE {})
  BY <1>9, <1>15
<1>17. c.kind # "deploy" => DOMAIN b.vars \subseteq DOMAIN canister.vars
  BY <1>8, <1>15
<1> QED BY <1>8, <1>14, <1>15, <1>16, <1>17 DEF c, d, s, b

(* binding_env_vars.rs, settings.rs: a deploy or a synchronisation that     *)
(* nothing overlapped leaves the canister as its manifest declares it and   *)
(* takes no controller away.  Its variables are after a deploy those that   *)
(* are declared and the bindings, and no others; a synchronisation takes    *)
(* none away.                                                               *)
THEOREM DeploysAsDeclared ==
    ASSUME SettingsAssumption, Initial.controllers \cap Callers # {} PROVE SettingsSpec => []AsDeclared
<1>1. SettingsInv => AsDeclared
  BY AloneIsDeclared DEF AsDeclared
<1> QED BY <1>1, SettingsInvAlways, PTL

(* Both together, as the run checks them.                                   *)
THEOREM SettingsAreKept ==
    ASSUME SettingsAssumption, Initial.controllers \cap Callers # {} PROVE SettingsSpec => []SettingsKept
BY SomeoneStaysInControl, DeploysAsDeclared, PTL DEF SettingsKept

-----------------------------------------------------------------------------
(* The agent is what one version of the project says, the one that is kept *)
(* unless the network was given as a URL; and the id is that version's too.*)
ContextInv ==
    /\ files \in Projects \cup {None} /\ cached \in Projects \cup {None}
    /\ input \in Inputs
    /\ phase \in {"parse", "agent", "id", "call", "error"}
    /\ phase \in {"agent", "id", "call"} => OneSelected(input)
    /\ phase = "id" => input.command = "canister"
    /\ phase \in {"id", "call"} =>
        /\ agent # None
        /\ \E p \in Projects \cup {None} : agent = AgentOf(p, input)
        /\ input.net \notin Urls => agent = AgentOf(cached, input)
    /\ phase = "call" /\ input.command = "canister" /\ input.canister # "principal" =>
        /\ input.net = None
        /\ found # None /\ found = Lookup(cached, EnvironmentOf(input), input.canister)

(* A URL is given or it is not.                                            *)
LEMMA NoProject == \A e : Environment(None, e) = None
BY DEF Environment

LEMMA ContextStep == ASSUME ContextAssumption PROVE ContextInv /\ [ContextNext]_contextVars => ContextInv'
<1> SUFFICES ASSUME ContextInv, [ContextNext]_contextVars PROVE ContextInv'
  OBVIOUS
<1>1. CASE UNCHANGED contextVars
  BY <1>1 DEF contextVars, ContextInv
<1>2. CASE Parse
  BY <1>2 DEF Parse, ContextInv
<1>3. CASE GetAgent
  <2>1. Loaded \in Projects \cup {None}
    BY DEF Loaded, ContextInv
  <2>2. input.net \notin Urls => cached' = Loaded
    BY <1>3 DEF GetAgent, Kept, Loaded
  <2>3. cached' \in Projects \cup {None}
    BY <1>3, <2>1 DEF GetAgent, Kept, ContextInv
  <2>4. phase' \in {"error", "call", "id"} /\ (phase' # "error" => agent' # None)
    BY <1>3 DEF GetAgent
  <2>5. agent' = AgentOf(Loaded, input) /\ UNCHANGED <<files, input, found>> /\ phase = "agent"
    BY <1>3 DEF GetAgent
  <2>6. phase' = "id" => input.command = "canister"
    BY <1>3 DEF GetAgent, ContextInv, Inputs
  <2>7. phase' = "call" => input.command # "canister"
    BY <1>3 DEF GetAgent, ContextInv, Inputs
  <2>8. PICK loaded : loaded = Loaded
    OBVIOUS
  <2>9. input.net \notin Urls => agent' = AgentOf(cached', input')
    BY <2>2, <2>5
  <2>10. \E p \in Projects \cup {None} : agent' = AgentOf(p, input')
    BY <2>1, <2>5
  <2> QED BY <2>3, <2>4, <2>5, <2>6, <2>7, <2>9, <2>10 DEF ContextInv
<1>4. CASE GetCanisterId
  <2>1. Loaded \in Projects \cup {None}
    BY DEF Loaded, ContextInv
  <2>2. cached' \in Projects \cup {None} /\ (cached # None => cached' = cached)
    BY <1>4, <2>1 DEF GetCanisterId, Kept, ContextInv
  <2>3. UNCHANGED <<files, input, agent>> /\ phase = "id" /\ phase' \in {"error", "call"}
    BY <1>4 DEF GetCanisterId
  <2>4. ASSUME input.net \notin Urls
        PROVE  agent' = AgentOf(cached', input')
    <3>1. agent = AgentOf(cached, input)
      BY <2>3, <2>4 DEF ContextInv
    <3>2. CASE cached # None
      BY <2>2, <2>3, <3>1, <3>2
    <3>3. CASE cached = None
      <4>1. input.net # None
        BY <2>3, <3>1, <3>3, NoProject DEF AgentOf, NetworkOf, ContextInv
      <4>2. cached' = cached
        BY <1>4, <4>1 DEF GetCanisterId
      <4> QED BY <2>3, <3>1, <4>2
    <3> QED BY <3>2, <3>3
  <2>5. ASSUME phase' = "call", input.canister # "principal"
        PROVE  /\ input.net = None
               /\ found' # None /\ found' = Lookup(cached', EnvironmentOf(input), input.canister)
    <3>1. found' # None /\ found' = CanisterId(Loaded, input)
      BY <1>4, <2>5 DEF GetCanisterId
    <3>2. input.net = None
      BY <2>5, <3>1 DEF CanisterId
    <3>3. found' = Lookup(Loaded, EnvironmentOf(input), input.canister)
      BY <2>5, <3>1, <3>2 DEF CanisterId
    <3>4. cached' = Loaded
      BY <1>4, <2>5, <3>2 DEF GetCanisterId, Kept, Loaded
    <3> QED BY <3>1, <3>2, <3>3, <3>4
  <2> QED BY <2>2, <2>3, <2>4, <2>5 DEF ContextInv
<1>5. CASE Edit
  BY <1>5 DEF Edit, ContextInv
<1> QED BY <1>1, <1>2, <1>3, <1>4, <1>5 DEF ContextNext

(* context get_agent, get_canister_id: a canister named in an environment  *)
(* is called on that environment's network under the id that is recorded   *)
(* for it there, both as one version of the project has them, for any      *)
(* versions of the project, arguments and edits between the lookups.       *)
THEOREM OneProjectDecides == ASSUME ContextAssumption PROVE ContextSpec => []AgentMatchesIds
<1>1. ContextInit => ContextInv
  BY DEF ContextInit, ContextInv
<1>2. ContextInv => AgentMatchesIds
  <2> SUFFICES ASSUME ContextInv, phase = "call" PROVE AgentMatchesIds
    BY DEF AgentMatchesIds
  <2>1. CASE input.command = "canister" /\ input.canister # "principal"
    <3>1. /\ input.net = None /\ cached \in Projects \cup {None}
          /\ found # None /\ found = Lookup(cached, EnvironmentOf(input), input.canister)
      BY <2>1 DEF ContextInv
    <3>2. agent = AgentOf(cached, input)
      BY <3>1 DEF ContextInv, ContextAssumption
    <3>3. PICK env : env = Environment(cached, EnvironmentOf(input))
      OBVIOUS
    <3>4. env # None /\ input.canister \in env.canisters
      BY <3>1, <3>3 DEF Lookup
    <3>5. /\ cached \in Projects /\ cached # None
          /\ EnvironmentOf(input) \in DOMAIN cached.environments \ cached.undeclared
          /\ env = cached.environments[EnvironmentOf(input)]
      BY <3>1, <3>3, <3>4 DEF Environment
    <3>6. found = [managed |-> env.managed, env |-> EnvironmentOf(input), name |-> input.canister]
      BY <3>1, <3>3, <3>4 DEF Lookup
    <3>7. agent = env.network
      <4>1. agent = NetworkOf(env)
        BY <2>1, <3>1, <3>2, <3>3 DEF AgentOf, ContextAssumption
      <4> QED BY <3>4, <4>1 DEF NetworkOf
    <3> QED BY <2>1, <3>4, <3>5, <3>6, <3>7 DEF AgentMatchesIds
  <2>2. CASE ~(input.command = "canister" /\ input.canister # "principal")
    <3>1. PICK p \in Projects \cup {None} : agent = AgentOf(p, input)
      BY DEF ContextInv
    <3>2. CASE input.command = "canister"
      <4>1. input.name = None
        BY <3>2 DEF ContextInv, Inputs
      <4> QED BY <2>2, <3>1, <3>2, <4>1 DEF AgentOf, AgentMatchesIds
    <3>3. CASE input.command = "network"
      <4>1. input.net = None /\ OneSelected(input)
        BY <3>3 DEF ContextInv, Inputs
      <4>2. agent = NetworkOrEnvironment(p, Asked(input))
        BY <3>1, <3>3 DEF AgentOf
      <4>3. agent = IF input.name # None THEN Network(p, input.name)
                    ELSE IF input.env # None THEN NetworkOf(Environment(p, input.env))
                    ELSE IF input.var # None THEN NetworkOf(Environment(p, input.var))
                    ELSE Network(p, Local)
        <5>1. CASE input.name # None
          BY <4>2, <5>1 DEF Asked, NetworkOrEnvironment
        <5>2. CASE input.name = None /\ input.env # None
          BY <4>2, <5>2 DEF Asked, NetworkOrEnvironment
        <5>3. CASE input.name = None /\ input.env = None /\ input.var # None
          BY <4>2, <5>3 DEF Asked, NetworkOrEnvironment
        <5>4. CASE input.name = None /\ input.env = None /\ input.var = None
          BY <4>2, <5>4 DEF Asked, NetworkOrEnvironment
        <5> QED BY <5>1, <5>2, <5>3, <5>4
      <4> QED BY <2>2, <3>3, <4>1, <4>3 DEF AgentMatchesIds
    <3> QED BY <3>2, <3>3 DEF ContextInv, Inputs
  <2> QED BY <2>1, <2>2
<1> QED BY <1>1, <1>2, ContextStep, PTL DEF ContextSpec
=============================================================================
