----------------------- MODULE CanisterCreation_proofs -----------------------
(* For any manifest, and any number of invocations that interleave, fail    *)
(* and are killed: no id is ever recorded under another name, no canister   *)
(* is given a controller that its manifest does not name, and none is paid  *)
(* for twice.  With one invocation at a time: no id is lost, and once none  *)
(* is under way the canisters have their controllers and are together.      *)
EXTENDS CanisterCreation, WellFoundedInduction, TLAPS

Fields == {"pc", "kind", "want", "left", "name", "failed", "ids", "mem", "pend", "seen"}

Typed ==
    /\ made \in [Ids -> Canisters \cup {None}]
    /\ op \in [Runs -> Operations]
    /\ call \in [Runs -> [Names -> Waiting \cup Ids \cup {"none", "failed"}]]
    /\ block \in [Runs -> [Names -> Ids \cup {None}]]
    /\ store \in Mappings \cup {CutShort}
    /\ controllers \in [Ids -> SUBSET Ids]
    /\ DOMAIN runs = Runs

RunTyped(x) ==
    /\ DOMAIN x = Fields
    /\ x.want \subseteq Names
    /\ x.ids \in Mappings /\ x.mem \in Mappings
    /\ x.pend \subseteq Known(x.ids)
    /\ x.pend # {} => x.pc \in {"dependents", "settings"}
    /\ x.seen \in [Names -> (SUBSET Ids) \cup {None}]

(* A canister that a name's id refers to is there and is that name's, and   *)
(* its controllers are those that the manifest names.                       *)
NamedFor(n, S) == \A c \in S : made[c] # None /\ made[c].name \in Refs[n]
Held(n, i) == i \in Ids => made[i] # None /\ made[i].name = n /\ NamedFor(n, controllers[i])

(* Whatever knows an id, knows it under the name the canister was made for. *)
StoreHeld == store # CutShort => \A n \in Names : Held(n, store[n])
RunHeld(r) ==
    \A n \in Names :
        /\ Held(n, runs[r].ids[n]) /\ Held(n, runs[r].mem[n])
        /\ Held(n, call[r][n]) /\ Held(n, block[r][n])
        /\ runs[r].seen[n] # None => NamedFor(n, runs[r].seen[n])
FirstMade(r) == op[r].first # None => made[op[r].first] # None

(* What is not made has no controllers, and past the resolution of the      *)
(* subnet there is one.                                                     *)
Blank == \A i \in Ids : made[i] = None => controllers[i] = {}
OnSubnet == {"engine", "transfer", "notify", "ledger", "operator", "mgmt"}
Placed(r) == \A n \in Names : call[r][n] \in OnSubnet => op[r].subnet \in Subnets

RunInv(r) == RunTyped(runs[r]) /\ RunHeld(r) /\ FirstMade(r) /\ Placed(r)
IInv == Typed /\ StoreHeld /\ Blank /\ (\A r \in Runs : RunInv(r))

-----------------------------------------------------------------------------
LEMMA LeastOf == ASSUME NEW S \in SUBSET Nat, S # {} PROVE \E k \in S : \A j \in S : k <= j
<1> DEFINE R == OpToRel(<, Nat)
<1>1. IsWellFoundedOn(R, Nat)
  BY Zenon, NatLessThanWellFounded
<1>2. \E k \in S : \A j \in S : ~ (<<j, k>> \in R)
  <2> HIDE DEF R
  <2> QED BY <1>1, WFMin
<1>3. \A j, k \in Nat : j < k => <<j, k>> \in R
  BY Zenon DEF OpToRel
<1> HIDE DEF R
<1>4. PICK k \in S : \A j \in S : ~ (<<j, k>> \in R)
  BY <1>2
<1>5. ASSUME NEW j \in S PROVE k <= j
  <2>1. ~ (j < k)
    BY <1>3, <1>4
  <2> QED BY <2>1
<1> QED BY <1>5

(* The first of some names is one of them, and so with what exists.         *)
LEMMA FirstIsIn == ASSUME NEW S \in SUBSET Names, S # {} PROVE FirstIn(S) \in S
<1> DEFINE K == {k \in DOMAIN Listing : Listing[k] \in S}
<1>1. K \in SUBSET Nat /\ K # {}
  BY ManifestAssumption
<1> HIDE DEF K
<1>2. \E k \in K : \A j \in K : k <= j
  BY <1>1, LeastOf
<1>3. \E k \in DOMAIN Listing : Listing[k] \in S /\ \A j \in DOMAIN Listing : Listing[j] \in S => k <= j
  BY <1>2 DEF K
<1> QED BY <1>3 DEF FirstIn

LEMMA FirstIsKnown ==
    ASSUME NEW ids \in Mappings
    PROVE  FirstOf(ids) = None \/ \E n \in Known(ids) : FirstOf(ids) = ids[n]
<1>1. Known(ids) \subseteq Names
  BY DEF Known
<1> QED BY <1>1, FirstIsIn DEF FirstOf

(* What is resolved is named.                                               *)
LEMMA ResolvedIsNamed ==
    ASSUME NEW n \in Names, NEW ids \in Mappings, \A m \in Names : Held(m, ids[m])
    PROVE  Resolve(n, ids) \subseteq Ids /\ NamedFor(n, Resolve(n, ids))
<1>1. ASSUME NEW c \in Resolve(n, ids) PROVE c \in Ids /\ made[c] # None /\ made[c].name \in Refs[n]
  <2>1. PICK m \in Refs[n] \cap Known(ids) : c = ids[m]
    BY DEF Resolve
  <2>2. m \in Names /\ ids[m] \in Ids
    BY <2>1 DEF Known, Mappings
  <2> QED BY <2>1, <2>2 DEF Held
<1> QED BY <1>1 DEF NamedFor

(* An idle run knows nothing.                                               *)
LEMMA IdleHolds ==
    ASSUME NEW r \in Runs, Typed', Runs = DOMAIN runs', runs'[r].ids = NoIds, runs'[r].mem = NoIds,
           runs'[r].pend = {}, runs'[r].seen = NoIds, DOMAIN runs'[r] = Fields, runs'[r].want \subseteq Names,
           call'[r] = NoCall, block'[r] = NoIds, op'[r] = NoOperation
    PROVE  RunInv(r)'
<1>1. NoIds \in Mappings /\ NoIds \in [Names -> (SUBSET Ids) \cup {None}]
  BY DEF NoIds, Mappings
<1>0. RunTyped(runs'[r])
  BY <1>1 DEF RunTyped, Known
<1>2. \A n \in Names : NoIds[n] = None /\ NoCall[n] = "none"
  BY DEF NoIds, NoCall
<1>3. None \notin Ids /\ "none" \notin Ids
  BY NetworkAssumption
<1>4. RunHeld(r)'
  BY <1>2, <1>3 DEF RunHeld, Held
<1>5. FirstMade(r)' /\ Placed(r)'
  BY <1>2 DEF FirstMade, NoOperation, Placed, OnSubnet
<1> QED BY <1>0, <1>4, <1>5 DEF RunInv

LEMMA InitIInv == CreationInit => IInv
<1> SUFFICES ASSUME CreationInit PROVE IInv
  OBVIOUS
<1>1. Typed
  BY NetworkAssumption DEF CreationInit, InitNetwork, Typed, NoOperation, Operations, NoCall, NoIds, Mappings
<1>2. Blank
  BY DEF CreationInit, InitNetwork, Blank
<1>3. \A n \in Names : NoIds[n] = None /\ NoCall[n] = "none" /\ None \notin Ids /\ "none" \notin Ids
  BY NetworkAssumption DEF NoIds, NoCall
<1>4. StoreHeld
  BY <1>3 DEF CreationInit, StoreHeld, Held
<1>5. ASSUME NEW r \in Runs PROVE RunInv(r)
  <2>1. runs[r] = Idle /\ call[r] = NoCall /\ block[r] = NoIds /\ op[r] = NoOperation
    BY <1>5 DEF CreationInit, InitNetwork, NoIds
  <2>2. NoIds \in Mappings /\ NoIds \in [Names -> (SUBSET Ids) \cup {None}]
    BY DEF NoIds, Mappings
  <2>5. RunTyped(runs[r])
    BY <2>1, <2>2 DEF RunTyped, Idle, Fields, Known
  <2>3. RunHeld(r)
    BY <2>1, <1>3 DEF RunHeld, Held, Idle
  <2>4. FirstMade(r) /\ Placed(r)
    BY <2>1, <1>3 DEF FirstMade, NoOperation, Placed, OnSubnet
  <2> QED BY <2>3, <2>4, <2>5 DEF RunInv
<1> QED BY <1>1, <1>2, <1>4, <1>5 DEF IInv

-----------------------------------------------------------------------------
(* A step that changes what one run knows, and perhaps the id store.        *)
LEMMA SaveKeeps ==
    ASSUME IInv, NEW r \in Runs, UNCHANGED <<network, controllers>>, store' \in Mappings \cup {CutShort},
           store' # CutShort => \A n \in Names : Held(n, store'[n]),
           DOMAIN runs' = Runs, \A q \in Runs \ {r} : runs'[q] = runs[q], RunTyped(runs'[r]),
           \A n \in Names :
               /\ Held(n, runs'[r].ids[n]) /\ Held(n, runs'[r].mem[n])
               /\ runs'[r].seen[n] # None => NamedFor(n, runs'[r].seen[n])
    PROVE  IInv'
<1>1. Typed' /\ Blank'
  BY DEF IInv, network, Typed, Blank
<1>2. StoreHeld'
  BY DEF network, StoreHeld, Held, NamedFor
<1>3. ASSUME NEW q \in Runs PROVE RunInv(q)'
  <2>1. RunTyped(runs'[q])
    BY DEF IInv, RunInv
  <2>2. RunHeld(q)'
    BY DEF IInv, RunInv, RunHeld, network, Held, NamedFor
  <2>3. FirstMade(q)' /\ Placed(q)'
    BY DEF IInv, RunInv, FirstMade, Placed, network
  <2> QED BY <2>1, <2>2, <2>3 DEF RunInv
<1> QED BY <1>1, <1>2, <1>3 DEF IInv

(* A step that changes nothing but what a run knows.                        *)
LEMMA RunKeeps ==
    ASSUME IInv, NEW r \in Runs, UNCHANGED <<network, store, controllers>>,
           DOMAIN runs' = Runs, \A q \in Runs \ {r} : runs'[q] = runs[q], RunTyped(runs'[r]),
           \A n \in Names :
               /\ Held(n, runs'[r].ids[n]) /\ Held(n, runs'[r].mem[n])
               /\ runs'[r].seen[n] # None => NamedFor(n, runs'[r].seen[n])
    PROVE  IInv'
BY SaveKeeps DEF IInv, Typed, StoreHeld

(* The fields of a run, which EXCEPT leaves alone.                          *)
LEMMA RunFields ==
    ASSUME IInv, NEW r \in Runs
    PROVE  /\ DOMAIN runs = Runs /\ DOMAIN runs[r] = Fields /\ RunTyped(runs[r])
           /\ runs[r].ids \in Mappings /\ runs[r].mem \in Mappings
           /\ \A n \in Names :
                  /\ Held(n, runs[r].ids[n]) /\ Held(n, runs[r].mem[n])
                  /\ Held(n, call[r][n]) /\ Held(n, block[r][n])
                  /\ runs[r].seen[n] # None => NamedFor(n, runs[r].seen[n])
BY DEF IInv, Typed, RunInv, RunTyped, RunHeld

LEMMA TakeCreatedKeeps == ASSUME IInv, NEW r \in Runs, TakeCreated(r) PROVE IInv'
<1> DEFINE n == NextResult(r)
           mem == [NoIds EXCEPT ![n] = call[r][n]]
<1>1. UNCHANGED <<network, store, controllers>> /\ call[r][n] \in Ids /\ At(r, "create")
      /\ runs' = [runs EXCEPT ![r].pc = "register", ![r].name = n,
                            ![r].left = runs[r].left \ {n}, ![r].mem = mem]
  BY DEF TakeCreated
<1>2. mem \in Mappings /\ \A m \in Names : mem[m] = None \/ mem[m] = call[r][m]
  BY <1>1 DEF NoIds, Mappings
<1> HIDE DEF mem, n
<1>3. /\ DOMAIN runs' = Runs /\ \A q \in Runs \ {r} : runs'[q] = runs[q]
      /\ DOMAIN runs'[r] = Fields /\ runs'[r].mem = mem /\ runs'[r].pc = "register"
      /\ \A x \in {"ids", "pend", "seen", "want"} : runs'[r][x] = runs[r][x]
  BY <1>1, RunFields DEF Fields
<1>4. runs[r].pend = {}
  BY <1>1, RunFields DEF RunTyped, At
<1>5. RunTyped(runs'[r])
  BY <1>2, <1>3, <1>4, RunFields DEF RunTyped, Known
<1>6. \A m \in Names : Held(m, mem[m])
  BY <1>2, RunFields, NetworkAssumption DEF Held
<1> QED BY <1>1, <1>3, <1>5, <1>6, RunFields, RunKeeps

(* Taking an error, or going on: what the run knows stays.                  *)
LEMMA TakeErrorKeeps == ASSUME IInv, NEW r \in Runs, TakeError(r) PROVE IInv'
<1>1. /\ UNCHANGED <<network, store, controllers>> /\ At(r, "create")
      /\ runs' = [runs EXCEPT ![r].failed = TRUE, ![r].left = runs[r].left \ {NextResult(r)}]
  BY DEF TakeError
<1>2. /\ DOMAIN runs' = Runs /\ \A q \in Runs \ {r} : runs'[q] = runs[q]
      /\ DOMAIN runs'[r] = Fields
      /\ \A x \in {"pc", "ids", "mem", "pend", "seen", "want"} : runs'[r][x] = runs[r][x]
  BY <1>1, RunFields DEF Fields
<1>3. RunTyped(runs'[r])
  BY <1>2, RunFields DEF RunTyped, Known
<1> QED BY <1>1, <1>2, <1>3, RunFields, RunKeeps

LEMMA GoOnKeeps ==
    ASSUME IInv, NEW r \in Runs, NEW pc, UNCHANGED <<network, store, controllers>>,
           runs' = [runs EXCEPT ![r].pc = pc], runs[r].pend = {}
    PROVE  IInv'
<1>1. /\ DOMAIN runs' = Runs /\ \A q \in Runs \ {r} : runs'[q] = runs[q]
      /\ DOMAIN runs'[r] = Fields
      /\ \A x \in {"ids", "mem", "pend", "seen", "want"} : runs'[r][x] = runs[r][x]
  BY RunFields DEF Fields
<1>2. RunTyped(runs'[r])
  BY <1>1, RunFields DEF RunTyped, Known
<1> QED BY <1>1, <1>2, RunFields, RunKeeps

LEMMA DependentsDoneKeeps == ASSUME IInv, NEW r \in Runs, DependentsDone(r) PROVE IInv'
BY GoOnKeeps DEF DependentsDone

LEMMA RegisterKeeps == ASSUME IInv, NEW r \in Runs, Register(r) PROVE IInv'
<1> DEFINE n == runs[r].name
           mem == [store EXCEPT ![n] = runs[r].mem[n]]
<1>1. /\ UNCHANGED <<network, store, controllers>> /\ At(r, "register") /\ store # CutShort
      /\ runs' = [runs EXCEPT ![r].pc = "truncate", ![r].mem = mem]
  BY DEF Register
<1>2. store \in Mappings /\ \A m \in Names : Held(m, store[m])
  BY <1>1 DEF IInv, Typed, StoreHeld
<1>3. mem \in Mappings /\ \A m \in Names : mem[m] = store[m] \/ mem[m] = runs[r].mem[m]
  BY <1>2, RunFields DEF Mappings
<1> HIDE DEF mem, n
<1>4. /\ DOMAIN runs' = Runs /\ \A q \in Runs \ {r} : runs'[q] = runs[q]
      /\ DOMAIN runs'[r] = Fields /\ runs'[r].mem = mem
      /\ \A x \in {"ids", "pend", "seen", "want"} : runs'[r][x] = runs[r][x]
  BY <1>1, RunFields DEF Fields
<1>5. runs[r].pend = {}
  BY <1>1, RunFields DEF RunTyped, At
<1>6. RunTyped(runs'[r])
  BY <1>3, <1>4, <1>5, RunFields DEF RunTyped, Known
<1>7. \A m \in Names : Held(m, mem[m])
  BY <1>2, <1>3, RunFields
<1> QED BY <1>1, <1>4, <1>6, <1>7, RunFields, RunKeeps

LEMMA LoadKeeps ==
    ASSUME IInv, NEW r \in Runs, NEW from, NEW to \in {"dependents", "settings"}, NEW S, Load(r, from, to, S)
    PROVE  IInv'
<1>1. /\ UNCHANGED <<network, store, controllers>> /\ store # CutShort /\ S \subseteq Known(store)
      /\ runs' = [runs EXCEPT ![r].pc = to, ![r].ids = store, ![r].pend = S]
  BY DEF Load
<1>2. store \in Mappings /\ \A m \in Names : Held(m, store[m])
  BY <1>1 DEF IInv, Typed, StoreHeld
<1>3. /\ DOMAIN runs' = Runs /\ \A q \in Runs \ {r} : runs'[q] = runs[q]
      /\ DOMAIN runs'[r] = Fields /\ runs'[r].ids = store /\ runs'[r].pc = to /\ runs'[r].pend = S
      /\ \A x \in {"mem", "seen", "want"} : runs'[r][x] = runs[r][x]
  BY <1>1, RunFields DEF Fields
<1>4. RunTyped(runs'[r])
  BY <1>1, <1>2, <1>3, RunFields DEF RunTyped, Known
<1> QED BY <1>1, <1>2, <1>3, <1>4, RunFields, RunKeeps

(* A sync that forgets a name, having failed.                               *)
LEMMA SyncFailsKeeps == ASSUME IInv, NEW r \in Runs, NEW n \in Names, SyncFails(r, n) PROVE IInv'
<1> DEFINE seen == [runs[r].seen EXCEPT ![n] = None]
<1>1. /\ UNCHANGED <<network, store, controllers>>
      /\ runs' = [runs EXCEPT ![r].pend = runs[r].pend \ {n}, ![r].seen = seen,
                            ![r].failed = runs[r].failed \/ At(r, "settings")]
  BY DEF SyncFails
<1>2. /\ seen \in [Names -> (SUBSET Ids) \cup {None}]
      /\ \A m \in Names : seen[m] = None \/ seen[m] = runs[r].seen[m]
  BY RunFields DEF RunTyped
<1> HIDE DEF seen
<1>3. /\ DOMAIN runs' = Runs /\ \A q \in Runs \ {r} : runs'[q] = runs[q]
      /\ DOMAIN runs'[r] = Fields /\ runs'[r].seen = seen /\ runs'[r].pend = runs[r].pend \ {n}
      /\ \A x \in {"pc", "ids", "mem", "want"} : runs'[r][x] = runs[r][x]
  BY <1>1, RunFields DEF Fields
<1>4. RunTyped(runs'[r])
  BY <1>2, <1>3, RunFields DEF RunTyped, Known
<1> QED BY <1>1, <1>2, <1>3, <1>4, RunFields, RunKeeps

LEMMA SyncReadKeeps == ASSUME IInv, NEW r \in Runs, NEW n \in Names, SyncRead(r, n) PROVE IInv'
<1> DEFINE i == runs[r].ids[n]
           seen == [runs[r].seen EXCEPT ![n] = controllers[i]]
<1>1. /\ UNCHANGED <<network, store, controllers>> /\ n \in runs[r].pend
      /\ runs' = [runs EXCEPT ![r].seen = seen]
  BY DEF SyncRead, MaySync
<1>2. i \in Ids /\ Held(n, i) /\ controllers[i] \in SUBSET Ids
  BY <1>1, RunFields DEF RunTyped, Known, Mappings, IInv, Typed
<1>3. /\ seen \in [Names -> (SUBSET Ids) \cup {None}]
      /\ seen[n] = controllers[i] /\ \A m \in Names \ {n} : seen[m] = runs[r].seen[m]
  BY <1>2, RunFields DEF RunTyped
<1>4. \A m \in Names : seen[m] # None => NamedFor(m, seen[m])
  BY <1>2, <1>3, RunFields DEF Held
<1> HIDE DEF seen, i
<1>5. /\ DOMAIN runs' = Runs /\ \A q \in Runs \ {r} : runs'[q] = runs[q]
      /\ DOMAIN runs'[r] = Fields /\ runs'[r].seen = seen
      /\ \A x \in {"pc", "ids", "mem", "pend", "want"} : runs'[r][x] = runs[r][x]
  BY <1>1, RunFields DEF Fields
<1>6. RunTyped(runs'[r])
  BY <1>3, <1>5, RunFields DEF RunTyped, Known
<1> QED BY <1>1, <1>4, <1>5, <1>6, RunFields, RunKeeps

(* An update writes what was read with what the manifest adds.              *)
LEMMA SyncUpdateKeeps == ASSUME IInv, NEW r \in Runs, NEW n \in Names, SyncUpdate(r, n) PROVE IInv'
<1> DEFINE i == runs[r].ids[n]
           desired == runs[r].seen[n] \cup Resolve(n, runs[r].ids)
           seen == [runs[r].seen EXCEPT ![n] = None]
<1>1. /\ UNCHANGED <<network, store>> /\ n \in runs[r].pend /\ runs[r].seen[n] # None
      /\ controllers' = controllers \/ controllers' = [controllers EXCEPT ![i] = desired]
      /\ runs' = [runs EXCEPT ![r].pend = runs[r].pend \ {n}, ![r].seen = seen]
  BY DEF SyncUpdate, MaySync
<1>2. i \in Ids /\ Held(n, i)
  BY <1>1, RunFields DEF RunTyped, Known, Mappings
<1>3. desired \in SUBSET Ids /\ NamedFor(n, desired)
  <2>1. runs[r].seen[n] \in SUBSET Ids /\ NamedFor(n, runs[r].seen[n])
    BY <1>1, RunFields DEF RunTyped
  <2>2. Resolve(n, runs[r].ids) \subseteq Ids /\ NamedFor(n, Resolve(n, runs[r].ids))
    BY RunFields, ResolvedIsNamed
  <2> QED BY <2>1, <2>2 DEF NamedFor
<1>4. /\ seen \in [Names -> (SUBSET Ids) \cup {None}]
      /\ \A m \in Names : seen[m] = None \/ seen[m] = runs[r].seen[m]
  BY RunFields DEF RunTyped
<1> HIDE DEF seen, desired, i
<1>5. /\ DOMAIN runs' = Runs /\ \A q \in Runs \ {r} : runs'[q] = runs[q]
      /\ DOMAIN runs'[r] = Fields /\ runs'[r].seen = seen /\ runs'[r].pend = runs[r].pend \ {n}
      /\ \A x \in {"pc", "ids", "mem", "want"} : runs'[r][x] = runs[r][x]
  BY <1>1, RunFields DEF Fields
<1>6. made' = made /\ op' = op /\ call' = call /\ block' = block /\ store' = store
  BY <1>1 DEF network
<1>7. /\ controllers \in [Ids -> SUBSET Ids] /\ controllers' \in [Ids -> SUBSET Ids]
      /\ \A j \in Ids : controllers'[j] = controllers[j] \/ (j = i /\ controllers'[j] = desired)
  BY <1>1, <1>2, <1>3 DEF IInv, Typed
<1>8. ASSUME NEW m \in Names, NEW j, Held(m, j) PROVE Held(m, j)'
  <2>1. CASE j = i
    BY <1>2, <1>3, <1>6, <1>7, <1>8, <2>1 DEF Held, NamedFor
  <2>2. CASE j # i
    BY <1>6, <1>7, <1>8, <2>2 DEF Held, NamedFor
  <2> QED BY <2>1, <2>2
<1>9. Typed' /\ Blank'
  BY <1>2, <1>5, <1>6, <1>7 DEF IInv, Typed, Blank, Held
<1>10. StoreHeld'
  BY <1>6, <1>8 DEF IInv, StoreHeld, Held, NamedFor
<1>11. ASSUME NEW q \in Runs PROVE RunInv(q)'
  <2>1. RunTyped(runs'[r])
    BY <1>4, <1>5, RunFields DEF RunTyped, Known
  <2>2. RunTyped(runs'[q])
    BY <1>5, <2>1, RunFields
  <2>3. /\ runs'[q].ids = runs[q].ids /\ runs'[q].mem = runs[q].mem
        /\ \A m \in Names : runs'[q].seen[m] = None \/ runs'[q].seen[m] = runs[q].seen[m]
    BY <1>4, <1>5
  <2>4. RunHeld(q)'
    BY <1>6, <1>8, <2>3, RunFields DEF RunHeld, Held, NamedFor
  <2>5. FirstMade(q)' /\ Placed(q)'
    BY <1>6 DEF IInv, RunInv, FirstMade, Placed
  <2> QED BY <2>2, <2>4, <2>5 DEF RunInv
<1> QED BY <1>9, <1>10, <1>11 DEF IInv

-----------------------------------------------------------------------------
(* The id store is written.                                                 *)
LEMMA TruncateKeeps == ASSUME IInv, NEW r \in Runs, Truncate(r) PROVE IInv'
<1>1. /\ UNCHANGED <<network, controllers>> /\ store' = CutShort /\ At(r, "truncate")
      /\ runs' = [runs EXCEPT ![r].pc = "write"]
  BY DEF Truncate
<1>2. /\ DOMAIN runs' = Runs /\ \A q \in Runs \ {r} : runs'[q] = runs[q]
      /\ DOMAIN runs'[r] = Fields
      /\ \A x \in {"ids", "mem", "pend", "seen", "want"} : runs'[r][x] = runs[r][x]
  BY <1>1, RunFields DEF Fields
<1>3. runs[r].pend = {}
  BY <1>1, RunFields DEF RunTyped, At
<1>4. RunTyped(runs'[r])
  BY <1>2, <1>3, RunFields DEF RunTyped, Known
<1> QED BY <1>1, <1>2, <1>4, RunFields, SaveKeeps

LEMMA WriteKeeps == ASSUME IInv, NEW r \in Runs, Write(r) PROVE IInv'
<1>1. /\ UNCHANGED <<network, controllers>> /\ store' = runs[r].mem /\ At(r, "write")
      /\ runs' = [runs EXCEPT ![r].pc = "load_dependents", ![r].mem = NoIds]
  BY DEF Write
<1>2. /\ DOMAIN runs' = Runs /\ \A q \in Runs \ {r} : runs'[q] = runs[q]
      /\ DOMAIN runs'[r] = Fields /\ runs'[r].mem = NoIds
      /\ \A x \in {"ids", "pend", "seen", "want"} : runs'[r][x] = runs[r][x]
  BY <1>1, RunFields DEF Fields
<1>3. runs[r].pend = {}
  BY <1>1, RunFields DEF RunTyped, At
<1>4. NoIds \in Mappings /\ \A n \in Names : NoIds[n] = None
  BY DEF NoIds, Mappings
<1>5. RunTyped(runs'[r])
  BY <1>2, <1>3, <1>4, RunFields DEF RunTyped, Known
<1>6. \A n \in Names : Held(n, NoIds[n])
  BY <1>4, NetworkAssumption DEF Held
<1> QED BY <1>1, <1>2, <1>5, <1>6, RunFields, SaveKeeps

-----------------------------------------------------------------------------
(* A run ends, and what nothing refers to any more is forgotten: not what   *)
(* the store or another run knows, nor its controllers.                     *)
Survivors(r) == Ids \cap (Recorded \cup UNION {RefersTo(q) : q \in Runs \ {r}})

LEMMA SurvivorsAre ==
    ASSUME IInv, NEW r \in Runs
    PROVE  /\ Survivors(r) \subseteq Kept(r) /\ Kept(r) \subseteq Ids
           /\ \A i \in Survivors(r) : controllers[i] \subseteq Kept(r)
           /\ store # CutShort => \A n \in Names : store[n] \in Ids => store[n] \in Survivors(r)
           /\ \A q \in Runs \ {r} :
                 /\ op[q].first \in Ids => op[q].first \in Survivors(r)
                 /\ \A n \in Names :
                       /\ runs[q].ids[n] \in Ids => runs[q].ids[n] \in Survivors(r)
                       /\ runs[q].mem[n] \in Ids => runs[q].mem[n] \in Survivors(r)
                       /\ call[q][n] \in Ids => call[q][n] \in Survivors(r)
                       /\ block[q][n] \in Ids => block[q][n] \in Survivors(r)
                       /\ runs[q].seen[n] # None => runs[q].seen[n] \subseteq Survivors(r)
<1>1. Kept(r) = Survivors(r) \cup UNION {controllers[i] : i \in Survivors(r)}
  BY DEF Kept, Survivors
<1>2. \A i \in Ids : controllers[i] \subseteq Ids
  BY DEF IInv, Typed
<1>3. Survivors(r) \subseteq Ids
  BY DEF Survivors
<1>4. /\ Survivors(r) \subseteq Kept(r) /\ Kept(r) \subseteq Ids
      /\ \A i \in Survivors(r) : controllers[i] \subseteq Kept(r)
  BY <1>1, <1>2, <1>3
<1>5. ASSUME store # CutShort, NEW n \in Names, store[n] \in Ids PROVE store[n] \in Survivors(r)
  BY <1>5 DEF Survivors, Recorded
<1>6. ASSUME NEW q \in Runs \ {r}
      PROVE  /\ op[q].first \in Ids => op[q].first \in Survivors(r)
             /\ \A n \in Names :
                    /\ runs[q].ids[n] \in Ids => runs[q].ids[n] \in Survivors(r)
                    /\ runs[q].mem[n] \in Ids => runs[q].mem[n] \in Survivors(r)
                    /\ call[q][n] \in Ids => call[q][n] \in Survivors(r)
                    /\ block[q][n] \in Ids => block[q][n] \in Survivors(r)
                    /\ runs[q].seen[n] # None => runs[q].seen[n] \subseteq Survivors(r)
  <2>1. \A i \in Ids \cap RefersTo(q) : i \in Survivors(r)
    BY DEF Survivors
  <2>2. op[q].first \in RefersTo(q)
    BY DEF RefersTo
  <2>3. ASSUME NEW n \in Names
        PROVE  /\ runs[q].ids[n] \in RefersTo(q) /\ runs[q].mem[n] \in RefersTo(q)
               /\ call[q][n] \in RefersTo(q) /\ block[q][n] \in RefersTo(q)
    BY DEF RefersTo
  <2>4. ASSUME NEW n \in Names, runs[q].seen[n] # None PROVE runs[q].seen[n] \subseteq Ids \cap RefersTo(q)
    <3>1. runs[q].seen[n] \subseteq Ids
      BY <2>4, RunFields DEF RunTyped
    <3>2. runs[q].seen[n] \subseteq UNION {runs[q].seen[m] : m \in {x \in Names : runs[q].seen[x] # None}}
      BY <2>4
    <3> QED BY <3>1, <3>2 DEF RefersTo
  <2> QED BY <2>1, <2>2, <2>3, <2>4
<1> QED BY <1>4, <1>5, <1>6

LEMMA EndKeeps == ASSUME IInv, NEW r \in Runs, NEW bad, NEW how, End(r, bad, how) PROVE IInv'
<1>1. /\ made' = [i \in Ids |-> IF i \in Kept(r) THEN made[i] ELSE None]
      /\ controllers' = [i \in Ids |-> IF i \in Kept(r) THEN controllers[i] ELSE {}]
      /\ store' = store
      /\ op' = [op EXCEPT ![r] = NoOperation]
      /\ call' = [call EXCEPT ![r] = NoCall]
      /\ block' = [block EXCEPT ![r] = NoIds]
      /\ runs' = [runs EXCEPT ![r] = [Idle EXCEPT !.kind = how]]
  BY DEF End, StartCalls, NoCall, NoIds
<1>2. Typed'
  <2>1. NoOperation \in Operations
    BY DEF NoOperation, Operations
  <2>2. NoCall \in [Names -> Waiting \cup Ids \cup {"none", "failed"}] /\ NoIds \in [Names -> Ids \cup {None}]
    BY DEF NoCall, NoIds
  <2>3. made' \in [Ids -> Canisters \cup {None}] /\ controllers' \in [Ids -> SUBSET Ids]
    BY <1>1 DEF IInv, Typed
  <2> QED BY <1>1, <2>1, <2>2, <2>3 DEF IInv, Typed
<1>3. \A i \in Kept(r) : i \in Ids /\ made'[i] = made[i] /\ controllers'[i] = controllers[i]
  BY <1>1, SurvivorsAre
<1>4. Blank'
  BY <1>1 DEF IInv, Blank
<1>5. ASSUME NEW m \in Names, NEW i \in Survivors(r), Held(m, i) PROVE Held(m, i)'
  BY <1>3, <1>5, SurvivorsAre DEF Held, NamedFor
<1>6. StoreHeld'
  BY <1>1, <1>5, SurvivorsAre DEF IInv, StoreHeld, Held, NamedFor
<1>7. RunInv(r)'
  <2>1. runs[r] \in {runs[r]} /\ DOMAIN runs = Runs
    BY RunFields
  <2>2. runs'[r] = [Idle EXCEPT !.kind = how] /\ DOMAIN runs' = Runs
    BY <1>1, <2>1
  <2>3. call'[r] = NoCall /\ block'[r] = NoIds /\ op'[r] = NoOperation
    BY <1>1 DEF IInv, Typed
  <2>4. /\ DOMAIN runs'[r] = Fields /\ runs'[r].ids = NoIds /\ runs'[r].mem = NoIds /\ runs'[r].pend = {}
        /\ runs'[r].seen = NoIds /\ runs'[r].want = {}
    BY <2>2 DEF Idle, Fields
  <2> QED BY <1>2, <2>2, <2>3, <2>4, IdleHolds
<1>8. ASSUME NEW q \in Runs \ {r} PROVE RunInv(q)'
  <2>1. runs'[q] = runs[q] /\ op'[q] = op[q] /\ call'[q] = call[q] /\ block'[q] = block[q]
    BY <1>1, RunFields DEF IInv, Typed
  <2>2. RunTyped(runs'[q])
    BY <2>1, RunFields
  <2>3. ASSUME NEW n \in Names
        PROVE  /\ Held(n, runs[q].ids[n])' /\ Held(n, runs[q].mem[n])'
               /\ Held(n, call[q][n])' /\ Held(n, block[q][n])'
    BY <1>5, <2>1, RunFields, SurvivorsAre DEF Held, NamedFor
  <2>4. ASSUME NEW n \in Names, runs'[q].seen[n] # None PROVE NamedFor(n, runs[q].seen[n])'
    BY <1>3, <2>1, <2>4, RunFields, SurvivorsAre DEF NamedFor
  <2>5. RunHeld(q)'
    BY <2>3, <2>4 DEF RunHeld
  <2>6. FirstMade(q)'
    <3>1. op[q].first \in Ids \cup {None}
      BY DEF IInv, Typed, Operations
    <3> QED BY <1>3, <2>1, <3>1, SurvivorsAre DEF IInv, RunInv, FirstMade
  <2>7. Placed(q)'
    BY <2>1 DEF IInv, RunInv, Placed
  <2> QED BY <2>2, <2>5, <2>6, <2>7 DEF RunInv
<1> QED BY <1>2, <1>4, <1>6, <1>7, <1>8 DEF IInv

LEMMA EndInErrorKeeps == ASSUME IInv, NEW r \in Runs, EndInError(r) PROVE IInv'
BY EndKeeps DEF EndInError

(* A run begins with what the store says.                                   *)
LEMMA BeginKeeps ==
    ASSUME IInv, NEW r \in Runs, NEW kind, NEW S \in SUBSET Names, NEW target \in Placements,
           NEW withIcp \in BOOLEAN, Begin(r, kind, S, target, withIcp)
    PROVE  IInv'
<1> DEFINE o == [target |-> target, icp |-> withIcp, first |-> FirstOf(store), subnet |-> None]
           calls == [n \in Names |-> IF n \in Missing(S) THEN FirstStep(o) ELSE "none"]
           left == Missing(S)
           pc == IF Missing(S) = {} THEN "load_settings" ELSE "create"
<1>1. /\ At(r, "idle") /\ store # CutShort /\ UNCHANGED <<made, store, controllers>>
      /\ op' = [op EXCEPT ![r] = o]
      /\ call' = [call EXCEPT ![r] = calls]
      /\ block' = [block EXCEPT ![r] = NoIds]
      /\ runs' = [runs EXCEPT ![r].kind = kind, ![r].want = S, ![r].ids = store, ![r].left = left, ![r].pc = pc]
  BY DEF Begin, StartCalls, NoIds
<1>2. store \in Mappings /\ \A n \in Names : Held(n, store[n])
  BY <1>1 DEF IInv, Typed, StoreHeld
<1>3. \A n \in Names : calls[n] \in {"subnet", "proxy", "none"}
  BY DEF FirstStep
<1>4. calls \in [Names -> {"subnet", "proxy", "none"}]
  BY <1>3
<1>5. FirstOf(store) = None \/ (FirstOf(store) \in Ids /\ made[FirstOf(store)] # None)
  BY <1>2, FirstIsKnown DEF Held, Known, Mappings
<1>6. o \in Operations
  BY <1>5, NetworkAssumption DEF Operations
<1>7. o.first = FirstOf(store)
  OBVIOUS
<1> HIDE DEF calls, o, left, pc
<1>8. /\ DOMAIN runs' = Runs /\ \A q \in Runs \ {r} : runs'[q] = runs[q]
      /\ DOMAIN runs'[r] = Fields /\ runs'[r].ids = store /\ runs'[r].want = S
      /\ \A x \in {"mem", "pend", "seen"} : runs'[r][x] = runs[r][x]
  BY <1>1, RunFields DEF Fields
<1>9. runs[r].pend = {}
  BY <1>1, RunFields DEF RunTyped, At
<1>10. Typed' /\ StoreHeld' /\ Blank'
  <2>1. NoIds \in [Names -> Ids \cup {None}]
    BY DEF NoIds
  <2>2. calls \in [Names -> Waiting \cup Ids \cup {"none", "failed"}]
    BY <1>4 DEF Waiting, Creators
  <2>3. Typed'
    BY <1>1, <1>6, <1>8, <2>1, <2>2 DEF IInv, Typed
  <2> QED BY <1>1, <2>3 DEF IInv, StoreHeld, Blank, Held, NamedFor
<1>11. RunInv(r)'
  <2>1. RunTyped(runs'[r])
    BY <1>2, <1>8, <1>9, RunFields DEF RunTyped, Known
  <2>2. op'[r] = o /\ call'[r] = calls /\ block'[r] = NoIds
    BY <1>1 DEF IInv, Typed
  <2>3. \A n \in Names : NoIds[n] \notin Ids /\ calls[n] \notin Ids
    BY <1>4, NetworkAssumption DEF NoIds, Waiting, Creators
  <2>4. RunHeld(r)'
    BY <1>1, <1>2, <1>8, <2>2, <2>3, RunFields DEF RunHeld, Held, NamedFor
  <2>5. FirstMade(r)'
    BY <1>1, <1>5, <1>7, <2>2 DEF FirstMade
  <2>6. Placed(r)'
    BY <1>4, <2>2 DEF Placed, OnSubnet
  <2> QED BY <2>1, <2>4, <2>5, <2>6 DEF RunInv
<1>12. ASSUME NEW q \in Runs \ {r} PROVE RunInv(q)'
  <2>1. runs'[q] = runs[q] /\ op'[q] = op[q] /\ call'[q] = call[q] /\ block'[q] = block[q]
    BY <1>1, <1>8 DEF IInv, Typed
  <2>2. RunTyped(runs'[q])
    BY <2>1, RunFields
  <2>3. RunHeld(q)'
    <3>1. made' = made /\ controllers' = controllers
      BY <1>1
    <3>2. RunHeld(q)
      BY DEF IInv, RunInv
    <3> QED BY <2>1, <3>1, <3>2 DEF RunHeld, Held, NamedFor
  <2>4. FirstMade(q)' /\ Placed(q)'
    BY <1>1, <2>1 DEF IInv, RunInv, FirstMade, Placed
  <2> QED BY <2>2, <2>3, <2>4 DEF RunInv
<1> QED BY <1>10, <1>11, <1>12 DEF IInv

-----------------------------------------------------------------------------
(* A call makes at most a canister that was not there, for its own name,    *)
(* and knows no other.                                                      *)
LEMMA CallKeeps ==
    ASSUME IInv, NEW r \in Runs, NEW n \in Names, UNCHANGED <<op, store, runs>>,
           made' \in [Ids -> Canisters \cup {None}], controllers' \in [Ids -> SUBSET Ids],
           \A i \in Ids : made[i] # None => made'[i] = made[i] /\ controllers'[i] = controllers[i],
           \A i \in Ids : made'[i] = None => controllers'[i] = {},
           NEW step \in Waiting \cup Ids \cup {"none", "failed"}, call' = [call EXCEPT ![r][n] = step],
           NEW b \in Ids \cup {None}, block' = [block EXCEPT ![r][n] = b],
           Held(n, step)', Held(n, b)', step \in OnSubnet => op[r].subnet \in Subnets
    PROVE  IInv'
<1>1. Typed' /\ Blank'
  BY DEF IInv, Typed, Blank
<1>2. ASSUME NEW m \in Names, NEW i, Held(m, i) PROVE Held(m, i)'
  BY <1>2 DEF IInv, Typed, Held, NamedFor
<1>3. StoreHeld'
  BY <1>2 DEF IInv, StoreHeld, Held, NamedFor
<1>4. ASSUME NEW q \in Runs PROVE RunInv(q)'
  <2>1. \A m \in Names : call'[q][m] = call[q][m] \/ (q = r /\ m = n /\ call'[q][m] = step)
    BY DEF IInv, Typed
  <2>2. \A m \in Names : block'[q][m] = block[q][m] \/ (q = r /\ m = n /\ block'[q][m] = b)
    BY DEF IInv, Typed
  <2>3. RunTyped(runs'[q])
    BY RunFields
  <2>4. ASSUME NEW m \in Names
        PROVE  /\ Held(m, runs[q].ids[m])' /\ Held(m, runs[q].mem[m])'
               /\ Held(m, call[q][m])' /\ Held(m, block[q][m])'
    <3>1. Held(m, runs[q].ids[m])' /\ Held(m, runs[q].mem[m])'
      BY <1>2, RunFields DEF Held, NamedFor
    <3>2. Held(m, call[q][m])'
      BY <1>2, <2>1, RunFields DEF Held, NamedFor
    <3>3. Held(m, block[q][m])'
      BY <1>2, <2>2, RunFields DEF Held, NamedFor
    <3> QED BY <3>1, <3>2, <3>3
  <2>5. ASSUME NEW m \in Names, runs[q].seen[m] # None PROVE NamedFor(m, runs[q].seen[m])'
    <3>1. runs[q].seen[m] \subseteq Ids /\ NamedFor(m, runs[q].seen[m])
      BY <2>5, RunFields DEF RunTyped
    <3> QED BY <3>1 DEF NamedFor
  <2>6. RunHeld(q)'
    BY <2>4, <2>5 DEF RunHeld
  <2>7. FirstMade(q)'
    <3>1. op[q].first \in Ids \cup {None}
      BY DEF IInv, Typed, Operations
    <3> QED BY <3>1 DEF IInv, RunInv, FirstMade
  <2>8. Placed(q)'
    BY <2>1 DEF IInv, RunInv, Placed
  <2> QED BY <2>3, <2>6, <2>7, <2>8 DEF RunInv
<1> QED BY <1>1, <1>3, <1>4 DEF IInv

(* Where its step leaves the canisters alone.                               *)
LEMMA CallMovesOn ==
    ASSUME IInv, NEW r \in Runs, NEW n \in Names, UNCHANGED <<made, op, block, store, controllers, runs>>,
           NEW step \in (Waiting \cup {"none", "failed"}), Goto(r, n, step),
           step \in OnSubnet => op[r].subnet \in Subnets
    PROVE  IInv'
<1>1. call' = [call EXCEPT ![r][n] = step] /\ step \notin Ids
  BY NetworkAssumption DEF Goto
<1>2. PICK b \in Ids \cup {None} : b = block[r][n]
  BY DEF IInv, Typed
<1>3. block' = [block EXCEPT ![r][n] = b]
  BY <1>2 DEF IInv, Typed
<1>4. Held(n, step)'
  BY <1>1 DEF Held
<1>5. Held(n, b)'
  BY <1>2, RunFields DEF Held, NamedFor
<1>6. \A i \in Ids : made'[i] = None => controllers'[i] = {}
  BY DEF IInv, Blank
<1>7. made' \in [Ids -> Canisters \cup {None}] /\ controllers' \in [Ids -> SUBSET Ids]
  BY DEF IInv, Typed
<1> QED BY <1>1, <1>3, <1>4, <1>5, <1>6, <1>7, CallKeeps

(* What create asks for: the controllers that a new canister is made with.  *)
Granted(r) ==
    controllers' = [i \in Ids |->
        IF made[i] = None /\ made'[i] # None /\ runs[r].kind = "create"
        THEN Resolve(made'[i].name, runs[r].ids) ELSE controllers[i]]

LEMMA NothingGranted == ASSUME IInv, NEW r \in Runs, Granted(r), made' = made PROVE controllers' = controllers
BY DEF IInv, Typed, Granted

LEMMA NewKeeps ==
    ASSUME IInv, NEW r \in Runs, NEW n \in Names, NEW i \in Ids, NewCanister(r, n, i), Granted(r),
           call[r][n] \in OnSubnet \cup {"proxy"}
    PROVE  /\ made' \in [Ids -> Canisters \cup {None}] /\ controllers' \in [Ids -> SUBSET Ids]
           /\ \A j \in Ids : made[j] # None => made'[j] = made[j] /\ controllers'[j] = controllers[j]
           /\ \A j \in Ids : made'[j] = None => controllers'[j] = {}
           /\ Held(n, i)'
<1>1. PICK s \in Homes(r, n) : made' =
          [made EXCEPT ![i] = [name |-> n, subnet |-> s,
                               placed |-> op[r].target \in Subnets \/ call[r][n] = "proxy"]]
  BY DEF NewCanister
<1>2. s \in Subnets
  BY <1>1 DEF Homes, IInv, RunInv, Placed
<1>3. PICK c \in Canisters : c.name = n /\ made' = [made EXCEPT ![i] = c]
  <2> DEFINE p == op[r].target \in Subnets \/ call[r][n] = "proxy"
             c == [name |-> n, subnet |-> s, placed |-> p]
  <2>1. p \in BOOLEAN
    OBVIOUS
  <2>2. made' = [made EXCEPT ![i] = c]
    BY <1>1
  <2> HIDE DEF p
  <2>3. c \in Canisters /\ c.name = n
    BY <1>2, <2>1 DEF Canisters
  <2> QED BY <2>2, <2>3
<1>4. c # None /\ made[i] = None
  BY NetworkAssumption DEF NewCanister
<1>5. made' \in [Ids -> Canisters \cup {None}] /\ made'[i] = c /\ \A j \in Ids \ {i} : made'[j] = made[j]
  BY <1>3 DEF IInv, Typed
<1>6. \A j \in Ids \ {i} : controllers'[j] = controllers[j]
  BY <1>5 DEF Granted
<1>7. controllers'[i] \subseteq Ids /\ NamedFor(n, controllers'[i])
  <2>1. CASE runs[r].kind = "create"
    <3>1. controllers'[i] = Resolve(n, runs[r].ids)
      BY <1>3, <1>4, <1>5, <2>1 DEF Granted
    <3> QED BY <3>1, RunFields, ResolvedIsNamed
  <2>2. CASE runs[r].kind # "create"
    <3>1. controllers'[i] = {}
      BY <1>4, <2>2 DEF Granted, IInv, Blank
    <3> QED BY <3>1 DEF NamedFor
  <2> QED BY <2>1, <2>2
<1>8. controllers' \in [Ids -> SUBSET Ids]
  <2>1. \A j \in Ids : controllers'[j] \in SUBSET Ids
    BY <1>6, <1>7 DEF IInv, Typed
  <2> QED BY <2>1 DEF Granted
<1>9. Held(n, i)'
  BY <1>3, <1>4, <1>5, <1>7 DEF Held, NamedFor
<1>10. \A j \in Ids : made'[j] = None => controllers'[j] = {}
  BY <1>4, <1>5, <1>6 DEF IInv, Blank
<1>11. \A j \in Ids : made[j] # None => made'[j] = made[j] /\ controllers'[j] = controllers[j]
  BY <1>4, <1>5, <1>6
<1> QED BY <1>5, <1>8, <1>9, <1>10, <1>11

LEMMA CreateKeeps ==
    ASSUME IInv, NEW r \in Runs, NEW n \in Names, UNCHANGED <<store, runs>>, Granted(r), CallSucceeds(r, n)
    PROVE  IInv'
<1>1. PICK i \in Ids : NewCanister(r, n, i) /\ Goto(r, n, i)
  BY DEF CallSucceeds
<1>2. call[r][n] \in OnSubnet \cup {"proxy"} /\ UNCHANGED <<op, block>>
  BY DEF CallSucceeds, Creators, OnSubnet
<1>3. PICK b \in Ids \cup {None} : b = block[r][n]
  BY DEF IInv, Typed
<1>4. block' = [block EXCEPT ![r][n] = b] /\ call' = [call EXCEPT ![r][n] = i]
  BY <1>1, <1>2, <1>3 DEF IInv, Typed, Goto
<1>5. /\ made' \in [Ids -> Canisters \cup {None}] /\ controllers' \in [Ids -> SUBSET Ids]
      /\ \A j \in Ids : made[j] # None => made'[j] = made[j] /\ controllers'[j] = controllers[j]
      /\ \A j \in Ids : made'[j] = None => controllers'[j] = {}
      /\ Held(n, i)'
  BY <1>1, <1>2, NewKeeps
<1>6. Held(n, b)'
  <2>1. Held(n, b)
    BY <1>3, RunFields
  <2> QED BY <1>5, <2>1 DEF IInv, Typed, Held, NamedFor
<1>7. i \notin OnSubnet
  BY NetworkAssumption DEF OnSubnet, Waiting, Creators
<1> QED BY <1>2, <1>4, <1>5, <1>6, <1>7, CallKeeps

(* The CMC makes a canister for a block once.                               *)
LEMMA NotifyKeeps ==
    ASSUME IInv, NEW r \in Runs, NEW n \in Names, UNCHANGED <<store, runs>>, Granted(r), NotifyCreates(r, n)
    PROVE  IInv'
<1>1. call[r][n] = "notify" /\ UNCHANGED op
  BY DEF NotifyCreates
<1>2. PICK i \in Ids :
          /\ IF block[r][n] = None THEN NewCanister(r, n, i) ELSE i = block[r][n] /\ UNCHANGED made
          /\ block' = [block EXCEPT ![r][n] = i]
          /\ Goto(r, n, i) \/ UNCHANGED call
  BY DEF NotifyCreates
<1>3. PICK step \in {i, "notify"} : call' = [call EXCEPT ![r][n] = step]
  BY <1>1, <1>2 DEF IInv, Typed, Goto
<1>4. /\ made' \in [Ids -> Canisters \cup {None}] /\ controllers' \in [Ids -> SUBSET Ids]
      /\ \A j \in Ids : made[j] # None => made'[j] = made[j] /\ controllers'[j] = controllers[j]
      /\ \A j \in Ids : made'[j] = None => controllers'[j] = {}
      /\ Held(n, i)'
  <2>1. CASE block[r][n] = None
    BY <1>1, <1>2, <2>1, NewKeeps DEF OnSubnet
  <2>2. CASE block[r][n] # None
    <3>1. made' = made /\ controllers' = controllers /\ i = block[r][n]
      BY <1>2, <2>2, NothingGranted
    <3>2. Held(n, i)
      BY <3>1, RunFields
    <3> QED BY <3>1, <3>2 DEF IInv, Typed, Blank, Held, NamedFor
  <2> QED BY <2>1, <2>2
<1>5. Held(n, step)' /\ step \in Waiting \cup Ids
  BY <1>3, <1>4, NetworkAssumption DEF Held, NamedFor, Waiting
<1>6. op[r].subnet \in Subnets
  BY <1>1 DEF IInv, RunInv, Placed, OnSubnet
<1> QED BY <1>1, <1>2, <1>3, <1>4, <1>5, <1>6, CallKeeps

LEMMA CallMovesKeeps == ASSUME IInv, NEW r \in Runs, CallMoves(r) PROVE IInv'
<1>1. UNCHANGED <<store, runs>> /\ Granted(r)
  BY DEF CallMoves, Granted
<1>2. PICK n \in Names : CallStep(r, n)
  BY DEF CallMoves
<1>3. CASE UseSubnet(r, n)
  <2>1. /\ UNCHANGED <<made, op, block>> /\ op[r].subnet # None
        /\ Goto(r, n, IF op[r].subnet = "error" THEN "failed"
                      ELSE IF op[r].icp THEN "transfer"
                      ELSE IF op[r].subnet \in Engines THEN "engine"
                      ELSE "ledger")
    BY <1>3 DEF UseSubnet
  <2>2. op[r].subnet \in Subnets \cup {"error"}
    BY <2>1 DEF IInv, Typed, Operations
  <2>3. PICK step \in {"failed", "transfer", "engine", "ledger"} :
            Goto(r, n, step) /\ (step # "failed" => op[r].subnet \in Subnets)
    BY <2>1, <2>2
  <2>4. step \in Waiting \cup {"none", "failed"} /\ (step \in OnSubnet => step # "failed")
    BY <2>3 DEF Waiting, Creators, OnSubnet
  <2> QED BY <1>1, <2>1, <2>3, <2>4, NothingGranted, CallMovesOn
<1>4. CASE ResolveEngineOperator(r, n)
  <2>1. UNCHANGED <<made, op, block>> /\ call[r][n] = "engine"
    BY <1>4 DEF ResolveEngineOperator
  <2>2. PICK step \in {"operator", "mgmt"} : Goto(r, n, step)
    BY <1>4 DEF ResolveEngineOperator
  <2>3. op[r].subnet \in Subnets
    BY <2>1 DEF IInv, RunInv, Placed, OnSubnet
  <2>4. step \in Waiting
    BY <2>2 DEF Waiting, Creators
  <2> QED BY <1>1, <2>1, <2>2, <2>3, <2>4, NothingGranted, CallMovesOn
<1>5. CASE CallSucceeds(r, n)
  BY <1>1, <1>5, CreateKeeps
<1>6. CASE Transfer(r, n)
  <2>1. UNCHANGED <<made, op, block>> /\ call[r][n] = "transfer"
    BY <1>6 DEF Transfer
  <2>2. PICK step \in {"notify", "failed"} : Goto(r, n, step)
    BY <1>6 DEF Transfer
  <2>3. op[r].subnet \in Subnets
    BY <2>1 DEF IInv, RunInv, Placed, OnSubnet
  <2>4. step \in Waiting \cup {"none", "failed"}
    BY <2>2 DEF Waiting
  <2> QED BY <1>1, <2>1, <2>2, <2>3, <2>4, NothingGranted, CallMovesOn
<1>7. CASE NotifyCreates(r, n)
  BY <1>1, <1>7, NotifyKeeps
<1> QED BY <1>2, <1>3, <1>4, <1>5, <1>6, <1>7 DEF CallStep

LEMMA CallBreaksKeeps == ASSUME IInv, NEW r \in Runs, CallBreaks(r) PROVE IInv'
<1>1. UNCHANGED <<store, controllers, runs>>
  BY DEF CallBreaks
<1>2. PICK n \in Names : CallFailure(r, n)
  BY DEF CallBreaks
<1>3. UNCHANGED <<made, op, block>> /\ Goto(r, n, "failed")
  BY <1>2 DEF CallFailure, AnswerLost, CallFails, NotifyRefunded, NotifyRefused, NotifyUnread,
                 NotifyGivesUp, NotifyEnds
<1>4. "failed" \notin OnSubnet
  BY DEF OnSubnet
<1> QED BY <1>1, <1>3, <1>4, CallMovesOn

(* The subnet is resolved before anyone has got past it.                    *)
LEMMA SharedSubnetKeeps == ASSUME IInv, NEW r \in Runs, SharedSubnet(r) PROVE IInv'
<1>1. UNCHANGED <<made, call, block, store, controllers, runs>> /\ op[r].subnet = None
  BY DEF SharedSubnet, ResolveSubnet
<1>2. PICK s \in SubnetChoices(op[r]) \cup {"error"} : op' = [op EXCEPT ![r].subnet = s]
  BY DEF SharedSubnet, ResolveSubnet
<1>3. s \in Subnets \cup {"error"}
  <2>1. op[r].first \in Ids \cup {None} /\ (op[r].first # None => made[op[r].first] # None)
    BY DEF IInv, Typed, Operations, RunInv, FirstMade
  <2>2. op[r].first # None => made[op[r].first].subnet \in Subnets
    BY <2>1 DEF IInv, Typed, Canisters
  <2> QED BY <1>2, <2>2 DEF SubnetChoices
<1>4. /\ op' \in [Runs -> Operations]
      /\ \A q \in Runs : op'[q].first = op[q].first
      /\ \A q \in Runs \ {r} : op'[q] = op[q]
  BY <1>2, <1>3 DEF IInv, Typed, Operations
<1>5. Typed' /\ StoreHeld' /\ Blank'
  BY <1>1, <1>4 DEF IInv, Typed, StoreHeld, Blank, Held, NamedFor
<1>6. ASSUME NEW q \in Runs PROVE RunInv(q)'
  <2>1. RunTyped(runs'[q])
    BY <1>1, RunFields
  <2>2. RunHeld(q)'
    BY <1>1, RunFields DEF RunHeld, Held, NamedFor
  <2>3. FirstMade(q)'
    BY <1>1, <1>4 DEF IInv, RunInv, FirstMade
  <2>4. Placed(q)'
    <3>1. CASE q = r
      BY <1>1, <3>1, NetworkAssumption DEF IInv, RunInv, Placed
    <3>2. CASE q # r
      BY <1>1, <1>4, <3>2 DEF IInv, RunInv, Placed
    <3> QED BY <3>1, <3>2
  <2> QED BY <2>1, <2>2, <2>3, <2>4 DEF RunInv
<1> QED BY <1>5, <1>6 DEF IInv

-----------------------------------------------------------------------------
LEMMA AllTakenKeeps == ASSUME IInv, NEW r \in Runs, AllTaken(r) PROVE IInv'
<1>1. CASE EndInError(r) \/ End(r, {}, None)
  BY <1>1, EndInErrorKeeps, EndKeeps
<1>2. CASE runs' = [runs EXCEPT ![r].pc = "load_settings"] /\ UNCHANGED <<network, store, controllers, unwired>>
  <2>1. runs[r].pend = {}
    BY RunFields DEF AllTaken, At, RunTyped
  <2> QED BY <1>2, <2>1, GoOnKeeps
<1> QED BY <1>1, <1>2 DEF AllTaken

LEMMA StepKeeps == ASSUME IInv, NEW r \in Runs, RunStep(r) PROVE IInv'
<1>1. CASE SharedSubnet(r) \/ CallMoves(r)
  BY <1>1, SharedSubnetKeeps, CallMovesKeeps
<1>2. CASE TakeCreated(r) \/ TakeError(r) \/ AllTaken(r) \/ DependentsDone(r)
  BY <1>2, TakeCreatedKeeps, TakeErrorKeeps, AllTakenKeeps, DependentsDoneKeeps
<1>3. CASE Register(r) \/ Truncate(r) \/ Write(r)
  BY <1>3, RegisterKeeps, TruncateKeeps, WriteKeeps
<1>4. CASE LoadDependents(r) \/ LoadSettings(r)
  BY <1>4, LoadKeeps DEF LoadDependents, LoadSettings
<1>5. CASE RegisterFails(r) \/ LoadFails(r) \/ SettingsDone(r)
  BY <1>5, EndInErrorKeeps, EndKeeps DEF RegisterFails, LoadFails, SettingsDone
<1>6. ASSUME NEW n \in Names, SyncRead(r, n) \/ SyncUpdate(r, n) PROVE IInv'
  BY <1>6, SyncReadKeeps, SyncUpdateKeeps
<1> QED BY <1>1, <1>2, <1>3, <1>4, <1>5, <1>6 DEF RunStep

LEMMA FailureKeeps == ASSUME IInv, Failure PROVE IInv'
<1>1. ASSUME NEW r \in Runs, CallBreaks(r) PROVE IInv'
  BY <1>1, CallBreaksKeeps
<1>2. ASSUME NEW r \in Runs, Kill(r) PROVE IInv'
  BY <1>2, EndKeeps DEF Kill
<1>3. ASSUME NEW r \in Runs, NEW n \in Names, SyncFails(r, n) PROVE IInv'
  BY <1>3, SyncFailsKeeps
<1> QED BY <1>1, <1>2, <1>3 DEF Failure

LEMMA IInvStep == IInv /\ [CreationNext]_creationVars => IInv'
<1> SUFFICES ASSUME IInv, [CreationNext]_creationVars PROVE IInv'
  OBVIOUS
<1>1. CASE DeployAll
  BY <1>1, BeginKeeps DEF DeployAll, BeginDeploy
<1>2. CASE DeploySome
  BY <1>2, BeginKeeps DEF DeploySome, BeginDeploy
<1>3. CASE CreateOne
  BY <1>3, BeginKeeps DEF CreateOne, BeginCreate
<1>4. ASSUME NEW r \in Runs, RunStep(r) PROVE IInv'
  BY <1>4, StepKeeps
<1>5. CASE Failure
  BY <1>5, FailureKeeps
<1>6. CASE UNCHANGED creationVars
  <2>1. UNCHANGED <<made, op, call, block, store, controllers, runs>>
    BY <1>6 DEF creationVars, network
  <2>2. Typed' /\ StoreHeld' /\ Blank'
    BY <2>1 DEF IInv, Typed, StoreHeld, Blank, Held, NamedFor
  <2>3. ASSUME NEW r \in Runs PROVE RunInv(r)'
    BY <2>1 DEF IInv, RunInv, RunTyped, Known, RunHeld, FirstMade, Placed, Held, NamedFor
  <2> QED BY <2>2, <2>3 DEF IInv
<1> QED BY <1>1, <1>2, <1>3, <1>4, <1>5, <1>6 DEF CreationNext

LEMMA Always == CreationSpec => []IInv
BY InitIInv, IInvStep, PTL DEF CreationSpec

(* deploy.rs, store_id.rs, settings.rs: every id in the store is that of a  *)
(* canister made for its name, and no canister in it has a controller that  *)
(* its manifest does not name, whatever interleaves and whatever fails.     *)
THEOREM NamesAreKept == CreationSpec => []NamesKept
<1>1. IInv => RecordedUnderItsName
  BY DEF IInv, Typed, StoreHeld, Held, RecordedUnderItsName, Known, Mappings
<1>2. IInv => OnlyNamedControllers
  BY DEF IInv, Typed, StoreHeld, Held, NamedFor, OnlyNamedControllers, Known, Mappings
<1>3. IInv => NamesKept
  BY <1>1, <1>2 DEF NamesKept
<1> QED BY <1>3, Always, PTL

-----------------------------------------------------------------------------
(* What was paid for.  Until its call is made nothing was; the call is made *)
(* once; and ICP is on its way as long as the CMC is notified.              *)
Unpaid == {"none", "subnet", "engine", "transfer"} \cup Creators

Charges ==
    /\ charged \in [Runs -> [Names -> Nat]]
    /\ \A r \in Runs, n \in Names :
          charged[r][n] <= 1 /\ (call[r][n] \in Unpaid => charged[r][n] = 0)
(* What the ICP of a call tells of its step and of the block.               *)
Follows(step, what, got) ==
    /\ step \in Unpaid => what = "none" /\ got = None
    /\ what = "paid" <=> step = "notify"
    /\ what = "spent" => step \in Ids /\ step = got
    /\ what \in {"refunded", "refused", "unconfirmed"} => got = None
    /\ what \in Unfollowed => what \in Mishaps
    /\ what # "none" /\ what # "paid" /\ what # "spent" => step = "failed"
Funds ==
    /\ icp \in [Runs -> [Names -> Fortunes]]
    /\ \A r \in Runs, n \in Names :
          Follows(call[r][n], icp[r][n], block[r][n])

LEMMA InitPaid == CreationInit => Charges /\ Funds
<1> SUFFICES ASSUME CreationInit PROVE Charges /\ Funds
  OBVIOUS
<1>1. \A r \in Runs, n \in Names :
         charged[r][n] = 0 /\ icp[r][n] = "none" /\ call[r][n] = "none" /\ block[r][n] = None
  BY DEF CreationInit, InitNetwork, NoCall
<1>2. charged \in [Runs -> [Names -> Nat]] /\ icp \in [Runs -> [Names -> Fortunes]]
  BY DEF CreationInit, InitNetwork, Fortunes, Unfollowed
<1> QED BY <1>1, <1>2 DEF Charges, Funds, Follows, Unfollowed, Unpaid

(* Calls that begin anew have cost nothing.                                 *)
LEMMA StartPaid ==
    ASSUME Typed, NEW r \in Runs, NEW S, NEW o, StartCalls(r, S, o)
    PROVE  (Charges => Charges') /\ (Funds => Funds')
<1>1. \A q \in Runs \ {r} : call'[q] = call[q]
  BY DEF StartCalls, Typed
<1>2. Charges => Charges'
  <2> SUFFICES ASSUME Charges PROVE Charges'
    OBVIOUS
  <2>1. \A n \in Names : charged'[r][n] = 0
    BY DEF StartCalls, Charges
  <2>2. \A q \in Runs \ {r} : charged'[q] = charged[q]
    BY DEF StartCalls, Charges
  <2>3. charged' \in [Runs -> [Names -> Nat]]
    BY DEF StartCalls, Charges
  <2>4. ASSUME NEW q \in Runs, NEW n \in Names
        PROVE  charged'[q][n] <= 1 /\ (call'[q][n] \in Unpaid => charged'[q][n] = 0)
    BY <1>1, <2>1, <2>2 DEF Charges
  <2> QED BY <2>3, <2>4 DEF Charges
<1>3. Funds => Funds'
  <2> SUFFICES ASSUME Funds PROVE Funds'
    OBVIOUS
  <2>1. \A n \in Names : icp'[r][n] = "none" /\ block'[r][n] = None /\ call'[r][n] \in Unpaid
    BY DEF StartCalls, Funds, Typed, FirstStep, Unpaid, Creators
  <2>2. \A q \in Runs \ {r} : icp'[q] = icp[q] /\ block'[q] = block[q]
    BY DEF StartCalls, Funds, Typed
  <2>3. icp' \in [Runs -> [Names -> Fortunes]]
    BY DEF StartCalls, Funds, Fortunes, Unfollowed
  <2>4. ASSUME NEW q \in Runs, NEW n \in Names PROVE Follows(call'[q][n], icp'[q][n], block'[q][n])
    <3>1. CASE q = r
      <4>1. "notify" \notin Unpaid
        BY DEF Unpaid, Creators
      <4> QED BY <2>1, <3>1, <4>1 DEF Follows, Unfollowed
    <3>2. CASE q # r
      BY <1>1, <2>2, <3>2 DEF Funds
    <3> QED BY <3>1, <3>2
  <2> QED BY <2>3, <2>4 DEF Funds
<1> QED BY <1>2, <1>3

(* A call goes on: only its own step, charge and ICP change.                *)
LEMMA ChargesCell ==
    ASSUME Typed, Charges, NEW r \in Runs, NEW n \in Names, NEW step, call' = [call EXCEPT ![r][n] = step],
           NEW c \in Nat, charged' = [charged EXCEPT ![r][n] = c], c <= 1, step \in Unpaid => c = 0
    PROVE  Charges'
<1>1. \A q \in Runs, k \in Names : IF q = r /\ k = n THEN call'[q][k] = step ELSE call'[q][k] = call[q][k]
  BY DEF Typed
<1>2. \A q \in Runs, k \in Names : IF q = r /\ k = n THEN charged'[q][k] = c ELSE charged'[q][k] = charged[q][k]
  BY DEF Charges
<1>3. charged' \in [Runs -> [Names -> Nat]]
  BY DEF Charges
<1> QED BY <1>1, <1>2, <1>3 DEF Charges

LEMMA FundsCell ==
    ASSUME Typed, Funds, NEW r \in Runs, NEW n \in Names, NEW step, call' = [call EXCEPT ![r][n] = step],
           NEW m \in Fortunes, icp' = [icp EXCEPT ![r][n] = m],
           NEW b, block' = [block EXCEPT ![r][n] = b], Follows(step, m, b)
    PROVE  Funds'
<1>1. \A q \in Runs, k \in Names : IF q = r /\ k = n THEN call'[q][k] = step ELSE call'[q][k] = call[q][k]
  BY DEF Typed
<1>2. \A q \in Runs, k \in Names : IF q = r /\ k = n THEN icp'[q][k] = m ELSE icp'[q][k] = icp[q][k]
  BY DEF Funds
<1>3. \A q \in Runs, k \in Names : IF q = r /\ k = n THEN block'[q][k] = b ELSE block'[q][k] = block[q][k]
  BY DEF Typed
<1>4. icp' \in [Runs -> [Names -> Fortunes]]
  BY DEF Funds
<1>5. ASSUME NEW q \in Runs, NEW k \in Names PROVE Follows(call'[q][k], icp'[q][k], block'[q][k])
  <2>1. CASE q = r /\ k = n
    BY <1>1, <1>2, <1>3, <2>1
  <2>2. CASE ~(q = r /\ k = n)
    BY <1>1, <1>2, <1>3, <2>2 DEF Funds
  <2> QED BY <2>1, <2>2
<1> QED BY <1>4, <1>5 DEF Funds

(* The one step that a call takes, and what it pays.                        *)
LEMMA ChargesMove ==
    ASSUME Typed, Charges, NEW r \in Runs, NEW n \in Names, CallStep(r, n) \/ CallFailure(r, n)
    PROVE  Charges'
<1>1. charged[r][n] \in Nat /\ charged[r][n] <= 1 /\ (call[r][n] \in Unpaid => charged[r][n] = 0)
  BY DEF Charges
<1>2. charged = [charged EXCEPT ![r][n] = charged[r][n]] /\ call = [call EXCEPT ![r][n] = call[r][n]]
  BY DEF Charges, Typed
<1>3. ASSUME NEW step, Goto(r, n, step), UNCHANGED charged, call[r][n] \in Unpaid \/ step \notin Unpaid
      PROVE  Charges'
  BY <1>1, <1>2, <1>3, ChargesCell DEF Goto
<1>4. ASSUME NEW step, Goto(r, n, step), Pay(r, n), call[r][n] \in Unpaid, step \notin Unpaid
      PROVE  Charges'
  <2>1. charged[r][n] = 0 /\ 0 + 1 = 1
    BY <1>1, <1>4
  <2>2. charged' = [charged EXCEPT ![r][n] = charged[r][n] + 1]
    BY <1>4 DEF Pay
  <2>3. charged' = [charged EXCEPT ![r][n] = 1]
    BY <2>1, <2>2
  <2>4. 1 \in Nat /\ 1 <= 1 /\ (step \in Unpaid => 1 = 0)
    BY <1>4
  <2>5. call' = [call EXCEPT ![r][n] = step]
    BY <1>4 DEF Goto
  <2> QED BY <2>3, <2>4, <2>5, ChargesCell
<1>5. "failed" \notin Unpaid /\ "notify" \notin Unpaid /\ \A i \in Ids : i \notin Unpaid
  BY NetworkAssumption DEF Unpaid, Waiting, Creators
<1>6. CASE UseSubnet(r, n)
  BY <1>3, <1>6 DEF UseSubnet, Unpaid
<1>7. CASE ResolveEngineOperator(r, n)
  BY <1>3, <1>7 DEF ResolveEngineOperator, Unpaid
<1>8. CASE CallSucceeds(r, n)
  BY <1>4, <1>5, <1>8 DEF CallSucceeds, Unpaid
<1>9. CASE Transfer(r, n)
  BY <1>4, <1>5, <1>9 DEF Transfer, Unpaid
<1>10. CASE NotifyCreates(r, n)
  <2>1. PICK i \in Ids : Goto(r, n, i) \/ call' = call
    BY <1>10 DEF NotifyCreates
  <2>2. UNCHANGED charged
    BY <1>10 DEF NotifyCreates
  <2>3. CASE call' = call
    BY <2>2, <2>3 DEF Charges
  <2> QED BY <1>3, <1>5, <2>1, <2>2, <2>3
<1>11. CASE AnswerLost(r, n)
  BY <1>4, <1>5, <1>11 DEF AnswerLost, Unpaid
<1>12. CASE \/ CallFails(r, n) \/ NotifyRefunded(r, n) \/ NotifyRefused(r, n)
            \/ NotifyUnread(r, n) \/ NotifyGivesUp(r, n)
  BY <1>3, <1>5, <1>12 DEF CallFails, NotifyRefunded, NotifyRefused, NotifyUnread,
                 NotifyGivesUp, NotifyEnds
<1> QED BY <1>6, <1>7, <1>8, <1>9, <1>10, <1>11, <1>12 DEF CallStep, CallFailure

LEMMA FundsMove ==
    ASSUME Typed, Funds, NEW r \in Runs, NEW n \in Names, CallStep(r, n) \/ CallFailure(r, n)
    PROVE  Funds'
<1>1. icp[r][n] \in Fortunes /\ Follows(call[r][n], icp[r][n], block[r][n])
  BY DEF Funds
<1>2. icp = [icp EXCEPT ![r][n] = icp[r][n]] /\ block = [block EXCEPT ![r][n] = block[r][n]]
  BY DEF Funds, Typed
<1>3. "failed" \notin Unpaid /\ "notify" \notin Unpaid /\ \A i \in Ids : i \notin Unpaid
  BY NetworkAssumption DEF Unpaid, Waiting, Creators
<1>4. /\ "failed" \notin Ids /\ "notify" \notin Ids /\ None \notin Ids
      /\ Fortunes = {"none", "paid", "spent", "refunded", "told", "unconfirmed", "refused", "unread"}
  BY NetworkAssumption DEF Waiting, Fortunes, Unfollowed
<1>5. ASSUME NEW step, Goto(r, n, step), UNCHANGED <<icp, block>>, call[r][n] \in Unpaid, step # "notify"
      PROVE  Funds'
  <2>1. icp[r][n] = "none" /\ block[r][n] = None
    BY <1>1, <1>5 DEF Follows
  <2>2. icp' = [icp EXCEPT ![r][n] = "none"] /\ block' = [block EXCEPT ![r][n] = None]
    BY <1>2, <1>5, <2>1
  <2>3. Follows(step, "none", None)
    BY <1>5 DEF Follows, Unfollowed
  <2>4. "none" \in Fortunes
    BY <1>4
  <2> QED BY <1>5, <2>2, <2>3, <2>4, FundsCell DEF Goto
<1>6. CASE UseSubnet(r, n)
  <2>1. PICK step \in {"failed", "transfer", "engine", "ledger"} : Goto(r, n, step)
    BY <1>6 DEF UseSubnet
  <2> QED BY <1>5, <1>6, <2>1 DEF UseSubnet, Unpaid
<1>7. CASE ResolveEngineOperator(r, n)
  <2>1. PICK step \in {"operator", "mgmt"} : Goto(r, n, step)
    BY <1>7 DEF ResolveEngineOperator
  <2> QED BY <1>5, <1>7, <2>1 DEF ResolveEngineOperator, Unpaid
<1>8. CASE CallSucceeds(r, n) \/ AnswerLost(r, n) \/ CallFails(r, n)
  <2>1. PICK step \in Ids \cup {"failed"} : Goto(r, n, step)
    BY <1>8 DEF CallSucceeds, AnswerLost, CallFails
  <2>2. UNCHANGED <<icp, block>> /\ call[r][n] \in Unpaid
    BY <1>8 DEF CallSucceeds, AnswerLost, CallFails, Unpaid
  <2> QED BY <1>4, <1>5, <2>1, <2>2
<1>9. CASE Transfer(r, n)
  <2>1. block' = [block EXCEPT ![r][n] = None]
    BY <1>1, <1>2, <1>9 DEF Transfer, Follows, Unpaid
  <2>2. CASE Goto(r, n, "notify") /\ Fund(r, n, "paid")
    <3>1. Follows("notify", "paid", None)
      BY <1>3 DEF Follows, Unfollowed
    <3>2. "paid" \in Fortunes
      BY <1>4
    <3> QED BY <2>1, <2>2, <3>1, <3>2, FundsCell DEF Goto, Fund
  <2>3. CASE "unconfirmed" \in Mishaps /\ Goto(r, n, "failed") /\ Fund(r, n, "unconfirmed")
    <3>1. Follows("failed", "unconfirmed", None)
      BY <1>3, <2>3 DEF Follows, Unfollowed
    <3>2. "unconfirmed" \in Fortunes
      BY <1>4
    <3> QED BY <2>1, <2>3, <3>1, <3>2, FundsCell DEF Goto, Fund
  <2> QED BY <1>9, <2>2, <2>3 DEF Transfer
<1>10. CASE NotifyCreates(r, n)
  <2>1. PICK i \in Ids :
           /\ block' = [block EXCEPT ![r][n] = i]
           /\ (Goto(r, n, i) /\ Fund(r, n, "spent")) \/ UNCHANGED <<call, icp>>
    BY <1>10 DEF NotifyCreates
  <2>2. call[r][n] = "notify" /\ icp[r][n] = "paid"
    BY <1>1, <1>10 DEF NotifyCreates, Follows
  <2>3. CASE UNCHANGED <<call, icp>>
    <3>1. call' = [call EXCEPT ![r][n] = "notify"] /\ icp' = [icp EXCEPT ![r][n] = "paid"]
      BY <2>2, <2>3 DEF Typed, Funds
    <3>2. Follows("notify", "paid", i)
      BY <1>3 DEF Follows, Unfollowed
    <3>3. "paid" \in Fortunes
      BY <1>4
    <3> QED BY <2>1, <3>1, <3>2, <3>3, FundsCell
  <2>4. CASE Goto(r, n, i) /\ Fund(r, n, "spent")
    <3>1. Follows(i, "spent", i)
      BY <1>3, <1>4 DEF Follows, Unfollowed
    <3>2. "spent" \in Fortunes
      BY <1>4
    <3> QED BY <2>1, <2>4, <3>1, <3>2, FundsCell DEF Goto, Fund
  <2> QED BY <2>1, <2>3, <2>4
<1>11. CASE NotifyRefunded(r, n) \/ NotifyRefused(r, n) \/ NotifyUnread(r, n) \/ NotifyGivesUp(r, n)
  <2>1. PICK what \in {"refunded", "refused", "unread", "told"} :
           /\ NotifyEnds(r, n, what)
           /\ what \in {"refunded", "refused"} => block[r][n] = None
           /\ what \in Unfollowed => what \in Mishaps
    BY <1>11 DEF NotifyRefunded, NotifyRefused, NotifyUnread, NotifyGivesUp, Unfollowed
  <2>2. Follows("failed", what, block[r][n])
    BY <1>3, <2>1 DEF Follows
  <2>3. what \in Fortunes /\ block' = [block EXCEPT ![r][n] = block[r][n]]
    BY <1>2, <1>4, <2>1 DEF NotifyEnds
  <2>4. call' = [call EXCEPT ![r][n] = "failed"] /\ icp' = [icp EXCEPT ![r][n] = what]
    BY <2>1 DEF NotifyEnds, Goto, Fund
  <2> QED BY <2>2, <2>3, <2>4, FundsCell
<1> QED BY <1>6, <1>7, <1>8, <1>9, <1>10, <1>11 DEF CallStep, CallFailure

(* Whatever else a step is, it starts calls anew or leaves payments alone.  *)
LEMMA PaysByCalls ==
    ASSUME CreationNext
    PROVE  \/ \E r \in Runs, n \in Names : CallStep(r, n) \/ CallFailure(r, n)
           \/ \E r \in Runs : \E S, o : StartCalls(r, S, o)
           \/ UNCHANGED <<call, charged, icp, block>>
<1>1. ASSUME NEW r \in Runs, NEW kind, NEW S, NEW t, NEW w, Begin(r, kind, S, t, w)
      PROVE  \E T, o : StartCalls(r, T, o)
  BY <1>1 DEF Begin
<1>2. ASSUME NEW r \in Runs, NEW bad, NEW how, End(r, bad, how)
      PROVE  \E T, o : StartCalls(r, T, o)
  BY <1>2 DEF End
<1>3. CASE DeployAll \/ DeploySome
  BY <1>1, <1>3 DEF DeployAll, DeploySome, BeginDeploy
<1>4. CASE CreateOne
  BY <1>1, <1>4 DEF CreateOne, BeginCreate
<1>5. ASSUME NEW r \in Runs, RunStep(r)
      PROVE  \/ \E n \in Names : CallStep(r, n) \/ CallFailure(r, n)
             \/ \E S, o : StartCalls(r, S, o)
             \/ UNCHANGED <<call, charged, icp, block>>
  <2>1. CASE SharedSubnet(r) \/ CallMoves(r)
    BY <2>1 DEF SharedSubnet, ResolveSubnet, CallMoves
  <2>2. CASE TakeCreated(r) \/ TakeError(r) \/ DependentsDone(r)
    BY <2>2 DEF TakeCreated, TakeError, DependentsDone, network
  <2>3. CASE AllTaken(r)
    BY <1>2, <2>3 DEF AllTaken, EndInError, network
  <2>4. CASE Register(r) \/ Truncate(r) \/ Write(r)
    BY <2>4 DEF Register, Truncate, Write, network
  <2>5. CASE RegisterFails(r) \/ LoadFails(r) \/ SettingsDone(r)
    BY <1>2, <2>5 DEF RegisterFails, LoadFails, SettingsDone, EndInError
  <2>6. CASE LoadDependents(r) \/ LoadSettings(r)
    BY <2>6 DEF LoadDependents, LoadSettings, Load, network
  <2>7. ASSUME NEW n \in Names, SyncRead(r, n) \/ SyncUpdate(r, n) PROVE UNCHANGED <<call, charged, icp, block>>
    BY <2>7 DEF SyncRead, SyncUpdate, network
  <2> QED BY <1>5, <2>1, <2>2, <2>3, <2>4, <2>5, <2>6, <2>7 DEF RunStep
<1>6. ASSUME NEW r \in Runs, CallBreaks(r) \/ Kill(r) \/ \E n \in Names : SyncFails(r, n)
      PROVE  \/ \E n \in Names : CallStep(r, n) \/ CallFailure(r, n)
             \/ \E S, o : StartCalls(r, S, o)
             \/ UNCHANGED <<call, charged, icp, block>>
  <2>1. CASE CallBreaks(r)
    BY <2>1 DEF CallBreaks
  <2>2. CASE Kill(r)
    BY <1>2, <2>2 DEF Kill
  <2>3. ASSUME NEW n \in Names, SyncFails(r, n) PROVE UNCHANGED <<call, charged, icp, block>>
    BY <2>3 DEF SyncFails, network
  <2> QED BY <1>6, <2>1, <2>2, <2>3
<1> QED BY <1>3, <1>4, <1>5, <1>6 DEF CreationNext, Failure

LEMMA PaidStep ==
    ASSUME Typed, [CreationNext]_creationVars
    PROVE  /\ Charges => Charges'
           /\ Funds => Funds'
<1>1. CASE CreationNext
  <2>1. ASSUME NEW r \in Runs, NEW n \in Names, CallStep(r, n) \/ CallFailure(r, n)
        PROVE  (Charges => Charges') /\ (Funds => Funds')
    BY <2>1, ChargesMove, FundsMove
  <2>2. ASSUME NEW r \in Runs, NEW S, NEW o, StartCalls(r, S, o)
        PROVE  (Charges => Charges') /\ (Funds => Funds')
    BY <2>2, StartPaid
  <2>3. CASE UNCHANGED <<call, charged, icp, block>>
    BY <2>3 DEF Charges, Funds
  <2> QED BY <1>1, <2>1, <2>2, <2>3, PaysByCalls
<1>2. CASE UNCHANGED creationVars
  BY <1>2 DEF creationVars, network, Charges, Funds
<1> QED BY <1>1, <1>2

(* create.rs: an invocation pays at most once for a canister, however its   *)
(* calls fail and whatever else goes on.                                    *)
THEOREM PaidOnce == CreationSpec => []ChargedOnce
<1>1. IInv => Typed
  BY DEF IInv
<1>2. Charges => ChargedOnce
  BY DEF Charges, ChargedOnce
<1> QED BY InitPaid, PaidStep, Always, <1>1, <1>2, PTL DEF CreationSpec

(* create.rs 488-591: and ICP paid for a canister buys the one that is      *)
(* returned and no other, comes back only if none was made, or has its      *)
(* block named; it is out of sight only after the answers that the code     *)
(* does not follow up.                                                      *)
THEOREM MoneyIsKept == CreationSpec => []Accounted
<1>1. IInv => Typed
  BY DEF IInv
<1>2. Charges /\ Funds => Accounted
  <2> SUFFICES ASSUME Charges, Funds, NEW r \in Runs, NEW n \in Names
      PROVE  /\ icp[r][n] = "spent" => call[r][n] \in Ids /\ call[r][n] = block[r][n]
             /\ icp[r][n] = "paid" => call[r][n] = "notify"
             /\ icp[r][n] \in {"refunded", "refused", "unconfirmed"} => block[r][n] = None
             /\ call[r][n] = "failed" =>
                   icp[r][n] \in {"none", "refunded", "told"} \cup (Unfollowed \cap Mishaps)
    BY DEF Charges, Accounted, ChargedOnce, IcpAccounted
  <2>1. icp[r][n] \in Fortunes /\ Follows(call[r][n], icp[r][n], block[r][n])
    BY DEF Funds
  <2>2. "failed" \notin Ids
    BY NetworkAssumption
  <2> QED BY <2>1, <2>2 DEF Follows, Fortunes, Unfollowed
<1>3. Typed /\ [CreationNext]_creationVars => (Charges /\ Funds => (Charges /\ Funds)')
  BY PaidStep
<1> QED BY InitPaid, <1>1, <1>2, <1>3, Always, PTL DEF CreationSpec

-----------------------------------------------------------------------------
(* Types: beside those that IInv keeps, what was paid in ICP, and where a   *)
(* run is.                                                                  *)
Funded == icp \in [Runs -> [Names -> Fortunes]]

RunFits(x) ==
    /\ x.pc \in Steps /\ x.kind \in {None, "deploy", "create", "killed"}
    /\ x.left \subseteq x.want /\ x.name \in Names \cup {None} /\ x.failed \in BOOLEAN
RunsFit == unwired \subseteq Names /\ \A r \in Runs : RunFits(runs[r])

LEMMA FundedStep == ASSUME Funded, [CreationNext]_creationVars PROVE Funded'
<1>1. ASSUME NEW r \in Runs, NEW n \in Names, CallStep(r, n) \/ CallFailure(r, n) PROVE Funded'
  <2>1. \/ UNCHANGED icp
        \/ \E m \in Fortunes : icp' = [icp EXCEPT ![r][n] = m]
    BY <1>1 DEF CallStep, CallFailure, UseSubnet, ResolveEngineOperator, CallSucceeds, Transfer, NotifyCreates,
                AnswerLost, CallFails, NotifyRefunded, NotifyRefused, NotifyUnread,
                 NotifyGivesUp, NotifyEnds, Fund, Fortunes, Unfollowed
  <2> QED BY <2>1 DEF Funded
<1>2. ASSUME NEW r \in Runs, NEW S, NEW o, StartCalls(r, S, o) PROVE Funded'
  BY <1>2 DEF StartCalls, Funded, Fortunes, Unfollowed
<1>3. CASE CreationNext
  <2>1. CASE UNCHANGED <<call, charged, icp, block>>
    BY <2>1 DEF Funded
  <2> QED BY <1>1, <1>2, <1>3, <2>1, PaysByCalls
<1>4. CASE UNCHANGED creationVars
  BY <1>4 DEF creationVars, network, Funded
<1> QED BY <1>3, <1>4

(* A step of one run.                                                       *)
LEMMA OneFits ==
    ASSUME RunsFit, NEW r \in Runs, \A q \in Runs \ {r} : runs'[q] = runs[q],
           RunFits(runs'[r]), unwired' \subseteq Names
    PROVE  RunsFit'
BY DEF RunsFit

LEMMA BeginFits ==
    ASSUME IInv, RunsFit, NEW r \in Runs, NEW kind \in {"deploy", "create"}, NEW S \in SUBSET Names,
           NEW t, NEW w, Begin(r, kind, S, t, w)
    PROVE  RunsFit'
<1> DEFINE pc == IF Missing(S) = {} THEN "load_settings" ELSE "create"
<1>1. /\ unwired' = unwired /\ pc \in Steps /\ Missing(S) \subseteq S
      /\ runs' = [runs EXCEPT ![r].kind = kind, ![r].want = S, ![r].ids = store,
                            ![r].left = Missing(S), ![r].pc = pc]
  BY DEF Begin, Steps, Missing
<1> HIDE DEF pc
<1>2. \A q \in Runs \ {r} : runs'[q] = runs[q]
  BY <1>1, RunFields
<1>3. /\ runs'[r].pc = pc /\ runs'[r].kind = kind /\ runs'[r].want = S /\ runs'[r].left = Missing(S)
      /\ runs'[r].name = runs[r].name /\ runs'[r].failed = runs[r].failed
  BY <1>1, RunFields DEF Fields
<1>4. RunFits(runs'[r])
  BY <1>1, <1>3 DEF RunFits, RunsFit
<1> QED BY <1>1, <1>2, <1>4, OneFits DEF RunsFit

LEMMA EndFits ==
    ASSUME IInv, RunsFit, NEW r \in Runs, NEW bad \in SUBSET Names, NEW how \in {None, "killed"}, End(r, bad, how)
    PROVE  RunsFit'
<1>1. runs' = [runs EXCEPT ![r] = [Idle EXCEPT !.kind = how]] /\ unwired' = unwired \cup bad
  BY DEF End
<1>2. \A q \in Runs \ {r} : runs'[q] = runs[q]
  BY <1>1, RunFields
<1>3. runs'[r] = [Idle EXCEPT !.kind = how]
  BY <1>1, RunFields
<1>4. RunFits(runs'[r])
  BY <1>3 DEF Idle, RunFits, Steps
<1> QED BY <1>1, <1>2, <1>4, OneFits DEF RunsFit

(* The run goes on: what it is for, and what is left of it, stays.          *)
LEMMA GoFits ==
    ASSUME RunsFit, NEW r \in Runs, \A q \in Runs \ {r} : runs'[q] = runs[q], unwired' \subseteq Names,
           \A x \in {"kind", "want", "left", "name"} : runs'[r][x] = runs[r][x],
           runs'[r].pc \in Steps, runs'[r].failed \in BOOLEAN
    PROVE  RunsFit'
<1>1. RunFits(runs'[r])
  BY DEF RunFits, RunsFit
<1> QED BY <1>1, OneFits

LEMMA TakeFits == ASSUME IInv, RunsFit, NEW r \in Runs, TakeCreated(r) \/ TakeError(r) PROVE RunsFit'
<1>1. runs[r].want \subseteq Names /\ RunFits(runs[r])
  BY RunFields DEF RunTyped, RunsFit
<1>2. runs[r].left # {} /\ NextResult(r) \in Names
  BY <1>1, FirstIsIn DEF TakeCreated, TakeError, NextResult, RunFits
<1>3. CASE TakeCreated(r)
  <2> DEFINE mem == [NoIds EXCEPT ![NextResult(r)] = call[r][NextResult(r)]]
  <2>1. /\ unwired' = unwired
        /\ runs' = [runs EXCEPT ![r].pc = "register", ![r].name = NextResult(r),
                              ![r].left = runs[r].left \ {NextResult(r)}, ![r].mem = mem]
    BY <1>3 DEF TakeCreated
  <2> HIDE DEF mem
  <2>2. \A q \in Runs \ {r} : runs'[q] = runs[q]
    BY <2>1, RunFields
  <2>3. /\ runs'[r].pc = "register" /\ runs'[r].name = NextResult(r)
        /\ runs'[r].left = runs[r].left \ {NextResult(r)}
        /\ \A x \in {"kind", "want", "failed"} : runs'[r][x] = runs[r][x]
    BY <2>1, RunFields DEF Fields
  <2>4. RunFits(runs'[r])
    BY <1>1, <1>2, <2>3 DEF RunFits, Steps
  <2> QED BY <2>1, <2>2, <2>4, OneFits DEF RunsFit
<1>4. CASE TakeError(r)
  <2>1. /\ unwired' = unwired
        /\ runs' = [runs EXCEPT ![r].failed = TRUE, ![r].left = runs[r].left \ {NextResult(r)}]
    BY <1>4 DEF TakeError
  <2>2. \A q \in Runs \ {r} : runs'[q] = runs[q]
    BY <2>1, RunFields
  <2>3. /\ runs'[r].failed = TRUE /\ runs'[r].left = runs[r].left \ {NextResult(r)}
        /\ \A x \in {"pc", "kind", "want", "name"} : runs'[r][x] = runs[r][x]
    BY <2>1, RunFields DEF Fields
  <2>4. RunFits(runs'[r])
    BY <1>1, <2>3 DEF RunFits
  <2> QED BY <2>1, <2>2, <2>4, OneFits DEF RunsFit
<1> QED BY <1>3, <1>4

LEMMA GoesFits ==
    ASSUME IInv, RunsFit, NEW r \in Runs, NEW pc \in Steps, runs' = [runs EXCEPT ![r].pc = pc], UNCHANGED unwired
    PROVE  RunsFit'
<1>1. /\ \A q \in Runs \ {r} : runs'[q] = runs[q]
      /\ runs'[r].pc = pc /\ \A x \in {"kind", "want", "left", "name", "failed"} : runs'[r][x] = runs[r][x]
  BY RunFields DEF Fields
<1> QED BY <1>1, GoFits DEF RunsFit, RunFits

LEMMA SaveFits ==
    ASSUME IInv, RunsFit, NEW r \in Runs, Register(r) \/ Truncate(r) \/ Write(r) PROVE RunsFit'
<1>1. CASE Register(r)
  <2> DEFINE mem == [store EXCEPT ![runs[r].name] = runs[r].mem[runs[r].name]]
  <2>1. runs' = [runs EXCEPT ![r].pc = "truncate", ![r].mem = mem] /\ UNCHANGED unwired
    BY <1>1 DEF Register
  <2> HIDE DEF mem
  <2>2. /\ \A q \in Runs \ {r} : runs'[q] = runs[q]
        /\ runs'[r].pc = "truncate"
        /\ \A x \in {"kind", "want", "left", "name", "failed"} : runs'[r][x] = runs[r][x]
    BY <2>1, RunFields DEF Fields
  <2> QED BY <2>1, <2>2, GoFits DEF RunsFit, RunFits, Steps
<1>2. CASE Truncate(r)
  BY <1>2, GoesFits DEF Truncate, Steps
<1>3. CASE Write(r)
  <2>1. runs' = [runs EXCEPT ![r].pc = "load_dependents", ![r].mem = NoIds] /\ UNCHANGED unwired
    BY <1>3 DEF Write
  <2>2. /\ \A q \in Runs \ {r} : runs'[q] = runs[q]
        /\ runs'[r].pc = "load_dependents"
        /\ \A x \in {"kind", "want", "left", "name", "failed"} : runs'[r][x] = runs[r][x]
    BY <2>1, RunFields DEF Fields
  <2> QED BY <2>1, <2>2, GoFits DEF RunsFit, RunFits, Steps
<1> QED BY <1>1, <1>2, <1>3

LEMMA LoadFits ==
    ASSUME IInv, RunsFit, NEW r \in Runs, NEW from, NEW to \in Steps, NEW S, Load(r, from, to, S) PROVE RunsFit'
<1>1. runs' = [runs EXCEPT ![r].pc = to, ![r].ids = store, ![r].pend = S] /\ UNCHANGED unwired
  BY DEF Load
<1>2. /\ \A q \in Runs \ {r} : runs'[q] = runs[q]
      /\ runs'[r].pc = to /\ \A x \in {"kind", "want", "left", "name", "failed"} : runs'[r][x] = runs[r][x]
  BY <1>1, RunFields DEF Fields
<1> QED BY <1>1, <1>2, GoFits DEF RunsFit, RunFits

LEMMA SyncFits ==
    ASSUME IInv, RunsFit, NEW r \in Runs, NEW n \in Names, SyncRead(r, n) \/ SyncUpdate(r, n) \/ SyncFails(r, n)
    PROVE  RunsFit'
<1>1. \E pend, seen, failed :
          /\ \/ runs' = [runs EXCEPT ![r].seen = seen]
             \/ runs' = [runs EXCEPT ![r].pend = pend, ![r].seen = seen]
             \/ failed \in BOOLEAN /\ runs' = [runs EXCEPT ![r].pend = pend, ![r].seen = seen, ![r].failed = failed]
          /\ unwired' \subseteq unwired \cup {n}
  <2>1. CASE SyncRead(r, n) \/ SyncUpdate(r, n)
    BY <2>1, Zenon DEF SyncRead, SyncUpdate
  <2>2. CASE SyncFails(r, n)
    <3>1. (runs[r].failed \/ At(r, "settings")) \in BOOLEAN
      BY DEF At, RunsFit, RunFits
    <3> QED BY <2>2, <3>1 DEF SyncFails
  <2> QED BY <2>1, <2>2
<1>2. PICK pend, seen, failed :
          /\ \/ runs' = [runs EXCEPT ![r].seen = seen]
             \/ runs' = [runs EXCEPT ![r].pend = pend, ![r].seen = seen]
             \/ failed \in BOOLEAN /\ runs' = [runs EXCEPT ![r].pend = pend, ![r].seen = seen, ![r].failed = failed]
          /\ unwired' \subseteq unwired \cup {n}
  BY <1>1
<1>3. \A q \in Runs \ {r} : runs'[q] = runs[q]
  BY <1>2, RunFields
<1>4. /\ \A x \in {"pc", "kind", "want", "left", "name"} : runs'[r][x] = runs[r][x]
      /\ runs'[r].failed = runs[r].failed \/ runs'[r].failed \in BOOLEAN
  BY <1>2, RunFields DEF Fields
<1> QED BY <1>2, <1>3, <1>4, GoFits DEF RunsFit, RunFits

LEMMA AllTakenFits == ASSUME IInv, RunsFit, NEW r \in Runs, AllTaken(r) PROVE RunsFit'
<1>1. runs[r].want \in SUBSET Names
  BY RunFields DEF RunTyped
<1>2. CASE EndInError(r) \/ End(r, {}, None)
  BY <1>1, <1>2, EndFits DEF EndInError
<1>3. CASE runs' = [runs EXCEPT ![r].pc = "load_settings"] /\ UNCHANGED unwired
  BY <1>3, GoesFits DEF Steps
<1> QED BY <1>2, <1>3 DEF AllTaken

LEMMA StepFits == ASSUME IInv, RunsFit, NEW r \in Runs, RunStep(r) PROVE RunsFit'
<1>1. runs[r].want \in SUBSET Names
  BY RunFields DEF RunTyped
<1>2. CASE SharedSubnet(r) \/ CallMoves(r)
  BY <1>2 DEF SharedSubnet, CallMoves, RunsFit
<1>3. CASE TakeCreated(r) \/ TakeError(r) \/ AllTaken(r)
  BY <1>3, TakeFits, AllTakenFits
<1>4. CASE Register(r) \/ Truncate(r) \/ Write(r)
  BY <1>4, SaveFits
<1>5. CASE RegisterFails(r) \/ LoadFails(r) \/ SettingsDone(r)
  BY <1>1, <1>5, EndFits DEF RegisterFails, LoadFails, SettingsDone, EndInError
<1>6. CASE LoadDependents(r) \/ LoadSettings(r)
  BY <1>6, LoadFits DEF LoadDependents, LoadSettings, Steps
<1>7. CASE \E n \in Names : SyncRead(r, n) \/ SyncUpdate(r, n)
  BY <1>7, SyncFits
<1>8. CASE DependentsDone(r)
  BY <1>8, GoesFits DEF DependentsDone, Steps
<1> QED BY <1>2, <1>3, <1>4, <1>5, <1>6, <1>7, <1>8 DEF RunStep

LEMMA RunsFitStep == ASSUME IInv, RunsFit, [CreationNext]_creationVars PROVE RunsFit'
<1>1. CASE DeployAll \/ DeploySome
  <2>1. PICK r \in Runs, S \in SUBSET Names, t \in Placements : Begin(r, "deploy", S, t, FALSE)
    BY <1>1 DEF DeployAll, DeploySome, BeginDeploy
  <2> QED BY <2>1, BeginFits
<1>2. CASE CreateOne
  <2>1. PICK r \in Runs, n \in Names, t \in Placements, withIcp \in BOOLEAN : Begin(r, "create", {n}, t, withIcp)
    BY <1>2 DEF CreateOne, BeginCreate
  <2> QED BY <2>1, BeginFits
<1>3. ASSUME NEW r \in Runs, RunStep(r) PROVE RunsFit'
  BY <1>3, StepFits
<1>4. ASSUME NEW r \in Runs, CallBreaks(r) \/ Kill(r) \/ \E n \in Names : SyncFails(r, n) PROVE RunsFit'
  <2>1. CASE CallBreaks(r)
    BY <2>1 DEF CallBreaks, RunsFit
  <2>2. CASE Kill(r)
    <3>1. End(r, Names, "killed") /\ Names \in SUBSET Names
      BY <2>2 DEF Kill
    <3> QED BY <3>1, EndFits
  <2> QED BY <1>4, <2>1, <2>2, SyncFits
<1>5. CASE UNCHANGED creationVars
  BY <1>5 DEF creationVars, RunsFit
<1> QED BY <1>1, <1>2, <1>3, <1>4, <1>5 DEF CreationNext, Failure

LEMMA InitFits == CreationInit => Funded /\ RunsFit
<1>1. CreationInit => Funded
  BY DEF CreationInit, InitNetwork, Funded, Fortunes, Unfollowed
<1>2. ASSUME CreationInit, NEW r \in Runs PROVE RunFits(runs[r])
  BY <1>2 DEF CreationInit, RunFits, Idle, Steps
<1>3. CreationInit => RunsFit
  BY <1>2 DEF CreationInit, RunsFit
<1> QED BY <1>1, <1>3

(* CanisterCreation.tla: every variable keeps its type.                     *)
THEOREM CreationTypeCorrect == CreationSpec => []CreationTypeOK
<1>1. IInv /\ Charges /\ Funded => NetworkTypeOK
  BY DEF IInv, Typed, Charges, Funded, Fortunes, Unfollowed, NetworkTypeOK
<1>2. IInv /\ RunsFit =>
          \A r \in Runs :
              /\ runs[r].pc \in Steps /\ runs[r].kind \in {None, "deploy", "create", "killed"}
              /\ runs[r].want \subseteq Names /\ runs[r].left \subseteq runs[r].want
              /\ runs[r].name \in Names \cup {None} /\ runs[r].failed \in BOOLEAN
              /\ runs[r].ids \in Mappings /\ runs[r].mem \in Mappings
              /\ runs[r].pend \subseteq Known(runs[r].ids)
              /\ runs[r].seen \in [Names -> (SUBSET Ids) \cup {None}]
  BY DEF IInv, RunInv, RunTyped, RunsFit, RunFits
<1>3. IInv /\ Charges /\ Funded /\ RunsFit => CreationTypeOK
  BY <1>1, <1>2 DEF IInv, Typed, RunsFit, CreationTypeOK
<1>4. IInv => Typed
  BY DEF IInv
<1>5. IInv /\ RunsFit /\ [CreationNext]_creationVars => RunsFit'
  BY RunsFitStep
<1>6. Funded /\ [CreationNext]_creationVars => Funded'
  BY FundedStep
<1>7. Typed /\ Charges /\ [CreationNext]_creationVars => Charges'
  BY PaidStep
<1> QED BY InitPaid, InitFits, <1>3, <1>4, <1>5, <1>6, <1>7, Always, PTL DEF CreationSpec

-----------------------------------------------------------------------------
(* One invocation at a time on an environment.                              *)
OneRun == \A r, q \in Runs : r = q

Looping == {"create", "register", "truncate", "write", "load_dependents", "dependents"}
Registering == {"register", "truncate", "write"}
Settling == {"load_settings", "settings"}

(* Where a run is tells what it holds: in the loop over the creations the   *)
(* names still to come are not the one it registers; past it none are left. *)
InStep(r) ==
    LET x == runs[r] IN
    /\ x.pc \in Steps /\ x.left \subseteq x.want
    /\ x.pc # "idle" => x.kind \in {"deploy", "create"}
    /\ x.pc \in Registering => x.name \in x.want \ x.left
    /\ x.pc \in {"load_dependents", "dependents"} => x.name \in Names
    /\ x.pc \in Settling => x.kind = "deploy" /\ x.left = {}

(* What the store lacks, it lacks until the run itself registers it.        *)
InStore(r) ==
    LET x == runs[r] IN
    /\ store = CutShort <=> x.pc = "write"
    /\ x.pc \in Looping \ {"write"} => \A n \in x.left : store[n] = None
    /\ x.pc \in {"truncate", "write"} => \A n \in x.left : x.mem[n] = None
    /\ x.pc \in {"register", "truncate"} => store[x.name] = None /\ x.mem[x.name] \in Ids
    /\ x.pc = "truncate" => \A n \in Names \ {x.name} : x.mem[n] = store[n]

Alone(r) == InStep(r) /\ InStore(r)
Solo == OneRun /\ (store = CutShort => Runs # {}) /\ \A r \in Runs : Alone(r)

LEMMA InitSolo == OneRun /\ CreationInit => Solo
<1> SUFFICES ASSUME OneRun, CreationInit PROVE Solo
  OBVIOUS
<1>1. store \in Mappings /\ store # CutShort
  BY NetworkAssumption, ManifestAssumption DEF CreationInit, NoIds, Mappings
<1>2. ASSUME NEW r \in Runs PROVE Alone(r)
  <2>1. runs[r] = Idle
    BY <1>2 DEF CreationInit
  <2> QED BY <1>1, <2>1 DEF Alone, InStep, InStore, Idle, Steps, Looping, Registering, Settling
<1> QED BY <1>1, <1>2 DEF Solo

(* A step of the only run.                                                  *)
LEMMA SoloStep ==
    ASSUME Solo, NEW r \in Runs, Alone(r)' PROVE Solo'
BY DEF Solo, OneRun

LEMMA SoloRuns ==
    ASSUME IInv, Solo, NEW r \in Runs
    PROVE  /\ \A q \in Runs : q = r
           /\ InStep(r) /\ InStore(r)
           /\ store \in Mappings \cup {CutShort} /\ CutShort \notin Mappings
           /\ store # CutShort <=> store \in Mappings
           /\ DOMAIN runs = Runs /\ DOMAIN runs[r] = Fields
BY RunFields, ManifestAssumption DEF Solo, OneRun, Alone, IInv, Typed, Mappings

LEMMA BeginSolo ==
    ASSUME IInv, Solo, NEW r \in Runs, NEW kind \in {"deploy", "create"}, NEW S \in SUBSET Names,
           NEW target, NEW withIcp, Begin(r, kind, S, target, withIcp),
           kind = "create" => Missing(S) # {}
    PROVE  Solo'
<1> DEFINE left == Missing(S)
           pc == IF Missing(S) = {} THEN "load_settings" ELSE "create"
<1>1. /\ store # CutShort /\ UNCHANGED store
      /\ runs' = [runs EXCEPT ![r].kind = kind, ![r].want = S, ![r].ids = store, ![r].left = left, ![r].pc = pc]
  BY DEF Begin
<1>2. left \subseteq S /\ \A n \in left : store[n] = None
  BY DEF Missing, Known
<1>3. pc \in {"load_settings", "create"} /\ (pc = "load_settings" => left = {} /\ kind = "deploy")
  OBVIOUS
<1> HIDE DEF left, pc
<1>4. runs'[r].kind = kind /\ runs'[r].want = S /\ runs'[r].left = left /\ runs'[r].pc = pc
  BY <1>1, SoloRuns DEF Fields
<1>5. Alone(r)'
  BY <1>1, <1>2, <1>3, <1>4 DEF Alone, InStep, InStore, Steps, Looping, Registering, Settling
<1> QED BY <1>5, SoloStep

LEMMA EndSolo ==
    ASSUME IInv, Solo, NEW r \in Runs, NEW bad, NEW how, End(r, bad, how), ~At(r, "write")
    PROVE  Solo'
<1>1. store' = store /\ runs' = [runs EXCEPT ![r] = [Idle EXCEPT !.kind = how]]
  BY DEF End
<1>2. runs'[r] = [Idle EXCEPT !.kind = how]
  BY <1>1, SoloRuns
<1>3. runs'[r].pc = "idle" /\ runs'[r].left = {} /\ runs'[r].want = {}
  BY <1>2 DEF Idle
<1>4. store # CutShort
  BY SoloRuns DEF InStore, At
<1>5. Alone(r)'
  BY <1>1, <1>3, <1>4 DEF Alone, InStep, InStore, Steps, Looping, Registering, Settling
<1> QED BY <1>5, SoloStep

(* Neither the store nor the place of the run changes.                      *)
LEMMA StaySolo ==
    ASSUME IInv, Solo, NEW r \in Runs, UNCHANGED store,
           \A x \in {"pc", "kind", "want", "left", "name", "mem"} : runs'[r][x] = runs[r][x]
    PROVE  Solo'
<1>1. Alone(r)'
  BY SoloRuns DEF Alone, InStep, InStore
<1> QED BY <1>1, SoloStep

LEMMA TakeSolo ==
    ASSUME IInv, Solo, NEW r \in Runs, TakeCreated(r) \/ TakeError(r)
    PROVE  Solo'
<1> DEFINE n == NextResult(r)
           left == runs[r].left \ {n}
<1>1. At(r, "create") /\ UNCHANGED store /\ n \in runs[r].left /\ runs[r].left \subseteq Names
  BY SoloRuns, RunFields, FirstIsIn DEF TakeCreated, TakeError, NextResult, InStep, RunTyped
<1>2. n \in runs[r].want \ left /\ left \subseteq runs[r].left /\ n \in Names
  BY <1>1, SoloRuns DEF InStep
<1>3. store # CutShort
  BY <1>1, SoloRuns DEF InStore, At
<1>4. CASE TakeError(r)
  <2>1. runs' = [runs EXCEPT ![r].failed = TRUE, ![r].left = left]
    BY <1>4 DEF TakeError
  <2> HIDE DEF left, n
  <2>2. runs'[r].left = left /\ \A x \in {"pc", "kind", "want", "name", "mem"} : runs'[r][x] = runs[r][x]
    BY <2>1, SoloRuns DEF Fields
  <2>3. Alone(r)'
    BY <1>1, <1>2, <1>3, <2>2, SoloRuns
       DEF Alone, InStep, InStore, Steps, Looping, Registering, Settling, At
  <2> QED BY <2>3, SoloStep
<1>5. CASE TakeCreated(r)
  <2> DEFINE mem == [NoIds EXCEPT ![n] = call[r][n]]
  <2>1. /\ call[r][n] \in Ids
        /\ runs' = [runs EXCEPT ![r].pc = "register", ![r].name = n, ![r].left = left, ![r].mem = mem]
    BY <1>5 DEF TakeCreated
  <2>2. mem[n] \in Ids
    BY <1>2, <2>1 DEF NoIds
  <2> HIDE DEF left, n, mem
  <2>3. /\ runs'[r].left = left /\ runs'[r].pc = "register" /\ runs'[r].name = n /\ runs'[r].mem = mem
        /\ \A x \in {"kind", "want"} : runs'[r][x] = runs[r][x]
    BY <2>1, SoloRuns DEF Fields
  <2>4. Alone(r)'
    BY <1>1, <1>2, <1>3, <2>2, <2>3, SoloRuns
       DEF Alone, InStep, InStore, Steps, Looping, Registering, Settling, At
  <2> QED BY <2>4, SoloStep
<1> QED BY <1>4, <1>5

LEMMA RegisterSolo == ASSUME IInv, Solo, NEW r \in Runs, Register(r) PROVE Solo'
<1> DEFINE n == runs[r].name
           mem == [store EXCEPT ![n] = runs[r].mem[n]]
<1>1. At(r, "register") /\ UNCHANGED store /\ store \in Mappings /\ store[n] = None
  BY SoloRuns DEF Register
<1>2. n \in Names /\ n \in runs[r].want \ runs[r].left /\ runs[r].left \subseteq Names /\ runs[r].mem[n] \in Ids
  BY <1>1, SoloRuns, RunFields DEF InStep, InStore, Registering, RunTyped, At
<1>3. mem[n] \in Ids /\ \A k \in Names \ {n} : mem[k] = store[k]
  BY <1>1, <1>2 DEF Mappings
<1>4. \A k \in runs[r].left : mem[k] = None /\ store[k] = None
  BY <1>1, <1>2, <1>3, SoloRuns DEF InStore, Looping, At
<1>5. runs' = [runs EXCEPT ![r].pc = "truncate", ![r].mem = mem]
  BY DEF Register
<1> HIDE DEF n, mem
<1>6. /\ runs'[r].pc = "truncate" /\ runs'[r].mem = mem
      /\ \A x \in {"kind", "want", "left", "name"} : runs'[r][x] = runs[r][x]
  BY <1>5, SoloRuns DEF Fields
<1>7. Alone(r)'
  BY <1>1, <1>2, <1>3, <1>4, <1>6, SoloRuns
     DEF Alone, InStep, InStore, Steps, Looping, Registering, Settling, At, n
<1> QED BY <1>7, SoloStep

LEMMA TruncateSolo == ASSUME IInv, Solo, NEW r \in Runs, Truncate(r) PROVE Solo'
<1>1. At(r, "truncate") /\ store' = CutShort /\ runs' = [runs EXCEPT ![r].pc = "write"]
  BY DEF Truncate
<1>2. /\ runs'[r].pc = "write"
      /\ \A x \in {"kind", "want", "left", "name", "mem"} : runs'[r][x] = runs[r][x]
  BY <1>1, SoloRuns DEF Fields
<1>3. Alone(r)'
  BY <1>1, <1>2, SoloRuns DEF Alone, InStep, InStore, Steps, Looping, Registering, Settling, At
<1> QED BY <1>3, SoloStep

LEMMA WriteSolo == ASSUME IInv, Solo, NEW r \in Runs, Write(r) PROVE Solo'
<1>1. At(r, "write") /\ store' = runs[r].mem /\ runs' = [runs EXCEPT ![r].pc = "load_dependents", ![r].mem = NoIds]
  BY DEF Write
<1>2. /\ runs'[r].pc = "load_dependents"
      /\ \A x \in {"kind", "want", "left", "name"} : runs'[r][x] = runs[r][x]
  BY <1>1, SoloRuns DEF Fields
<1>3. store' # CutShort
  BY <1>1, SoloRuns, RunFields
<1>4. runs[r].name \in Names
  BY <1>1, SoloRuns, RunFields DEF InStep, Registering, At, RunTyped
<1>5. Alone(r)'
  BY <1>1, <1>2, <1>3, <1>4, SoloRuns DEF Alone, InStep, InStore, Steps, Looping, Registering, Settling, At
<1> QED BY <1>5, SoloStep

(* The run goes on without writing.                                         *)
LEMMA LoadSolo ==
    ASSUME IInv, Solo, NEW r \in Runs, NEW S,
           \/ Load(r, "load_dependents", "dependents", S) \/ Load(r, "load_settings", "settings", S)
    PROVE  Solo'
<1>1. PICK from, to :
          /\ <<from, to>> \in {<<"load_dependents", "dependents">>, <<"load_settings", "settings">>}
          /\ Load(r, from, to, S)
  OBVIOUS
<1>2. At(r, from) /\ UNCHANGED store /\ runs' = [runs EXCEPT ![r].pc = to, ![r].ids = store, ![r].pend = S]
  BY <1>1 DEF Load
<1>3. /\ runs'[r].pc = to
      /\ \A x \in {"kind", "want", "left", "name", "mem"} : runs'[r][x] = runs[r][x]
  BY <1>2, SoloRuns DEF Fields
<1>4. Alone(r)'
  BY <1>1, <1>2, <1>3, SoloRuns DEF Alone, InStep, InStore, Steps, Looping, Registering, Settling, At
<1> QED BY <1>4, SoloStep

LEMMA GoOnSolo ==
    ASSUME IInv, Solo, NEW r \in Runs, UNCHANGED store,
           \/ At(r, "dependents") /\ runs' = [runs EXCEPT ![r].pc = "create"]
           \/ /\ At(r, "create") /\ runs[r].left = {} /\ runs[r].kind # "create"
              /\ runs' = [runs EXCEPT ![r].pc = "load_settings"]
    PROVE  Solo'
<1>1. /\ runs'[r].pc \in {"create", "load_settings"}
      /\ \A x \in {"kind", "want", "left", "name", "mem"} : runs'[r][x] = runs[r][x]
  BY SoloRuns DEF Fields
<1>2. \/ At(r, "dependents") /\ runs'[r].pc = "create"
      \/ At(r, "create") /\ runs[r].left = {} /\ runs[r].kind # "create" /\ runs'[r].pc = "load_settings"
  BY SoloRuns DEF Fields
<1>3. Alone(r)'
  BY <1>1, <1>2, SoloRuns DEF Alone, InStep, InStore, Steps, Looping, Registering, Settling, At
<1> QED BY <1>3, SoloStep

LEMMA SyncPlace ==
    ASSUME IInv, NEW r \in Runs, NEW n \in Names, SyncRead(r, n) \/ SyncUpdate(r, n) \/ SyncFails(r, n)
    PROVE  /\ MaySync(r, n) /\ UNCHANGED <<store, network>>
           /\ \A x \in {"pc", "kind", "want", "left", "name", "mem", "ids"} : runs'[r][x] = runs[r][x]
<1>1. MaySync(r, n) /\ UNCHANGED <<store, network>>
  BY DEF SyncRead, SyncUpdate, SyncFails
<1>2. CASE SyncRead(r, n)
  <2>1. \E seen : runs' = [runs EXCEPT ![r].seen = seen]
    BY <1>2 DEF SyncRead
  <2> QED BY <1>1, <2>1, RunFields DEF Fields
<1>3. CASE SyncUpdate(r, n)
  <2>1. \E seen, pend : runs' = [runs EXCEPT ![r].pend = pend, ![r].seen = seen]
    BY <1>3 DEF SyncUpdate
  <2> QED BY <1>1, <2>1, RunFields DEF Fields
<1>4. CASE SyncFails(r, n)
  <2>1. \E seen, pend, failed : runs' = [runs EXCEPT ![r].pend = pend, ![r].seen = seen, ![r].failed = failed]
    BY <1>4 DEF SyncFails
  <2> QED BY <1>1, <2>1, RunFields DEF Fields
<1> QED BY <1>2, <1>3, <1>4

LEMMA SyncSolo ==
    ASSUME IInv, Solo, NEW r \in Runs, NEW n \in Names, SyncRead(r, n) \/ SyncUpdate(r, n) \/ SyncFails(r, n)
    PROVE  Solo'
BY SyncPlace, StaySolo

(* How a run that is alone begins, goes on and ends.                        *)
Begins(r) ==
    \E kind \in {"deploy", "create"}, S \in SUBSET Names, target \in Placements, withIcp \in BOOLEAN :
        /\ Begin(r, kind, S, target, withIcp)
        /\ kind = "create" => Missing(S) # {} /\ \E n \in Names : S = {n}

GoesOn(r) ==
    /\ \/ At(r, "dependents") /\ runs[r].pend = {} /\ runs' = [runs EXCEPT ![r].pc = "create"]
       \/ /\ At(r, "create") /\ runs[r].left = {} /\ runs[r].kind # "create"
          /\ runs' = [runs EXCEPT ![r].pc = "load_settings"]
    /\ UNCHANGED <<network, store, controllers, unwired>>

Loads(r) ==
    \/ Load(r, "load_dependents", "dependents", {n \in Names : runs[r].name \in Refs[n] /\ store[n] # None})
    \/ Load(r, "load_settings", "settings", runs[r].want)

EndsWith(r, bad, how) ==
    /\ End(r, bad, how)
    /\ ~At(r, "idle") /\ ~At(r, "write")
    /\ \/ how = "killed" /\ bad = Names
       \/ how = None /\ bad = runs[r].want /\ runs[r].left = {} /\ runs[r].pc \in {"create", "load_settings"}
       \/ how = None /\ bad = {} /\ runs[r].left = {} /\ At(r, "create") /\ runs[r].kind = "create"
       \/ how = None /\ bad = {} /\ runs[r].left = {} /\ At(r, "settings") /\ runs[r].pend = {}

LEMMA EndsAlone ==
    ASSUME IInv, Solo, NEW r \in Runs, RegisterFails(r) \/ LoadFails(r) \/ SettingsDone(r)
    PROVE  \E bad, how : EndsWith(r, bad, how)
<1>1. CASE RegisterFails(r)
  BY <1>1, SoloRuns DEF RegisterFails, InStore, At
<1>2. CASE LoadFails(r)
  <2>1. At(r, "load_settings") /\ runs[r].left = {}
    BY <1>2, SoloRuns DEF LoadFails, InStore, InStep, At, Settling
  <2>2. EndsWith(r, runs[r].want, None)
    BY <1>2, <2>1 DEF LoadFails, EndInError, EndsWith, At
  <2> QED BY <2>2
<1>3. CASE SettingsDone(r)
  <2>1. runs[r].left = {}
    BY <1>3, SoloRuns DEF SettingsDone, InStep, At, Settling
  <2>2. EndsWith(r, {}, None)
    BY <1>3, <2>1 DEF SettingsDone, EndsWith, At
  <2> QED BY <2>2
<1> QED BY <1>1, <1>2, <1>3

LEMMA AllTakenAlone ==
    ASSUME NEW r \in Runs, AllTaken(r) PROVE GoesOn(r) \/ \E bad, how : EndsWith(r, bad, how)
<1>1. At(r, "create") /\ runs[r].left = {}
  BY DEF AllTaken
<1>2. CASE EndInError(r)
  <2>1. EndsWith(r, runs[r].want, None)
    BY <1>1, <1>2 DEF EndInError, EndsWith, At
  <2> QED BY <2>1
<1>3. CASE runs[r].kind = "create" /\ End(r, {}, None)
  <2>1. EndsWith(r, {}, None)
    BY <1>1, <1>3 DEF EndsWith, At
  <2> QED BY <2>1
<1>4. CASE /\ runs[r].kind # "create" /\ runs' = [runs EXCEPT ![r].pc = "load_settings"]
           /\ UNCHANGED <<network, store, controllers, unwired>>
  BY <1>1, <1>4 DEF GoesOn
<1> QED BY <1>2, <1>3, <1>4 DEF AllTaken

LEMMA LoadsAlone ==
    ASSUME NEW r \in Runs, LoadDependents(r) \/ LoadSettings(r) PROVE Loads(r)
<1>1. CASE LoadDependents(r)
  <2> DEFINE S == {n \in Names : store # CutShort /\ runs[r].name \in Refs[n] /\ store[n] # None}
  <2>1. Load(r, "load_dependents", "dependents", S)
    BY <1>1 DEF LoadDependents
  <2>2. store # CutShort
    BY <2>1 DEF Load
  <2>3. S = {n \in Names : runs[r].name \in Refs[n] /\ store[n] # None}
    BY <2>2
  <2> QED BY <2>1, <2>3 DEF Loads
<1>2. CASE LoadSettings(r)
  BY <1>2 DEF LoadSettings, Loads
<1> QED BY <1>1, <1>2

Moves(r) ==
    \/ Begins(r) \/ (\E bad, how : EndsWith(r, bad, how))
    \/ SharedSubnet(r) \/ CallMoves(r) \/ CallBreaks(r)
    \/ TakeCreated(r) \/ TakeError(r) \/ GoesOn(r)
    \/ Register(r) \/ Truncate(r) \/ Write(r) \/ Loads(r)
    \/ \E n \in Names : SyncRead(r, n) \/ SyncUpdate(r, n) \/ SyncFails(r, n)

LEMMA MovesAlone ==
    ASSUME IInv, Solo, "tear" \notin Mishaps, CreationNext
    PROVE  \E r \in Runs : Moves(r)
<1>1. CASE DeployAll \/ DeploySome
  <2>1. PICK r \in Runs, S \in SUBSET Names, t \in Placements : Begin(r, "deploy", S, t, FALSE)
    BY <1>1 DEF DeployAll, DeploySome, BeginDeploy
  <2>2. Begins(r)
    BY <2>1 DEF Begins
  <2> QED BY <2>2 DEF Moves
<1>2. CASE CreateOne
  <2>1. PICK r \in Runs, n \in Names, t \in Placements, withIcp \in BOOLEAN : BeginCreate(r, n, t, withIcp)
    BY <1>2 DEF CreateOne
  <2>2. Begin(r, "create", {n}, t, withIcp) /\ {n} \in SUBSET Names /\ Missing({n}) # {}
    BY <2>1 DEF BeginCreate, Missing
  <2>3. Begins(r)
    BY <2>2 DEF Begins
  <2> QED BY <2>3 DEF Moves
<1>3. ASSUME NEW r \in Runs, RunStep(r) PROVE Moves(r)
  <2>1. CASE SharedSubnet(r) \/ CallMoves(r) \/ TakeCreated(r) \/ TakeError(r)
    BY <2>1 DEF Moves
  <2>2. CASE AllTaken(r)
    BY <2>2, AllTakenAlone DEF Moves
  <2>3. CASE Register(r) \/ Truncate(r) \/ Write(r)
    BY <2>3 DEF Moves
  <2>4. CASE RegisterFails(r) \/ LoadFails(r) \/ SettingsDone(r)
    BY <2>4, EndsAlone DEF Moves
  <2>5. CASE LoadDependents(r) \/ LoadSettings(r)
    BY <2>5, LoadsAlone DEF Moves
  <2>6. ASSUME NEW n \in Names, SyncRead(r, n) \/ SyncUpdate(r, n) PROVE Moves(r)
    BY <2>6 DEF Moves
  <2>7. CASE DependentsDone(r)
    BY <2>7 DEF DependentsDone, GoesOn, Moves
  <2> QED BY <1>3, <2>1, <2>2, <2>3, <2>4, <2>5, <2>6, <2>7 DEF RunStep
<1>4. ASSUME NEW r \in Runs, Kill(r) PROVE Moves(r)
  <2>1. EndsWith(r, Names, "killed")
    BY <1>4 DEF Kill, EndsWith
  <2> QED BY <2>1 DEF Moves
<1>5. CASE Failure
  <2>1. PICK r \in Runs : CallBreaks(r) \/ Kill(r) \/ \E n \in Names : SyncFails(r, n)
    BY <1>5 DEF Failure
  <2> QED BY <1>4, <2>1 DEF Moves
<1> QED BY <1>1, <1>2, <1>3, <1>5 DEF CreationNext

LEMMA SoloMoves == ASSUME IInv, Solo, NEW r \in Runs, Moves(r) PROVE Solo'
<1>1. CASE Begins(r)
  BY <1>1, BeginSolo DEF Begins
<1>2. CASE \E bad, how : EndsWith(r, bad, how)
  BY <1>2, EndSolo DEF EndsWith
<1>3. CASE SharedSubnet(r) \/ CallMoves(r) \/ CallBreaks(r)
  BY <1>3, StaySolo DEF SharedSubnet, CallMoves, CallBreaks
<1>4. CASE TakeCreated(r) \/ TakeError(r)
  BY <1>4, TakeSolo
<1>5. CASE GoesOn(r)
  BY <1>5, GoOnSolo DEF GoesOn
<1>6. CASE Register(r) \/ Truncate(r) \/ Write(r)
  BY <1>6, RegisterSolo, TruncateSolo, WriteSolo
<1>7. CASE Loads(r)
  BY <1>7, LoadSolo DEF Loads
<1>8. CASE \E n \in Names : SyncRead(r, n) \/ SyncUpdate(r, n) \/ SyncFails(r, n)
  BY <1>8, SyncSolo
<1> QED BY <1>1, <1>2, <1>3, <1>4, <1>5, <1>6, <1>7, <1>8 DEF Moves

LEMMA SoloAlways == ASSUME OneRun, "tear" \notin Mishaps PROVE CreationSpec => []Solo
<1>1. ASSUME IInv, Solo, [CreationNext]_creationVars PROVE Solo'
  <2>1. CASE CreationNext
    BY <1>1, <2>1, MovesAlone, SoloMoves
  <2>2. CASE UNCHANGED creationVars
    BY <1>1, <2>2 DEF creationVars, Solo, Alone, InStep, InStore
  <2> QED BY <1>1, <2>1, <2>2
<1>2. IInv /\ Solo /\ [CreationNext]_creationVars => Solo'
  BY <1>1
<1>3. CreationInit => Solo
  BY InitSolo
<1> QED BY <1>2, <1>3, Always, PTL DEF CreationSpec

(* With one run the saved mapping is the file's, or what is being written.  *)
LEMMA SavedAlone ==
    ASSUME IInv, Solo, NEW r \in Runs, NEW n \in Names
    PROVE  Saved(n) = IF store = CutShort THEN runs[r].mem[n] ELSE store[n]
<1>1. CASE store = CutShort
  <2>1. At(r, "write") /\ \A q \in Runs : q = r
    BY <1>1, SoloRuns DEF InStore, At
  <2>2. (CHOOSE q \in Runs : At(q, "write")) = r
    BY <2>1
  <2> QED BY <1>1, <2>1, <2>2 DEF Saved
<1>2. CASE store # CutShort
  BY <1>2 DEF Saved
<1> QED BY <1>1, <1>2

LEMMA SavedStays ==
    ASSUME IInv, Solo, IInv', Solo', NEW r \in Runs, Moves(r), NEW n \in Names, Saved(n) # None
    PROVE  Saved(n)' = Saved(n)
<1>1. /\ Saved(n) = IF store = CutShort THEN runs[r].mem[n] ELSE store[n]
      /\ Saved(n)' = IF store' = CutShort THEN runs'[r].mem[n] ELSE store'[n]
  <2> DEFINE N == IF store = CutShort THEN runs[r].mem[n] ELSE store[n]
  <2>1. Saved(n) = N
    BY SavedAlone
  <2>2. (Saved(n) = N)'
    <3>1. CASE store' = CutShort
      <4>1. At(r, "write")' /\ \A q \in Runs : q = r
        BY <3>1 DEF Solo, OneRun, Alone, InStore, At
      <4>2. (CHOOSE q \in Runs : At(q, "write")') = r
        BY <4>1
      <4> QED BY <3>1, <4>1, <4>2 DEF Saved
    <3>2. CASE store' # CutShort
      BY <3>2 DEF Saved
    <3> QED BY <3>1, <3>2
  <2> QED BY <2>1, <2>2
<1>2. CASE UNCHANGED store /\ store # CutShort
  BY <1>1, <1>2
<1>3. CASE UNCHANGED <<store, runs>>
  BY <1>1, <1>3
<1>4. CASE Truncate(r)
  <2>1. At(r, "truncate") /\ store' = CutShort /\ runs' = [runs EXCEPT ![r].pc = "write"]
    BY <1>4 DEF Truncate
  <2>2. runs'[r].mem = runs[r].mem
    BY <2>1, SoloRuns DEF Fields
  <2>3. store # CutShort /\ runs[r].mem[n] = store[n]
    BY <1>1, <2>1, SoloRuns DEF InStore, At
  <2> QED BY <1>1, <2>1, <2>2, <2>3
<1>5. CASE Write(r)
  <2>1. store = CutShort /\ store' = runs[r].mem /\ store' # CutShort
    BY <1>5, SoloRuns, RunFields DEF Write, InStore, At
  <2> QED BY <1>1, <2>1
<1>6. CASE UNCHANGED store /\ ~At(r, "write")
  BY <1>2, <1>6, SoloRuns DEF InStore, At
<1>7. CASE Begins(r)
  BY <1>6, <1>7 DEF Begins, Begin, At
<1>8. CASE \E bad, how : EndsWith(r, bad, how)
  BY <1>6, <1>8 DEF EndsWith, End
<1>9. CASE SharedSubnet(r) \/ CallMoves(r) \/ CallBreaks(r)
  BY <1>3, <1>9 DEF SharedSubnet, CallMoves, CallBreaks
<1>10. CASE TakeCreated(r) \/ TakeError(r) \/ GoesOn(r)
  BY <1>6, <1>10 DEF TakeCreated, TakeError, GoesOn, At
<1>11. CASE Register(r) \/ Loads(r)
  BY <1>6, <1>11 DEF Register, Loads, Load, At
<1>12. CASE \E k \in Names : SyncRead(r, k) \/ SyncUpdate(r, k) \/ SyncFails(r, k)
  <2>1. runs[r].pend # {} /\ UNCHANGED store
    BY <1>12 DEF SyncRead, SyncUpdate, SyncFails, MaySync
  <2>2. ~At(r, "write")
    BY <2>1, RunFields DEF RunTyped, At
  <2> QED BY <1>6, <2>1, <2>2
<1> QED BY <1>4, <1>5, <1>7, <1>8, <1>9, <1>10, <1>11, <1>12 DEF Moves

(* A run that ends by itself has no name left.                              *)
LEMMA NoneLeft ==
    ASSUME IInv, Solo, NEW r \in Runs, Moves(r), ~At(r, "idle"), At(r, "idle")', runs[r].kind' # "killed"
    PROVE  runs[r].left = {}
<1>2. CASE UNCHANGED runs
  BY <1>2 DEF At
<1>3. CASE \E bad, how : EndsWith(r, bad, how)
  <2>1. PICK bad, how : EndsWith(r, bad, how)
    BY <1>3
  <2>2. runs' = [runs EXCEPT ![r] = [Idle EXCEPT !.kind = how]]
    BY <2>1 DEF EndsWith, End
  <2>3. runs'[r] = [Idle EXCEPT !.kind = how]
    BY <2>2, SoloRuns
  <2>4. runs'[r].kind = how
    BY <2>3 DEF Idle
  <2> QED BY <2>1, <2>4 DEF EndsWith
<1>4. CASE Begins(r)
  BY <1>4 DEF Begins, Begin
<1>5. CASE SharedSubnet(r) \/ CallMoves(r) \/ CallBreaks(r)
  BY <1>2, <1>5 DEF SharedSubnet, CallMoves, CallBreaks
<1>6. CASE \E n \in Names : SyncRead(r, n) \/ SyncUpdate(r, n) \/ SyncFails(r, n)
  <2>1. runs'[r].pc = runs[r].pc
    BY <1>6, SyncPlace
  <2> QED BY <2>1 DEF At
<1>7. CASE TakeCreated(r) \/ TakeError(r) \/ GoesOn(r) \/ Register(r) \/ Truncate(r) \/ Write(r) \/ Loads(r)
  <2>1. CASE TakeError(r)
    <3>1. PICK left : runs' = [runs EXCEPT ![r].failed = TRUE, ![r].left = left]
      BY <2>1 DEF TakeError
    <3>2. runs'[r].pc = runs[r].pc
      BY <3>1, SoloRuns DEF Fields
    <3> QED BY <3>2 DEF At
  <2>2. CASE TakeCreated(r)
    <3>1. PICK name, left, mem :
              runs' = [runs EXCEPT ![r].pc = "register", ![r].name = name, ![r].left = left, ![r].mem = mem]
      BY <2>2 DEF TakeCreated
    <3>2. runs'[r].pc = "register"
      BY <3>1, SoloRuns DEF Fields
    <3> QED BY <3>2 DEF At
  <2>3. CASE GoesOn(r) \/ Truncate(r)
    <3>1. PICK pc \in Steps \ {"idle"} : runs' = [runs EXCEPT ![r].pc = pc]
      BY <2>3 DEF GoesOn, Truncate, Steps
    <3>2. runs'[r].pc = pc
      BY <3>1, SoloRuns DEF Fields
    <3> QED BY <3>1, <3>2 DEF At
  <2>4. CASE Register(r) \/ Write(r)
    <3>1. PICK pc, mem : pc \in Steps \ {"idle"} /\ runs' = [runs EXCEPT ![r].pc = pc, ![r].mem = mem]
      BY <2>4 DEF Register, Write, Steps
    <3>2. runs'[r].pc = pc
      BY <3>1, SoloRuns DEF Fields
    <3> QED BY <3>1, <3>2 DEF At
  <2>5. CASE Loads(r)
    <3>1. PICK pc, ids, pend :
              pc \in Steps \ {"idle"} /\ runs' = [runs EXCEPT ![r].pc = pc, ![r].ids = ids, ![r].pend = pend]
      BY <2>5 DEF Loads, Load, Steps
    <3>2. runs'[r].pc = pc
      BY <3>1, SoloRuns DEF Fields
    <3> QED BY <3>1, <3>2 DEF At
  <2> QED BY <1>7, <2>1, <2>2, <2>3, <2>4, <2>5
<1> QED BY <1>3, <1>4, <1>5, <1>6, <1>7 DEF Moves

(* deploy.rs, store_id.rs: as long as one invocation at a time works on an  *)
(* environment and none is killed in the middle of writing the id store,    *)
(* no recorded id is dropped or replaced, and no invocation that ends by    *)
(* itself leaves the id of a canister it made unrecorded.                   *)
THEOREM IdsAreKept ==
    ASSUME OneRun, "tear" \notin Mishaps PROVE CreationSpec => StoreKept
<1> DEFINE Stays == \A n \in Names : Saved(n) # None => Saved(n)' = Saved(n)
           Taken == \A r \in Runs :
                        ~At(r, "idle") /\ At(r, "idle")' /\ runs[r].kind' # "killed" =>
                            \A n \in runs[r].left : call[r][n] \notin Ids
<1>1. ASSUME IInv, Solo, IInv', Solo', [CreationNext]_creationVars PROVE [Stays]_creationVars /\ [Taken]_creationVars
  <2>1. CASE CreationNext
    <3>1. PICK r \in Runs : Moves(r)
      BY <1>1, <2>1, MovesAlone
    <3>2. Stays
      BY <1>1, <3>1, SavedStays
    <3>3. Taken
      BY <1>1, <3>1, NoneLeft, SoloRuns
    <3> QED BY <3>2, <3>3
  <2>2. CASE UNCHANGED creationVars
    BY <2>2
  <2> QED BY <1>1, <2>1, <2>2
<1>2. IInv /\ Solo /\ IInv' /\ Solo' /\ [CreationNext]_creationVars => [Stays]_creationVars /\ [Taken]_creationVars
  BY <1>1
<1>3. CreationSpec => []Solo
  BY SoloAlways
<1>4. CreationSpec => [][Stays]_creationVars /\ [][Taken]_creationVars
  BY <1>2, <1>3, Always, PTL DEF CreationSpec
<1> QED BY <1>4 DEF StoreKept, IdsKept, NoIdDropped

-----------------------------------------------------------------------------
(* The controllers.  A run owes a canister a controller as long as it will  *)
(* still sync it: deploy all that it wants, in the end, and each run those  *)
(* that have the canister it has just registered for a controller.          *)
Owes(r, n, m) ==
    LET x == runs[r] IN
    \/ x.pc \in Looping \cup {"load_settings"} /\ x.kind = "deploy" /\ n \in x.want
    \/ x.pc = "settings" /\ n \in x.pend
    \/ x.pc \in {"write", "load_dependents"} /\ m = x.name
    \/ x.pc = "dependents" /\ m = x.name /\ n \in x.pend

Linked(f) ==
    \A n, m \in Names :
        n \notin unwired /\ m \in Refs[n] /\ f[n] \in Ids /\ f[m] \in Ids =>
            f[m] \in controllers[f[n]] \/ \E r \in Runs : Owes(r, n, m)

(* canister create is for one canister, which it makes with the controllers *)
(* that have an id; until it is in the store that mapping does not change.  *)
Creating(r) ==
    /\ runs[r].kind = "create"
    /\ \/ runs[r].pc \in {"register", "truncate"}
       \/ At(r, "create") /\ runs[r].left # {}

MadeWith(r, n, i) == i \in Ids => Resolve(n, runs[r].ids) \subseteq controllers[i]

Settled(r) ==
    LET x == runs[r] IN
    /\ x.kind = "create" /\ x.pc \in Looping => \E n \in Names : x.want = {n}
    /\ x.kind = "create" /\ x.pc \in Looping \ {"create"} => x.left = {}
    /\ (x.pc \in {"dependents", "settings"} \/ Creating(r)) => x.ids = store
    /\ \A n \in Names : x.seen[n] # None => n \in x.pend /\ x.seen[n] = controllers[x.ids[n]]
    /\ Creating(r) => \A n \in Names : MadeWith(r, n, call[r][n]) /\ MadeWith(r, n, block[r][n])
    /\ Creating(r) /\ x.pc # "create" => MadeWith(r, x.name, x.mem[x.name])

Wires ==
    /\ store # CutShort => Linked(store)
    /\ \A r \in Runs : At(r, "write") => Linked(runs[r].mem)
    /\ \A r \in Runs : Settled(r)

LEMMA InitWires == CreationInit => Wires
<1> SUFFICES ASSUME CreationInit PROVE Wires
  OBVIOUS
<1>1. \A n \in Names : store[n] = None /\ None \notin Ids
  BY NetworkAssumption DEF CreationInit, NoIds
<1>2. ASSUME NEW r \in Runs PROVE ~At(r, "write") /\ Settled(r)
  <2>1. runs[r] = Idle /\ \A n \in Names : NoIds[n] = None
    BY <1>2 DEF CreationInit, NoIds
  <2> QED BY <2>1 DEF Settled, Creating, At, Idle, Looping
<1>3. Linked(store)
  BY <1>1 DEF Linked
<1> QED BY <1>2, <1>3 DEF Wires

LEMMA WiresStep ==
    ASSUME Solo, NEW r \in Runs, At(r, "write")' => Linked(runs[r].mem)', Settled(r)',
           store' # CutShort => Linked(store)'
    PROVE  Wires'
BY DEF Solo, OneRun, Wires

(* No canister that is there loses a controller, and none that is owed is   *)
(* forgotten.                                                               *)
LEMMA LinkedStays ==
    ASSUME IInv, Solo, NEW r \in Runs, NEW f \in Mappings, Linked(f),
           \A n \in Names : Held(n, f[n]),
           \A i \in Ids : made[i] # None => controllers[i] \subseteq controllers'[i],
           unwired \subseteq unwired',
           \A n, m \in Names : m \in Refs[n] /\ f[n] \in Ids /\ Owes(r, n, m) => n \in unwired' \/ Owes(r, n, m)'
    PROVE  Linked(f)'
<1> SUFFICES ASSUME NEW n \in Names, NEW m \in Names, n \notin unwired', m \in Refs[n],
                    f[n] \in Ids, f[m] \in Ids
             PROVE  f[m] \in controllers'[f[n]] \/ \E q \in Runs : Owes(q, n, m)'
  BY DEF Linked
<1>1. made[f[n]] # None
  BY DEF Held
<1>2. f[m] \in controllers[f[n]] \/ \E q \in Runs : Owes(q, n, m)
  BY DEF Linked
<1>3. CASE f[m] \in controllers[f[n]]
  BY <1>1, <1>3
<1>4. CASE \E q \in Runs : Owes(q, n, m)
  BY <1>4, SoloRuns
<1> QED BY <1>2, <1>3, <1>4

LEMMA WiresFacts ==
    ASSUME IInv, Solo, Wires, NEW r \in Runs
    PROVE  /\ Settled(r) /\ RunTyped(runs[r]) /\ runs[r].left \subseteq runs[r].want
           /\ store # CutShort => Linked(store) /\ store \in Mappings /\ \A n \in Names : Held(n, store[n])
           /\ At(r, "write") => Linked(runs[r].mem)
           /\ \A n \in Names : Held(n, runs[r].mem[n]) /\ Held(n, runs[r].ids[n]) /\ Held(n, call[r][n])
           /\ runs[r].mem \in Mappings /\ runs[r].ids \in Mappings
           /\ runs[r].pend = {} => \A n \in Names : runs[r].seen[n] = None
BY SoloRuns, RunFields DEF Wires, IInv, StoreHeld, InStep, Settled

(* A step after which the store is as before, or is as a run saves it.      *)
LEMMA StoreLinked ==
    ASSUME IInv, Solo, Wires, NEW r \in Runs, UNCHANGED store, store # CutShort, ~At(r, "write")',
           \A i \in Ids : made[i] # None => controllers[i] \subseteq controllers'[i],
           unwired \subseteq unwired',
           \A n, m \in Names :
               m \in Refs[n] /\ store[n] \in Ids /\ Owes(r, n, m) => n \in unwired' \/ Owes(r, n, m)',
           Settled(r)'
    PROVE  Wires'
<1>1. Linked(store)'
  <2>1. PICK f \in Mappings : f = store
    BY WiresFacts
  <2>2. Linked(f) /\ \A n \in Names : Held(n, f[n])
    BY <2>1, WiresFacts
  <2>3. \A n, m \in Names : m \in Refs[n] /\ f[n] \in Ids /\ Owes(r, n, m) => n \in unwired' \/ Owes(r, n, m)'
    BY <2>1
  <2>4. Linked(f)'
    BY <2>2, <2>3, LinkedStays
  <2> QED BY <2>1, <2>4 DEF Linked
<1> QED BY <1>1, WiresStep

LEMMA BeginWires == ASSUME IInv, Solo, Wires, NEW r \in Runs, Begins(r) PROVE Wires'
<1>1. PICK kind \in {"deploy", "create"}, S \in SUBSET Names, target \in Placements, withIcp \in BOOLEAN :
          /\ Begin(r, kind, S, target, withIcp)
          /\ kind = "create" => Missing(S) # {} /\ \E n \in Names : S = {n}
  BY DEF Begins
<1> DEFINE left == Missing(S)
           pc == IF Missing(S) = {} THEN "load_settings" ELSE "create"
           o == [target |-> target, icp |-> withIcp, first |-> FirstOf(store), subnet |-> None]
           calls == [n \in Names |-> IF n \in left THEN FirstStep(o) ELSE "none"]
<1>2. /\ At(r, "idle") /\ store # CutShort /\ UNCHANGED <<made, store, controllers, unwired>>
      /\ call' = [call EXCEPT ![r] = calls]
      /\ block' = [block EXCEPT ![r] = NoIds]
      /\ runs' = [runs EXCEPT ![r].kind = kind, ![r].want = S, ![r].ids = store, ![r].left = left, ![r].pc = pc]
  BY <1>1 DEF Begin, StartCalls, NoIds
<1>3. pc \in {"load_settings", "create"}
  OBVIOUS
<1>4. \A n \in Names : calls[n] \notin Ids /\ NoIds[n] \notin Ids
  BY NetworkAssumption DEF FirstStep, NoIds, Waiting, Creators
<1> HIDE DEF left, pc, calls, o
<1>5. /\ runs'[r].kind = kind /\ runs'[r].want = S /\ runs'[r].ids = store /\ runs'[r].pc = pc
      /\ runs'[r].seen = runs[r].seen
  BY <1>2, SoloRuns DEF Fields
<1>6. call'[r] = calls /\ block'[r] = NoIds
  BY <1>2 DEF IInv, Typed
<1>7. \A n \in Names : runs[r].seen[n] = None
  BY <1>2, WiresFacts, RunFields DEF At, RunTyped
<1>8. Settled(r)'
  BY <1>1, <1>2, <1>3, <1>4, <1>5, <1>6, <1>7 DEF Settled, Creating, MadeWith, At, Looping
<1>9. \A n, m \in Names : ~ Owes(r, n, m)
  BY <1>2, WiresFacts DEF Owes, At, RunTyped, Looping
<1>10. ~At(r, "write")'
  BY <1>3, <1>5 DEF At
<1> QED BY <1>2, <1>8, <1>9, <1>10, StoreLinked

LEMMA EndWires == ASSUME IInv, Solo, Wires, NEW r \in Runs, NEW bad, NEW how, EndsWith(r, bad, how) PROVE Wires'
<1>1. /\ controllers' = [i \in Ids |-> IF i \in Kept(r) THEN controllers[i] ELSE {}]
      /\ store' = store /\ unwired' = unwired \cup bad
      /\ runs' = [runs EXCEPT ![r] = [Idle EXCEPT !.kind = how]]
  BY DEF EndsWith, End
<1>2. store # CutShort
  BY SoloRuns DEF EndsWith, InStore, At
<1>3. runs'[r] = [Idle EXCEPT !.kind = how]
  BY <1>1, SoloRuns
<1>4. runs'[r].pc = "idle" /\ runs'[r].seen = NoIds /\ \A n \in Names : NoIds[n] = None
  BY <1>3 DEF Idle, NoIds
<1>5. Settled(r)'
  BY <1>4 DEF Settled, Creating, At, Looping
<1>6. Linked(store)'
  <2> SUFFICES ASSUME NEW n \in Names, NEW m \in Names, n \notin unwired \cup bad, m \in Refs[n],
                      store[n] \in Ids, store[m] \in Ids
               PROVE  store[m] \in controllers'[store[n]]
    BY <1>1 DEF Linked
  <2>1. controllers'[store[n]] = controllers[store[n]]
    BY <1>1, <1>2, SurvivorsAre
  <2>2. store[m] \in controllers[store[n]] \/ \E q \in Runs : Owes(q, n, m)
    BY <1>2, WiresFacts DEF Linked
  <2>3. ~ Owes(r, n, m)
    BY SoloRuns DEF EndsWith, Owes, At, Looping, InStep, Settling
  <2> QED BY <2>1, <2>2, <2>3, SoloRuns
<1>7. ~At(r, "write")'
  BY <1>4 DEF At
<1> QED BY <1>1, <1>5, <1>6, <1>7, WiresStep

LEMMA TakeWires == ASSUME IInv, Solo, Wires, NEW r \in Runs, TakeCreated(r) \/ TakeError(r) PROVE Wires'
<1> DEFINE n == NextResult(r)
           left == runs[r].left \ {n}
<1>1. /\ At(r, "create") /\ UNCHANGED <<network, store, controllers, unwired>>
      /\ n \in runs[r].left /\ n \in Names /\ runs[r].left \subseteq runs[r].want
  BY SoloRuns, RunFields, FirstIsIn DEF TakeCreated, TakeError, NextResult, InStep, RunTyped
<1>2. left \subseteq runs[r].left
  OBVIOUS
<1>3. runs[r].kind = "create" => left = {} /\ Creating(r)
  BY <1>1, WiresFacts DEF Settled, At, Looping, Creating
<1>4. store # CutShort
  BY <1>1, SoloRuns DEF InStore, At
<1>5. runs[r].pend = {}
  BY <1>1, RunFields DEF RunTyped, At
<1>6. CASE TakeError(r)
  <2>1. runs' = [runs EXCEPT ![r].failed = TRUE, ![r].left = left]
    BY <1>6 DEF TakeError
  <2> HIDE DEF left, n
  <2>2. /\ runs'[r].left = left
        /\ \A x \in {"pc", "kind", "want", "name", "mem", "ids", "seen", "pend"} : runs'[r][x] = runs[r][x]
    BY <2>1, SoloRuns DEF Fields
  <2>3. Settled(r)'
    BY <1>1, <1>2, <1>3, <1>5, <2>2, WiresFacts DEF Settled, Creating, MadeWith, network, Resolve, Known, At
  <2>4. \A k, m \in Names : Owes(r, k, m) => Owes(r, k, m)'
    BY <2>2 DEF Owes
  <2>5. ~At(r, "write")'
    BY <1>1, <2>2 DEF At
  <2> QED BY <1>1, <1>4, <2>3, <2>4, <2>5, StoreLinked
<1>7. CASE TakeCreated(r)
  <2> DEFINE mem == [NoIds EXCEPT ![n] = call[r][n]]
  <2>1. /\ call[r][n] \in Ids
        /\ runs' = [runs EXCEPT ![r].pc = "register", ![r].name = n, ![r].left = left, ![r].mem = mem]
    BY <1>7 DEF TakeCreated
  <2>2. mem[n] = call[r][n]
    BY <1>1 DEF NoIds
  <2> HIDE DEF left, n, mem
  <2>3. /\ runs'[r].left = left /\ runs'[r].pc = "register" /\ runs'[r].name = n /\ runs'[r].mem = mem
        /\ \A x \in {"kind", "want", "ids", "seen", "pend"} : runs'[r][x] = runs[r][x]
    BY <2>1, SoloRuns DEF Fields
  <2>4. UNCHANGED <<call, block>>
    BY <1>1 DEF network
  <2>5. \A k, i : MadeWith(r, k, i) => MadeWith(r, k, i)'
    BY <1>1, <2>3 DEF MadeWith, Resolve, Known
  <2>6. Creating(r)' => Creating(r)
    BY <1>3, <2>3 DEF Creating
  <2>7. Creating(r)' => MadeWith(r, runs[r].name, runs[r].mem[runs[r].name])'
    <3>1. PICK k, i : k = n /\ k \in Names /\ i = mem[n]
      BY <1>1
    <3>2. Creating(r)' => MadeWith(r, k, i)'
      BY <2>2, <2>5, <2>6, <3>1, WiresFacts DEF Settled
    <3> QED BY <2>3, <3>1, <3>2
  <2>8. Settled(r)'
    BY <1>1, <1>3, <2>3, <2>4, <2>5, <2>6, <2>7, WiresFacts DEF Settled, At, Looping
  <2>9. \A k, m \in Names : Owes(r, k, m) => Owes(r, k, m)'
    BY <1>1, <2>3 DEF Owes, At, Looping
  <2>10. ~At(r, "write")'
    BY <2>3 DEF At
  <2> QED BY <1>1, <1>4, <2>8, <2>9, <2>10, StoreLinked
<1> QED BY <1>6, <1>7

LEMMA GoOnWires == ASSUME IInv, Solo, Wires, NEW r \in Runs, GoesOn(r) PROVE Wires'
<1>1. /\ UNCHANGED <<network, store, controllers, unwired>>
      /\ \/ At(r, "dependents") /\ runs[r].pend = {} /\ runs' = [runs EXCEPT ![r].pc = "create"]
         \/ /\ At(r, "create") /\ runs[r].left = {} /\ runs[r].kind # "create"
            /\ runs' = [runs EXCEPT ![r].pc = "load_settings"]
  BY DEF GoesOn
<1>2. /\ \/ At(r, "dependents") /\ runs[r].pend = {} /\ runs'[r].pc = "create"
         \/ At(r, "create") /\ runs[r].left = {} /\ runs[r].kind = "deploy" /\ runs'[r].pc = "load_settings"
      /\ \A x \in {"left", "kind", "want", "name", "mem", "ids", "seen", "pend"} : runs'[r][x] = runs[r][x]
  BY <1>1, SoloRuns DEF Fields, InStep, At
<1>3. store # CutShort
  BY <1>2, SoloRuns DEF InStore, At
<1>4. ~ Creating(r)'
  BY <1>2, WiresFacts DEF Settled, Creating, At, Looping
<1>5. \A n \in Names : runs[r].seen[n] = None
  BY <1>2, WiresFacts DEF At, RunTyped
<1>6. Settled(r)'
  BY <1>2, <1>4, <1>5, WiresFacts DEF Settled, At, Looping
<1>7. \A n, m \in Names : Owes(r, n, m) => Owes(r, n, m)'
  BY <1>2 DEF Owes, At, Looping
<1>8. ~At(r, "write")'
  BY <1>2 DEF At
<1> QED BY <1>1, <1>3, <1>6, <1>7, <1>8, StoreLinked

LEMMA RegisterWires == ASSUME IInv, Solo, Wires, NEW r \in Runs, Register(r) PROVE Wires'
<1> DEFINE n == runs[r].name
           mem == [store EXCEPT ![n] = runs[r].mem[n]]
<1>1. /\ At(r, "register") /\ UNCHANGED <<network, store, controllers, unwired>> /\ store # CutShort
      /\ runs' = [runs EXCEPT ![r].pc = "truncate", ![r].mem = mem]
  BY DEF Register
<1>2. n \in Names
  BY <1>1, SoloRuns, RunFields DEF InStep, Registering, RunTyped, At
<1>3. mem[n] = runs[r].mem[n]
  BY <1>1, <1>2, SoloRuns DEF Mappings
<1>4. PICK k, i : k = n /\ i = mem[n]
  OBVIOUS
<1> HIDE DEF n, mem
<1>5. /\ runs'[r].pc = "truncate" /\ runs'[r].mem = mem
      /\ \A x \in {"kind", "want", "left", "name", "ids", "pend", "seen"} : runs'[r][x] = runs[r][x]
  BY <1>1, SoloRuns DEF Fields
<1>6. \A m, j : MadeWith(r, m, j) => MadeWith(r, m, j)'
  BY <1>1, <1>5 DEF MadeWith, Resolve, Known
<1>7. Creating(r)' => Creating(r)
  BY <1>1, <1>5 DEF Creating, At
<1>8. Creating(r) => MadeWith(r, k, i)
  BY <1>1, <1>3, <1>4, WiresFacts DEF Settled, At, n
<1>9. Creating(r)' => MadeWith(r, runs[r].name, runs[r].mem[runs[r].name])'
  <2>1. runs'[r].name = k /\ runs'[r].mem[k] = i
    BY <1>4, <1>5 DEF n
  <2>2. Creating(r)' => MadeWith(r, k, i)'
    BY <1>6, <1>7, <1>8
  <2> QED BY <2>1, <2>2
<1>10. Settled(r)'
  <2>1. UNCHANGED <<call, block>>
    BY <1>1 DEF network
  <2>2. Creating(r)' => \A m \in Names : MadeWith(r, m, call[r][m])' /\ MadeWith(r, m, block[r][m])'
    BY <1>6, <1>7, <2>1, WiresFacts DEF Settled
  <2>3. runs[r].pc = "register" /\ UNCHANGED <<store, controllers>>
    BY <1>1 DEF At
  <2>4. Settled(r)
    BY WiresFacts
  <2>5. runs'[r].kind = "create" => runs'[r].left = {} /\ \E m \in Names : runs'[r].want = {m}
    BY <1>5, <2>3, <2>4 DEF Settled, Looping
  <2>6. \A m \in Names : runs'[r].seen[m] # None =>
                             m \in runs'[r].pend /\ runs'[r].seen[m] = controllers'[runs'[r].ids[m]]
    BY <1>5, <2>3, <2>4 DEF Settled
  <2>7. Creating(r)' => runs'[r].ids = store'
    BY <1>5, <1>7, <2>3, <2>4 DEF Settled
  <2> QED BY <1>5, <1>9, <2>2, <2>5, <2>6, <2>7 DEF Settled
<1>11. \A m, j \in Names : Owes(r, m, j) => Owes(r, m, j)'
  BY <1>1, <1>5 DEF Owes, At, Looping
<1>12. ~At(r, "write")'
  BY <1>5 DEF At
<1> QED BY <1>1, <1>10, <1>11, <1>12, StoreLinked

(* The new id joins the mapping: deploy will sync it, create made it with   *)
(* its controllers, and whoever has it for one is synced next.              *)
LEMMA TruncateWires == ASSUME IInv, Solo, Wires, NEW r \in Runs, Truncate(r) PROVE Wires'
<1>1. /\ At(r, "truncate") /\ store' = CutShort /\ runs' = [runs EXCEPT ![r].pc = "write"]
      /\ UNCHANGED <<network, controllers, unwired>>
  BY DEF Truncate
<1>2. /\ runs'[r].pc = "write"
      /\ \A x \in {"kind", "want", "left", "name", "mem", "ids", "pend", "seen"} : runs'[r][x] = runs[r][x]
  BY <1>1, SoloRuns DEF Fields
<1>3. /\ store # CutShort /\ store \in Mappings /\ runs[r].name \in runs[r].want /\ runs[r].name \in Names
      /\ runs[r].kind \in {"deploy", "create"} /\ \A k \in Names \ {runs[r].name} : runs[r].mem[k] = store[k]
  BY <1>1, SoloRuns, RunFields DEF InStore, InStep, At, RunTyped, Registering
<1>4. ~ Creating(r)'
  BY <1>2 DEF Creating, At
<1>5. \A n \in Names : runs[r].seen[n] = None
  BY <1>1, WiresFacts DEF At, RunTyped
<1>6. Settled(r)'
  BY <1>1, <1>2, <1>4, <1>5, WiresFacts DEF Settled, At, Looping
<1>7. ASSUME NEW n \in Names, NEW m \in Names, n \notin unwired, m \in Refs[n],
             runs[r].mem[n] \in Ids, runs[r].mem[m] \in Ids
      PROVE  runs[r].mem[m] \in controllers[runs[r].mem[n]] \/ Owes(r, n, m)'
  <2>1. CASE m = runs[r].name
    BY <1>2, <2>1 DEF Owes
  <2>2. CASE m # runs[r].name /\ n # runs[r].name
    <3>1. runs[r].mem[n] = store[n] /\ runs[r].mem[m] = store[m]
      BY <1>3, <2>2
    <3>2. store[m] \in controllers[store[n]] \/ \E q \in Runs : Owes(q, n, m)
      BY <1>3, <1>7, <3>1, WiresFacts DEF Linked
    <3>3. Owes(r, n, m) => Owes(r, n, m)'
      BY <1>1, <1>2 DEF Owes, At, Looping
    <3> QED BY <3>1, <3>2, <3>3, SoloRuns
  <2>3. CASE m # runs[r].name /\ n = runs[r].name /\ runs[r].kind = "deploy"
    BY <1>2, <1>3, <2>3 DEF Owes, Looping
  <2>4. CASE m # runs[r].name /\ n = runs[r].name /\ runs[r].kind = "create"
    <3>1. Creating(r) /\ runs[r].pc # "create"
      BY <1>1, <2>4 DEF Creating, At
    <3>2. runs[r].ids = store /\ MadeWith(r, n, runs[r].mem[n])
      BY <2>4, <3>1, WiresFacts DEF Settled
    <3>3. runs[r].mem[m] = store[m] /\ store[m] # None
      BY <1>3, <1>7, <2>4, NetworkAssumption
    <3>4. store[m] \in Resolve(n, store)
      BY <1>7, <3>3 DEF Resolve, Known
    <3> QED BY <1>7, <3>2, <3>3, <3>4 DEF MadeWith
  <2> QED BY <1>3, <2>1, <2>2, <2>3, <2>4
<1>8. Linked(runs[r].mem)'
  BY <1>1, <1>2, <1>7 DEF Linked
<1> QED BY <1>1, <1>6, <1>8, WiresStep

LEMMA WriteWires == ASSUME IInv, Solo, Wires, NEW r \in Runs, Write(r) PROVE Wires'
<1>1. /\ At(r, "write") /\ store' = runs[r].mem /\ UNCHANGED <<network, controllers, unwired>>
      /\ runs' = [runs EXCEPT ![r].pc = "load_dependents", ![r].mem = NoIds]
  BY DEF Write
<1>2. /\ runs'[r].pc = "load_dependents"
      /\ \A x \in {"kind", "want", "left", "name", "ids", "pend", "seen"} : runs'[r][x] = runs[r][x]
  BY <1>1, SoloRuns DEF Fields
<1>3. ~ Creating(r)'
  BY <1>2 DEF Creating, At
<1>4. \A n \in Names : runs[r].seen[n] = None
  BY <1>1, WiresFacts DEF At, RunTyped
<1>5. Settled(r)'
  BY <1>1, <1>2, <1>3, <1>4, WiresFacts DEF Settled, At, Looping
<1>6. PICK f \in Mappings : f = runs[r].mem
  BY RunFields
<1>7. Linked(f) /\ \A n \in Names : Held(n, f[n])
  BY <1>1, <1>6, WiresFacts
<1>8. \A n, m \in Names : Owes(r, n, m) => Owes(r, n, m)'
  BY <1>1, <1>2 DEF Owes, At, Looping
<1>9. Linked(f)'
  BY <1>1, <1>7, <1>8, LinkedStays
<1>10. Linked(store)'
  BY <1>1, <1>6, <1>9 DEF Linked
<1>11. ~At(r, "write")'
  BY <1>2 DEF At
<1> QED BY <1>5, <1>10, <1>11, WiresStep

LEMMA LoadWires == ASSUME IInv, Solo, Wires, NEW r \in Runs, Loads(r) PROVE Wires'
<1>1. PICK from, to, S :
          /\ \/ /\ from = "load_dependents" /\ to = "dependents"
                /\ S = {n \in Names : runs[r].name \in Refs[n] /\ store[n] # None}
             \/ from = "load_settings" /\ to = "settings" /\ S = runs[r].want
          /\ Load(r, from, to, S)
  BY DEF Loads
<1>2. /\ At(r, from) /\ store # CutShort /\ UNCHANGED <<network, store, controllers, unwired>>
      /\ runs' = [runs EXCEPT ![r].pc = to, ![r].ids = store, ![r].pend = S]
  BY <1>1 DEF Load
<1>3. /\ runs'[r].pc = to /\ runs'[r].ids = store /\ runs'[r].pend = S
      /\ \A x \in {"kind", "want", "left", "name", "mem", "seen"} : runs'[r][x] = runs[r][x]
  BY <1>2, SoloRuns DEF Fields
<1>4. ~ Creating(r)'
  BY <1>1, <1>3 DEF Creating, At
<1>5. \A n \in Names : runs[r].seen[n] = None
  BY <1>1, <1>2, WiresFacts DEF At, RunTyped
<1>6. Settled(r)'
  BY <1>1, <1>2, <1>3, <1>4, <1>5, WiresFacts DEF Settled, At, Looping
<1>7. ASSUME NEW n \in Names, NEW m \in Names, m \in Refs[n], store[n] \in Ids, Owes(r, n, m)
      PROVE  Owes(r, n, m)'
  <2>1. store[n] # None
    BY <1>7, NetworkAssumption
  <2> QED BY <1>1, <1>2, <1>3, <1>7, <2>1 DEF Owes, At, Looping
<1>8. ~At(r, "write")'
  BY <1>1, <1>3 DEF At
<1> QED BY <1>2, <1>6, <1>7, <1>8, StoreLinked

(* What a call learns as it goes on: the id of the canister it makes, or of *)
(* the one that the CMC has made for its block.                             *)
Learns(r, n, i) ==
    /\ \A k \in Names :
          /\ call'[r][k] = call[r][k] \/ call'[r][k] \notin Ids \/ (k = n /\ call'[r][k] = i)
          /\ block'[r][k] = block[r][k] \/ (k = n /\ block'[r][k] = i)
    /\ \/ i \in Ids /\ NewCanister(r, n, i) /\ call[r][n] \in OnSubnet \cup {"proxy"}
       \/ i = block[r][n] /\ UNCHANGED made

LEMMA CallLearns ==
    ASSUME IInv, NEW r \in Runs, CallMoves(r)
    PROVE  /\ UNCHANGED <<op, store, runs, unwired>> /\ Granted(r)
           /\ \E n \in Names : \E i : Learns(r, n, i)
<1>1. UNCHANGED <<store, runs, unwired>> /\ Granted(r)
  BY DEF CallMoves, Granted
<1>2. PICK n \in Names : CallStep(r, n)
  BY DEF CallMoves
<1>3. CASE UseSubnet(r, n) \/ ResolveEngineOperator(r, n) \/ Transfer(r, n)
  <2>1. UNCHANGED <<made, op, block>>
    BY <1>3 DEF UseSubnet, ResolveEngineOperator, Transfer
  <2>2. PICK step : step \in Waiting \cup {"failed"} /\ Goto(r, n, step)
    BY <1>3 DEF UseSubnet, ResolveEngineOperator, Transfer, Waiting, Creators
  <2>3. step \notin Ids
    BY <2>2, NetworkAssumption
  <2>4. \A k \in Names : call'[r][k] = call[r][k] \/ call'[r][k] = step
    BY <2>2 DEF Goto, IInv, Typed
  <2>5. PICK i : i = block[r][n]
    OBVIOUS
  <2>6. Learns(r, n, i)
    BY <2>1, <2>3, <2>4, <2>5 DEF Learns
  <2> QED BY <1>1, <2>1, <2>6
<1>4. CASE CallSucceeds(r, n)
  <2>1. PICK i \in Ids : NewCanister(r, n, i) /\ Goto(r, n, i)
    BY <1>4 DEF CallSucceeds
  <2>2. UNCHANGED <<op, block>> /\ call[r][n] \in OnSubnet \cup {"proxy"}
    BY <1>4 DEF CallSucceeds, OnSubnet, Creators
  <2>3. \A k \in Names : call'[r][k] = call[r][k] \/ (k = n /\ call'[r][k] = i)
    BY <2>1 DEF Goto, IInv, Typed
  <2>4. Learns(r, n, i)
    BY <2>1, <2>2, <2>3 DEF Learns
  <2> QED BY <1>1, <2>2, <2>4
<1>5. CASE NotifyCreates(r, n)
  <2>1. PICK i \in Ids :
            /\ IF block[r][n] = None THEN NewCanister(r, n, i) ELSE i = block[r][n] /\ UNCHANGED made
            /\ block' = [block EXCEPT ![r][n] = i]
            /\ Goto(r, n, i) \/ UNCHANGED call
    BY <1>5 DEF NotifyCreates
  <2>2. UNCHANGED op /\ call[r][n] \in OnSubnet \cup {"proxy"}
    BY <1>5 DEF NotifyCreates, OnSubnet
  <2>3. \A k \in Names : call'[r][k] = call[r][k] \/ (k = n /\ call'[r][k] = i)
    BY <2>1 DEF Goto, IInv, Typed
  <2>4. \A k \in Names : block'[r][k] = block[r][k] \/ (k = n /\ block'[r][k] = i)
    BY <2>1 DEF IInv, Typed
  <2>5. Learns(r, n, i)
    BY <2>1, <2>2, <2>3, <2>4 DEF Learns
  <2> QED BY <1>1, <2>2, <2>5
<1> QED BY <1>2, <1>3, <1>4, <1>5 DEF CallStep

(* Calls go on: what is there keeps its controllers.                        *)
LEMMA CallsWires ==
    ASSUME IInv, Solo, Wires, NEW r \in Runs, UNCHANGED <<store, runs, unwired>>,
           \A i \in Ids : made[i] # None => controllers'[i] = controllers[i],
           Creating(r) => \A n \in Names : MadeWith(r, n, call[r][n])' /\ MadeWith(r, n, block[r][n])'
    PROVE  Wires'
<1>1. Settled(r) /\ UNCHANGED runs[r]
  BY WiresFacts
<1>2. \A n \in Names, i \in Ids : Held(n, i) => controllers'[i] = controllers[i]
  BY DEF Held
<1>3. ASSUME NEW n \in Names, runs[r].seen[n] # None
      PROVE  n \in runs[r].pend /\ runs[r].seen[n] = controllers'[runs[r].ids[n]]
  <2>1. n \in runs[r].pend /\ runs[r].seen[n] = controllers[runs[r].ids[n]]
    BY <1>1, <1>3 DEF Settled
  <2>2. runs[r].ids[n] \in Ids /\ Held(n, runs[r].ids[n])
    BY <2>1, WiresFacts DEF RunTyped, Known, Mappings
  <2> QED BY <1>2, <2>1, <2>2
<1>4. ASSUME Creating(r), runs[r].pc # "create" PROVE MadeWith(r, runs[r].name, runs[r].mem[runs[r].name])'
  <2>1. PICK n, i : n = runs[r].name /\ i = runs[r].mem[n]
    OBVIOUS
  <2>2. n \in Names
    BY <1>4, <2>1, SoloRuns, RunFields DEF Creating, InStep, Registering, RunTyped, At
  <2>3. MadeWith(r, n, i) /\ Held(n, i)
    <3>1. MadeWith(r, runs[r].name, runs[r].mem[runs[r].name])
      BY <1>1, <1>4 DEF Settled
    <3>2. Held(n, runs[r].mem[n])
      BY <2>2, RunFields
    <3> QED BY <2>1, <3>1, <3>2
  <2>4. MadeWith(r, n, i)'
    BY <1>1, <1>2, <2>2, <2>3 DEF MadeWith, Resolve, Known
  <2> QED BY <1>1, <2>1, <2>4
<1>5. Creating(r)' <=> Creating(r)
  BY <1>1 DEF Creating, At
<1>6. Settled(r)'
  <2>1. PICK x : x = runs[r] /\ x = runs'[r]
    BY <1>1
  <2>2. /\ x.kind = "create" /\ x.pc \in Looping => \E n \in Names : x.want = {n}
        /\ x.kind = "create" /\ x.pc \in Looping \ {"create"} => x.left = {}
        /\ (x.pc \in {"dependents", "settings"} \/ Creating(r)) => x.ids = store
    BY <1>1, <2>1 DEF Settled
  <2> QED BY <1>3, <1>4, <1>5, <2>1, <2>2 DEF Settled
<1>7. \A i \in Ids : made[i] # None => controllers[i] \subseteq controllers'[i]
  OBVIOUS
<1>8. \A n, m \in Names : Owes(r, n, m) => Owes(r, n, m)'
  BY <1>1 DEF Owes
<1>9. CASE ~At(r, "write")
  <2>1. ~At(r, "write")' /\ store # CutShort
    BY <1>1, <1>9, SoloRuns DEF At, InStore
  <2> QED BY <1>6, <1>7, <1>8, <2>1, StoreLinked
<1>10. CASE At(r, "write")
  <2>1. PICK f \in Mappings : f = runs[r].mem
    BY RunFields
  <2>2. Linked(f) /\ \A n \in Names : Held(n, f[n])
    BY <1>10, <2>1, WiresFacts
  <2>3. Linked(f)'
    BY <1>7, <1>8, <2>2, LinkedStays
  <2>4. Linked(runs[r].mem)'
    BY <1>1, <2>1, <2>3 DEF Linked
  <2>5. store' = CutShort
    BY <1>10, SoloRuns DEF At, InStore
  <2> QED BY <1>6, <2>4, <2>5, WiresStep
<1> QED BY <1>9, <1>10

LEMMA CallMovesWires == ASSUME IInv, Solo, Wires, NEW r \in Runs, CallMoves(r) PROVE Wires'
<1>1. UNCHANGED <<op, store, runs, unwired>> /\ Granted(r)
  BY CallLearns
<1>2. PICK n, i : n \in Names /\ Learns(r, n, i)
  BY CallLearns
<1>3. ASSUME NEW j \in Ids, made[j] # None PROVE controllers'[j] = controllers[j]
  BY <1>1, <1>3 DEF Granted, IInv, Typed
<1>4. ASSUME NEW k \in Names, NEW j, Held(k, j), MadeWith(r, k, j) PROVE MadeWith(r, k, j)'
  BY <1>1, <1>3, <1>4 DEF Held, MadeWith, Resolve, Known
<1>5. ASSUME Creating(r) PROVE MadeWith(r, n, i)'
  <2>1. CASE i \in Ids /\ NewCanister(r, n, i)
    <3>1. made[i] = None /\ made'[i] # None /\ made'[i].name = n
      <4>1. made[i] = None
        BY <2>1 DEF NewCanister
      <4>2. call[r][n] \in OnSubnet \cup {"proxy"}
        BY <1>2, <2>1, <4>1, RunFields DEF Learns, Held
      <4>3. Held(n, i)'
        BY <1>1, <1>2, <2>1, <4>2, NewKeeps
      <4> QED BY <2>1, <4>1, <4>3 DEF Held
    <3>2. runs[r].kind = "create"
      BY <1>5 DEF Creating
    <3>3. controllers'[i] = Resolve(n, runs[r].ids)
      BY <1>1, <2>1, <3>1, <3>2 DEF Granted
    <3> QED BY <1>1, <3>3 DEF MadeWith, Resolve, Known
  <2>2. CASE i = block[r][n]
    BY <1>2, <1>4, <1>5, <2>2, RunFields, WiresFacts DEF Settled
  <2> QED BY <1>2, <2>1, <2>2 DEF Learns
<1>6. ASSUME Creating(r), NEW k \in Names PROVE MadeWith(r, k, call[r][k])' /\ MadeWith(r, k, block[r][k])'
  <2>1. MadeWith(r, k, call[r][k]) /\ MadeWith(r, k, block[r][k])
    BY <1>6, WiresFacts DEF Settled
  <2>2. PICK c, b : c = call'[r][k] /\ b = block'[r][k]
    OBVIOUS
  <2>3. c = call[r][k] \/ c \notin Ids \/ (k = n /\ c = i)
    BY <1>2, <2>2 DEF Learns
  <2>4. MadeWith(r, k, c)'
    <3>1. CASE c = call[r][k]
      BY <1>4, <2>1, <3>1, RunFields
    <3>2. CASE c \notin Ids
      BY <3>2 DEF MadeWith
    <3>3. CASE k = n /\ c = i
      BY <1>5, <1>6, <3>3
    <3> QED BY <2>3, <3>1, <3>2, <3>3
  <2>5. b = block[r][k] \/ (k = n /\ b = i)
    BY <1>2, <2>2 DEF Learns
  <2>6. MadeWith(r, k, b)'
    <3>1. CASE b = block[r][k]
      BY <1>4, <2>1, <3>1, RunFields
    <3>2. CASE k = n /\ b = i
      BY <1>5, <1>6, <3>2
    <3> QED BY <2>5, <3>1, <3>2
  <2> QED BY <2>2, <2>4, <2>6 DEF MadeWith
<1> QED BY <1>1, <1>3, <1>6, CallsWires

LEMMA OtherCallsWires ==
    ASSUME IInv, Solo, Wires, NEW r \in Runs, SharedSubnet(r) \/ CallBreaks(r) PROVE Wires'
<1>1. UNCHANGED <<store, controllers, runs, unwired, block>>
  BY DEF SharedSubnet, ResolveSubnet, CallBreaks, CallFailure, AnswerLost, CallFails, NotifyRefunded, NotifyRefused, NotifyUnread,
                 NotifyGivesUp, NotifyEnds
<1>2. \A n \in Names : call'[r][n] = call[r][n] \/ call'[r][n] = "failed"
  <2>1. CASE SharedSubnet(r)
    BY <2>1 DEF SharedSubnet, ResolveSubnet
  <2>2. CASE CallBreaks(r)
    <3>1. PICK n \in Names : Goto(r, n, "failed")
      BY <2>2 DEF CallBreaks, CallFailure, AnswerLost, CallFails, NotifyRefunded, NotifyRefused, NotifyUnread,
                 NotifyGivesUp, NotifyEnds
    <3> QED BY <3>1 DEF Goto, IInv, Typed
  <2> QED BY <2>1, <2>2
<1>3. \A n \in Names : MadeWith(r, n, call[r][n]) => MadeWith(r, n, call[r][n])'
  BY <1>1, <1>2, NetworkAssumption DEF MadeWith, Resolve, Known
<1>4. \A n \in Names : MadeWith(r, n, block[r][n]) => MadeWith(r, n, block[r][n])'
  BY <1>1 DEF MadeWith, Resolve, Known
<1>5. Creating(r) => \A n \in Names : MadeWith(r, n, call[r][n])' /\ MadeWith(r, n, block[r][n])'
  BY <1>3, <1>4, WiresFacts DEF Settled
<1> QED BY <1>1, <1>5, CallsWires

LEMMA SyncFacts ==
    ASSUME IInv, Solo, Wires, NEW r \in Runs, NEW n \in Names, MaySync(r, n)
    PROVE  /\ runs[r].pc \in {"dependents", "settings"} /\ n \in runs[r].pend
           /\ store # CutShort /\ runs[r].ids = store /\ store[n] \in Ids
           /\ \A m \in Names : Held(m, store[m])
<1>1. n \in runs[r].pend
  BY DEF MaySync
<1>2. runs[r].pc \in {"dependents", "settings"}
  BY <1>1, RunFields DEF RunTyped
<1>3. runs[r].ids = store
  BY <1>2, WiresFacts DEF Settled
<1>4. store # CutShort
  BY <1>2, SoloRuns DEF InStore
<1> QED BY <1>1, <1>2, <1>3, <1>4, WiresFacts DEF RunTyped, Known, Mappings

LEMMA SyncReadWires == ASSUME IInv, Solo, Wires, NEW r \in Runs, NEW n \in Names, SyncRead(r, n) PROVE Wires'
<1>1. MaySync(r, n) /\ UNCHANGED <<network, store, controllers, unwired>>
  BY DEF SyncRead
<1> DEFINE seen == [runs[r].seen EXCEPT ![n] = controllers[runs[r].ids[n]]]
<1>2. runs' = [runs EXCEPT ![r].seen = seen]
  BY DEF SyncRead
<1>3. seen[n] = controllers[runs[r].ids[n]] /\ \A m \in Names \ {n} : seen[m] = runs[r].seen[m]
  BY RunFields DEF RunTyped
<1> HIDE DEF seen
<1>4. /\ runs'[r].seen = seen
      /\ \A x \in {"pc", "kind", "want", "left", "name", "mem", "ids", "pend"} : runs'[r][x] = runs[r][x]
  BY <1>2, SoloRuns DEF Fields
<1>5. ~Creating(r)'
  BY <1>1, <1>4, SyncFacts DEF Creating, At
<1>6. \A m \in Names : runs'[r].seen[m] # None =>
                           m \in runs'[r].pend /\ runs'[r].seen[m] = controllers'[runs'[r].ids[m]]
  BY <1>1, <1>3, <1>4, SyncFacts, WiresFacts DEF Settled
<1>7. Settled(r)'
  BY <1>1, <1>4, <1>5, <1>6, WiresFacts, SyncFacts DEF Settled
<1>8. \A k, m \in Names : Owes(r, k, m) => Owes(r, k, m)'
  BY <1>4 DEF Owes
<1>9. ~At(r, "write")' /\ store # CutShort
  BY <1>1, <1>4, SyncFacts DEF At
<1> QED BY <1>1, <1>7, <1>8, <1>9, StoreLinked

(* What a sync leaves behind: the run no longer waits for it.               *)
LEMMA SyncedSettled ==
    ASSUME IInv, Solo, Wires, NEW r \in Runs, NEW n \in Names, MaySync(r, n), UNCHANGED store,
           NEW seen, \A m \in Names : seen[m] = IF m = n THEN None ELSE runs[r].seen[m],
           \A m \in Names \ {n} : store[m] \in Ids => controllers'[store[m]] = controllers[store[m]],
           runs'[r].seen = seen, runs'[r].pend = runs[r].pend \ {n},
           \A x \in {"pc", "kind", "want", "left", "name", "mem", "ids"} : runs'[r][x] = runs[r][x]
    PROVE  /\ Settled(r)' /\ ~At(r, "write")'
           /\ \A k, m \in Names : Owes(r, k, m) => k = n \/ Owes(r, k, m)'
<1>1. ~Creating(r)' /\ ~At(r, "write")'
  BY SyncFacts DEF Creating, At
<1>2. ASSUME NEW m \in Names, seen[m] # None
      PROVE  m \in runs[r].pend \ {n} /\ seen[m] = controllers'[runs[r].ids[m]]
  <2>1. m # n /\ m \in runs[r].pend /\ seen[m] = controllers[runs[r].ids[m]]
    BY <1>2, WiresFacts DEF Settled
  <2>2. runs[r].ids[m] \in Ids
    BY <2>1, WiresFacts DEF RunTyped, Known, Mappings
  <2> QED BY <2>1, <2>2, SyncFacts
<1>3. Settled(r)'
  BY <1>1, <1>2, WiresFacts, SyncFacts DEF Settled
<1>4. \A k, m \in Names : Owes(r, k, m) => k = n \/ Owes(r, k, m)'
  BY DEF Owes
<1> QED BY <1>1, <1>3, <1>4

LEMMA SyncFailsWires == ASSUME IInv, Solo, Wires, NEW r \in Runs, NEW n \in Names, SyncFails(r, n) PROVE Wires'
<1>1. MaySync(r, n) /\ UNCHANGED <<network, store, controllers>> /\ unwired' = unwired \cup {n}
  BY DEF SyncFails
<1> DEFINE seen == [runs[r].seen EXCEPT ![n] = None]
<1>2. runs' = [runs EXCEPT ![r].pend = runs[r].pend \ {n}, ![r].seen = seen,
                         ![r].failed = runs[r].failed \/ At(r, "settings")]
  BY DEF SyncFails
<1>3. \A m \in Names : seen[m] = IF m = n THEN None ELSE runs[r].seen[m]
  BY RunFields DEF RunTyped
<1> HIDE DEF seen
<1>4. /\ runs'[r].seen = seen /\ runs'[r].pend = runs[r].pend \ {n}
      /\ \A x \in {"pc", "kind", "want", "left", "name", "mem", "ids"} : runs'[r][x] = runs[r][x]
  BY <1>2, SoloRuns DEF Fields
<1>5. PICK s : s = seen
  OBVIOUS
<1>6. /\ Settled(r)' /\ ~At(r, "write")'
      /\ \A k, m \in Names : Owes(r, k, m) => k = n \/ Owes(r, k, m)'
  BY <1>1, <1>3, <1>4, <1>5, SyncedSettled
<1> QED BY <1>1, <1>6, SyncFacts, StoreLinked

(* The canister has what the manifest names of what was in the store.       *)
LEMMA SyncUpdateWires == ASSUME IInv, Solo, Wires, NEW r \in Runs, NEW n \in Names, SyncUpdate(r, n) PROVE Wires'
<1> DEFINE i == runs[r].ids[n]
           desired == runs[r].seen[n] \cup Resolve(n, runs[r].ids)
           seen == [runs[r].seen EXCEPT ![n] = None]
<1>1. /\ MaySync(r, n) /\ UNCHANGED <<network, store>> /\ runs[r].seen[n] # None
      /\ unwired' = unwired \ {n}
      /\ controllers' = IF desired = runs[r].seen[n] THEN controllers ELSE [controllers EXCEPT ![i] = desired]
      /\ runs' = [runs EXCEPT ![r].pend = runs[r].pend \ {n}, ![r].seen = seen]
  BY DEF SyncUpdate
<1>2. \A m \in Names : seen[m] = IF m = n THEN None ELSE runs[r].seen[m]
  BY RunFields DEF RunTyped
<1>3. i = store[n] /\ i \in Ids /\ desired = controllers[i] \cup Resolve(n, store)
  BY <1>1, SyncFacts, WiresFacts DEF Settled
<1>4. controllers'[i] = desired /\ \A j \in Ids \ {i} : controllers'[j] = controllers[j]
  BY <1>1, <1>3, WiresFacts DEF Settled, IInv, Typed
<1>5. \A m \in Names \ {n} : store[m] \in Ids => store[m] # i
  BY <1>1, <1>3, SyncFacts DEF Held
<1> HIDE DEF seen, desired, i
<1>6. /\ runs'[r].seen = seen /\ runs'[r].pend = runs[r].pend \ {n}
      /\ \A x \in {"pc", "kind", "want", "left", "name", "mem", "ids"} : runs'[r][x] = runs[r][x]
  BY <1>1, SoloRuns DEF Fields
<1>7. PICK s : s = seen
  OBVIOUS
<1>8. /\ Settled(r)' /\ ~At(r, "write")'
      /\ \A k, m \in Names : Owes(r, k, m) => k = n \/ Owes(r, k, m)'
  <2>1. \A m \in Names \ {n} : store[m] \in Ids => controllers'[store[m]] = controllers[store[m]]
    BY <1>4, <1>5
  <2>2. \A m \in Names : s[m] = IF m = n THEN None ELSE runs[r].seen[m]
    BY <1>2, <1>7
  <2>3. MaySync(r, n) /\ UNCHANGED store
    BY <1>1
  <2>4. runs'[r].seen = s
    BY <1>6, <1>7
  <2> QED BY <1>6, <2>1, <2>2, <2>3, <2>4, SyncedSettled
<1>9. Linked(store)'
  <2> SUFFICES ASSUME NEW k \in Names, NEW m \in Names, k \notin unwired \ {n}, m \in Refs[k],
                      store[k] \in Ids, store[m] \in Ids
               PROVE  store[m] \in controllers'[store[k]] \/ Owes(r, k, m)'
    BY <1>1 DEF Linked
  <2>1. CASE k = n
    <3>1. store[m] \in Resolve(n, store)
      BY <2>1, NetworkAssumption DEF Resolve, Known
    <3> QED BY <1>3, <1>4, <2>1, <3>1
  <2>2. CASE k # n
    <3>1. store[m] \in controllers[store[k]] \/ \E q \in Runs : Owes(q, k, m)
      BY <1>1, <2>2, SyncFacts, WiresFacts DEF Linked
    <3>2. controllers'[store[k]] = controllers[store[k]]
      BY <1>4, <1>5, <2>2
    <3> QED BY <1>8, <2>2, <3>1, <3>2, SoloRuns
  <2> QED BY <2>1, <2>2
<1> QED BY <1>1, <1>8, <1>9, WiresStep

LEMMA WiresMoves == ASSUME IInv, Solo, Wires, NEW r \in Runs, Moves(r) PROVE Wires'
<1>1. CASE Begins(r) \/ GoesOn(r)
  BY <1>1, BeginWires, GoOnWires
<1>2. CASE \E bad, how : EndsWith(r, bad, how)
  BY <1>2, EndWires
<1>3. CASE SharedSubnet(r) \/ CallMoves(r) \/ CallBreaks(r)
  BY <1>3, OtherCallsWires, CallMovesWires
<1>4. CASE TakeCreated(r) \/ TakeError(r)
  BY <1>4, TakeWires
<1>5. CASE Register(r) \/ Truncate(r) \/ Write(r)
  BY <1>5, RegisterWires, TruncateWires, WriteWires
<1>6. CASE Loads(r)
  BY <1>6, LoadWires
<1>7. CASE \E n \in Names : SyncRead(r, n) \/ SyncUpdate(r, n) \/ SyncFails(r, n)
  BY <1>7, SyncReadWires, SyncUpdateWires, SyncFailsWires
<1> QED BY <1>1, <1>2, <1>3, <1>4, <1>5, <1>6, <1>7 DEF Moves

LEMMA WiresAlways == ASSUME OneRun, "tear" \notin Mishaps PROVE CreationSpec => []Wires
<1>1. ASSUME IInv, Solo, Wires, [CreationNext]_creationVars PROVE Wires'
  <2>1. CASE CreationNext
    BY <1>1, <2>1, MovesAlone, WiresMoves
  <2>2. CASE UNCHANGED creationVars
    <3>1. UNCHANGED <<store, controllers, runs, unwired, call, block>>
      BY <2>2 DEF creationVars, network
    <3>2. ASSUME NEW r \in Runs PROVE Settled(r)'
      <4>1. Settled(r)
        BY <1>1 DEF Wires
      <4> QED BY <3>1, <4>1 DEF Settled, Creating, MadeWith, Resolve, Known, At
    <3>3. /\ store # CutShort => Linked(store)'
          /\ \A r \in Runs : At(r, "write") => Linked(runs[r].mem)'
      BY <1>1, <3>1 DEF Wires, Linked, Owes, At
    <3> QED BY <3>1, <3>2, <3>3 DEF Wires, At
  <2> QED BY <1>1, <2>1, <2>2
<1>2. IInv /\ Solo /\ Wires /\ [CreationNext]_creationVars => Wires'
  BY <1>1
<1> QED BY <1>2, InitWires, SoloAlways, Always, PTL DEF CreationSpec

LEMMA WiresAreWired == ASSUME IInv, Wires PROVE Wired
<1> SUFFICES ASSUME \A r \in Runs : At(r, "idle"), store # CutShort,
                    NEW n \in Names, store[n] # None, n \notin unwired,
                    NEW m \in Names, m \in Refs[n], store[m] # None
             PROVE  store[m] \in controllers[store[n]]
  BY DEF Wired, Known, Resolve
<1>1. store[n] \in Ids /\ store[m] \in Ids
  BY DEF IInv, Typed, Mappings
<1>2. ASSUME NEW r \in Runs PROVE ~ Owes(r, n, m)
  <2>1. runs[r].pc = "idle"
    BY DEF At
  <2> QED BY <2>1 DEF Owes, Looping
<1> QED BY <1>1, <1>2 DEF Wires, Linked

-----------------------------------------------------------------------------
(* The subnets.  Where the user placed no canister, all are on one; what a  *)
(* run creates joins them, unless the user places it: it uses the subnet of *)
(* the first of them, or with none one for all that it creates.             *)
File(r) == IF store = CutShort THEN runs[r].mem ELSE store

Unplaced(f) == \A n \in Names : f[n] \in Ids => ~made[f[n]].placed
AllOn(f, s) == \A n \in Names : f[n] \in Ids => made[f[n]].subnet = s
Together(f) == Unplaced(f) => \E s : AllOn(f, s)

Joins(r, i) ==
    i \in Ids =>
        \/ made[i].placed
        \/ op[r].target \notin Subnets /\ op[r].subnet \in Subnets /\ made[i].subnet = op[r].subnet

Chosen(r, f) ==
    Unplaced(f) /\ op[r].target \notin Subnets =>
        /\ op[r].subnet \in Subnets => AllOn(f, op[r].subnet)
        /\ op[r].subnet = None /\ op[r].first = None => \A n \in Names : f[n] \notin Ids
        /\ op[r].subnet = None /\ op[r].first # None => AllOn(f, made[op[r].first].subnet)

Gathered(r) ==
    runs[r].pc \in Looping =>
        /\ \A n \in Names : Joins(r, call[r][n]) /\ Joins(r, block[r][n])
        /\ runs[r].pc \in {"register", "truncate"} => Joins(r, runs[r].mem[runs[r].name])
        /\ Chosen(r, File(r))

Near ==
    /\ store # CutShort => Together(store)
    /\ \A r \in Runs : Together(File(r)) /\ Gathered(r)

LEMMA InitNear == CreationInit => Near
<1> SUFFICES ASSUME CreationInit PROVE Near
  OBVIOUS
<1>1. store # CutShort /\ \A n \in Names : store[n] = None /\ None \notin Ids
  <2>1. NoIds \in Mappings
    BY DEF NoIds, Mappings
  <2> QED BY <2>1, NetworkAssumption, ManifestAssumption DEF CreationInit, NoIds, Mappings
<1>2. Together(store)
  BY <1>1 DEF Together, AllOn
<1>3. ASSUME NEW r \in Runs PROVE Together(File(r)) /\ Gathered(r)
  <2>1. runs[r] = Idle
    BY <1>3 DEF CreationInit
  <2> QED BY <1>1, <1>2, <2>1 DEF File, Gathered, Idle, Looping
<1> QED BY <1>2, <1>3 DEF Near

LEMMA NearStep ==
    ASSUME Solo, NEW r \in Runs, Together(File(r))', Gathered(r)' PROVE Near'
BY DEF Solo, OneRun, Near, File

LEMMA FileFacts ==
    ASSUME IInv, Solo, Near, NEW r \in Runs
    PROVE  /\ File(r) \in Mappings /\ \A n \in Names : Held(n, File(r)[n])
           /\ Together(File(r)) /\ Gathered(r)
BY SoloRuns, RunFields DEF Near, File, IInv, StoreHeld

(* What is there stays where it is.                                         *)
LEMMA PlacesStay ==
    ASSUME NEW f \in Mappings, \A n \in Names : f[n] \in Ids => made'[f[n]] = made[f[n]]
    PROVE  /\ Unplaced(f)' <=> Unplaced(f)
           /\ \A s : AllOn(f, s)' <=> AllOn(f, s)
           /\ Together(f) => Together(f)'
<1>1. Unplaced(f)' <=> Unplaced(f)
  BY DEF Unplaced
<1>2. \A s : AllOn(f, s)' <=> AllOn(f, s)
  BY DEF AllOn
<1> QED BY <1>1, <1>2 DEF Together

LEMMA PrimedFile ==
    ASSUME NEW r \in Runs, NEW f, f = File(r)'
    PROVE  /\ Together(f)' => Together(File(r))'
           /\ Chosen(r, f)' => Chosen(r, File(r))'
<1>1. Together(f)' => Together(File(r))'
  BY DEF Together, Unplaced, AllOn
<1>2. Chosen(r, f)' => Chosen(r, File(r))'
  BY DEF Chosen, Unplaced, AllOn
<1> QED BY <1>1, <1>2

(* Nothing is created, and what is saved stays as it is.                    *)
LEMMA QuietNear ==
    ASSUME IInv, Solo, Near, NEW r \in Runs, UNCHANGED <<made, op, call, block>>, File(r)' = File(r),
           runs'[r].pc \in Looping => runs[r].pc \in Looping,
           runs'[r].pc \in {"register", "truncate"} => Joins(r, runs[r].mem[runs[r].name])'
    PROVE  Near'
<1>1. PICK f : f \in Mappings /\ f = File(r)
  BY FileFacts
<1>2. Together(f)'
  BY <1>1, FileFacts, PlacesStay
<1>3. ASSUME runs'[r].pc \in Looping PROVE Chosen(r, f)'
  <2>1. Chosen(r, f)
    BY <1>1, <1>3, FileFacts DEF Gathered
  <2> QED BY <2>1 DEF Chosen, Unplaced, AllOn
<1>4. ASSUME runs'[r].pc \in Looping, NEW n \in Names PROVE Joins(r, call[r][n])' /\ Joins(r, block[r][n])'
  <2>1. Joins(r, call[r][n]) /\ Joins(r, block[r][n])
    BY <1>4, FileFacts DEF Gathered
  <2> QED BY <2>1 DEF Joins
<1>5. Together(File(r))' /\ (Chosen(r, f)' => Chosen(r, File(r))')
  BY <1>1, <1>2, PrimedFile
<1>6. Gathered(r)'
  BY <1>3, <1>4, <1>5 DEF Gathered
<1> QED BY <1>5, <1>6, NearStep

LEMMA QuietMovesNear ==
    ASSUME IInv, Solo, Near, NEW r \in Runs,
           \/ TakeCreated(r) \/ TakeError(r) \/ GoesOn(r) \/ Register(r) \/ Write(r) \/ Loads(r)
           \/ \E n \in Names : SyncRead(r, n) \/ SyncUpdate(r, n) \/ SyncFails(r, n)
    PROVE  Near'
<1>1. UNCHANGED <<made, op, call, block>>
  BY DEF TakeCreated, TakeError, GoesOn, Register, Write, Loads, Load, SyncRead, SyncUpdate, SyncFails, network
<1>2. CASE TakeCreated(r)
  <2> DEFINE n == NextResult(r)
             mem == [NoIds EXCEPT ![n] = call[r][n]]
  <2>1. At(r, "create") /\ UNCHANGED store /\ n \in Names
    BY <1>2, SoloRuns, RunFields, FirstIsIn DEF TakeCreated, NextResult, InStep, RunTyped
  <2>2. \E left : runs' = [runs EXCEPT ![r].pc = "register", ![r].name = n, ![r].left = left, ![r].mem = mem]
    BY <1>2 DEF TakeCreated
  <2>3. mem[n] = call[r][n]
    BY <2>1 DEF NoIds
  <2> HIDE DEF n, mem
  <2>4. runs'[r].pc = "register" /\ runs'[r].name = n /\ runs'[r].mem = mem
    BY <2>2, SoloRuns DEF Fields
  <2>5. File(r)' = File(r) /\ runs[r].pc \in Looping
    BY <2>1, SoloRuns DEF File, InStore, At, Looping
  <2>6. PICK i : i = call[r][n]
    OBVIOUS
  <2>7. Joins(r, i)'
    <3>1. Joins(r, i)
      BY <2>1, <2>5, <2>6, FileFacts DEF Gathered
    <3> QED BY <1>1, <3>1 DEF Joins
  <2>8. Joins(r, runs[r].mem[runs[r].name])'
    BY <2>3, <2>4, <2>6, <2>7
  <2> QED BY <1>1, <2>5, <2>8, QuietNear
<1>3. CASE TakeError(r) \/ GoesOn(r) \/ Loads(r)
  <2>1. UNCHANGED store /\ store # CutShort
    BY <1>3, SoloRuns DEF TakeError, GoesOn, Loads, Load, InStore, At
  <2>2. runs[r].pc \in Looping \cup {"load_settings"}
    BY <1>3 DEF TakeError, GoesOn, Loads, Load, At, Looping
  <2>3. /\ runs'[r].pc \in Looping => runs[r].pc \in Looping
        /\ runs'[r].pc \notin {"register", "truncate"}
    <3>1. CASE TakeError(r)
      <4>1. \E left : runs' = [runs EXCEPT ![r].failed = TRUE, ![r].left = left]
        BY <3>1 DEF TakeError
      <4>2. runs'[r].pc = runs[r].pc /\ runs[r].pc = "create"
        BY <3>1, <4>1, SoloRuns DEF Fields, TakeError, At
      <4> QED BY <4>2
    <3>2. CASE GoesOn(r)
      <4>1. /\ runs[r].pc \in Looping
            /\ runs' = [runs EXCEPT ![r].pc = "create"] \/ runs' = [runs EXCEPT ![r].pc = "load_settings"]
        BY <3>2 DEF GoesOn, At, Looping
      <4> QED BY <4>1, SoloRuns DEF Fields, Looping
    <3>3. CASE Loads(r)
      <4>1. PICK from, to, S :
                /\ \/ from = "load_dependents" /\ to = "dependents"
                   \/ from = "load_settings" /\ to = "settings"
                /\ Load(r, from, to, S)
        BY <3>3 DEF Loads
      <4>2. runs[r].pc = from /\ runs' = [runs EXCEPT ![r].pc = to, ![r].ids = store, ![r].pend = S]
        BY <4>1 DEF Load, At
      <4>3. runs'[r].pc = to
        BY <4>2, SoloRuns DEF Fields
      <4> QED BY <4>1, <4>2, <4>3 DEF Looping
    <3> QED BY <1>3, <3>1, <3>2, <3>3
  <2>4. File(r)' = File(r)
    BY <2>1 DEF File
  <2> QED BY <1>1, <2>3, <2>4, QuietNear
<1>4. CASE Register(r)
  <2>1. At(r, "register") /\ UNCHANGED store /\ store # CutShort
        /\ runs' = [runs EXCEPT ![r].pc = "truncate",
                              ![r].mem = [store EXCEPT ![runs[r].name] = runs[r].mem[runs[r].name]]]
    BY <1>4 DEF Register
  <2>2. runs[r].name \in Names /\ store \in Mappings
    BY <2>1, SoloRuns, RunFields DEF InStep, Registering, RunTyped, At
  <2>3. runs'[r].name = runs[r].name /\ runs'[r].mem[runs[r].name] = runs[r].mem[runs[r].name]
    BY <2>1, <2>2, SoloRuns DEF Fields, Mappings
  <2>4. PICK i : i = runs[r].mem[runs[r].name]
    OBVIOUS
  <2>5. Joins(r, i)
    BY <2>1, <2>4, FileFacts DEF Gathered, At, Looping
  <2>6. Joins(r, i)'
    BY <1>1, <2>5 DEF Joins
  <2>7. Joins(r, runs[r].mem[runs[r].name])'
    BY <2>3, <2>4, <2>6
  <2>8. File(r)' = File(r) /\ runs[r].pc \in Looping
    BY <2>1 DEF File, At, Looping
  <2> QED BY <1>1, <2>7, <2>8, QuietNear
<1>5. CASE Write(r)
  <2>1. At(r, "write") /\ store' = runs[r].mem /\ runs' = [runs EXCEPT ![r].pc = "load_dependents", ![r].mem = NoIds]
    BY <1>5 DEF Write
  <2>2. store = CutShort /\ store' # CutShort
    BY <2>1, SoloRuns, RunFields DEF InStore, At
  <2>3. runs'[r].pc = "load_dependents" /\ runs[r].pc \in Looping
    BY <2>1, SoloRuns DEF Fields, At, Looping
  <2>4. File(r)' = File(r)
    BY <2>1, <2>2 DEF File
  <2> QED BY <1>1, <2>3, <2>4, QuietNear
<1>6. CASE \E n \in Names : SyncRead(r, n) \/ SyncUpdate(r, n) \/ SyncFails(r, n)
  <2>1. PICK n \in Names : SyncRead(r, n) \/ SyncUpdate(r, n) \/ SyncFails(r, n)
    BY <1>6
  <2>2. MaySync(r, n) /\ UNCHANGED store
    BY <2>1, SyncPlace
  <2>4. runs'[r].pc = runs[r].pc
    BY <2>1, SyncPlace
  <2>5. runs[r].pc \in {"dependents", "settings"}
    BY <2>2, RunFields DEF MaySync, RunTyped
  <2>6. store # CutShort
    BY <2>5, SoloRuns DEF InStore
  <2>7. File(r)' = File(r)
    BY <2>2, <2>6 DEF File
  <2> QED BY <1>1, <2>4, <2>5, <2>7, QuietNear
<1> QED BY <1>2, <1>3, <1>4, <1>5, <1>6

LEMMA BeginNear == ASSUME IInv, Solo, Near, NEW r \in Runs, Begins(r) PROVE Near'
<1>1. PICK kind, S, target, withIcp : Begin(r, kind, S, target, withIcp)
  BY DEF Begins
<1> DEFINE o == [target |-> target, icp |-> withIcp, first |-> FirstOf(store), subnet |-> None]
           calls == [n \in Names |-> IF n \in Missing(S) THEN FirstStep(o) ELSE "none"]
           pc == IF Missing(S) = {} THEN "load_settings" ELSE "create"
           left == Missing(S)
<1>2. /\ store # CutShort /\ UNCHANGED <<made, store>>
      /\ op' = [op EXCEPT ![r] = o]
      /\ call' = [call EXCEPT ![r] = calls]
      /\ block' = [block EXCEPT ![r] = NoIds]
      /\ runs' = [runs EXCEPT ![r].kind = kind, ![r].want = S, ![r].ids = store, ![r].left = left, ![r].pc = pc]
  BY <1>1 DEF Begin, StartCalls, NoIds
<1>3. \A n \in Names : calls[n] \notin Ids /\ NoIds[n] \notin Ids
  BY NetworkAssumption DEF FirstStep, NoIds, Waiting, Creators
<1>4. pc \in {"load_settings", "create"} /\ o.subnet = None /\ o.first = FirstOf(store)
  OBVIOUS
<1>5. store \in Mappings
  BY <1>2, SoloRuns
<1>6. FirstOf(store) = None => \A n \in Names : store[n] \notin Ids
  <2>1. ASSUME NEW n \in Names, store[n] \in Ids PROVE FirstOf(store) \in Ids
    <3>1. n \in Known(store) /\ Known(store) \subseteq Names
      BY <2>1, NetworkAssumption DEF Known
    <3>2. FirstIn(Known(store)) \in Known(store)
      BY <3>1, FirstIsIn
    <3> QED BY <1>5, <3>1, <3>2 DEF FirstOf, Known, Mappings
  <2> QED BY <2>1, NetworkAssumption
<1>7. FirstOf(store) # None => \E n \in Names : store[n] \in Ids /\ FirstOf(store) = store[n]
  BY <1>5, FirstIsKnown DEF Known, Mappings
<1> HIDE DEF o, calls, pc, left
<1>8. op'[r] = o /\ call'[r] = calls /\ block'[r] = NoIds
  BY <1>2 DEF IInv, Typed
<1>9. runs'[r].pc = pc
  BY <1>2, SoloRuns DEF Fields
<1>10. File(r)' = store /\ File(r) = store
  BY <1>2 DEF File
<1>11. PICK f : f \in Mappings /\ f = store
  BY <1>5
<1>12. Together(f) /\ Together(f)'
  BY <1>2, <1>10, <1>11, FileFacts, PlacesStay
<1>13. Chosen(r, f)'
  <2> SUFFICES ASSUME Unplaced(f)'
               PROVE  /\ FirstOf(store) = None => \A n \in Names : f[n] \notin Ids
                      /\ FirstOf(store) # None => AllOn(f, made[FirstOf(store)].subnet)
    BY <1>2, <1>4, <1>8, NetworkAssumption DEF Chosen, AllOn
  <2>1. PICK s : AllOn(f, s)
    BY <1>2, <1>12 DEF Together, Unplaced
  <2>2. FirstOf(store) # None => made[FirstOf(store)].subnet = s
    BY <1>7, <1>11, <2>1 DEF AllOn
  <2> QED BY <1>6, <1>11, <2>1, <2>2 DEF AllOn
<1>14. Together(File(r))' /\ Chosen(r, File(r))'
  BY <1>10, <1>11, <1>12, <1>13, PrimedFile
<1>15. Gathered(r)'
  <2>1. \A n \in Names : Joins(r, call[r][n])' /\ Joins(r, block[r][n])'
    BY <1>3, <1>8 DEF Joins
  <2> QED BY <1>4, <1>9, <1>14, <2>1 DEF Gathered
<1> QED BY <1>14, <1>15, NearStep

LEMMA EndNear == ASSUME IInv, Solo, Near, NEW r \in Runs, NEW bad, NEW how, EndsWith(r, bad, how) PROVE Near'
<1>1. /\ made' = [i \in Ids |-> IF i \in Kept(r) THEN made[i] ELSE None]
      /\ store' = store
      /\ runs' = [runs EXCEPT ![r] = [Idle EXCEPT !.kind = how]]
  BY DEF EndsWith, End
<1>2. store # CutShort
  BY SoloRuns DEF EndsWith, InStore, At
<1>3. runs'[r] = [Idle EXCEPT !.kind = how]
  BY <1>1, SoloRuns
<1>4. runs'[r].pc = "idle"
  BY <1>3 DEF Idle
<1>5. Gathered(r)'
  BY <1>4 DEF Gathered, Looping
<1>6. PICK f : f \in Mappings /\ f = store
  BY <1>2, SoloRuns
<1>7. \A n \in Names : f[n] \in Ids => made'[f[n]] = made[f[n]]
  BY <1>1, <1>2, <1>6, SurvivorsAre
<1>8. Together(f) /\ File(r)' = f
  BY <1>1, <1>2, <1>6, FileFacts DEF File
<1>9. Together(File(r))'
  BY <1>6, <1>7, <1>8, PlacesStay, PrimedFile
<1> QED BY <1>5, <1>9, NearStep

(* The new canister joins those in the store.                               *)
LEMMA TruncateNear == ASSUME IInv, Solo, Near, NEW r \in Runs, Truncate(r) PROVE Near'
<1>1. /\ At(r, "truncate") /\ store' = CutShort /\ runs' = [runs EXCEPT ![r].pc = "write"]
      /\ UNCHANGED <<made, op, call, block>>
  BY DEF Truncate, network
<1>2. runs'[r].pc = "write" /\ runs'[r].mem = runs[r].mem
  BY <1>1, SoloRuns DEF Fields
<1>3. PICK f, n : f = runs[r].mem /\ n = runs[r].name
  OBVIOUS
<1>4. /\ store # CutShort /\ store \in Mappings /\ n \in Names /\ store[n] = None
      /\ f \in Mappings /\ f[n] \in Ids /\ \A k \in Names \ {n} : f[k] = store[k]
  BY <1>1, <1>3, SoloRuns, RunFields DEF InStore, InStep, At, RunTyped, Registering
<1>5. File(r) = store /\ File(r)' = f
  BY <1>1, <1>2, <1>3, <1>4 DEF File
<1>6. Gathered(r) /\ Joins(r, f[n]) /\ Chosen(r, store)
  BY <1>1, <1>3, <1>5, FileFacts DEF Gathered, At, Looping
<1>7. ASSUME Unplaced(f)
      PROVE  op[r].target \notin Subnets /\ op[r].subnet \in Subnets /\ AllOn(f, op[r].subnet)
  <2>1. Unplaced(store)
    BY <1>4, <1>7, NetworkAssumption DEF Unplaced
  <2>2. op[r].target \notin Subnets /\ op[r].subnet \in Subnets /\ made[f[n]].subnet = op[r].subnet
    BY <1>4, <1>6, <1>7 DEF Joins, Unplaced
  <2>3. AllOn(store, op[r].subnet)
    BY <1>6, <2>1, <2>2 DEF Chosen
  <2> QED BY <1>4, <2>2, <2>3 DEF AllOn
<1>8. Together(f)'
  BY <1>1, <1>7 DEF Together, Unplaced, AllOn
<1>9. Chosen(r, f)'
  BY <1>1, <1>7, NetworkAssumption DEF Chosen, Unplaced, AllOn
<1>10. Together(File(r))' /\ Chosen(r, File(r))'
  BY <1>5, <1>8, <1>9, PrimedFile
<1>11. \A k \in Names : Joins(r, call[r][k])' /\ Joins(r, block[r][k])'
  BY <1>1, <1>6 DEF Gathered, Joins, At, Looping
<1>12. Gathered(r)'
  BY <1>2, <1>10, <1>11 DEF Gathered
<1> QED BY <1>10, <1>12, NearStep

(* Calls go on, and what they create joins the others.                      *)
LEMMA CallsNear ==
    ASSUME IInv, Solo, Near, NEW r \in Runs, UNCHANGED <<store, runs>>,
           \A i \in Ids : made[i] # None => made'[i] = made[i],
           \A i \in Ids : made[i] # None => (Joins(r, i) => Joins(r, i)'),
           runs[r].pc \in Looping => \A n \in Names : Joins(r, call[r][n])' /\ Joins(r, block[r][n])',
           \A f \in Mappings :
               (\A n \in Names : Held(n, f[n])) /\ Chosen(r, f) /\ Together(f) /\ Together(f)' => Chosen(r, f)'
    PROVE  Near'
<1>1. UNCHANGED runs[r]
  OBVIOUS
<1>2. PICK f : f \in Mappings /\ f = File(r)
  BY FileFacts
<1>3. /\ \A n \in Names : Held(n, f[n])
      /\ Together(f) /\ File(r)' = f
  BY <1>2, FileFacts DEF File
<1>4. Together(f)'
  BY <1>2, <1>3, PlacesStay DEF Held
<1>5. runs[r].pc \in Looping => Chosen(r, f)'
  BY <1>2, <1>3, <1>4, FileFacts DEF Gathered
<1>6. Together(File(r))' /\ (Chosen(r, f)' => Chosen(r, File(r))')
  BY <1>3, <1>4, PrimedFile
<1>7. ASSUME runs[r].pc \in {"register", "truncate"} PROVE Joins(r, runs[r].mem[runs[r].name])'
  <2>1. PICK n, i : n = runs[r].name /\ i = runs[r].mem[n]
    OBVIOUS
  <2>2. n \in Names
    BY <1>7, <2>1, SoloRuns, RunFields DEF InStep, Registering, RunTyped
  <2>3. Joins(r, runs[r].mem[runs[r].name])
    BY <1>7, FileFacts DEF Gathered, Looping
  <2>4. Joins(r, i) /\ (i \in Ids => made[i] # None)
    BY <2>1, <2>2, <2>3, RunFields DEF Held
  <2>5. Joins(r, i)'
    BY <2>4 DEF Joins
  <2> QED BY <1>1, <2>1, <2>5
<1>8. Gathered(r)'
  BY <1>1, <1>5, <1>6, <1>7 DEF Gathered
<1> QED BY <1>6, <1>8, NearStep

LEMMA CallMovesNear == ASSUME IInv, Solo, Near, NEW r \in Runs, CallMoves(r) PROVE Near'
<1>1. UNCHANGED <<op, store, runs>> /\ Granted(r)
  BY CallLearns
<1>2. PICK n, i : n \in Names /\ Learns(r, n, i)
  BY CallLearns
<1>3. \A j \in Ids : made[j] # None => made'[j] = made[j]
  BY <1>2 DEF Learns, NewCanister, IInv, Typed
<1>4. \A j : (j \in Ids => made[j] # None) /\ Joins(r, j) => Joins(r, j)'
  BY <1>1, <1>3 DEF Joins
<1>5. ASSUME runs[r].pc \in Looping PROVE Joins(r, i)'
  <2>1. CASE i \in Ids /\ NewCanister(r, n, i) /\ call[r][n] \in OnSubnet \cup {"proxy"}
    <3>1. PICK s, p : /\ s \in Homes(r, n) /\ p = (op[r].target \in Subnets \/ call[r][n] = "proxy")
                      /\ made' = [made EXCEPT ![i] = [name |-> n, subnet |-> s, placed |-> p]]
      BY <2>1 DEF NewCanister
    <3>2. made'[i].subnet = s /\ made'[i].placed = p
      BY <2>1, <3>1 DEF IInv, Typed
    <3>3. call[r][n] # "proxy" => s = op[r].subnet /\ op[r].subnet \in Subnets
      BY <1>2, <2>1, <3>1 DEF Homes, IInv, RunInv, Placed
    <3> QED BY <1>1, <3>1, <3>2, <3>3 DEF Joins
  <2>2. CASE i = block[r][n]
    <3>1. Joins(r, i) /\ (i \in Ids => made[i] # None)
      BY <1>2, <1>5, <2>2, FileFacts, RunFields DEF Gathered, Held
    <3> QED BY <1>4, <3>1
  <2> QED BY <1>2, <2>1, <2>2 DEF Learns
<1>6. ASSUME runs[r].pc \in Looping, NEW k \in Names PROVE Joins(r, call[r][k])' /\ Joins(r, block[r][k])'
  <2>1. /\ Joins(r, call[r][k]) /\ (call[r][k] \in Ids => made[call[r][k]] # None)
        /\ Joins(r, block[r][k]) /\ (block[r][k] \in Ids => made[block[r][k]] # None)
    BY <1>6, FileFacts, RunFields DEF Gathered, Held
  <2>2. PICK c, b : c = call'[r][k] /\ b = block'[r][k]
    OBVIOUS
  <2>3. Joins(r, c)'
    <3>1. CASE c = call[r][k]
      BY <1>4, <2>1, <3>1
    <3>2. CASE c \notin Ids
      BY <3>2 DEF Joins
    <3>3. CASE k = n /\ c = i
      BY <1>5, <1>6, <3>3
    <3> QED BY <1>2, <2>2, <3>1, <3>2, <3>3 DEF Learns
  <2>4. Joins(r, b)'
    <3>1. CASE b = block[r][k]
      BY <1>4, <2>1, <3>1
    <3>2. CASE k = n /\ b = i
      BY <1>5, <1>6, <3>2
    <3> QED BY <1>2, <2>2, <3>1, <3>2 DEF Learns
  <2> QED BY <2>2, <2>3, <2>4
<1>7. ASSUME NEW f \in Mappings, \A k \in Names : Held(k, f[k]), Chosen(r, f) PROVE Chosen(r, f)'
  <2>1. \A k \in Names : f[k] \in Ids => made'[f[k]] = made[f[k]]
    BY <1>3, <1>7 DEF Held
  <2>2. op[r].first # None => made'[op[r].first] = made[op[r].first]
    BY <1>3 DEF IInv, Typed, Operations, RunInv, FirstMade
  <2>3. (Unplaced(f)' <=> Unplaced(f)) /\ \A s : AllOn(f, s)' <=> AllOn(f, s)
    BY <2>1, PlacesStay
  <2> QED BY <1>1, <1>7, <2>2, <2>3 DEF Chosen
<1> QED BY <1>1, <1>3, <1>4, <1>6, <1>7, CallsNear

LEMMA CallBreaksNear == ASSUME IInv, Solo, Near, NEW r \in Runs, CallBreaks(r) PROVE Near'
<1>1. UNCHANGED <<store, runs, made, op, block>>
  BY DEF CallBreaks, CallFailure, AnswerLost, CallFails, NotifyRefunded, NotifyRefused, NotifyUnread,
                 NotifyGivesUp, NotifyEnds
<1>2. \A n \in Names : call'[r][n] = call[r][n] \/ call'[r][n] \notin Ids
  <2>1. PICK n \in Names : Goto(r, n, "failed")
    BY DEF CallBreaks, CallFailure, AnswerLost, CallFails, NotifyRefunded, NotifyRefused, NotifyUnread,
                 NotifyGivesUp, NotifyEnds
  <2> QED BY <2>1, NetworkAssumption DEF Goto, IInv, Typed
<1>3. \A j : Joins(r, j) => Joins(r, j)'
  BY <1>1 DEF Joins
<1>4. ASSUME runs[r].pc \in Looping, NEW n \in Names PROVE Joins(r, call[r][n])' /\ Joins(r, block[r][n])'
  <2>1. Joins(r, call[r][n]) /\ Joins(r, block[r][n])
    BY <1>4, FileFacts DEF Gathered
  <2> QED BY <1>1, <1>2, <2>1 DEF Joins
<1>5. ASSUME NEW f \in Mappings, Chosen(r, f) PROVE Chosen(r, f)'
  BY <1>1, <1>5 DEF Chosen, Unplaced, AllOn
<1> QED BY <1>1, <1>3, <1>4, <1>5, CallsNear

(* The subnet is that of the first canister in the store, or there is none. *)
LEMMA SharedSubnetNear == ASSUME IInv, Solo, Near, NEW r \in Runs, SharedSubnet(r) PROVE Near'
<1>1. UNCHANGED <<store, runs, made, call, block>> /\ op[r].subnet = None
  BY DEF SharedSubnet, ResolveSubnet
<1>2. PICK s : /\ s \in SubnetChoices(op[r]) \cup {"error"}
               /\ op' = [op EXCEPT ![r].subnet = s]
  BY DEF SharedSubnet, ResolveSubnet
<1>3. op'[r].subnet = s /\ op'[r].first = op[r].first /\ op'[r].target = op[r].target
  BY <1>2 DEF IInv, Typed, Operations
<1>4. None \notin Subnets /\ "error" \notin Subnets /\ None # "error"
  BY NetworkAssumption
<1>5. \A j : Joins(r, j) => Joins(r, j)'
  BY <1>1, <1>4 DEF Joins
<1>6. ASSUME runs[r].pc \in Looping, NEW n \in Names PROVE Joins(r, call[r][n])' /\ Joins(r, block[r][n])'
  <2>1. Joins(r, call[r][n]) /\ Joins(r, block[r][n])
    BY <1>6, FileFacts DEF Gathered
  <2> QED BY <1>1, <1>4, <2>1 DEF Joins
<1>7. ASSUME NEW f \in Mappings, Chosen(r, f) PROVE Chosen(r, f)'
  <2>1. /\ Unplaced(f)' <=> Unplaced(f)
        /\ \A u : AllOn(f, u)' <=> AllOn(f, u)
    BY <1>1, PlacesStay
  <2> SUFFICES ASSUME Unplaced(f), op[r].target \notin Subnets
               PROVE  /\ s \in Subnets => AllOn(f, s)
                      /\ s # None
    BY <1>3, <2>1 DEF Chosen
  <2>2. CASE op[r].first = None
    <3>1. \A n \in Names : f[n] \notin Ids
      BY <1>1, <1>7, <2>2 DEF Chosen
    <3>2. s \in Subnets \cup {"error"}
      BY <1>2, <2>2 DEF SubnetChoices
    <3> QED BY <1>4, <3>1, <3>2 DEF AllOn
  <2>3. CASE op[r].first # None
    <3>1. s \in {made[op[r].first].subnet, "error"}
      BY <1>2, <2>3 DEF SubnetChoices
    <3>2. AllOn(f, made[op[r].first].subnet)
      BY <1>1, <1>7, <2>3 DEF Chosen
    <3>3. made[op[r].first].subnet \in Subnets
      BY <2>3 DEF IInv, Typed, Operations, RunInv, FirstMade, Canisters
    <3> QED BY <1>4, <3>1, <3>2, <3>3
  <2> QED BY <2>2, <2>3
<1> QED BY <1>1, <1>5, <1>6, <1>7, CallsNear

LEMMA NearMoves == ASSUME IInv, Solo, Near, NEW r \in Runs, Moves(r) PROVE Near'
<1>1. CASE Begins(r)
  BY <1>1, BeginNear
<1>2. CASE \E bad, how : EndsWith(r, bad, how)
  BY <1>2, EndNear
<1>3. CASE SharedSubnet(r) \/ CallMoves(r) \/ CallBreaks(r) \/ Truncate(r)
  BY <1>3, SharedSubnetNear, CallMovesNear, CallBreaksNear, TruncateNear
<1>4. CASE \/ TakeCreated(r) \/ TakeError(r) \/ GoesOn(r) \/ Register(r) \/ Write(r) \/ Loads(r)
           \/ \E n \in Names : SyncRead(r, n) \/ SyncUpdate(r, n) \/ SyncFails(r, n)
  BY <1>4, QuietMovesNear
<1> QED BY <1>1, <1>2, <1>3, <1>4 DEF Moves

LEMMA NearAlways == ASSUME OneRun, "tear" \notin Mishaps PROVE CreationSpec => []Near
<1>1. ASSUME IInv, Solo, Near, [CreationNext]_creationVars PROVE Near'
  <2>1. CASE CreationNext
    BY <1>1, <2>1, MovesAlone, NearMoves
  <2>2. CASE UNCHANGED creationVars
    <3>1. UNCHANGED <<store, runs, made, op, call, block>>
      BY <2>2 DEF creationVars, network
    <3>2. ASSUME NEW r \in Runs PROVE Near'
      <4>1. File(r)' = File(r) /\ UNCHANGED runs[r]
        BY <3>1 DEF File
      <4>2. Gathered(r)
        BY <1>1 DEF Near
      <4>3. runs[r].pc \in {"register", "truncate"} => Joins(r, runs[r].mem[runs[r].name])'
        BY <3>1, <4>2 DEF Gathered, Joins, Looping
      <4> QED BY <1>1, <3>1, <4>1, <4>3, QuietNear
    <3>3. CASE Runs = {}
      BY <1>1, <3>1, <3>3 DEF Near, Together, Unplaced, AllOn
    <3> QED BY <3>2, <3>3
  <2> QED BY <1>1, <2>1, <2>2
<1>2. IInv /\ Solo /\ Near /\ [CreationNext]_creationVars => Near'
  BY <1>1
<1> QED BY <1>2, InitNear, SoloAlways, Always, PTL DEF CreationSpec

LEMMA NearIsColocated == ASSUME IInv, Near PROVE Colocated
<1> SUFFICES ASSUME store # CutShort, \A n \in Known(store) : ~made[store[n]].placed,
                    NEW n \in Known(store), NEW m \in Known(store)
             PROVE  made[store[n]].subnet = made[store[m]].subnet
  BY DEF Colocated
<1>1. store \in Mappings
  BY DEF IInv, Typed
<1>2. \A k \in Names : store[k] \in Ids => k \in Known(store)
  BY NetworkAssumption DEF Known
<1>3. Unplaced(store)
  BY <1>2 DEF Unplaced
<1>4. PICK s : AllOn(store, s)
  BY <1>3 DEF Near, Together
<1> QED BY <1>1, <1>4 DEF AllOn, Known, Mappings

(* create.rs, settings.rs, deploy.rs: with one invocation at a time, none   *)
(* killed while it writes the id store, once nothing is under way every     *)
(* canister in the store has the controllers that its manifest names and    *)
(* that have an id, unless the settings of that canister failed; and if the *)
(* user placed none of them, all are on one subnet; none was paid for twice *)
(* and the variables keep their types.                                      *)
THEOREM CanistersAreArranged ==
    ASSUME OneRun, "tear" \notin Mishaps PROVE CreationSpec => []Arranged
<1>1. IInv /\ Near => Colocated
  BY NearIsColocated
<1>2. IInv /\ Wires => Wired
  BY WiresAreWired
<1>3. CreationSpec => [](Wired /\ Colocated)
  BY <1>1, <1>2, WiresAlways, NearAlways, Always, PTL
<1>4. CreationTypeOK /\ ChargedOnce /\ Wired /\ Colocated <=> Arranged
  BY DEF Arranged
<1> QED BY <1>3, <1>4, CreationTypeCorrect, PaidOnce, PTL
=============================================================================
