------------------------- MODULE Identities_proofs --------------------------
(* Identities stay intact and leave nothing behind, for any names, keys and  *)
(* formats, wherever commands are cut short: as long as no other command     *)
(* runs while a reauth waits for the browser, no identity is renamed to the  *)
(* name it has, and no name is a session key's user name.                    *)
(*                                                                           *)
(* Predicates on what one name has are of a store s, since a section is      *)
(* followed write by write.                                                  *)
(*                                                                           *)
(* Then logins: only the page the user logged in through ends one, for any   *)
(* principals and requests; and keys: one signs as the same principal        *)
(* wherever it has been, for any passwords.                                  *)
EXTENDS IdentityStore, WebLogin, KeyFile, SequenceTheorems, WellFoundedInduction, TLAPS

SafeFaults == "overlap" \notin Faults /\ "self" \notin Faults

Own(n) == {List(n), Pem(n), Chain(n), Ring(n), Ring(DlgUser[n])}
KeyIn(s, n) == s[KeyPlace(n, s[List(n)])]

(* Kinds and storages that go together.                                      *)
Entry(spec) ==
    /\ spec \in Specs
    /\ spec.kind = "keyring" => spec.storage = "keyring"
    /\ spec.kind = "pem" => spec.storage # "keyring"
    /\ spec.kind # "pending" => spec.who \in AllKeys \cup Roots
    /\ spec.kind = "pem" => spec.who \in AllKeys

Holds(p, v) ==
    /\ p = Default => v \in Names \cup {Anonymous}
    /\ \A n \in Names : /\ p = List(n) /\ v # None => Entry(v)
                        /\ p = Pem(n) => v \in Materials \cup {None}
                        /\ p = Chain(n) => v \in Chains \cup {None}
    /\ \A u \in Users : p = Ring(u) => v \in Materials \cup {None}
Typed(s) == s = [p \in Places |-> s[p]] /\ \A p \in Places : Holds(p, s[p])

HasKey(s, n) ==
    s[List(n)] # None =>
        LET spec == s[List(n)]
            secret == KeyIn(s, n)
        IN  /\ spec.kind # "hsm" => secret # None /\ secret.enc = (spec.storage = "pbes2")
            /\ spec.kind \in {"pem", "keyring"} => secret.key = spec.who
            /\ spec.kind \in Delegated => s[Chain(n)] # None /\ s[Chain(n)].root = spec.who

(* Besides that, a name has only what is of use to it.                       *)
Unlisted(s, n) == s[List(n)] = None => \A p \in Own(n) : s[p] = None
OnlyUseful(s, n) ==
    s[List(n)] # None =>
        LET spec == s[List(n)]
        IN  /\ spec.kind = "hsm" \/ spec.storage = "keyring" => s[Pem(n)] = None
            /\ spec.kind # "keyring" => s[Ring(n)] = None
            /\ spec.kind # "pem" /\ (spec.kind \in {"hsm", "keyring"} \/ spec.storage # "keyring")
                   => s[Ring(DlgUser[n])] = None
            /\ spec.kind \in {"hsm", "keyring", "pending"} => s[Chain(n)] = None
            /\ spec.kind = "pem" /\ s[Chain(n)] # None => s[Chain(n)].root = spec.who

Clean(s, n) == Unlisted(s, n) /\ OnlyUseful(s, n)

(* A reauth that waits is still that of the identity it was begun for.       *)
Waits ==
    reauth # None =>
        /\ reauth \in Reauths
        /\ LET spec == store[List(reauth.name)]
           IN  /\ spec # None /\ spec.kind = reauth.kind /\ spec.who = reauth.root
               /\ spec.kind = "pem" => spec.storage = "pbes2"

DefaultIs(s, cut) == s[Default] \in Names => s[List(s[Default])] # None \/ s[Default] \in cut

IInv ==
    /\ Typed(store)
    /\ interrupted \subseteq Names /\ cuts \in 0 .. MaxCuts
    /\ \A n \in Names : HasKey(store, n)
    /\ \A n \in Names \ interrupted : Clean(store, n)
    /\ DefaultIs(store, interrupted)
    /\ Waits

-------------------------------------------------------------------------------
(* Sequences of writes.  AfterFrom is After with a store to start from, All   *)
(* the store after all of them, and Reach holds of those after some.          *)
Hits(ws, k, p) == {i \in 1 .. k : p \in DOMAIN ws[i]}
AfterFrom(s, ws, k) ==
    [p \in Places |->
        IF Hits(ws, k, p) = {} THEN s[p]
        ELSE ws[CHOOSE i \in Hits(ws, k, p) : \A j \in Hits(ws, k, p) : j <= i][p]]
All(s, ws) == AfterFrom(s, ws, Len(ws))
Reach(s, ws, t) == \E k \in 0 .. Len(ws) : t = AfterFrom(s, ws, k)
Put(s, w) == [p \in Places |-> IF p \in DOMAIN w THEN w[p] ELSE s[p]]

LEMMA AfterIs == ASSUME NEW ws, NEW k PROVE After(ws, k) = AfterFrom(store, ws, k)
BY DEF After, AfterFrom, Hits

LEMMA Greatest ==
    ASSUME NEW k \in Nat, NEW S \in SUBSET (1 .. k), S # {}
    PROVE  \E i \in S : \A j \in S : j <= i
<1> DEFINE R == OpToRel(<, Nat)
           T == {k - i : i \in S}
<1>1. IsWellFoundedOn(R, Nat)
  BY Zenon, NatLessThanWellFounded
<1>2. T \in SUBSET Nat /\ T # {}
  <2>1. \A i \in S : k - i \in Nat
    OBVIOUS
  <2> QED BY <2>1
<1>3. \E m \in T : \A j \in T : ~ (<<j, m>> \in R)
  <2> HIDE DEF R, T
  <2> QED BY <1>1, <1>2, WFMin
<1>4. \A i, j \in Nat : i < j => <<i, j>> \in R
  BY Zenon DEF OpToRel
<1> HIDE DEF R
<1>5. PICK m \in T : \A j \in T : ~ (<<j, m>> \in R)
  BY <1>3
<1>6. PICK i \in S : m = k - i
  BY <1>5
<1>7. ASSUME NEW j \in S PROVE j <= i
  <2>1. k - j \in T /\ k - j \in Nat /\ m \in Nat
    BY <1>2, <1>6
  <2>2. ~ (k - j < m)
    BY <1>4, <1>5, <2>1
  <2> QED BY <1>6, <2>2
<1> QED BY <1>7

(* The last write to a place counts; where there is none nothing changes.     *)
LEMMA LastCounts ==
    ASSUME NEW s, NEW ws, NEW k \in Nat, NEW p \in Places, NEW i \in 1 .. k, p \in DOMAIN ws[i],
           \A j \in 1 .. k : i < j => p \notin DOMAIN ws[j]
    PROVE  AfterFrom(s, ws, k)[p] = ws[i][p]
<1> DEFINE H == Hits(ws, k, p)
           c == CHOOSE m \in H : \A j \in H : j <= m
<1>1. i \in H /\ \A j \in H : j <= i
  BY DEF Hits
<1>2. H \in SUBSET (1 .. k)
  BY DEF Hits
<1>3. c \in H /\ \A j \in H : j <= c
  <2> HIDE DEF H
  <2> QED BY <1>1
<1>4. c = i
  <2> HIDE DEF H, c
  <2> QED BY <1>1, <1>2, <1>3
<1> QED BY <1>1, <1>4 DEF AfterFrom

LEMMA NoneCounts ==
    ASSUME NEW s, NEW ws, NEW k \in Nat, NEW p \in Places, \A i \in 1 .. k : p \notin DOMAIN ws[i]
    PROVE  AfterFrom(s, ws, k)[p] = s[p]
<1>1. Hits(ws, k, p) = {}
  BY DEF Hits
<1> QED BY <1>1 DEF AfterFrom

LEMMA SomeOrNone ==
    ASSUME NEW ws, NEW k \in Nat, NEW p
    PROVE  \/ \A i \in 1 .. k : p \notin DOMAIN ws[i]
           \/ \E i \in 1 .. k : p \in DOMAIN ws[i] /\ \A j \in 1 .. k : i < j => p \notin DOMAIN ws[j]
<1>1. CASE Hits(ws, k, p) = {}
  BY <1>1 DEF Hits
<1>2. CASE Hits(ws, k, p) # {}
  <2>1. Hits(ws, k, p) \in SUBSET (1 .. k)
    BY DEF Hits
  <2>2. PICK i \in Hits(ws, k, p) : \A j \in Hits(ws, k, p) : j <= i
    BY <1>2, <2>1, Greatest
  <2>3. i \in 1 .. k /\ p \in DOMAIN ws[i]
    BY DEF Hits
  <2>4. ASSUME NEW j \in 1 .. k, i < j PROVE p \notin DOMAIN ws[j]
    BY <2>2, <2>3, <2>4 DEF Hits
  <2> QED BY <2>3, <2>4
<1> QED BY <1>1, <1>2

(* Writes one after the other, and then others.                               *)
LEMMA FirstPart ==
    ASSUME NEW s, NEW S, NEW ws \in Seq(S), NEW xs \in Seq(S), NEW k \in 0 .. Len(ws)
    PROVE  AfterFrom(s, ws \o xs, k) = AfterFrom(s, ws, k)
<1>1. \A i \in 1 .. k : (ws \o xs)[i] = ws[i]
  OBVIOUS
<1>2. ASSUME NEW p \in Places PROVE AfterFrom(s, ws \o xs, k)[p] = AfterFrom(s, ws, k)[p]
  <2> k \in Nat
    OBVIOUS
  <2>1. CASE \A i \in 1 .. k : p \notin DOMAIN ws[i]
    <3>1. \A i \in 1 .. k : p \notin DOMAIN (ws \o xs)[i]
      BY <1>1, <2>1
    <3> DEFINE zs == ws \o xs
    <3>2. \A i \in 1 .. k : p \notin DOMAIN zs[i]
      BY <3>1
    <3> HIDE DEF zs
    <3>3. AfterFrom(s, zs, k)[p] = s[p]
      BY <3>2, NoneCounts
    <3>4. AfterFrom(s, ws, k)[p] = s[p]
      BY <2>1, NoneCounts
    <3> QED BY <3>3, <3>4 DEF zs
  <2>2. ASSUME NEW i \in 1 .. k, p \in DOMAIN ws[i], \A j \in 1 .. k : i < j => p \notin DOMAIN ws[j]
        PROVE  AfterFrom(s, ws \o xs, k)[p] = AfterFrom(s, ws, k)[p]
    <3>1. p \in DOMAIN (ws \o xs)[i] /\ \A j \in 1 .. k : i < j => p \notin DOMAIN (ws \o xs)[j]
      BY <1>1, <2>2
    <3>2. AfterFrom(s, ws \o xs, k)[p] = (ws \o xs)[i][p]
      <4> DEFINE zs == ws \o xs
      <4>1. p \in DOMAIN zs[i] /\ \A j \in 1 .. k : i < j => p \notin DOMAIN zs[j]
        BY <3>1
      <4> HIDE DEF zs
      <4>2. AfterFrom(s, zs, k)[p] = zs[i][p]
        BY <2>2, <4>1, LastCounts
      <4> QED BY <4>2 DEF zs
    <3>3. AfterFrom(s, ws, k)[p] = ws[i][p]
      BY <2>2, LastCounts
    <3> QED BY <1>1, <3>2, <3>3
  <2> QED BY <2>1, <2>2, SomeOrNone
<1> QED BY <1>2 DEF AfterFrom

LEMMA SecondPart ==
    ASSUME NEW s, NEW S, NEW ws \in Seq(S), NEW xs \in Seq(S), NEW k \in 0 .. Len(xs)
    PROVE  AfterFrom(s, ws \o xs, Len(ws) + k) = AfterFrom(All(s, ws), xs, k)
<1> DEFINE n == Len(ws)
           ys == ws \o xs
<1>1. n \in Nat /\ k \in Nat /\ n + k \in Nat
  OBVIOUS
<1>2. (\A i \in 1 .. n : ys[i] = ws[i]) /\ (\A i \in 1 .. k : ys[n + i] = xs[i])
  OBVIOUS
<1>3. \A i \in 1 .. n + k : i \in 1 .. n \/ (i - n \in 1 .. k /\ i = n + (i - n))
  BY <1>1
<1>4. (\A i \in 1 .. n : i \in 1 .. n + k) /\ (\A i \in 1 .. k : n + i \in 1 .. n + k)
  BY <1>1
<1> HIDE DEF n, ys
<1>5. ASSUME NEW p \in Places PROVE AfterFrom(s, ys, n + k)[p] = AfterFrom(AfterFrom(s, ws, n), xs, k)[p]
  <2>1. ASSUME NEW i \in 1 .. k, p \in DOMAIN xs[i], \A j \in 1 .. k : i < j => p \notin DOMAIN xs[j]
        PROVE  AfterFrom(s, ys, n + k)[p] = AfterFrom(AfterFrom(s, ws, n), xs, k)[p]
    <3>1. n + i \in 1 .. n + k /\ p \in DOMAIN ys[n + i]
      BY <1>2, <1>4, <2>1
    <3>2. ASSUME NEW j \in 1 .. n + k, n + i < j PROVE p \notin DOMAIN ys[j]
      <4>1. j - n \in 1 .. k /\ j = n + (j - n) /\ i < j - n
        BY <1>1, <1>3, <3>2
      <4> QED BY <1>2, <2>1, <4>1
    <3>3. AfterFrom(s, ys, n + k)[p] = ys[n + i][p]
      BY <1>1, <3>1, <3>2, LastCounts
    <3>4. AfterFrom(AfterFrom(s, ws, n), xs, k)[p] = xs[i][p]
      BY <1>1, <2>1, LastCounts
    <3> QED BY <1>2, <3>3, <3>4
  <2>2. ASSUME \A i \in 1 .. k : p \notin DOMAIN xs[i]
        PROVE  AfterFrom(s, ys, n + k)[p] = AfterFrom(AfterFrom(s, ws, n), xs, k)[p]
    <3>1. AfterFrom(AfterFrom(s, ws, n), xs, k)[p] = AfterFrom(s, ws, n)[p]
      BY <1>1, <2>2, NoneCounts
    <3>2. \A i \in 1 .. n + k : i \notin 1 .. n => p \notin DOMAIN ys[i]
      BY <1>2, <1>3, <2>2
    <3>3. CASE \A i \in 1 .. n : p \notin DOMAIN ws[i]
      <4>1. AfterFrom(s, ws, n)[p] = s[p]
        BY <1>1, <3>3, NoneCounts
      <4>2. \A i \in 1 .. n + k : p \notin DOMAIN ys[i]
        BY <1>2, <3>2, <3>3
      <4>3. AfterFrom(s, ys, n + k)[p] = s[p]
        BY <1>1, <4>2, NoneCounts
      <4> QED BY <3>1, <4>1, <4>3
    <3>4. ASSUME NEW i \in 1 .. n, p \in DOMAIN ws[i], \A j \in 1 .. n : i < j => p \notin DOMAIN ws[j]
          PROVE  AfterFrom(s, ys, n + k)[p] = AfterFrom(AfterFrom(s, ws, n), xs, k)[p]
      <4>0. n \in Nat
        BY <1>1
      <4>1. AfterFrom(s, ws, n)[p] = ws[i][p]
        BY <3>4, <4>0, LastCounts
      <4>2. i \in 1 .. n + k /\ p \in DOMAIN ys[i]
        BY <1>2, <1>4, <3>4
      <4>3. \A j \in 1 .. n + k : i < j => p \notin DOMAIN ys[j]
        BY <1>2, <3>2, <3>4
      <4>4. AfterFrom(s, ys, n + k)[p] = ys[i][p]
        BY <1>1, <4>2, <4>3, LastCounts
      <4> QED BY <1>2, <3>1, <4>1, <4>4
    <3> QED BY <1>1, <3>3, <3>4, SomeOrNone
  <2> QED BY <1>1, <2>1, <2>2, SomeOrNone
<1>6. AfterFrom(s, ys, n + k) = AfterFrom(AfterFrom(s, ws, n), xs, k)
  BY <1>5 DEF AfterFrom
<1> QED BY <1>6 DEF All, n, ys

LEMMA AllSplit ==
    ASSUME NEW s, NEW S, NEW ws \in Seq(S), NEW xs \in Seq(S)
    PROVE  All(s, ws \o xs) = All(All(s, ws), xs)
<1>1. Len(ws \o xs) = Len(ws) + Len(xs) /\ Len(xs) \in 0 .. Len(xs)
  OBVIOUS
<1>2. AfterFrom(s, ws \o xs, Len(ws) + Len(xs)) = AfterFrom(All(s, ws), xs, Len(xs))
  BY <1>1, SecondPart
<1> QED BY <1>1, <1>2 DEF All

LEMMA ReachSplit ==
    ASSUME NEW s, NEW S, NEW ws \in Seq(S), NEW xs \in Seq(S), NEW t, Reach(s, ws \o xs, t)
    PROVE  Reach(s, ws, t) \/ Reach(All(s, ws), xs, t)
<1>1. PICK k \in 0 .. Len(ws \o xs) : t = AfterFrom(s, ws \o xs, k)
  BY DEF Reach
<1>2. Len(ws \o xs) = Len(ws) + Len(xs) /\ Len(ws) \in Nat /\ Len(xs) \in Nat
  OBVIOUS
<1>3. CASE k <= Len(ws)
  <2>1. k \in 0 .. Len(ws)
    BY <1>2, <1>3
  <2>2. AfterFrom(s, ws \o xs, k) = AfterFrom(s, ws, k)
    BY <2>1, FirstPart
  <2> QED BY <1>1, <2>1, <2>2 DEF Reach
<1>4. CASE k > Len(ws)
  <2> DEFINE j == k - Len(ws)
  <2>1. j \in 0 .. Len(xs) /\ k = Len(ws) + j
    BY <1>2, <1>4
  <2> HIDE DEF j
  <2>2. AfterFrom(s, ws \o xs, Len(ws) + j) = AfterFrom(All(s, ws), xs, j)
    BY <2>1, SecondPart
  <2> QED BY <1>1, <2>1, <2>2 DEF Reach
<1> QED BY <1>2, <1>3, <1>4

LEMMA AllOfNone == ASSUME NEW s, s = [p \in Places |-> s[p]] PROVE All(s, <<>>) = s
<1>1. \A p \in Places : All(s, <<>>)[p] = s[p]
  <2>1. Len(<<>>) = 0 /\ 0 \in Nat /\ \A i \in 1 .. 0 : FALSE
    OBVIOUS
  <2> QED BY <2>1, NoneCounts DEF All
<1>2. All(s, <<>>) = [p \in Places |-> All(s, <<>>)[p]]
  BY DEF All, AfterFrom
<1> QED BY <1>1, <1>2

LEMMA AllOfOne == ASSUME NEW s, NEW w PROVE All(s, <<w>>) = Put(s, w)
<1>1. ASSUME NEW p \in Places PROVE All(s, <<w>>)[p] = IF p \in DOMAIN w THEN w[p] ELSE s[p]
  <2> DEFINE ws == <<w>>
  <2>1. Len(ws) = 1 /\ 1 \in Nat /\ 1 \in 1 .. 1 /\ ws[1] = w /\ \A i \in 1 .. 1 : i = 1 /\ ~ (1 < i)
    OBVIOUS
  <2> HIDE DEF ws
  <2>2. CASE p \in DOMAIN w
    <3>1. AfterFrom(s, ws, 1)[p] = ws[1][p]
      BY <2>1, <2>2, LastCounts
    <3> QED BY <2>1, <2>2, <3>1 DEF All, ws
  <2>3. CASE p \notin DOMAIN w
    <3>1. AfterFrom(s, ws, 1)[p] = s[p]
      BY <2>1, <2>3, NoneCounts
    <3> QED BY <2>1, <2>3, <3>1 DEF All, ws
  <2> QED BY <2>2, <2>3
<1>2. All(s, <<w>>) = [p \in Places |-> All(s, <<w>>)[p]]
  BY DEF All, AfterFrom
<1> QED BY <1>1, <1>2 DEF Put

(* What a place holds after some writes is what it held or what one of them   *)
(* wrote there.                                                               *)
LEMMA ReachHolds ==
    ASSUME NEW s, NEW S, NEW ws \in Seq(S), NEW t, Reach(s, ws, t), NEW p \in Places
    PROVE  t[p] = s[p] \/ \E w \in S : p \in DOMAIN w /\ t[p] = w[p]
<1>1. PICK k \in 0 .. Len(ws) : t = AfterFrom(s, ws, k)
  BY DEF Reach
<1>2. k \in Nat /\ \A i \in 1 .. k : ws[i] \in S
  OBVIOUS
<1>3. CASE \A i \in 1 .. k : p \notin DOMAIN ws[i]
  BY <1>1, <1>2, <1>3, NoneCounts
<1>4. ASSUME NEW i \in 1 .. k, p \in DOMAIN ws[i], \A j \in 1 .. k : i < j => p \notin DOMAIN ws[j]
      PROVE  \E w \in S : p \in DOMAIN w /\ t[p] = w[p]
  <2>1. AfterFrom(s, ws, k)[p] = ws[i][p]
    BY <1>2, <1>4, LastCounts
  <2> QED BY <1>1, <1>2, <1>4, <2>1
<1> QED BY <1>2, <1>3, <1>4, SomeOrNone

LEMMA ReachElse ==
    ASSUME NEW s, NEW S, NEW ws \in Seq(S), NEW t, Reach(s, ws, t), NEW p \in Places, \A w \in S : p \notin DOMAIN w
    PROVE  t[p] = s[p]
BY ReachHolds

LEMMA AllIsReach == ASSUME NEW s, NEW S, NEW ws \in Seq(S) PROVE Reach(s, ws, All(s, ws))
<1>1. Len(ws) \in 0 .. Len(ws)
  OBVIOUS
<1> QED BY <1>1 DEF Reach, All

LEMMA ReachDomain == ASSUME NEW s, NEW ws, NEW t, Reach(s, ws, t) PROVE DOMAIN t = Places /\ t = [p \in Places |-> t[p]]
BY DEF Reach, AfterFrom

LEMMA ReachOne ==
    ASSUME NEW s, s = [p \in Places |-> s[p]], NEW w, NEW t, Reach(s, <<w>>, t)
    PROVE  t = s \/ t = Put(s, w)
<1>1. PICK k \in 0 .. Len(<<w>>) : t = AfterFrom(s, <<w>>, k)
  BY DEF Reach
<1>2. Len(<<w>>) = 1
  OBVIOUS
<1>3. CASE k = 0
  <2>1. <<>> \in Seq({w}) /\ <<w>> \in Seq({w}) /\ <<>> \o <<w>> = <<w>> /\ Len(<<>>) = 0 /\ 0 \in 0 .. 0
    OBVIOUS
  <2>2. AfterFrom(s, <<>> \o <<w>>, 0) = AfterFrom(s, <<>>, 0)
    <3> DEFINE xs == <<>>
               ys == <<w>>
               S == {w}
    <3>1. xs \in Seq(S) /\ ys \in Seq(S) /\ 0 \in 0 .. Len(xs)
      OBVIOUS
    <3> HIDE DEF xs, ys, S
    <3>2. AfterFrom(s, xs \o ys, 0) = AfterFrom(s, xs, 0)
      BY <3>1, FirstPart
    <3> QED BY <3>2 DEF xs, ys
  <2>3. t = All(s, <<>>)
    BY <1>1, <1>3, <2>1, <2>2 DEF All
  <2> QED BY <2>3, AllOfNone
<1>4. CASE k = 1
  BY <1>1, <1>2, <1>4, AllOfOne DEF All
<1> QED BY <1>1, <1>2, <1>3, <1>4

LEMMA ReachNone == ASSUME NEW s, s = [p \in Places |-> s[p]], NEW t, Reach(s, <<>>, t) PROVE t = s
<1>1. Len(<<>>) = 0
  OBVIOUS
<1>2. t = All(s, <<>>)
  BY <1>1 DEF Reach, All
<1> QED BY <1>2, AllOfNone

(* A section ends after all of its writes, or after some of them.             *)
LEMMA SectionIs ==
    ASSUME NEW ns, NEW S, NEW ws \in Seq(S), Section(ns, ws)
    PROVE  /\ Reach(store, ws, store')
           /\ \/ /\ store' = All(store, ws) /\ cuts' = cuts
                 /\ interrupted' = IF ns \cap interrupted # {} THEN interrupted \cup ns ELSE interrupted
              \/ Cut(ns)
<1>1. CASE store' = After(ws, Len(ws))
  <2>1. store' = All(store, ws)
    BY <1>1, AfterIs DEF All
  <2> QED BY <2>1, AllIsReach DEF Section
<1>2. ASSUME NEW k \in 1 .. Len(ws) - 1, store' = After(ws, k) PROVE Reach(store, ws, store')
  <2>1. k \in 0 .. Len(ws)
    OBVIOUS
  <2> QED BY <1>2, <2>1, AfterIs DEF Reach
<1>3. Reach(store, ws, store')
  BY <1>1, <1>2 DEF Section
<1>4. store' = After(ws, Len(ws)) => store' = All(store, ws)
  BY AfterIs DEF All
<1> QED BY <1>3, <1>4 DEF Section

-------------------------------------------------------------------------------
(* One write to one place.                                                    *)
LEMMA OneWrite == ASSUME NEW p, NEW v PROVE DOMAIN Write(p, v) = {p} /\ Write(p, v)[p] = v
BY DEF Write

LEMMA PutOne ==
    ASSUME NEW s, NEW p, NEW v, NEW q \in Places
    PROVE  Put(s, Write(p, v))[q] = IF q = p THEN v ELSE s[q]
<1> DEFINE w == Write(p, v)
<1>1. DOMAIN w = {p} /\ w[p] = v
  BY OneWrite
<1> HIDE DEF w
<1>2. Put(s, w)[q] = IF q = p THEN v ELSE s[q]
  BY <1>1 DEF Put
<1> QED BY <1>2 DEF w

(* Places are different.                                                      *)
LEMMA Apart ==
    /\ Default \in Places
    /\ \A n \in Names : List(n) \in Places /\ Pem(n) \in Places /\ Chain(n) \in Places
    /\ \A u \in Users : Ring(u) \in Places
    /\ \A n, m : /\ List(n) # Pem(m) /\ List(n) # Chain(m) /\ List(n) # Ring(m) /\ Pem(n) # Chain(m)
                 /\ Pem(n) # Ring(m) /\ Chain(n) # Ring(m)
                 /\ Default # List(n) /\ Default # Pem(n) /\ Default # Chain(n) /\ Default # Ring(n)
                 /\ n # m => /\ List(n) # List(m) /\ Pem(n) # Pem(m) /\ Chain(n) # Chain(m) /\ Ring(n) # Ring(m)
BY DEF Places, Default, List, Pem, Chain, Ring

LEMMA OwnApart ==
    ASSUME NamesApart, NEW n \in Names
    PROVE  /\ n \in Users /\ DlgUser[n] \in Users /\ DlgUser[n] # n
           /\ Own(n) \subseteq Places /\ Default \notin Own(n)
           /\ \A m \in Names : m # n => Own(n) \cap Own(m) = {}
<1>1. n \in Users /\ DlgUser[n] \in Users /\ DlgUser[n] # n
  BY IdentityAssumption DEF NamesApart
<1>2. Own(n) \subseteq Places /\ Default \notin Own(n)
  BY <1>1, Apart DEF Own
<1>3. ASSUME NEW m \in Names, m # n PROVE Own(n) \cap Own(m) = {}
  <2>1. DlgUser[n] # DlgUser[m] /\ DlgUser[n] # m /\ DlgUser[m] # n
    BY <1>3, IdentityAssumption DEF NamesApart
  <2> QED BY <1>3, <2>1, Apart DEF Own
<1> QED BY <1>1, <1>2, <1>3

LEMMA KeyIsOwn == ASSUME NEW n \in Names, NEW spec PROVE KeyPlace(n, spec) \in {Pem(n), Ring(n), Ring(DlgUser[n])}
BY DEF KeyPlace

LEMMA PutTyped == ASSUME NEW s, NEW w PROVE Put(s, w) = [p \in Places |-> Put(s, w)[p]]
BY DEF Put

LEMMA Pairs ==
    ASSUME NEW v, NEW w
    PROVE  <<v>> \o <<w>> = <<v, w>> /\ <<v>> \o <<>> = <<v>> /\ <<>> \o <<v>> = <<v>>
<1> DEFINE S == {v, w}
           xs == <<v, w>>
           ys == <<v>> \o <<w>>
           vs == <<v>>
<1>1. xs \in Seq(S) /\ ys \in Seq(S) /\ vs \in Seq(S)
  OBVIOUS
<1>2. Len(xs) = 2 /\ xs[1] = v /\ xs[2] = w
  OBVIOUS
<1>3. Len(ys) = 2 /\ ys[1] = v /\ ys[2] = w
  OBVIOUS
<1>4. \A i \in 1 .. 2 : i = 1 \/ i = 2
  OBVIOUS
<1> HIDE DEF xs, ys, vs, S
<1>5. xs = ys
  BY <1>1, <1>2, <1>3, <1>4, SeqEqual
<1>6. vs \o <<>> = vs /\ <<>> \o vs = vs
  BY <1>1, ConcatEmptySeq
<1> QED BY <1>5, <1>6 DEF xs, ys, vs

LEMMA Triples == ASSUME NEW u, NEW v, NEW w PROVE <<u, v>> \o <<w>> = <<u, v, w>>
<1> DEFINE S == {u, v, w}
           xs == <<u, v, w>>
           ys == <<u, v>> \o <<w>>
<1>1. xs \in Seq(S) /\ ys \in Seq(S)
  OBVIOUS
<1>2. Len(xs) = 3 /\ xs[1] = u /\ xs[2] = v /\ xs[3] = w
  OBVIOUS
<1>3. Len(ys) = 3 /\ ys[1] = u /\ ys[2] = v /\ ys[3] = w
  OBVIOUS
<1>4. \A i \in 1 .. 3 : i = 1 \/ i = 2 \/ i = 3
  OBVIOUS
<1> HIDE DEF xs, ys, S
<1>5. xs = ys
  BY <1>1, <1>2, <1>3, <1>4, SeqEqual
<1> QED BY <1>5 DEF xs, ys

LEMMA ReachTwo ==
    ASSUME NEW s, s = [p \in Places |-> s[p]], NEW v, NEW w
    PROVE  /\ All(s, <<v, w>>) = Put(Put(s, v), w)
           /\ \A t : Reach(s, <<v, w>>, t) => t = s \/ t = Put(s, v) \/ t = Put(Put(s, v), w)
<1> DEFINE S == {v, w}
           vs == <<v>>
           ws == <<w>>
<1>1. vs \in Seq(S) /\ ws \in Seq(S)
  OBVIOUS
<1>7. vs \o ws = <<v, w>>
  BY Pairs
<1>2. All(s, vs) = Put(s, v) /\ All(Put(s, v), ws) = Put(Put(s, v), w)
  BY AllOfOne
<1>3. ASSUME NEW t, Reach(s, vs, t) PROVE t = s \/ t = Put(s, v)
  BY <1>3, ReachOne
<1>4. ASSUME NEW t, Reach(Put(s, v), ws, t) PROVE t = Put(s, v) \/ t = Put(Put(s, v), w)
  BY <1>4, ReachOne, PutTyped
<1> HIDE DEF S, vs, ws
<1>5. All(s, vs \o ws) = Put(Put(s, v), w)
  <2>1. All(s, vs \o ws) = All(All(s, vs), ws)
    BY <1>1, AllSplit
  <2> QED BY <1>2, <2>1
<1>6. ASSUME NEW t, Reach(s, vs \o ws, t) PROVE t = s \/ t = Put(s, v) \/ t = Put(Put(s, v), w)
  <2>1. Reach(s, vs, t) \/ Reach(All(s, vs), ws, t)
    BY <1>1, <1>6, ReachSplit
  <2> QED BY <1>2, <1>3, <1>4, <2>1
<1> QED BY <1>5, <1>6, <1>7

-------------------------------------------------------------------------------
(* What a write must be to be of the right type.                              *)
LEMMA HoldsAt ==
    ASSUME NEW v
    PROVE  /\ v \in Names \cup {Anonymous} => Holds(Default, v)
           /\ \A n : v = None \/ Entry(v) => Holds(List(n), v)
           /\ \A n : v \in Materials \cup {None} => Holds(Pem(n), v) /\ Holds(Ring(n), v)
           /\ \A n : v \in Chains \cup {None} => Holds(Chain(n), v)
BY Apart DEF Holds

LEMMA TypedKeeps ==
    ASSUME NEW s, Typed(s), NEW S, NEW ws \in Seq(S), NEW t, Reach(s, ws, t),
           \A w \in S : \A p \in DOMAIN w : Holds(p, w[p])
    PROVE  Typed(t)
<1>1. t = [p \in Places |-> t[p]]
  BY ReachDomain
<1>2. ASSUME NEW p \in Places PROVE Holds(p, t[p])
  BY ReachHolds DEF Typed
<1> QED BY <1>1, <1>2 DEF Typed

(* A name depends on its own places.                                          *)
LEMMA SameName ==
    ASSUME NEW s, NEW t, NEW n \in Names, \A p \in Own(n) : t[p] = s[p]
    PROVE  (HasKey(s, n) => HasKey(t, n)) /\ (Clean(s, n) => Clean(t, n))
<1>1. t[List(n)] = s[List(n)] /\ t[Chain(n)] = s[Chain(n)] /\ t[Pem(n)] = s[Pem(n)]
      /\ t[Ring(n)] = s[Ring(n)] /\ t[Ring(DlgUser[n])] = s[Ring(DlgUser[n])]
  BY DEF Own
<1>2. KeyIn(t, n) = KeyIn(s, n)
  <2>1. KeyPlace(n, s[List(n)]) \in Own(n)
    BY KeyIsOwn DEF Own
  <2> QED BY <1>1, <2>1 DEF KeyIn
<1>3. HasKey(s, n) => HasKey(t, n)
  BY <1>1, <1>2 DEF HasKey
<1>4. Clean(s, n) => Clean(t, n)
  BY <1>1 DEF Clean, Unlisted, OnlyUseful
<1> QED BY <1>3, <1>4

(* A section: what it must see to, write by write, for the invariant to hold  *)
(* after it.  It is about ns and touches what is of ms.                       *)
LEMMA SectionKeeps ==
    ASSUME NamesApart, IInv, NEW ns \in SUBSET Names, NEW ms \in SUBSET Names, ns \subseteq ms,
           NEW S, NEW ws \in Seq(S), Section(ns, ws),
           \A w \in S : \A p \in DOMAIN w : Holds(p, w[p]),
           \A w \in S : \A p \in DOMAIN w : p = Default \/ \E m \in ms : p \in Own(m),
           \A t : Reach(store, ws, t) => \A m \in ms : HasKey(t, m),
           ns \cap interrupted = {} => \A m \in ms \ interrupted : Clean(All(store, ws), m),
           \A t : Reach(store, ws, t) => \A m \in ms \ (ns \cup interrupted) : Clean(t, m),
           DefaultIs(store', interrupted'), Waits'
    PROVE  IInv'
<1>1. Reach(store, ws, store')
  BY SectionIs
<1>2. \/ /\ store' = All(store, ws) /\ cuts' = cuts
         /\ interrupted' = IF ns \cap interrupted # {} THEN interrupted \cup ns ELSE interrupted
      \/ Cut(ns)
  BY SectionIs
<1>3. Typed(store')
  BY <1>1, TypedKeeps DEF IInv
<1>4. interrupted' \subseteq Names /\ cuts' \in 0 .. MaxCuts
  BY <1>2, IdentityAssumption DEF IInv, Cut
<1>5. ASSUME NEW m \in Names, m \notin ms PROVE \A p \in Own(m) : store'[p] = store[p]
  <2>1. ASSUME NEW p \in Own(m) PROVE store'[p] = store[p]
    <3>1. p \in Places /\ p # Default /\ \A k \in ms : p \notin Own(k)
      BY <1>5, OwnApart
    <3>2. \A w \in S : p \notin DOMAIN w
      BY <3>1
    <3> QED BY <1>1, <3>1, <3>2, ReachElse
  <2> QED BY <2>1
<1>6. ASSUME NEW m \in Names PROVE HasKey(store', m)
  BY <1>1, <1>5, SameName DEF IInv
<1>7. ASSUME NEW m \in Names, m \notin interrupted' PROVE Clean(store', m)
  <2>1. m \notin interrupted
    BY <1>2, <1>7 DEF Cut
  <2>2. CASE m \notin ms
    BY <1>5, <2>1, <2>2, SameName DEF IInv
  <2>3. CASE m \in ms /\ m \notin ns
    BY <1>1, <2>1, <2>3
  <2>4. CASE m \in ns
    BY <1>2, <1>7, <2>1, <2>4 DEF Cut
  <2> QED BY <2>2, <2>3, <2>4
<1> QED BY <1>3, <1>4, <1>6, <1>7 DEF IInv

-------------------------------------------------------------------------------
LEMMA CutsGrow ==
    ASSUME NEW ns, NEW S, NEW ws \in Seq(S), Section(ns, ws)
    PROVE  interrupted \subseteq interrupted' /\ (interrupted' = interrupted \/ interrupted' = interrupted \cup ns)
BY SectionIs DEF Cut

(* A section that touches one name.                                           *)
LEMMA OneNameKeeps ==
    ASSUME NamesApart, IInv, NEW n \in Names, NEW ns \in SUBSET {n},
           NEW S, NEW ws \in Seq(S), Section(ns, ws),
           \A w \in S : \A p \in DOMAIN w : Holds(p, w[p]) /\ p \in Own(n),
           \A t : Reach(store, ws, t) => HasKey(t, n),
           n \notin interrupted => Clean(All(store, ws), n),
           ns = {} /\ n \notin interrupted => \A t : Reach(store, ws, t) => Clean(t, n),
           store[Default] = n /\ store[List(n)] # None => store'[List(n)] # None,
           Waits'
    PROVE  IInv'
<1> DEFINE ms == {n}
<1>1. ns \in SUBSET Names /\ ms \in SUBSET Names /\ ns \subseteq ms
  OBVIOUS
<1>2. \A w \in S : \A p \in DOMAIN w : p = Default \/ \E m \in ms : p \in Own(m)
  OBVIOUS
<1>3. \A t : Reach(store, ws, t) => \A m \in ms : HasKey(t, m)
  OBVIOUS
<1>4. ns \cap interrupted = {} => \A m \in ms \ interrupted : Clean(All(store, ws), m)
  OBVIOUS
<1>5. \A t : Reach(store, ws, t) => \A m \in ms \ (ns \cup interrupted) : Clean(t, m)
  <2>1. ns = {} \/ ns = {n}
    OBVIOUS
  <2>2. CASE ns = {}
    BY <2>2
  <2>3. CASE ns = {n}
    BY <2>3
  <2> QED BY <2>1, <2>2, <2>3
<1>6. Reach(store, ws, store') /\ interrupted \subseteq interrupted'
  BY SectionIs, CutsGrow
<1>7. ASSUME NEW p \in Places, p \notin Own(n) PROVE store'[p] = store[p]
  BY <1>6, <1>7, ReachElse
<1>8. DefaultIs(store', interrupted')
  <2>1. store'[Default] = store[Default]
    BY <1>7, Apart, OwnApart
  <2>2. ASSUME NEW m \in Names, m # n PROVE store'[List(m)] = store[List(m)]
    <3>1. List(m) \in Places /\ List(m) \notin Own(n)
      BY <2>2, Apart DEF Own
    <3> QED BY <1>7, <3>1
  <2>3. store[Default] \in Names => store[List(store[Default])] # None \/ store[Default] \in interrupted
    BY DEF IInv, DefaultIs
  <2> QED BY <1>6, <2>1, <2>2, <2>3 DEF DefaultIs
<1>9. \A w \in S : \A p \in DOMAIN w : Holds(p, w[p])
  OBVIOUS
<1> HIDE DEF ms
<1> QED BY <1>1, <1>2, <1>3, <1>4, <1>5, <1>8, <1>9, SectionKeeps

(* A new identity: its material, and then the list.                           *)
LEMMA NewKeeps ==
    ASSUME NamesApart, IInv, NEW n \in Names, n \notin Listed, reauth = None, UNCHANGED reauth,
           NEW S, NEW xs \in Seq(S),
           \A w \in S : \A p \in DOMAIN w : Holds(p, w[p]) /\ p \in Own(n) /\ p # List(n),
           NEW spec, Entry(spec),
           HasKey(Put(All(store, xs), Write(List(n), spec)), n),
           n \notin interrupted => Clean(Put(All(store, xs), Write(List(n), spec)), n),
           Section({n}, xs \o <<Write(List(n), spec)>>)
    PROVE  IInv'
<1> DEFINE lw == Write(List(n), spec)
           ls == <<lw>>
           T == S \cup {lw}
           ws == xs \o ls
           s1 == All(store, xs)
<1>1. xs \in Seq(T) /\ ls \in Seq(T) /\ ws \in Seq(T)
  OBVIOUS
<1>2. DOMAIN lw = {List(n)} /\ lw[List(n)] = spec
  BY OneWrite
<1>3. store[List(n)] = None /\ List(n) \in Places /\ List(n) \in Own(n)
  BY Apart DEF Listed, Own
<1>4. s1 = [p \in Places |-> s1[p]] /\ Reach(store, xs, s1)
  BY AllIsReach, ReachDomain
<1>6. Section({n}, ws)
  OBVIOUS
<1> HIDE DEF lw, ls, T, ws
<1>5. All(store, ws) = Put(s1, lw)
  <2>1. All(s1, ls) = Put(s1, lw)
    BY AllOfOne DEF ls
  <2>2. All(store, ws) = All(s1, ls)
    BY <1>1, AllSplit DEF ws
  <2> QED BY <2>1, <2>2
<1>7. \A w \in T : \A p \in DOMAIN w : Holds(p, w[p]) /\ p \in Own(n)
  BY <1>2, <1>3, HoldsAt DEF T
<1>8. ASSUME NEW t, Reach(store, xs, t) PROVE t[List(n)] = None
  BY <1>3, <1>8, ReachElse
<1>9. ASSUME NEW t, Reach(store, ws, t) PROVE t[List(n)] = None \/ t = Put(s1, lw)
  <2>1. Reach(store, xs, t) \/ Reach(s1, ls, t)
    BY <1>1, <1>9, ReachSplit DEF ws
  <2>2. Reach(s1, ls, t) => t = s1 \/ t = Put(s1, lw)
    BY <1>4, ReachOne DEF ls
  <2> QED BY <1>4, <1>8, <2>1, <2>2
<1>10. \A t : Reach(store, ws, t) => HasKey(t, n)
  BY <1>9 DEF HasKey, lw
<1>11. n \notin interrupted => Clean(All(store, ws), n)
  BY <1>5 DEF lw
<1>12. Waits'
  BY DEF Waits
<1>13. {n} \in SUBSET {n} /\ {n} # {}
  OBVIOUS
<1> HIDE DEF s1
<1> QED BY <1>1, <1>3, <1>6, <1>7, <1>10, <1>11, <1>12, <1>13, OneNameKeeps

(* The five places of a name.                                                 *)
LEMMA Five ==
    ASSUME NamesApart, NEW n \in Names
    PROVE  /\ List(n) \in Places /\ Pem(n) \in Places /\ Chain(n) \in Places
           /\ Ring(n) \in Places /\ Ring(DlgUser[n]) \in Places
           /\ List(n) # Pem(n) /\ List(n) # Chain(n) /\ List(n) # Ring(n) /\ List(n) # Ring(DlgUser[n])
           /\ Pem(n) # Chain(n) /\ Pem(n) # Ring(n) /\ Pem(n) # Ring(DlgUser[n])
           /\ Chain(n) # Ring(n) /\ Chain(n) # Ring(DlgUser[n]) /\ Ring(n) # Ring(DlgUser[n])
           /\ List(n) \in Own(n) /\ Pem(n) \in Own(n) /\ Chain(n) \in Own(n)
           /\ Ring(n) \in Own(n) /\ Ring(DlgUser[n]) \in Own(n)
BY Apart, OwnApart DEF Own

(* A new identity with a key, or with a key and a chain.                      *)
LEMMA WithKeyKeeps ==
    ASSUME NamesApart, IInv, NEW n \in Names, n \notin Listed, reauth = None, UNCHANGED reauth,
           NEW spec, Entry(spec), spec.kind \in {"pem", "keyring", "pending"},
           NEW secret \in Materials, secret.enc = (spec.storage = "pbes2"),
           spec.kind # "pending" => secret.key = spec.who,
           Section({n}, <<Write(KeyPlace(n, spec), secret)>> \o <<Write(List(n), spec)>>)
    PROVE  IInv'
<1> DEFINE kw == Write(KeyPlace(n, spec), secret)
           lw == Write(List(n), spec)
           S == {kw}
           xs == <<kw>>
           s1 == All(store, xs)
           t == Put(s1, lw)
<1>1. xs \in Seq(S)
  OBVIOUS
<1>2. s1 = Put(store, kw)
  BY AllOfOne
<1>3. KeyPlace(n, spec) \in {Pem(n), Ring(n), Ring(DlgUser[n])}
  BY KeyIsOwn
<1>4. \A q \in Places : t[q] = IF q = List(n) THEN spec ELSE IF q = KeyPlace(n, spec) THEN secret ELSE store[q]
  BY <1>2, PutOne
<1>5. DOMAIN kw = {KeyPlace(n, spec)} /\ kw[KeyPlace(n, spec)] = secret
  BY OneWrite
<1>6. Section({n}, xs \o <<lw>>)
  OBVIOUS
<1>7. None \notin Specs /\ spec \in Specs /\ None \notin Materials
  BY IdentityAssumption DEF Entry
<1>8. store[List(n)] = None
  BY DEF Listed
<1>9. \A p \in DOMAIN kw : Holds(p, kw[p]) /\ p \in Own(n) /\ p # List(n)
  BY <1>3, <1>5, Five, HoldsAt
<1> HIDE DEF kw, lw, xs, s1, t
<1>10. \A w \in S : \A p \in DOMAIN w : Holds(p, w[p]) /\ p \in Own(n) /\ p # List(n)
  BY <1>9
<1>11. t[List(n)] = spec /\ KeyIn(t, n) = secret
  BY <1>3, <1>4, Five DEF KeyIn
<1>12. HasKey(t, n)
  BY <1>7, <1>11 DEF HasKey, Delegated
<1>13. ASSUME n \notin interrupted PROVE Clean(t, n)
  <2>1. \A p \in Own(n) : store[p] = None
    BY <1>8, <1>13 DEF IInv, Clean, Unlisted
  <2>2. Unlisted(t, n)
    BY <1>7, <1>11 DEF Unlisted
  <2>3. KeyPlace(n, spec) = IF spec.storage # "keyring" THEN Pem(n)
                            ELSE IF spec.kind = "keyring" THEN Ring(n) ELSE Ring(DlgUser[n])
    BY DEF KeyPlace
  <2>4. spec.kind = "keyring" => spec.storage = "keyring"
    BY DEF Entry
  <2>5. OnlyUseful(t, n)
    BY <1>4, <1>11, <2>1, <2>3, <2>4, Five DEF OnlyUseful
  <2> QED BY <2>2, <2>5 DEF Clean
<1>14. HasKey(Put(s1, lw), n) /\ (n \notin interrupted => Clean(Put(s1, lw), n))
  BY <1>12, <1>13 DEF t
<1> HIDE DEF S
<1> QED BY <1>1, <1>6, <1>10, <1>14, NewKeeps DEF s1, lw

LEMMA WithChainKeeps ==
    ASSUME NamesApart, IInv, NEW n \in Names, n \notin Listed, reauth = None, UNCHANGED reauth,
           NEW spec, Entry(spec), spec.kind \in Delegated,
           NEW secret \in Materials, secret.enc = (spec.storage = "pbes2"),
           NEW links \in Chains, links.root = spec.who,
           Section({n}, <<Write(KeyPlace(n, spec), secret), Write(Chain(n), links)>> \o <<Write(List(n), spec)>>)
    PROVE  IInv'
<1> DEFINE kw == Write(KeyPlace(n, spec), secret)
           cw == Write(Chain(n), links)
           lw == Write(List(n), spec)
           S == {kw, cw}
           xs == <<kw, cw>>
           s1 == All(store, xs)
           t == Put(s1, lw)
<1>1. xs \in Seq(S)
  OBVIOUS
<1>2. s1 = Put(Put(store, kw), cw)
  <2>1. store = [p \in Places |-> store[p]]
    BY DEF IInv, Typed
  <2> QED BY <2>1, ReachTwo
<1>3. KeyPlace(n, spec) \in {Pem(n), Ring(n), Ring(DlgUser[n])}
  BY KeyIsOwn
<1>4. \A q \in Places : t[q] = IF q = List(n) THEN spec ELSE IF q = Chain(n) THEN links
                               ELSE IF q = KeyPlace(n, spec) THEN secret ELSE store[q]
  BY <1>2, PutOne
<1>5. /\ DOMAIN kw = {KeyPlace(n, spec)} /\ kw[KeyPlace(n, spec)] = secret
      /\ DOMAIN cw = {Chain(n)} /\ cw[Chain(n)] = links
  BY OneWrite
<1>6. Section({n}, xs \o <<lw>>)
  OBVIOUS
<1>7. None \notin Specs /\ spec \in Specs /\ None \notin Materials /\ None \notin Chains
  BY IdentityAssumption DEF Entry
<1>8. store[List(n)] = None
  BY DEF Listed
<1>9. /\ \A p \in DOMAIN kw : Holds(p, kw[p]) /\ p \in Own(n) /\ p # List(n)
      /\ \A p \in DOMAIN cw : Holds(p, cw[p]) /\ p \in Own(n) /\ p # List(n)
  BY <1>3, <1>5, Five, HoldsAt
<1> HIDE DEF kw, cw, lw, xs, s1, t
<1>10. \A w \in S : \A p \in DOMAIN w : Holds(p, w[p]) /\ p \in Own(n) /\ p # List(n)
  BY <1>9
<1>11. t[List(n)] = spec /\ KeyIn(t, n) = secret /\ t[Chain(n)] = links
  BY <1>3, <1>4, Five DEF KeyIn
<1>12. HasKey(t, n)
  BY <1>7, <1>11 DEF HasKey, Delegated
<1>13. ASSUME n \notin interrupted PROVE Clean(t, n)
  <2>1. \A p \in Own(n) : store[p] = None
    BY <1>8, <1>13 DEF IInv, Clean, Unlisted
  <2>2. Unlisted(t, n)
    BY <1>7, <1>11 DEF Unlisted
  <2>3. KeyPlace(n, spec) = IF spec.storage # "keyring" THEN Pem(n) ELSE Ring(DlgUser[n])
    BY DEF KeyPlace, Delegated
  <2>4. OnlyUseful(t, n)
    BY <1>4, <1>11, <2>1, <2>3, Five DEF OnlyUseful, Delegated
  <2> QED BY <2>2, <2>4 DEF Clean
<1>14. HasKey(Put(s1, lw), n) /\ (n \notin interrupted => Clean(Put(s1, lw), n))
  BY <1>12, <1>13 DEF t
<1> HIDE DEF S
<1> QED BY <1>1, <1>6, <1>10, <1>14, NewKeeps DEF s1, lw

LEMMA HsmKeeps ==
    ASSUME NamesApart, IInv, NEW n \in Names, reauth = None, link_hsm_identity(n)
    PROVE  IInv'
<1>1. PICK device \in Roots : Section({n}, <<Write(List(n), Spec_("hsm", "plain", device))>>)
  BY DEF link_hsm_identity
<1> DEFINE spec == Spec_("hsm", "plain", device)
           lw == Write(List(n), spec)
           xs == <<>>
           S == {}
           t == Put(All(store, xs), lw)
<1>2. xs \in Seq(S) /\ \A w \in S : \A p \in DOMAIN w : Holds(p, w[p]) /\ p \in Own(n) /\ p # List(n)
  OBVIOUS
<1>3. Entry(spec) /\ spec.kind = "hsm" /\ spec # None
  BY IdentityAssumption DEF Entry, Spec_, Specs
<1>4. All(store, xs) = store
  BY AllOfNone DEF IInv, Typed
<1>5. xs \o <<lw>> = <<lw>>
  BY Pairs
<1>6. Section({n}, <<lw>>)
  BY <1>1
<1> HIDE DEF spec, lw, xs
<1>7. \A q \in Places : t[q] = IF q = List(n) THEN spec ELSE store[q]
  BY <1>4, PutOne DEF lw
<1> HIDE DEF t
<1>8. t[List(n)] = spec
  BY <1>7, Five
<1>9. HasKey(t, n)
  BY <1>3, <1>8 DEF HasKey, Delegated
<1>10. n \notin Listed /\ UNCHANGED reauth
  BY DEF link_hsm_identity
<1>11. ASSUME n \notin interrupted PROVE Clean(t, n)
  <2>1. \A p \in Own(n) : store[p] = None
    BY <1>10, <1>11 DEF IInv, Clean, Unlisted, Listed
  <2> QED BY <1>3, <1>7, <1>8, <2>1, Five DEF Clean, Unlisted, OnlyUseful
<1>12. HasKey(Put(All(store, xs), lw), n) /\ (n \notin interrupted => Clean(Put(All(store, xs), lw), n))
  BY <1>9, <1>11 DEF t
<1>13. Section({n}, xs \o <<lw>>)
  BY <1>5, <1>6
<1> HIDE DEF S
<1> QED BY <1>2, <1>3, <1>10, <1>12, <1>13, NewKeeps DEF lw

LEMMA WebKeeps ==
    ASSUME NamesApart, IInv, NEW n \in Names, reauth = None, link_webauth_identity(n)
    PROVE  IInv'
<1>1. PICK secret \in Unused(Keys), format \in Formats, root \in Roots :
         LET spec == Spec_("webauth", format, root)
         IN  Section({n}, <<Write(KeyPlace(n, spec), Material(secret, format)), Write(Chain(n), Chained(root, secret)),
                            Write(List(n), spec)>>)
  BY DEF link_webauth_identity
<1> DEFINE spec == Spec_("webauth", format, root)
           mat == Material(secret, format)
           links == Chained(root, secret)
<1>2. secret \in AllKeys
  BY DEF Unused, AllKeys
<1>3. Entry(spec) /\ spec.kind \in Delegated /\ spec.who = root /\ spec.storage = format
  BY DEF Entry, Spec_, Specs, Delegated
<1>4. mat \in Materials /\ mat.enc = (format = "pbes2")
  BY <1>2 DEF Material, Materials
<1>5. links \in Chains /\ links.root = root
  BY <1>2 DEF Chained, Chains
<1>6. Section({n}, <<Write(KeyPlace(n, spec), mat), Write(Chain(n), links)>> \o <<Write(List(n), spec)>>)
  BY <1>1, Triples
<1>7. n \notin Listed /\ UNCHANGED reauth
  BY DEF link_webauth_identity
<1> HIDE DEF spec, mat, links
<1> QED BY <1>3, <1>4, <1>5, <1>6, <1>7, WithChainKeeps

LEMMA PendingKeeps ==
    ASSUME NamesApart, IInv, NEW n \in Names, reauth = None, create_pending_delegation(n)
    PROVE  IInv'
<1>1. PICK secret \in Unused(P256), format \in Formats :
         LET spec == Spec_("pending", format, None)
         IN  Section({n}, <<Write(KeyPlace(n, spec), Material(secret, format)), Write(List(n), spec)>>)
  BY DEF create_pending_delegation
<1> DEFINE spec == Spec_("pending", format, None)
           mat == Material(secret, format)
<1>2. secret \in AllKeys
  BY DEF Unused, AllKeys
<1>3. Entry(spec) /\ spec.kind = "pending" /\ spec.storage = format
  BY DEF Entry, Spec_, Specs
<1>4. mat \in Materials /\ mat.enc = (format = "pbes2")
  BY <1>2 DEF Material, Materials
<1>5. Section({n}, <<Write(KeyPlace(n, spec), mat)>> \o <<Write(List(n), spec)>>)
  BY <1>1, Pairs
<1>6. n \notin Listed /\ UNCHANGED reauth
  BY DEF create_pending_delegation
<1> HIDE DEF spec, mat
<1> QED BY <1>3, <1>4, <1>5, <1>6, WithKeyKeeps

(* A step that changes places of one name at once.                            *)
LEMMA TouchKeeps ==
    ASSUME NamesApart, IInv, NEW n \in Names, Typed(store'), \A p \in Places : p \notin Own(n) => store'[p] = store[p],
           HasKey(store', n), interrupted' = interrupted \/ interrupted' = interrupted \cup {n},
           n \notin interrupted' => Clean(store', n), cuts' \in 0 .. MaxCuts,
           store[Default] = n /\ store[List(n)] # None => store'[List(n)] # None, Waits'
    PROVE  IInv'
<1>1. ASSUME NEW m \in Names, m # n PROVE \A p \in Own(m) : store'[p] = store[p]
  <2>1. \A p \in Own(m) : p \in Places /\ p \notin Own(n)
    BY <1>1, OwnApart
  <2> QED BY <2>1
<1>2. ASSUME NEW m \in Names PROVE HasKey(store', m)
  BY <1>1, SameName DEF IInv
<1>3. ASSUME NEW m \in Names, m \notin interrupted' PROVE Clean(store', m)
  BY <1>1, <1>3, SameName DEF IInv
<1>4. DefaultIs(store', interrupted')
  <2>1. store'[Default] = store[Default]
    BY Apart, OwnApart
  <2>2. ASSUME NEW m \in Names, m # n PROVE store'[List(m)] = store[List(m)]
    BY <1>1, <2>2 DEF Own
  <2>3. store[Default] \in Names => store[List(store[Default])] # None \/ store[Default] \in interrupted
    BY DEF IInv, DefaultIs
  <2> QED BY <2>1, <2>2, <2>3 DEF DefaultIs
<1>5. interrupted' \subseteq Names
  BY DEF IInv
<1> QED BY <1>2, <1>3, <1>4, <1>5 DEF IInv

LEMMA RollBackKeeps ==
    ASSUME NamesApart, IInv, NEW n \in Names, n \notin Listed, reauth = None, UNCHANGED reauth,
           NEW links \in Chains, CreateRolledBack(n, links)
    PROVE  IInv'
<1>1. store[List(n)] = None /\ store = [p \in Places |-> store[p]] /\ \A p \in Places : Holds(p, store[p])
  BY DEF Listed, IInv, Typed
<1>2. PICK c \in {store[Chain(n)], links} : store' = [store EXCEPT ![Ring(DlgUser[n])] = None, ![Chain(n)] = c]
  BY <1>1, Five DEF CreateRolledBack
<1>3. \A p \in Places : store'[p] = IF p = Chain(n) THEN c ELSE IF p = Ring(DlgUser[n]) THEN None ELSE store[p]
  BY <1>1, <1>2, Five
<1>4. Holds(Chain(n), c) /\ Holds(Ring(DlgUser[n]), None)
  BY <1>1, <1>2, Five, HoldsAt
<1>5. Typed(store')
  <2>1. store' = [p \in Places |-> store'[p]]
    BY <1>1, <1>2
  <2> QED BY <1>1, <1>3, <1>4, <2>1 DEF Typed
<1>6. \A p \in Places : p \notin Own(n) => store'[p] = store[p]
  BY <1>3, Five
<1>7. HasKey(store', n)
  BY <1>1, <1>3, Five DEF HasKey
<1>8. interrupted' = interrupted \cup {n} /\ cuts' \in 0 .. MaxCuts
  BY IdentityAssumption DEF CreateRolledBack, Cut, IInv
<1>9. Waits'
  BY DEF Waits
<1> QED BY <1>1, <1>5, <1>6, <1>7, <1>8, <1>9, TouchKeeps

LEMMA ChainedIs ==
    ASSUME NEW root \in AllKeys \cup Roots, NEW leaf \in AllKeys
    PROVE  /\ Chained(root, leaf) \in Chains /\ Chained(root, leaf) # None
           /\ Chained(root, leaf).root = root /\ Chained(root, leaf).leaf = leaf
<1>1. Chained(root, leaf) \in Chains
  BY DEF Chained, Chains
<1>2. None \notin Chains
  BY IdentityAssumption
<1>3. Chained(root, leaf).root = root /\ Chained(root, leaf).leaf = leaf
  BY DEF Chained
<1> QED BY <1>1, <1>2, <1>3

LEMMA CreateKeeps ==
    ASSUME NamesApart, IInv, NEW n \in Names, reauth = None, Create(n)
    PROVE  IInv'
<1>1. ASSUME NEW format \in Formats, NEW secret \in Unused(Keys), create_identity(n, secret, format, None) PROVE IInv'
  <2> DEFINE spec == Spec_(IF format = "keyring" THEN "keyring" ELSE "pem", format, secret)
             mat == Material(secret, format)
  <2>1. secret \in AllKeys
    BY DEF Unused, AllKeys
  <2>2. Entry(spec) /\ spec.kind \in {"pem", "keyring", "pending"} /\ spec.storage = format /\ spec.who = secret
    BY <2>1 DEF Entry, Spec_, Specs
  <2>3. mat \in Materials /\ mat.enc = (format = "pbes2") /\ mat.key = secret
    BY <2>1 DEF Material, Materials
  <2>4. Section({n}, (<<Write(KeyPlace(n, spec), mat)>> \o <<>>) \o <<Write(List(n), spec)>>)
    BY <1>1 DEF create_identity, CreateWrites, NewSpec
  <2>5. Section({n}, <<Write(KeyPlace(n, spec), mat)>> \o <<Write(List(n), spec)>>)
    BY <2>4, Pairs
  <2>6. n \notin Listed /\ UNCHANGED reauth
    BY <1>1 DEF create_identity
  <2> HIDE DEF spec, mat
  <2> QED BY <2>2, <2>3, <2>5, <2>6, WithKeyKeeps
<1>2. ASSUME NEW format \in Formats, NEW secret \in Unused(P256), NEW root \in Roots,
             create_identity(n, secret, format, Chained(root, secret))
      PROVE  IInv'
  <2> DEFINE links == Chained(root, secret)
             spec == Spec_("delegation", format, root)
             mat == Material(secret, format)
  <2>1. secret \in AllKeys
    BY DEF Unused, AllKeys
  <2>2. Entry(spec) /\ spec.kind \in Delegated /\ spec.storage = format /\ spec.who = root
    BY <2>1 DEF Entry, Spec_, Specs, Delegated
  <2>3. mat \in Materials /\ mat.enc = (format = "pbes2")
    BY <2>1 DEF Material, Materials
  <2>4. links \in Chains /\ links.root = root /\ links # None
    BY <2>1, ChainedIs
  <2>5. NewSpec(secret, format, links) = spec
    BY <2>4 DEF NewSpec
  <2>6. \/ Section({n}, CreateWrites(n, secret, format, links))
        \/ CreateRolledBack(n, links)
    BY <1>2 DEF create_identity
  <2>7. n \notin Listed /\ UNCHANGED reauth
    BY <1>2 DEF create_identity
  <2> HIDE DEF links, spec, mat
  <2>8. CASE CreateRolledBack(n, links)
    BY <2>4, <2>7, <2>8, RollBackKeeps
  <2>9. CASE Section({n}, CreateWrites(n, secret, format, links))
    <3>1. CreateWrites(n, secret, format, links) =
              (<<Write(KeyPlace(n, spec), mat)>> \o <<Write(Chain(n), links)>>) \o <<Write(List(n), spec)>>
      BY <2>4, <2>5 DEF CreateWrites, mat
    <3>2. Section({n}, <<Write(KeyPlace(n, spec), mat), Write(Chain(n), links)>> \o <<Write(List(n), spec)>>)
      BY <2>9, <3>1, Pairs
    <3> QED BY <2>2, <2>3, <2>4, <2>7, <3>2, WithChainKeeps
  <2> QED BY <2>6, <2>8, <2>9
<1> QED BY <1>1, <1>2 DEF Create

(* delegation use: the chain goes first, which a pending identity ignores.    *)
LEMMA CompleteKeeps ==
    ASSUME NamesApart, IInv, NEW n \in Names, reauth = None, complete_delegation(n)
    PROVE  IInv'
<1>1. PICK root \in Roots, leaf \in P256 :
         Section({n}, <<Write(Chain(n), Chained(root, leaf)), Write(List(n), Spec_("delegation", Format(n), root))>>)
  BY DEF complete_delegation
<1> DEFINE old == store[List(n)]
           spec == Spec_("delegation", Format(n), root)
           links == Chained(root, leaf)
           cw == Write(Chain(n), links)
           lw == Write(List(n), spec)
           ws == <<cw, lw>>
           S == {cw, lw}
<1>2. old # None /\ old.kind = "pending" /\ UNCHANGED reauth
  BY DEF complete_delegation, Listed, Kind
<1>3. Entry(old) /\ store = [p \in Places |-> store[p]] /\ \A p \in Places : Holds(p, store[p])
  BY <1>2, Five DEF IInv, Typed, Holds
<1>4. Entry(spec) /\ spec.kind = "delegation" /\ spec.who = root /\ spec.storage = old.storage /\ spec # None
  BY <1>3, IdentityAssumption DEF Entry, Spec_, Specs, Format
<1>5. links \in Chains /\ links.root = root /\ links # None
  BY ChainedIs DEF AllKeys
<1>6. ws \in Seq(S) /\ Section({n}, ws)
  BY <1>1
<1>7. /\ DOMAIN cw = {Chain(n)} /\ cw[Chain(n)] = links
      /\ DOMAIN lw = {List(n)} /\ lw[List(n)] = spec
  BY OneWrite
<1> DEFINE s1 == Put(store, cw)
           s2 == Put(s1, lw)
<1>8. All(store, ws) = s2 /\ \A t : Reach(store, ws, t) => t = store \/ t = s1 \/ t = s2
  BY <1>3, ReachTwo
<1>9. /\ \A q \in Places : s1[q] = IF q = Chain(n) THEN links ELSE store[q]
      /\ \A q \in Places : s2[q] = IF q = List(n) THEN spec ELSE s1[q]
  BY PutOne
<1> HIDE DEF old, spec, links, cw, lw, ws, s1, s2
<1>10. \A w \in S : \A p \in DOMAIN w : Holds(p, w[p]) /\ p \in Own(n)
  BY <1>4, <1>5, <1>7, Five, HoldsAt
<1>11. KeyPlace(n, spec) = KeyPlace(n, old)
  BY <1>2, <1>4 DEF KeyPlace
<1>12. KeyPlace(n, old) \in {Pem(n), Ring(n), Ring(DlgUser[n])}
  BY KeyIsOwn
<1>13. /\ s1[List(n)] = old /\ KeyIn(s1, n) = KeyIn(store, n)
       /\ s2[List(n)] = spec /\ KeyIn(s2, n) = KeyIn(store, n) /\ s2[Chain(n)] = links
  BY <1>9, <1>11, <1>12, Five DEF KeyIn, old
<1>14. HasKey(store, n)
  BY DEF IInv
<1>15. KeyIn(store, n) # None /\ KeyIn(store, n).enc = (old.storage = "pbes2")
  BY <1>2, <1>14 DEF HasKey, old
<1>16. HasKey(s1, n) /\ HasKey(s2, n)
  BY <1>2, <1>4, <1>5, <1>13, <1>15 DEF HasKey, Delegated
<1>17. ASSUME n \notin interrupted PROVE Clean(s2, n)
  <2>1. OnlyUseful(store, n)
    BY <1>17 DEF IInv, Clean
  <2>2. OnlyUseful(s2, n)
    BY <1>2, <1>4, <1>9, <1>13, <2>1, Five DEF OnlyUseful, old
  <2> QED BY <1>4, <1>13, <2>2 DEF Clean, Unlisted
<1>18. \A t : Reach(store, ws, t) => HasKey(t, n)
  BY <1>8, <1>14, <1>16
<1>19. {n} \in SUBSET {n} /\ {n} # {}
  OBVIOUS
<1>20. store'[List(n)] # None
  <2>1. Reach(store, ws, store')
    BY <1>6, SectionIs
  <2> QED BY <1>2, <1>4, <1>8, <1>13, <2>1 DEF old
<1>21. Waits'
  BY <1>2 DEF Waits
<1> HIDE DEF S
<1> QED BY <1>6, <1>8, <1>10, <1>17, <1>18, <1>19, <1>20, <1>21, OneNameKeeps

(* The default: the name was listed.                                          *)
LEMMA DefaultKeeps ==
    ASSUME NamesApart, IInv, NEW n \in Names \cup {Anonymous}, reauth = None, change_default_identity(n)
    PROVE  IInv'
<1> DEFINE w == Write(Default, n)
           ws == <<w>>
           S == {w}
<1>1. Section({}, ws) /\ UNCHANGED reauth /\ n \in Listed \cup {Anonymous}
  BY DEF change_default_identity
<1>2. ws \in Seq(S) /\ DOMAIN w = {Default} /\ w[Default] = n
  BY OneWrite
<1>3. store = [p \in Places |-> store[p]]
  BY DEF IInv, Typed
<1>4. Reach(store, ws, store')
  BY <1>1, <1>2, SectionIs
<1>5. store' = store \/ store' = Put(store, w)
  BY <1>3, <1>4, ReachOne
<1>6. \A q \in Places : Put(store, w)[q] = IF q = Default THEN n ELSE store[q]
  BY PutOne
<1> HIDE DEF w, ws
<1>7. interrupted \subseteq interrupted'
  BY <1>1, <1>2, CutsGrow
<1>8. DefaultIs(store', interrupted')
  <2>1. \A m \in Names : store'[List(m)] = store[List(m)]
    BY <1>5, <1>6, Apart
  <2>2. store'[Default] = store[Default] \/ store'[Default] = n
    BY <1>5, <1>6, Apart
  <2>3. store[Default] \in Names => store[List(store[Default])] # None \/ store[Default] \in interrupted
    BY DEF IInv, DefaultIs
  <2>4. n \in Names => store[List(n)] # None
    BY <1>1, IdentityAssumption DEF Listed
  <2> QED BY <1>7, <2>1, <2>2, <2>3, <2>4 DEF DefaultIs
<1>9. Waits'
  BY <1>1 DEF Waits
<1>10. \A v \in S : \A p \in DOMAIN v : Holds(p, v[p]) /\ p = Default
  BY <1>2, HoldsAt
<1> DEFINE none == {}
<1>11. none \in SUBSET Names /\ none \subseteq none /\ \A m \in none : FALSE
  OBVIOUS
<1>12. Section(none, ws)
  BY <1>1
<1> HIDE DEF none, S
<1>13. \A v \in S : \A p \in DOMAIN v : Holds(p, v[p])
  BY <1>10
<1>14. \A v \in S : \A p \in DOMAIN v : p = Default \/ \E m \in none : p \in Own(m)
  BY <1>10
<1>15. \A t : Reach(store, ws, t) => \A m \in none : HasKey(t, m)
  BY <1>11
<1>16. none \cap interrupted = {} => \A m \in none \ interrupted : Clean(All(store, ws), m)
  BY <1>11
<1>17. \A t : Reach(store, ws, t) => \A m \in none \ (none \cup interrupted) : Clean(t, m)
  BY <1>11
<1> QED BY <1>2, <1>8, <1>9, <1>11, <1>12, <1>13, <1>14, <1>15, <1>16, <1>17, SectionKeeps

(* Where something was not there, or was written away, nothing is there.      *)
LEMMA StaysNone ==
    ASSUME NEW s, NEW S, NEW ws \in Seq(S), NEW t, Reach(s, ws, t), NEW p \in Places, s[p] = None,
           \A w \in S : p \in DOMAIN w => w[p] = None
    PROVE  t[p] = None
BY ReachHolds

(* A write that is made under a condition.                                    *)
May(c, w) == IF c THEN <<w>> ELSE <<>>

LEMMA MayIs ==
    ASSUME NEW s, s = [p \in Places |-> s[p]], NEW c \in BOOLEAN, NEW w
    PROVE  /\ \A S : w \in S => May(c, w) \in Seq(S)
           /\ All(s, May(c, w)) = IF c THEN Put(s, w) ELSE s
           /\ \A t : Reach(s, May(c, w), t) => t = s \/ (c /\ t = Put(s, w))
<1>1. CASE c
  BY <1>1, AllOfOne, ReachOne DEF May
<1>2. CASE ~c
  BY <1>2, AllOfNone, ReachNone DEF May
<1> QED BY <1>1, <1>2

LEMMA AllTyped == ASSUME NEW s, NEW ws PROVE All(s, ws) = [p \in Places |-> All(s, ws)[p]]
BY DEF All, AfterFrom

(* Two such writes.                                                           *)
LEMMA TwoMay ==
    ASSUME NEW s, s = [p \in Places |-> s[p]], NEW c \in BOOLEAN, NEW v, NEW d \in BOOLEAN, NEW w
    PROVE  LET ws == May(c, v) \o May(d, w)
               s1 == IF c THEN Put(s, v) ELSE s
               s2 == IF d THEN Put(s1, w) ELSE s1
           IN  /\ \A S : v \in S /\ w \in S => ws \in Seq(S)
               /\ All(s, ws) = s2
               /\ \A t : Reach(s, ws, t) => t = s \/ t = s1 \/ t = s2
<1> DEFINE xs == May(c, v)
           ys == May(d, w)
           ws == xs \o ys
           S == {v, w}
           s1 == IF c THEN Put(s, v) ELSE s
           s2 == IF d THEN Put(s1, w) ELSE s1
<1>1. xs \in Seq(S) /\ ys \in Seq(S)
  BY MayIs
<1>2. s1 = [p \in Places |-> s1[p]]
  BY PutTyped
<1>3. All(s, xs) = s1 /\ \A t : Reach(s, xs, t) => t = s \/ t = s1
  BY MayIs
<1>4. All(s1, ys) = s2 /\ \A t : Reach(s1, ys, t) => t = s1 \/ t = s2
  <2> HIDE DEF s1
  <2> QED BY <1>2, MayIs
<1>5. ASSUME NEW R, v \in R, w \in R PROVE ws \in Seq(R)
  <2>1. xs \in Seq(R) /\ ys \in Seq(R)
    BY <1>5, MayIs
  <2> HIDE DEF xs, ys
  <2> QED BY <2>1, ConcatProperties
<1> HIDE DEF xs, ys, s1, s2, S
<1>6. All(s, ws) = s2
  BY <1>1, <1>3, <1>4, AllSplit
<1>7. \A t : Reach(s, ws, t) => t = s \/ t = s1 \/ t = s2
  BY <1>1, <1>3, <1>4, ReachSplit
<1> QED BY <1>5, <1>6, <1>7 DEF xs, ys, s1, s2

(* What goes with an identity.                                                *)
Dropped(n, spec) == (IF spec.kind = "hsm" THEN {} ELSE {KeyPlace(n, spec)})
                    \cup (IF spec.kind \in Delegated THEN {Chain(n)} ELSE {})

LEMMA DropsAre ==
    ASSUME NEW s, s = [p \in Places |-> s[p]], NEW n \in Names, NEW spec
    PROVE  /\ \A S : Write(KeyPlace(n, spec), None) \in S /\ Write(Chain(n), None) \in S => Drops(n, spec) \in Seq(S)
           /\ \A q \in Places : All(s, Drops(n, spec))[q] = IF q \in Dropped(n, spec) THEN None ELSE s[q]
           /\ \A t : Reach(s, Drops(n, spec), t) => \A q \in Places : t[q] = s[q] \/ (t[q] = None /\ q \in Dropped(n, spec))
<1> DEFINE c == spec.kind # "hsm"
           d == spec.kind \in Delegated
           v == Write(KeyPlace(n, spec), None)
           w == Write(Chain(n), None)
           s1 == IF c THEN Put(s, v) ELSE s
           s2 == IF d THEN Put(s1, w) ELSE s1
<1>1. Drops(n, spec) = May(c, v) \o May(d, w)
  BY DEF Drops, May
<1>2. c \in BOOLEAN /\ d \in BOOLEAN
  BY DEF Delegated
<1>3. ASSUME NEW q \in Places
      PROVE  /\ s1[q] = IF c /\ q = KeyPlace(n, spec) THEN None ELSE s[q]
             /\ s2[q] = IF d /\ q = Chain(n) THEN None ELSE s1[q]
  BY PutOne
<1>4. \A q : q \in Dropped(n, spec) <=> (c /\ q = KeyPlace(n, spec)) \/ (d /\ q = Chain(n))
  BY DEF Dropped
<1> HIDE DEF v, w, c, d
<1>5. /\ \A S : v \in S /\ w \in S => May(c, v) \o May(d, w) \in Seq(S)
      /\ All(s, May(c, v) \o May(d, w)) = s2
      /\ \A t : Reach(s, May(c, v) \o May(d, w), t) => t = s \/ t = s1 \/ t = s2
  BY <1>2, TwoMay
<1> HIDE DEF s1, s2
<1>6. \A q \in Places : s2[q] = IF q \in Dropped(n, spec) THEN None ELSE s[q]
  BY <1>3, <1>4
<1>7. \A q \in Places : s1[q] = s[q] \/ (s1[q] = None /\ q \in Dropped(n, spec))
  BY <1>3, <1>4
<1>8. ASSUME NEW t, Reach(s, Drops(n, spec), t), NEW q \in Places
      PROVE  t[q] = s[q] \/ (t[q] = None /\ q \in Dropped(n, spec))
  BY <1>1, <1>5, <1>6, <1>7, <1>8
<1> QED BY <1>1, <1>5, <1>6, <1>8 DEF v, w

(* delete: what is not on the list needs no key, and at the end nothing is    *)
(* left.                                                                      *)
LEMMA DeleteKeeps ==
    ASSUME NamesApart, IInv, NEW n \in Names, reauth = None, delete_identity(n)
    PROVE  IInv'
<1> DEFINE spec == store[List(n)]
           lw == Write(List(n), None)
           kw == Write(KeyPlace(n, spec), None)
           cw == Write(Chain(n), None)
           rw == Write(Ring(DlgUser[n]), None)
           S == {lw, kw, cw, rw}
           ls == <<lw>>
           ds == Drops(n, spec)
           rs == SessionDrops(n)
           xs == ls \o ds
           ws == xs \o rs
           s1 == Put(store, lw)
           s2 == All(s1, ds)
           s3 == All(s2, rs)
<1>1. Section({n}, ws) /\ UNCHANGED reauth /\ n \in Listed /\ store[Default] # n
  BY DEF delete_identity
<1>2. spec # None /\ store = [p \in Places |-> store[p]] /\ \A p \in Places : Holds(p, store[p])
  BY <1>1 DEF Listed, IInv, Typed
<1>3. s1 = [p \in Places |-> s1[p]] /\ s2 = [p \in Places |-> s2[p]]
  BY PutTyped, AllTyped
<1>4. /\ DOMAIN lw = {List(n)} /\ lw[List(n)] = None /\ DOMAIN kw = {KeyPlace(n, spec)} /\ kw[KeyPlace(n, spec)] = None
      /\ DOMAIN cw = {Chain(n)} /\ cw[Chain(n)] = None /\ DOMAIN rw = {Ring(DlgUser[n])} /\ rw[Ring(DlgUser[n])] = None
  BY OneWrite
<1>5. KeyPlace(n, spec) \in {Pem(n), Ring(n), Ring(DlgUser[n])}
  BY KeyIsOwn
<1>6. rs = (IF spec.kind = "pem" THEN <<rw, cw>> ELSE <<>>)
  BY DEF SessionDrops, Kind
<1>7. \A q \in Places : s1[q] = IF q = List(n) THEN None ELSE store[q]
  BY PutOne
<1>8. All(store, ls) = s1 /\ \A t : Reach(store, ls, t) => t = store \/ t = s1
  BY <1>2, AllOfOne, ReachOne
<1> HIDE DEF spec, lw, kw, cw, rw, s1, rs
<1>9. ls \in Seq(S) /\ rs \in Seq(S)
  <2>1. ls \in Seq(S) /\ <<rw, cw>> \in Seq(S) /\ <<>> \in Seq(S)
    OBVIOUS
  <2> QED BY <1>6, <2>1
<1> HIDE DEF ls
<1>10. ds \in Seq(S)
  BY <1>3, DropsAre DEF S, kw, cw
<1>11. \A q \in Places : s2[q] = IF q \in Dropped(n, spec) THEN None ELSE s1[q]
  BY <1>3, DropsAre
<1>12. \A q \in Places : s3[q] = IF spec.kind = "pem" /\ q \in {Ring(DlgUser[n]), Chain(n)} THEN None ELSE s2[q]
  <2>1. CASE spec.kind = "pem"
    <3>1. s3 = Put(Put(s2, rw), cw)
      BY <1>3, <1>6, <2>1, ReachTwo
    <3>2. \A q \in Places : /\ Put(Put(s2, rw), cw)[q] = IF q = Chain(n) THEN None ELSE Put(s2, rw)[q]
                            /\ Put(s2, rw)[q] = IF q = Ring(DlgUser[n]) THEN None ELSE s2[q]
      BY PutOne DEF rw, cw
    <3> QED BY <2>1, <3>1, <3>2
  <2>2. CASE spec.kind # "pem"
    <3>1. s3 = s2
      BY <1>3, <1>6, <2>2, AllOfNone
    <3> QED BY <2>2, <3>1
  <2> QED BY <2>1, <2>2
<1> HIDE DEF ds
<1>13. xs \in Seq(S) /\ ws \in Seq(S)
  BY <1>9, <1>10, ConcatProperties
<1>14. \A w \in S : \A p \in DOMAIN w : Holds(p, w[p]) /\ p \in Own(n) /\ w[p] = None
  BY <1>4, <1>5, Five, HoldsAt
<1>15. All(store, xs) = s2
  BY <1>8, <1>9, <1>10, AllSplit
<1> HIDE DEF s2, S
<1>16. All(store, ws) = s3
  <2> HIDE DEF xs
  <2> QED BY <1>9, <1>13, <1>15, AllSplit
<1>17. s1[List(n)] = None /\ s2[List(n)] = None
  <2>1. s1[List(n)] = None
    BY <1>7, Five
  <2> QED BY <1>11, <2>1, Five
<1>18. ASSUME NEW t, Reach(store, ws, t) PROVE t = store \/ t[List(n)] = None
  <2>1. Reach(store, xs, t) \/ Reach(s2, rs, t)
    <3> HIDE DEF xs
    <3> QED BY <1>9, <1>13, <1>15, <1>18, ReachSplit
  <2>2. CASE Reach(s2, rs, t)
    BY <1>9, <1>14, <1>17, <2>2, StaysNone, Five
  <2>3. CASE Reach(store, xs, t)
    <3>1. Reach(store, ls, t) \/ Reach(s1, ds, t)
      BY <1>8, <1>9, <1>10, <2>3, ReachSplit
    <3>2. CASE Reach(s1, ds, t)
      BY <1>10, <1>14, <1>17, <3>2, StaysNone, Five
    <3> QED BY <1>8, <1>17, <3>1, <3>2
  <2> QED BY <2>1, <2>2, <2>3
<1>19. \A t : Reach(store, ws, t) => HasKey(t, n)
  BY <1>18 DEF HasKey, IInv
<1>20. ASSUME n \notin interrupted PROVE Clean(s3, n)
  <2>1. OnlyUseful(store, n)
    BY <1>20 DEF IInv, Clean
  <2>2. Entry(spec)
    BY <1>2, Five DEF Holds, spec
  <2>3. KeyPlace(n, spec) = IF spec.storage # "keyring" THEN Pem(n)
                            ELSE IF spec.kind = "keyring" THEN Ring(n) ELSE Ring(DlgUser[n])
    BY DEF KeyPlace
  <2>4. spec.kind \in {"pem", "keyring", "hsm", "webauth", "pending", "delegation"}
    BY <2>2 DEF Entry, Specs
  <2>5. (spec.kind = "keyring" => spec.storage = "keyring") /\ (spec.kind = "pem" => spec.storage # "keyring")
    BY <2>2 DEF Entry
  <2>6. \A q \in Places : s3[q] = IF spec.kind = "pem" /\ q \in {Ring(DlgUser[n]), Chain(n)} THEN None
                                  ELSE IF q \in Dropped(n, spec) \/ q = List(n) THEN None ELSE store[q]
    BY <1>7, <1>11, <1>12
  <2>7. s3[List(n)] = None
    BY <2>6, Five
  <2>8. s3[Pem(n)] = None
    BY <1>2, <2>1, <2>3, <2>6, Five DEF OnlyUseful, Dropped, spec
  <2>9. s3[Ring(n)] = None
    BY <1>2, <2>1, <2>3, <2>5, <2>6, Five DEF OnlyUseful, Dropped, spec
  <2>10. s3[Ring(DlgUser[n])] = None
    BY <1>2, <2>1, <2>3, <2>4, <2>6, Five DEF OnlyUseful, Dropped, spec
  <2>11. s3[Chain(n)] = None
    BY <1>2, <2>1, <2>4, <2>6, Five DEF OnlyUseful, Dropped, Delegated, spec
  <2> QED BY <2>7, <2>8, <2>9, <2>10, <2>11 DEF Clean, Unlisted, OnlyUseful, Own
<1>21. n \notin interrupted => Clean(All(store, ws), n)
  BY <1>16, <1>20
<1>22. Waits'
  BY <1>1 DEF Waits
<1>23. {n} \in SUBSET {n} /\ {n} # {}
  OBVIOUS
<1>24. \A w \in S : \A p \in DOMAIN w : Holds(p, w[p]) /\ p \in Own(n)
  BY <1>14
<1> HIDE DEF ws
<1> QED BY <1>1, <1>13, <1>19, <1>21, <1>22, <1>23, <1>24, OneNameKeeps

(* A session of a PEM identity: its places are only for sessions, and the     *)
(* chain is signed by the key of the identity.                                *)
LEMMA SessionEndsWell ==
    ASSUME NamesApart, IInv, NEW n \in Names, NEW t, Typed(t), store[List(n)] # None, store[List(n)].kind = "pem",
           \A p \in Places : p # Ring(DlgUser[n]) /\ p # Chain(n) => t[p] = store[p],
           t[Chain(n)] = store[Chain(n)] \/ t[Chain(n)].root = store[List(n)].who
    PROVE  HasKey(t, n) /\ (n \notin interrupted => Clean(t, n))
<1> DEFINE spec == store[List(n)]
<1>1. t[List(n)] = spec /\ t[Pem(n)] = store[Pem(n)] /\ t[Ring(n)] = store[Ring(n)]
  BY Five
<1>2. Entry(spec)
  BY Five DEF IInv, Typed, Holds
<1>3. KeyPlace(n, spec) = Pem(n)
  BY <1>2 DEF KeyPlace, Entry
<1>4. HasKey(store, n) /\ (n \notin interrupted => OnlyUseful(store, n))
  BY DEF IInv, Clean
<1>5. HasKey(t, n)
  BY <1>1, <1>3, <1>4 DEF HasKey, KeyIn, Delegated
<1>6. ASSUME n \notin interrupted PROVE Clean(t, n)
  <2>1. OnlyUseful(t, n)
    BY <1>1, <1>4, <1>6 DEF OnlyUseful
  <2> QED BY <1>1, <2>1 DEF Clean, Unlisted
<1> QED BY <1>5, <1>6

LEMMA SessionKeeps ==
    ASSUME NamesApart, IInv, NEW n \in Names, store[List(n)] # None, store[List(n)].kind = "pem",
           NEW place, place.key = store[List(n)].who, create_pem_session(n, place), Waits'
    PROVE  IInv'
<1> DEFINE spec == store[List(n)]
<1>1. store = [p \in Places |-> store[p]] /\ \A p \in Places : Holds(p, store[p])
  BY DEF IInv, Typed
<1>2. Entry(spec)
  BY <1>1, Five DEF Holds
<1>3. place.key \in AllKeys
  BY <1>2 DEF Entry
<1>4. ASSUME NEW secret \in Unused(P256),
             Section({}, <<Write(Ring(DlgUser[n]), Material(secret, "keyring")), Write(Chain(n), Chained(place.key, secret))>>)
      PROVE  IInv'
  <2> DEFINE mat == Material(secret, "keyring")
             links == Chained(place.key, secret)
             rw == Write(Ring(DlgUser[n]), mat)
             cw == Write(Chain(n), links)
             ws == <<rw, cw>>
             S == {rw, cw}
             s1 == Put(store, rw)
             s2 == Put(s1, cw)
             none == {}
  <2>1. secret \in AllKeys
    BY DEF Unused, AllKeys
  <2>2. mat \in Materials
    BY <2>1 DEF Material, Materials
  <2>3. links \in Chains /\ links.root = spec.who
    BY <1>3, <2>1, ChainedIs
  <2>4. Section(none, ws) /\ ws \in Seq(S) /\ none \in SUBSET {n}
    BY <1>4
  <2>5. /\ DOMAIN rw = {Ring(DlgUser[n])} /\ rw[Ring(DlgUser[n])] = mat
        /\ DOMAIN cw = {Chain(n)} /\ cw[Chain(n)] = links
    BY OneWrite
  <2>6. All(store, ws) = s2 /\ \A t : Reach(store, ws, t) => t = store \/ t = s1 \/ t = s2
    BY <1>1, ReachTwo
  <2>7. /\ \A q \in Places : s1[q] = IF q = Ring(DlgUser[n]) THEN mat ELSE store[q]
        /\ \A q \in Places : s2[q] = IF q = Chain(n) THEN links ELSE s1[q]
    BY PutOne
  <2> HIDE DEF mat, links, rw, cw, s1, s2, ws
  <2>8. \A w \in S : \A p \in DOMAIN w : Holds(p, w[p]) /\ p \in Own(n)
    BY <2>2, <2>3, <2>5, Five, HoldsAt
  <2>9. \A w \in S : \A p \in DOMAIN w : Holds(p, w[p])
    BY <2>8
  <2> HIDE DEF S, none
  <2>10. ASSUME NEW t, Reach(store, ws, t) PROVE HasKey(t, n) /\ (n \notin interrupted => Clean(t, n))
    <3>1. Typed(t)
      BY <2>4, <2>9, <2>10, TypedKeeps DEF IInv
    <3>2. \A p \in Places : p # Ring(DlgUser[n]) /\ p # Chain(n) => t[p] = store[p]
      BY <2>6, <2>7, <2>10
    <3>3. t[Chain(n)] = store[Chain(n)] \/ t[Chain(n)].root = spec.who
      BY <2>3, <2>6, <2>7, <2>10, Five
    <3> QED BY <3>1, <3>2, <3>3, SessionEndsWell
  <2>11. Reach(store, ws, s2)
    BY <2>4, <2>6, AllIsReach
  <2>12. n \notin interrupted => Clean(All(store, ws), n)
    BY <2>6, <2>10, <2>11
  <2>13. \A t : Reach(store, ws, t) => HasKey(t, n)
    BY <2>10
  <2>14. none = {} /\ n \notin interrupted => \A t : Reach(store, ws, t) => Clean(t, n)
    BY <2>10
  <2>15. Reach(store, ws, store')
    BY <2>4, SectionIs
  <2>16. store'[List(n)] # None
    BY <2>6, <2>7, <2>15, Five
  <2> QED BY <2>4, <2>8, <2>12, <2>13, <2>14, <2>16, OneNameKeeps
<1>5. ASSUME store' = [store EXCEPT ![Ring(DlgUser[n])] = None], Cut({}) PROVE IInv'
  <2>1. \A p \in Places : store'[p] = IF p = Ring(DlgUser[n]) THEN None ELSE store[p]
    BY <1>1, <1>5, Five
  <2>2. Typed(store')
    <3>1. store' = [p \in Places |-> store'[p]]
      BY <1>1, <1>5
    <3>2. Holds(Ring(DlgUser[n]), None)
      BY HoldsAt
    <3> QED BY <1>1, <2>1, <3>1, <3>2 DEF Typed
  <2>3. interrupted' = interrupted /\ cuts' \in 0 .. MaxCuts
    BY <1>5, IdentityAssumption DEF Cut, IInv
  <2>4. \A p \in Places : p # Ring(DlgUser[n]) /\ p # Chain(n) => store'[p] = store[p]
    BY <2>1
  <2>5. store'[Chain(n)] = store[Chain(n)] /\ store'[List(n)] = store[List(n)]
    BY <2>1, Five
  <2>6. HasKey(store', n) /\ (n \notin interrupted => Clean(store', n))
    BY <2>2, <2>4, <2>5, SessionEndsWell
  <2>7. \A p \in Places : p \notin Own(n) => store'[p] = store[p]
    BY <2>1, Five
  <2>8. (interrupted' = interrupted \/ interrupted' = interrupted \cup {n}) /\ (n \notin interrupted' => Clean(store', n))
    BY <2>3, <2>6
  <2> QED BY <2>2, <2>3, <2>5, <2>6, <2>7, <2>8, TouchKeeps
<1> QED BY <1>4, <1>5 DEF create_pem_session

LEMMA LoadKeeps ==
    ASSUME NamesApart, IInv, NEW n \in Names, reauth = None, Load(n)
    PROVE  IInv'
<1>1. /\ store[List(n)] # None /\ store[List(n)].kind = "pem" /\ create_pem_session(n, KeyOf(n)) /\ UNCHANGED reauth
  BY DEF Load, Listed, Kind
<1>2. KeyOf(n).key = store[List(n)].who
  BY <1>1 DEF IInv, HasKey, KeyIn, KeyOf
<1>3. Waits'
  BY <1>1 DEF Waits
<1> QED BY <1>1, <1>2, <1>3, SessionKeeps

LEMMA ReauthPemKeeps == ASSUME NamesApart, IInv, ReauthPem PROVE IInv'
<1> DEFINE n == reauth.name
<1>1. reauth # None /\ reauth.kind = "pem" /\ reauth' = None /\ create_pem_session(n, store[Pem(n)])
  BY DEF ReauthPem
<1>2. reauth \in Reauths /\ n \in Names
  BY <1>1 DEF IInv, Waits, Reauths
<1>3. store[List(n)] # None /\ store[List(n)].kind = "pem" /\ store[List(n)].storage = "pbes2"
  BY <1>1 DEF IInv, Waits
<1>4. store[Pem(n)].key = store[List(n)].who
  <2>1. KeyPlace(n, store[List(n)]) = Pem(n)
    BY <1>3 DEF KeyPlace
  <2>2. HasKey(store, n)
    BY <1>2 DEF IInv
  <2> QED BY <1>3, <2>1, <2>2 DEF HasKey, KeyIn
<1>5. Waits'
  BY <1>1 DEF Waits
<1> HIDE DEF n
<1> QED BY <1>1, <1>2, <1>3, <1>4, <1>5, SessionKeeps

(* The login of a web identity was with the principal it is listed with.      *)
LEMMA ReauthWebKeeps == ASSUME NamesApart, IInv, ReauthWeb PROVE IInv'
<1> DEFINE n == reauth.name
           spec == store[List(n)]
           links == Chained(reauth.root, reauth.leaf)
           w == Write(Chain(n), links)
           ws == <<w>>
           S == {w}
           none == {}
           s1 == Put(store, w)
<1>1. reauth # None /\ reauth.kind = "webauth" /\ reauth' = None /\ Section(none, ws)
  BY DEF ReauthWeb
<1>2. reauth \in Reauths /\ spec # None /\ spec.kind = "webauth" /\ spec.who = reauth.root
  BY <1>1 DEF IInv, Waits
<1>3. n \in Names
  BY <1>2 DEF Reauths
<1>4. links \in Chains /\ links # None /\ links.root = spec.who
  <2>1. reauth.root \in AllKeys \cup Roots /\ reauth.leaf \in AllKeys
    BY <1>2 DEF Reauths
  <2> QED BY <1>2, <2>1, ChainedIs
<1>5. store = [p \in Places |-> store[p]]
  BY DEF IInv, Typed
<1>6. ws \in Seq(S) /\ DOMAIN w = {Chain(n)} /\ w[Chain(n)] = links /\ none \in SUBSET {n}
  <2>1. DOMAIN w = {Chain(n)} /\ w[Chain(n)] = links
    <3> HIDE DEF n, links
    <3> QED BY OneWrite
  <2> HIDE DEF w
  <2> QED BY <2>1
<1>7. All(store, ws) = s1 /\ \A t : Reach(store, ws, t) => t = store \/ t = s1
  BY <1>5, AllOfOne, ReachOne
<1>8. \A q \in Places : s1[q] = IF q = Chain(n) THEN links ELSE store[q]
  BY PutOne
<1> HIDE DEF n, links, w, ws, s1
<1>9. \A v \in S : \A p \in DOMAIN v : Holds(p, v[p]) /\ p \in Own(n)
  BY <1>3, <1>4, <1>6, Five, HoldsAt
<1>10. HasKey(store, n) /\ (n \notin interrupted => Clean(store, n))
  BY <1>3 DEF IInv
<1>11. s1[List(n)] = spec /\ s1[Pem(n)] = store[Pem(n)] /\ s1[Ring(n)] = store[Ring(n)]
       /\ s1[Ring(DlgUser[n])] = store[Ring(DlgUser[n])] /\ s1[Chain(n)] = links
  BY <1>3, <1>8, Five
<1>12. HasKey(s1, n)
  <2>1. KeyIn(s1, n) = KeyIn(store, n)
    BY <1>3, <1>11, KeyIsOwn DEF KeyIn
  <2> QED BY <1>2, <1>4, <1>10, <1>11, <2>1 DEF HasKey
<1>13. n \notin interrupted => Clean(s1, n)
  BY <1>2, <1>10, <1>11 DEF Clean, Unlisted, OnlyUseful
<1>14. \A t : Reach(store, ws, t) => HasKey(t, n)
  BY <1>7, <1>10, <1>12
<1>15. (n \notin interrupted => Clean(All(store, ws), n))
       /\ (none = {} /\ n \notin interrupted => \A t : Reach(store, ws, t) => Clean(t, n))
  BY <1>7, <1>10, <1>13
<1>16. Reach(store, ws, store')
  BY <1>1, <1>6, SectionIs
<1>17. store'[List(n)] # None
  BY <1>2, <1>7, <1>11, <1>16
<1>18. Waits'
  BY <1>1 DEF Waits
<1> HIDE DEF S, none
<1> QED BY <1>1, <1>3, <1>6, <1>9, <1>14, <1>15, <1>17, <1>18, OneNameKeeps

(* A reauth begins; it does not change anything.                              *)
LEMMA BeginKeeps == ASSUME NamesApart, IInv, NEW n \in Names, ReauthBegin(n) PROVE IInv'
<1> DEFINE spec == store[List(n)]
<1>1. /\ spec # None /\ KeyOf(n) # None
      /\ spec.kind = "webauth" \/ (spec.kind = "pem" /\ spec.storage = "pbes2")
      /\ reauth' = [name |-> n, kind |-> spec.kind, leaf |-> KeyOf(n).key, root |-> spec.who]
      /\ UNCHANGED <<store, interrupted, cuts>>
  BY DEF ReauthBegin, Listed, Readable, Kind, Format
<1>2. Entry(spec)
  BY <1>1, Five DEF IInv, Typed, Holds
<1>3. KeyOf(n) \in Materials
  <2>1. KeyPlace(n, spec) \in {Pem(n), Ring(n), Ring(DlgUser[n])}
    BY KeyIsOwn
  <2>2. \A p \in {Pem(n), Ring(n), Ring(DlgUser[n])} : store[p] \in Materials \cup {None}
    BY Five, OwnApart DEF IInv, Typed, Holds
  <2> QED BY <1>1, <2>1, <2>2 DEF KeyOf
<1>4. reauth' \in Reauths /\ reauth'.name = n /\ reauth'.kind = spec.kind /\ reauth'.root = spec.who
  BY <1>1, <1>2, <1>3 DEF Reauths, Materials, Entry
<1>5. Waits'
  BY <1>1, <1>4 DEF Waits
<1>6. UNCHANGED <<store, interrupted, cuts>>
  BY <1>1
<1> HIDE DEF spec
<1> QED BY <1>5, <1>6 DEF IInv

LEMMA FailsKeeps == ASSUME IInv, ReauthFails PROVE IInv'
BY DEF IInv, ReauthFails, Waits

(* Time passes: the chain keeps its root.                                     *)
LEMMA ExpireKeeps == ASSUME NamesApart, IInv, NEW n \in Names, reauth = None, Expire(n) PROVE IInv'
<1> DEFINE links == store[Chain(n)]
           late == [links EXCEPT !.live = FALSE]
<1>1. links # None /\ UNCHANGED <<reauth, interrupted, cuts>> /\ store' = [store EXCEPT ![Chain(n)] = late]
  BY DEF Expire
<1>2. store = [p \in Places |-> store[p]] /\ \A p \in Places : Holds(p, store[p])
  BY DEF IInv, Typed
<1>3. links \in Chains
  BY <1>1, <1>2, Five DEF Holds
<1>4. late \in Chains /\ late.root = links.root
  BY <1>3 DEF Chains
<1>5. late # None
  <2> HIDE DEF late
  <2> QED BY <1>4, IdentityAssumption
<1> HIDE DEF late
<1>6. \A p \in Places : store'[p] = IF p = Chain(n) THEN late ELSE store[p]
  BY <1>1, <1>2, Five
<1>7. Typed(store')
  <2>1. store' = [p \in Places |-> store'[p]]
    BY <1>1, <1>2
  <2>2. Holds(Chain(n), late)
    BY <1>4, HoldsAt
  <2> QED BY <1>2, <1>6, <2>1, <2>2 DEF Typed
<1>8. store'[List(n)] = store[List(n)] /\ store'[Pem(n)] = store[Pem(n)] /\ store'[Ring(n)] = store[Ring(n)]
      /\ store'[Ring(DlgUser[n])] = store[Ring(DlgUser[n])] /\ store'[Chain(n)] = late
  BY <1>6, Five
<1>9. HasKey(store', n)
  <2>1. KeyIn(store', n) = KeyIn(store, n)
    BY <1>8, KeyIsOwn DEF KeyIn
  <2>2. HasKey(store, n)
    BY DEF IInv
  <2> QED BY <1>4, <1>5, <1>8, <2>1, <2>2 DEF HasKey
<1>10. ASSUME n \notin interrupted PROVE Clean(store', n)
  <2>1. Clean(store, n)
    BY <1>10 DEF IInv
  <2>2. store[List(n)] # None
    BY <1>1, <2>1, Five DEF Clean, Unlisted
  <2>3. OnlyUseful(store', n)
    BY <1>1, <1>4, <1>8, <2>1, <2>2 DEF Clean, OnlyUseful
  <2> QED BY <1>8, <2>2, <2>3 DEF Clean, Unlisted
<1>11. \A p \in Places : p \notin Own(n) => store'[p] = store[p]
  BY <1>6, Five
<1>12. Waits'
  BY <1>1 DEF Waits
<1>13. cuts' \in 0 .. MaxCuts
  BY <1>1 DEF IInv
<1> QED BY <1>1, <1>7, <1>8, <1>9, <1>10, <1>11, <1>12, <1>13, TouchKeeps

-------------------------------------------------------------------------------
(* rename, part by part.                                                      *)
Copied(a, b) == All(store, Copies(a, b))
Moved(a, b) == All(Copied(a, b), SessionMoves(a, b))
Relisted(a, b) == Put(Moved(a, b), Relist(a, b))
Followed(a, b) == All(Relisted(a, b), Follow(a, b))
Renamed(a, b) == All(Followed(a, b), Drops(a, store[List(a)]))

RenameWrites(a, b) ==
    {Write(Chain(b), store[Chain(a)]), Write(KeyPlace(b, store[List(a)]), KeyOf(a)),
     Write(Ring(DlgUser[b]), store[Ring(DlgUser[a])]), Write(Ring(DlgUser[a]), None), Write(Chain(a), None),
     Relist(a, b), Write(Default, b), Write(KeyPlace(a, store[List(a)]), None)}

LEMMA CopiesAre ==
    ASSUME NEW a \in Names, NEW b \in Names, store = [p \in Places |-> store[p]]
    PROVE  LET spec == store[List(a)]
           IN  /\ Copies(a, b) \in Seq(RenameWrites(a, b))
               /\ \A q \in Places :
                    /\ Copied(a, b)[q] = IF spec.kind # "hsm" /\ q = KeyPlace(b, spec) THEN KeyOf(a)
                                         ELSE IF spec.kind \in Delegated /\ q = Chain(b) THEN store[Chain(a)]
                                         ELSE store[q]
                    /\ \A t : Reach(store, Copies(a, b), t) /\ q \notin {KeyPlace(b, spec), Chain(b)} => t[q] = store[q]
<1> DEFINE spec == store[List(a)]
           c == spec.kind \in Delegated
           d == spec.kind # "hsm"
           v == Write(Chain(b), store[Chain(a)])
           w == Write(KeyPlace(b, spec), KeyOf(a))
           s1 == IF c THEN Put(store, v) ELSE store
           s2 == IF d THEN Put(s1, w) ELSE s1
           S == RenameWrites(a, b)
<1>1. Copies(a, b) = May(c, v) \o May(d, w)
  BY DEF Copies, May
<1>2. c \in BOOLEAN /\ d \in BOOLEAN
  BY DEF Delegated
<1>3. ASSUME NEW q \in Places
      PROVE  /\ s1[q] = IF c /\ q = Chain(b) THEN store[Chain(a)] ELSE store[q]
             /\ s2[q] = IF d /\ q = KeyPlace(b, spec) THEN KeyOf(a) ELSE s1[q]
  BY PutOne
<1>4. v \in S /\ w \in S
  BY DEF RenameWrites
<1> HIDE DEF v, w, c, d, S
<1>5. /\ May(c, v) \o May(d, w) \in Seq(S)
      /\ All(store, May(c, v) \o May(d, w)) = s2
      /\ \A t : Reach(store, May(c, v) \o May(d, w), t) => t = store \/ t = s1 \/ t = s2
  BY <1>2, <1>4, TwoMay
<1> HIDE DEF s1, s2
<1>6. Copied(a, b) = s2
  BY <1>1, <1>5 DEF Copied
<1>7. ASSUME NEW q \in Places, NEW t, Reach(store, Copies(a, b), t), q \notin {KeyPlace(b, spec), Chain(b)}
      PROVE  t[q] = store[q]
  BY <1>1, <1>3, <1>5, <1>7
<1> QED BY <1>1, <1>3, <1>5, <1>6, <1>7 DEF c, d, S

(* A pair of writes that is made under a condition.                           *)
MayTwo(c, v, w) == IF c THEN <<v, w>> ELSE <<>>

LEMMA MayPair ==
    ASSUME NEW s, s = [p \in Places |-> s[p]], NEW c \in BOOLEAN, NEW v, NEW w
    PROVE  /\ \A S : v \in S /\ w \in S => MayTwo(c, v, w) \in Seq(S)
           /\ All(s, MayTwo(c, v, w)) = IF c THEN Put(Put(s, v), w) ELSE s
           /\ \A t : Reach(s, MayTwo(c, v, w), t) => t = s \/ (c /\ t = Put(s, v)) \/ (c /\ t = Put(Put(s, v), w))
<1>1. CASE c
  BY <1>1, ReachTwo DEF MayTwo
<1>2. CASE ~c
  BY <1>2, AllOfNone, ReachNone DEF MayTwo
<1> QED BY <1>1, <1>2

LEMMA MovesAre ==
    ASSUME NamesApart, NEW a \in Names, NEW b \in Names, a # b, store = [p \in Places |-> store[p]]
    PROVE  LET pem == store[List(a)].kind = "pem"
               secret == store[Ring(DlgUser[a])]
               links == store[Chain(a)]
               s == Copied(a, b)
           IN  /\ SessionMoves(a, b) \in Seq(RenameWrites(a, b))
               /\ \A q \in Places :
                    /\ Moved(a, b)[q] = IF pem /\ secret # None /\ q = Ring(DlgUser[b]) THEN secret
                                        ELSE IF pem /\ secret # None /\ q = Ring(DlgUser[a]) THEN None
                                        ELSE IF pem /\ links # None /\ q = Chain(b) THEN links
                                        ELSE IF pem /\ links # None /\ q = Chain(a) THEN None
                                        ELSE s[q]
                    /\ \A t : Reach(s, SessionMoves(a, b), t)
                                 /\ (~pem \/ q \notin {Ring(DlgUser[b]), Ring(DlgUser[a]), Chain(b), Chain(a)})
                              => t[q] = s[q]
<1> DEFINE pem == store[List(a)].kind = "pem"
           secret == store[Ring(DlgUser[a])]
           links == store[Chain(a)]
           s == Copied(a, b)
           w1 == Write(Ring(DlgUser[b]), secret)
           w2 == Write(Ring(DlgUser[a]), None)
           w3 == Write(Chain(b), links)
           w4 == Write(Chain(a), None)
           c == secret # None
           d == links # None
           xs == MayTwo(c, w1, w2)
           ys == MayTwo(d, w3, w4)
           s1 == All(s, xs)
           s2 == All(s1, ys)
           S == RenameWrites(a, b)
           moves == SessionMoves(a, b)
<1>1. (pem => moves = xs \o ys) /\ (~pem => moves = <<>>)
  BY DEF SessionMoves, Kind, MayTwo
<1>2. c \in BOOLEAN /\ d \in BOOLEAN
  OBVIOUS
<1>3. s = [p \in Places |-> s[p]] /\ s1 = [p \in Places |-> s1[p]]
  BY AllTyped DEF Copied
<1>4. w1 \in S /\ w2 \in S /\ w3 \in S /\ w4 \in S
  BY DEF RenameWrites
<1>5. /\ \A r : \A q \in Places : Put(r, w1)[q] = IF q = Ring(DlgUser[b]) THEN secret ELSE r[q]
      /\ \A r : \A q \in Places : Put(r, w2)[q] = IF q = Ring(DlgUser[a]) THEN None ELSE r[q]
      /\ \A r : \A q \in Places : Put(r, w3)[q] = IF q = Chain(b) THEN links ELSE r[q]
      /\ \A r : \A q \in Places : Put(r, w4)[q] = IF q = Chain(a) THEN None ELSE r[q]
  BY PutOne
<1> HIDE DEF w1, w2, w3, w4, c, d, S, s, moves
<1>6. xs \in Seq(S) /\ s1 = (IF c THEN Put(Put(s, w1), w2) ELSE s)
      /\ \A t : Reach(s, xs, t) => t = s \/ (c /\ t = Put(s, w1)) \/ (c /\ t = Put(Put(s, w1), w2))
  BY <1>2, <1>3, <1>4, MayPair
<1> HIDE DEF xs, s1
<1>7. ys \in Seq(S) /\ s2 = (IF d THEN Put(Put(s1, w3), w4) ELSE s1)
      /\ \A t : Reach(s1, ys, t) => t = s1 \/ (d /\ t = Put(s1, w3)) \/ (d /\ t = Put(Put(s1, w3), w4))
  BY <1>2, <1>3, <1>4, MayPair
<1> HIDE DEF ys, s2
<1> DEFINE four == {Ring(DlgUser[b]), Ring(DlgUser[a]), Chain(b), Chain(a)}
<1>8. \A q \in Places : s1[q] = IF c /\ q = Ring(DlgUser[b]) THEN secret ELSE IF c /\ q = Ring(DlgUser[a]) THEN None ELSE s[q]
  <2>1. DlgUser[b] # DlgUser[a]
    BY IdentityAssumption
  <2>2. Ring(DlgUser[b]) # Ring(DlgUser[a])
    BY <2>1, Apart
  <2>3. ASSUME NEW q \in Places PROVE /\ Put(Put(s, w1), w2)[q] = IF q = Ring(DlgUser[a]) THEN None ELSE Put(s, w1)[q]
                                      /\ Put(s, w1)[q] = IF q = Ring(DlgUser[b]) THEN secret ELSE s[q]
    BY <1>5
  <2> QED BY <1>6, <2>2, <2>3
<1>9. \A q \in Places : s2[q] = IF d /\ q = Chain(b) THEN links ELSE IF d /\ q = Chain(a) THEN None ELSE s1[q]
  <2>1. Chain(a) # Chain(b)
    BY Apart
  <2>2. ASSUME NEW q \in Places PROVE /\ Put(Put(s1, w3), w4)[q] = IF q = Chain(a) THEN None ELSE Put(s1, w3)[q]
                                      /\ Put(s1, w3)[q] = IF q = Chain(b) THEN links ELSE s1[q]
    BY <1>5
  <2> QED BY <1>7, <2>1, <2>2
<1>10. ASSUME NEW t, Reach(s, xs \o ys, t), NEW q \in Places, q \notin four PROVE t[q] = s[q]
  <2>1. Reach(s, xs, t) \/ Reach(s1, ys, t)
    BY <1>6, <1>7, <1>10, ReachSplit DEF s1
  <2>2. Reach(s, xs, t) => t[q] = s[q]
    BY <1>5, <1>6, <1>10
  <2>3. s1[q] = s[q]
    BY <1>8, <1>10
  <2>4. Reach(s1, ys, t) => t[q] = s1[q]
    BY <1>5, <1>7, <1>10
  <2> QED BY <2>1, <2>2, <2>3, <2>4
<1>11. moves \in Seq(S)
  <2>1. xs \o ys \in Seq(S) /\ <<>> \in Seq(S)
    BY <1>6, <1>7, ConcatProperties
  <2> QED BY <1>1, <2>1
<1>12. All(s, xs \o ys) = s2
  BY <1>6, <1>7, AllSplit DEF s1, s2
<1>13. (pem => All(s, moves) = s2) /\ (~pem => All(s, moves) = s)
  <2>1. All(s, <<>>) = s
    BY <1>3, AllOfNone
  <2> QED BY <1>1, <1>12, <2>1
<1>14. ASSUME NEW t, Reach(s, moves, t), NEW q \in Places, ~pem \/ q \notin four PROVE t[q] = s[q]
  <2>1. CASE pem
    BY <1>1, <1>10, <1>14, <2>1
  <2>2. CASE ~pem
    <3>1. t = s
      BY <1>1, <1>3, <1>14, <2>2, ReachNone
    <3> QED BY <3>1
  <2> QED BY <2>1, <2>2
<1>15. Moved(a, b) = All(s, moves)
  BY DEF Moved, s, moves
<1>16. \A q \in Places : Moved(a, b)[q] = IF pem /\ c /\ q = Ring(DlgUser[b]) THEN secret
                                        ELSE IF pem /\ c /\ q = Ring(DlgUser[a]) THEN None
                                        ELSE IF pem /\ d /\ q = Chain(b) THEN links
                                        ELSE IF pem /\ d /\ q = Chain(a) THEN None
                                        ELSE s[q]
  <2>1. \A u, v : Ring(u) # Chain(v)
    BY Apart
  <2>2. \A q \in Places : s2[q] = IF c /\ q = Ring(DlgUser[b]) THEN secret
                                        ELSE IF c /\ q = Ring(DlgUser[a]) THEN None
                                        ELSE IF d /\ q = Chain(b) THEN links
                                        ELSE IF d /\ q = Chain(a) THEN None
                                        ELSE s[q]
    BY <1>8, <1>9, <2>1
  <2> QED BY <1>13, <1>15, <2>2
<1> QED BY <1>11, <1>14, <1>16 DEF c, d, s, moves, S

LEMMA RelistedIs ==
    ASSUME NEW a \in Names, NEW b \in Names, a # b, NEW q \in Places
    PROVE  Relisted(a, b)[q] = IF q = List(b) THEN store[List(a)] ELSE IF q = List(a) THEN None ELSE Moved(a, b)[q]
<1>1. DOMAIN Relist(a, b) = {List(a), List(b)}
      /\ \A p \in {List(a), List(b)} : Relist(a, b)[p] = IF p = List(b) THEN store[List(a)] ELSE None
  BY DEF Relist
<1> QED BY <1>1 DEF Relisted, Put

LEMMA FollowsAre ==
    ASSUME NEW a \in Names, NEW b \in Names
    PROVE  /\ Follow(a, b) \in Seq(RenameWrites(a, b))
           /\ \A q \in Places : Followed(a, b)[q] = IF store[Default] = a /\ q = Default THEN b ELSE Relisted(a, b)[q]
           /\ \A t : Reach(Relisted(a, b), Follow(a, b), t) => t = Relisted(a, b) \/ t = Followed(a, b)
<1> DEFINE c == store[Default] = a
           w == Write(Default, b)
           s == Relisted(a, b)
           S == RenameWrites(a, b)
<1>1. Follow(a, b) = May(c, w) /\ c \in BOOLEAN
  BY DEF Follow, May
<1>2. s = [p \in Places |-> s[p]]
  BY PutTyped DEF Relisted
<1>3. w \in S
  BY DEF RenameWrites
<1>4. \A q \in Places : Put(s, w)[q] = IF q = Default THEN b ELSE s[q]
  BY PutOne
<1> HIDE DEF c, w, s, S
<1>5. /\ May(c, w) \in Seq(S)
      /\ All(s, May(c, w)) = IF c THEN Put(s, w) ELSE s
      /\ \A t : Reach(s, May(c, w), t) => t = s \/ (c /\ t = Put(s, w))
  BY <1>1, <1>2, <1>3, MayIs
<1>6. Followed(a, b) = IF c THEN Put(s, w) ELSE s
  BY <1>1, <1>5 DEF Followed, s
<1> QED BY <1>1, <1>4, <1>5, <1>6 DEF c, s, S

LEMMA RenameReaches ==
    ASSUME NamesApart, NEW a \in Names, NEW b \in Names, a # b, store = [p \in Places |-> store[p]]
    PROVE  LET ws == Copies(a, b) \o SessionMoves(a, b) \o <<Relist(a, b)>> \o Follow(a, b) \o Drops(a, store[List(a)])
           IN  /\ ws \in Seq(RenameWrites(a, b))
               /\ All(store, ws) = Renamed(a, b)
               /\ \A t : Reach(store, ws, t) =>
                    \/ Reach(store, Copies(a, b), t) \/ Reach(Copied(a, b), SessionMoves(a, b), t)
                    \/ t = Relisted(a, b) \/ t = Followed(a, b)
                    \/ Reach(Followed(a, b), Drops(a, store[List(a)]), t)
<1> DEFINE S == RenameWrites(a, b)
           cs == Copies(a, b)
           ms == SessionMoves(a, b)
           rs == <<Relist(a, b)>>
           fs == Follow(a, b)
           ds == Drops(a, store[List(a)])
           w2 == cs \o ms
           w3 == w2 \o rs
           w4 == w3 \o fs
           w5 == w4 \o ds
<1>1. Followed(a, b) = [p \in Places |-> Followed(a, b)[p]] /\ Moved(a, b) = [p \in Places |-> Moved(a, b)[p]]
  BY AllTyped DEF Followed, Moved
<1>2. Relist(a, b) \in S /\ Write(KeyPlace(a, store[List(a)]), None) \in S /\ Write(Chain(a), None) \in S
  BY DEF RenameWrites
<1>3. cs \in Seq(S)
  BY CopiesAre
<1>4. ms \in Seq(S)
  BY MovesAre
<1>5. rs \in Seq(S)
  BY <1>2
<1>6. fs \in Seq(S)
  BY FollowsAre
<1>7. ds \in Seq(S)
  <2> HIDE DEF S
  <2> QED BY <1>1, <1>2, DropsAre
<1>8. /\ All(store, cs) = Copied(a, b) /\ All(Copied(a, b), ms) = Moved(a, b) /\ All(Moved(a, b), rs) = Relisted(a, b)
      /\ All(Relisted(a, b), fs) = Followed(a, b) /\ All(Followed(a, b), ds) = Renamed(a, b)
  BY AllOfOne DEF Copied, Moved, Relisted, Followed, Renamed
<1>9. \A t : Reach(Moved(a, b), rs, t) => t = Moved(a, b) \/ t = Relisted(a, b)
  BY <1>1, ReachOne DEF Relisted
<1>10. Reach(Copied(a, b), ms, Moved(a, b))
  BY <1>4, <1>8, AllIsReach
<1> HIDE DEF S, cs, ms, rs, fs, ds
<1>11. w2 \in Seq(S) /\ All(store, w2) = Moved(a, b)
       /\ \A t : Reach(store, w2, t) => Reach(store, cs, t) \/ Reach(Copied(a, b), ms, t)
  BY <1>3, <1>4, <1>8, ConcatProperties, AllSplit, ReachSplit
<1> HIDE DEF w2
<1>12. w3 \in Seq(S) /\ All(store, w3) = Relisted(a, b)
       /\ \A t : Reach(store, w3, t) => Reach(store, w2, t) \/ Reach(Moved(a, b), rs, t)
  BY <1>5, <1>8, <1>11, ConcatProperties, AllSplit, ReachSplit
<1> HIDE DEF w3
<1>13. w4 \in Seq(S) /\ All(store, w4) = Followed(a, b)
       /\ \A t : Reach(store, w4, t) => Reach(store, w3, t) \/ Reach(Relisted(a, b), fs, t)
  BY <1>6, <1>8, <1>12, ConcatProperties, AllSplit, ReachSplit
<1> HIDE DEF w4
<1>14. w5 \in Seq(S) /\ All(store, w5) = Renamed(a, b)
       /\ \A t : Reach(store, w5, t) => Reach(store, w4, t) \/ Reach(Followed(a, b), ds, t)
  BY <1>7, <1>8, <1>13, ConcatProperties, AllSplit, ReachSplit
<1>15. \A t : Reach(Relisted(a, b), fs, t) => t = Relisted(a, b) \/ t = Followed(a, b)
  BY FollowsAre DEF fs
<1>16. ASSUME NEW t, Reach(store, w5, t)
       PROVE  \/ Reach(store, cs, t) \/ Reach(Copied(a, b), ms, t)
              \/ t = Relisted(a, b) \/ t = Followed(a, b)
              \/ Reach(Followed(a, b), ds, t)
  <2>1. Reach(store, w4, t) \/ Reach(Followed(a, b), ds, t)
    BY <1>14, <1>16
  <2>2. Reach(store, w4, t) => Reach(store, w3, t) \/ Reach(Relisted(a, b), fs, t)
    BY <1>13
  <2>3. Reach(store, w3, t) => Reach(store, w2, t) \/ Reach(Moved(a, b), rs, t)
    BY <1>12
  <2>4. Reach(store, w2, t) => Reach(store, cs, t) \/ Reach(Copied(a, b), ms, t)
    BY <1>11
  <2> QED BY <1>9, <1>10, <1>15, <2>1, <2>2, <2>3, <2>4
<1> QED BY <1>14, <1>16 DEF S, cs, ms, rs, fs, ds, w2, w3, w4

LEMMA Ten ==
    ASSUME NamesApart, NEW a \in Names, NEW b \in Names, a # b
    PROVE  /\ \A p \in Own(a), q \in Own(b) : p # q
           /\ \A p \in Own(a) \cup Own(b) : p # Default /\ p \in Places
BY OwnApart

(* As long as a is on the list it has its key, and then b has it.             *)
LEMMA RenameHasKey ==
    ASSUME NamesApart, IInv, NEW a \in Names, NEW b \in Names, a # b, store[List(a)] # None, store[List(b)] = None,
           store[List(a)].kind # "hsm" => KeyOf(a) # None,
           store[List(a)].kind \in Delegated => store[Chain(a)] # None,
           NEW t, \/ Reach(store, Copies(a, b), t) \/ Reach(Copied(a, b), SessionMoves(a, b), t)
                  \/ t = Relisted(a, b) \/ t = Followed(a, b)
                  \/ Reach(Followed(a, b), Drops(a, store[List(a)]), t)
    PROVE  HasKey(t, a) /\ HasKey(t, b)
<1> DEFINE spec == store[List(a)]
           kp == KeyPlace(a, spec)
           kb == KeyPlace(b, spec)
<1>1. store = [p \in Places |-> store[p]] /\ \A p \in Places : Holds(p, store[p])
  BY DEF IInv, Typed
<1>2. Entry(spec)
  BY <1>1, Five DEF Holds
<1>3. HasKey(store, a)
  BY DEF IInv
<1>4. kp \in {Pem(a), Ring(a), Ring(DlgUser[a])} /\ kb \in {Pem(b), Ring(b), Ring(DlgUser[b])}
  BY KeyIsOwn
<1>5. spec.kind = "pem" => kp = Pem(a) /\ kb = Pem(b)
  BY <1>2 DEF Entry, KeyPlace
<1>6. /\ spec.kind # "hsm" => store[kp] # None /\ store[kp].enc = (spec.storage = "pbes2")
      /\ spec.kind \in {"pem", "keyring"} => store[kp].key = spec.who
      /\ spec.kind \in Delegated => store[Chain(a)] # None /\ store[Chain(a)].root = spec.who
  BY <1>3 DEF HasKey, KeyIn
<1>7. KeyOf(a) = store[kp]
  BY DEF KeyOf
<1>8. /\ \A q \in Places : Copied(a, b)[q] = IF spec.kind # "hsm" /\ q = kb THEN KeyOf(a)
                                             ELSE IF spec.kind \in Delegated /\ q = Chain(b) THEN store[Chain(a)]
                                             ELSE store[q]
      /\ \A q \in Places : \A s : Reach(store, Copies(a, b), s) /\ q \notin {kb, Chain(b)} => s[q] = store[q]
  BY <1>1, CopiesAre
<1> DEFINE pem == spec.kind = "pem"
           four == {Ring(DlgUser[b]), Ring(DlgUser[a]), Chain(b), Chain(a)}
<1>9. /\ \A q \in Places : (pem /\ q \in four) \/ Moved(a, b)[q] = Copied(a, b)[q]
      /\ \A q \in Places : \A s : Reach(Copied(a, b), SessionMoves(a, b), s) /\ (~pem \/ q \notin four)
                                  => s[q] = Copied(a, b)[q]
  BY <1>1, MovesAre
<1>10. spec.kind \in Delegated \/ spec.kind = "hsm" => ~pem
  BY DEF Delegated
<1> HIDE DEF spec, kp, kb, pem
<1>11. ASSUME NEW s, s[List(a)] = spec, s[List(b)] = None, \A q \in {kp, Chain(a)} : ~pem \/ q \notin four => s[q] = store[q]
       PROVE  HasKey(s, a) /\ HasKey(s, b)
  <2>1. KeyIn(s, a) = s[kp]
    BY <1>11 DEF KeyIn, kp
  <2>2. s[kp] = store[kp]
    BY <1>4, <1>5, <1>11, Five, Ten DEF pem
  <2>3. spec.kind \in Delegated => s[Chain(a)] = store[Chain(a)]
    BY <1>10, <1>11
  <2>4. HasKey(s, a)
    BY <1>6, <1>11, <2>1, <2>2, <2>3 DEF HasKey
  <2>5. HasKey(s, b)
    BY <1>11 DEF HasKey
  <2> QED BY <2>4, <2>5
<1>12. \A q \in Own(a) \cup {List(b)} : q \in Places /\ q \notin {kb, Chain(b)}
  BY <1>4, Five, Ten, OwnApart
<1>13. CASE Reach(store, Copies(a, b), t)
  <2>1. \A q \in Own(a) \cup {List(b)} : t[q] = store[q]
    BY <1>8, <1>12, <1>13
  <2> QED BY <1>4, <1>11, <2>1, Five DEF spec
<1>14. \A q \in Own(a) \cup {List(b)} : Copied(a, b)[q] = store[q]
  BY <1>8, <1>12
<1>15. List(a) \notin four /\ List(b) \notin four
  BY Apart
<1>16. CASE Reach(Copied(a, b), SessionMoves(a, b), t)
  <2>1. \A q \in Own(a) \cup {List(b)} : ~pem \/ q \notin four => t[q] = store[q]
    BY <1>9, <1>12, <1>14, <1>16
  <2>2. t[List(a)] = spec /\ t[List(b)] = None
    BY <1>15, <2>1, Five DEF spec
  <2> QED BY <1>4, <1>11, <2>1, <2>2, Five
<1>17. ASSUME NEW s, s[List(a)] = None, s[List(b)] = spec, spec.kind # "hsm" => s[kb] = store[kp],
              spec.kind \in Delegated => s[Chain(b)] = store[Chain(a)]
       PROVE  HasKey(s, a) /\ HasKey(s, b)
  <2>1. KeyIn(s, b) = s[kb]
    BY <1>17 DEF KeyIn, kb
  <2>2. HasKey(s, b)
    <3>1. spec.kind \in {"pem", "keyring"} => spec.kind # "hsm"
      OBVIOUS
    <3> QED BY <1>6, <1>17, <2>1, <3>1 DEF HasKey
  <2>3. HasKey(s, a)
    BY <1>17 DEF HasKey
  <2> QED BY <2>2, <2>3
<1>18. /\ spec.kind # "hsm" => Moved(a, b)[kb] = store[kp]
       /\ spec.kind \in Delegated => Moved(a, b)[Chain(b)] = store[Chain(a)]
  <2>1. kb \in Places /\ Chain(b) \in Places /\ kb # Chain(b)
    BY <1>4, Five
  <2>2. ~ (pem /\ kb \in four)
    BY <1>4, <1>5, Five, Ten DEF pem
  <2>3. Moved(a, b)[kb] = Copied(a, b)[kb] /\ (~pem => Moved(a, b)[Chain(b)] = Copied(a, b)[Chain(b)])
    BY <1>9, <2>1, <2>2
  <2> QED BY <1>7, <1>8, <1>10, <2>1, <2>3
<1>19. \A q \in Places : Relisted(a, b)[q] = IF q = List(b) THEN spec ELSE IF q = List(a) THEN None ELSE Moved(a, b)[q]
  BY RelistedIs DEF spec
<1>20. \A q \in Places : q # Default => Followed(a, b)[q] = Relisted(a, b)[q]
  BY FollowsAre
<1>21. /\ Relisted(a, b)[List(a)] = None /\ Relisted(a, b)[List(b)] = spec
       /\ Relisted(a, b)[kb] = Moved(a, b)[kb] /\ Relisted(a, b)[Chain(b)] = Moved(a, b)[Chain(b)]
  BY <1>4, <1>19, Five, Ten
<1>22. CASE t = Relisted(a, b)
  BY <1>17, <1>18, <1>21, <1>22
<1>23. /\ Followed(a, b)[List(a)] = None /\ Followed(a, b)[List(b)] = spec
       /\ Followed(a, b)[kb] = Moved(a, b)[kb] /\ Followed(a, b)[Chain(b)] = Moved(a, b)[Chain(b)]
  BY <1>4, <1>20, <1>21, Five, Ten
<1>24. CASE t = Followed(a, b)
  BY <1>17, <1>18, <1>23, <1>24
<1>25. CASE Reach(Followed(a, b), Drops(a, store[List(a)]), t)
  <2>1. Followed(a, b) = [p \in Places |-> Followed(a, b)[p]]
    BY AllTyped DEF Followed
  <2>2. \A q \in Places : t[q] = Followed(a, b)[q] \/ (t[q] = None /\ q \in Dropped(a, store[List(a)]))
    BY <1>25, <2>1, DropsAre
  <2>3. Dropped(a, store[List(a)]) \subseteq Own(a)
    BY KeyIsOwn, Five DEF Dropped
  <2>4. t[List(a)] = None /\ t[List(b)] = spec /\ t[kb] = Followed(a, b)[kb] /\ t[Chain(b)] = Followed(a, b)[Chain(b)]
    BY <1>4, <1>23, <2>2, <2>3, Five, Ten
  <2> QED BY <1>17, <1>18, <1>23, <2>4
<1> QED BY <1>13, <1>16, <1>22, <1>24, <1>25

(* When it is through, b has what a had, and a has nothing.                   *)
LEMMA RenamedIs ==
    ASSUME NamesApart, IInv, NEW a \in Names, NEW b \in Names, a # b, NEW q \in Places
    PROVE  LET spec == store[List(a)]
               pem == spec.kind = "pem"
           IN  Renamed(a, b)[q] =
                 IF q \in Dropped(a, spec) THEN None
                 ELSE IF store[Default] = a /\ q = Default THEN b
                 ELSE IF q = List(b) THEN spec
                 ELSE IF q = List(a) THEN None
                 ELSE IF pem /\ store[Ring(DlgUser[a])] # None /\ q = Ring(DlgUser[b]) THEN store[Ring(DlgUser[a])]
                 ELSE IF pem /\ store[Ring(DlgUser[a])] # None /\ q = Ring(DlgUser[a]) THEN None
                 ELSE IF pem /\ store[Chain(a)] # None /\ q = Chain(b) THEN store[Chain(a)]
                 ELSE IF pem /\ store[Chain(a)] # None /\ q = Chain(a) THEN None
                 ELSE IF spec.kind # "hsm" /\ q = KeyPlace(b, spec) THEN KeyOf(a)
                 ELSE IF spec.kind \in Delegated /\ q = Chain(b) THEN store[Chain(a)]
                 ELSE store[q]
<1>1. store = [p \in Places |-> store[p]]
  BY DEF IInv, Typed
<1>2. Followed(a, b) = [p \in Places |-> Followed(a, b)[p]]
  BY AllTyped DEF Followed
<1>3. Renamed(a, b)[q] = IF q \in Dropped(a, store[List(a)]) THEN None ELSE Followed(a, b)[q]
  BY <1>2, DropsAre DEF Renamed
<1>4. Followed(a, b)[q] = IF store[Default] = a /\ q = Default THEN b ELSE Relisted(a, b)[q]
  BY FollowsAre
<1>5. Relisted(a, b)[q] = IF q = List(b) THEN store[List(a)] ELSE IF q = List(a) THEN None ELSE Moved(a, b)[q]
  BY RelistedIs
<1>6. LET spec == store[List(a)]
      IN  Copied(a, b)[q] = IF spec.kind # "hsm" /\ q = KeyPlace(b, spec) THEN KeyOf(a)
                            ELSE IF spec.kind \in Delegated /\ q = Chain(b) THEN store[Chain(a)]
                            ELSE store[q]
  BY <1>1, CopiesAre
<1>7. LET pem == store[List(a)].kind = "pem"
          secret == store[Ring(DlgUser[a])]
          links == store[Chain(a)]
      IN  Moved(a, b)[q] = IF pem /\ secret # None /\ q = Ring(DlgUser[b]) THEN secret
                           ELSE IF pem /\ secret # None /\ q = Ring(DlgUser[a]) THEN None
                           ELSE IF pem /\ links # None /\ q = Chain(b) THEN links
                           ELSE IF pem /\ links # None /\ q = Chain(a) THEN None
                           ELSE Copied(a, b)[q]
  BY <1>1, MovesAre
<1> QED BY <1>3, <1>4, <1>5, <1>6, <1>7

LEMMA RenamedClean ==
    ASSUME NamesApart, IInv, NEW a \in Names, NEW b \in Names, a # b, store[List(a)] # None, store[List(b)] = None,
           a \notin interrupted, b \notin interrupted
    PROVE  Clean(Renamed(a, b), a) /\ Clean(Renamed(a, b), b)
<1> DEFINE spec == store[List(a)]
           kp == KeyPlace(a, spec)
           kb == KeyPlace(b, spec)
           t == Renamed(a, b)
<1>1. Entry(spec)
  BY Five DEF IInv, Typed, Holds
<1>2. /\ spec.kind \in {"pem", "keyring", "hsm", "webauth", "pending", "delegation"}
      /\ (spec.kind = "keyring" => spec.storage = "keyring") /\ (spec.kind = "pem" => spec.storage # "keyring")
  BY <1>1 DEF Entry, Specs
<1>3. OnlyUseful(store, a) /\ \A p \in Own(b) : store[p] = None
  BY DEF IInv, Clean, Unlisted
<1>4. /\ spec.kind = "hsm" \/ spec.storage = "keyring" => store[Pem(a)] = None
      /\ spec.kind # "keyring" => store[Ring(a)] = None
      /\ spec.kind # "pem" /\ (spec.kind \in {"hsm", "keyring"} \/ spec.storage # "keyring")
             => store[Ring(DlgUser[a])] = None
      /\ spec.kind \in {"hsm", "keyring", "pending"} => store[Chain(a)] = None
      /\ spec.kind = "pem" /\ store[Chain(a)] # None => store[Chain(a)].root = spec.who
  BY <1>3 DEF OnlyUseful
<1>5. /\ kp = IF spec.storage # "keyring" THEN Pem(a) ELSE IF spec.kind = "keyring" THEN Ring(a) ELSE Ring(DlgUser[a])
      /\ kb = IF spec.storage # "keyring" THEN Pem(b) ELSE IF spec.kind = "keyring" THEN Ring(b) ELSE Ring(DlgUser[b])
  BY DEF KeyPlace
<1>6. /\ store[List(b)] = None /\ store[Pem(b)] = None /\ store[Chain(b)] = None
      /\ store[Ring(b)] = None /\ store[Ring(DlgUser[b])] = None
  BY <1>3, Five
<1>7. \A q : q \in Dropped(a, spec) <=> (spec.kind # "hsm" /\ q = kp) \/ (spec.kind \in {"webauth", "delegation"} /\ q = Chain(a))
  BY DEF Dropped, Delegated
<1>8. \A q \in Own(a) \cup Own(b) : t[q] =
        IF (spec.kind # "hsm" /\ q = kp) \/ (spec.kind \in {"webauth", "delegation"} /\ q = Chain(a)) THEN None
        ELSE IF q = List(b) THEN spec
        ELSE IF q = List(a) THEN None
        ELSE IF spec.kind = "pem" /\ store[Ring(DlgUser[a])] # None /\ q = Ring(DlgUser[b]) THEN store[Ring(DlgUser[a])]
        ELSE IF spec.kind = "pem" /\ store[Ring(DlgUser[a])] # None /\ q = Ring(DlgUser[a]) THEN None
        ELSE IF spec.kind = "pem" /\ store[Chain(a)] # None /\ q = Chain(b) THEN store[Chain(a)]
        ELSE IF spec.kind = "pem" /\ store[Chain(a)] # None /\ q = Chain(a) THEN None
        ELSE IF spec.kind # "hsm" /\ q = kb THEN KeyOf(a)
        ELSE IF spec.kind \in {"webauth", "delegation"} /\ q = Chain(b) THEN store[Chain(a)]
        ELSE store[q]
  <2>1. \A q \in Own(a) \cup Own(b) : q \in Places /\ q # Default
    BY Ten
  <2> QED BY <1>7, <2>1, RenamedIs DEF Delegated
<1> HIDE DEF spec, t, kp, kb
<1>9. /\ \A p \in {List(a), Pem(a), Chain(a), Ring(a), Ring(DlgUser[a])}, q \in {List(b), Pem(b), Chain(b), Ring(b), Ring(DlgUser[b])} : p # q
  BY Five, Ten
<1>10. t[List(a)] = None /\ t[List(b)] = spec
  BY <1>5, <1>8, <1>9, Five
<1>11. t[Pem(a)] = None
  BY <1>2, <1>4, <1>5, <1>8, <1>9, Five
<1>12. t[Ring(a)] = None
  BY <1>2, <1>4, <1>5, <1>8, <1>9, Five
<1>13. t[Ring(DlgUser[a])] = None
  BY <1>2, <1>4, <1>5, <1>8, <1>9, Five
<1>14. t[Chain(a)] = None
  BY <1>2, <1>4, <1>5, <1>8, <1>9, Five
<1>15. spec.kind = "hsm" \/ spec.storage = "keyring" => t[Pem(b)] = None
  BY <1>2, <1>5, <1>6, <1>8, <1>9, Five
<1>16. spec.kind # "keyring" => t[Ring(b)] = None
  BY <1>2, <1>5, <1>6, <1>8, <1>9, Five
<1>17. spec.kind # "pem" /\ (spec.kind \in {"hsm", "keyring"} \/ spec.storage # "keyring") => t[Ring(DlgUser[b])] = None
  BY <1>2, <1>5, <1>6, <1>8, <1>9, Five
<1>18. spec.kind \in {"hsm", "keyring", "pending"} => t[Chain(b)] = None
  BY <1>2, <1>5, <1>6, <1>8, <1>9, Five
<1>19. spec.kind = "pem" => t[Chain(b)] = store[Chain(a)]
  BY <1>2, <1>5, <1>6, <1>8, <1>9, Five
<1>20. Clean(t, a)
  BY <1>10, <1>11, <1>12, <1>13, <1>14 DEF Clean, Unlisted, OnlyUseful, Own
<1>21. Clean(t, b)
  <2>1. spec # None
    BY DEF spec
  <2> QED BY <1>4, <1>10, <1>15, <1>16, <1>17, <1>18, <1>19, <2>1 DEF Clean, Unlisted, OnlyUseful
<1> QED BY <1>20, <1>21 DEF t

LEMMA RenameKeeps ==
    ASSUME NamesApart, SafeFaults, IInv, NEW a \in Names, NEW b \in Names, reauth = None, rename_identity(a, b)
    PROVE  IInv'
<1> DEFINE spec == store[List(a)]
           S == RenameWrites(a, b)
           ws == Copies(a, b) \o SessionMoves(a, b) \o <<Relist(a, b)>> \o Follow(a, b) \o Drops(a, store[List(a)])
           two == {a, b}
<1>1. /\ a # b /\ spec # None /\ store[List(b)] = None /\ UNCHANGED reauth /\ Section(two, ws)
      /\ spec.kind # "hsm" => KeyOf(a) # None
      /\ spec.kind \in Delegated => store[Chain(a)] # None
  BY DEF rename_identity, SafeFaults, Listed, RenameTaken, Kind
<1>2. store = [p \in Places |-> store[p]] /\ \A p \in Places : Holds(p, store[p])
  BY DEF IInv, Typed
<1>3. ws \in Seq(S) /\ All(store, ws) = Renamed(a, b)
  BY <1>1, <1>2, RenameReaches
<1>4. ASSUME NEW t, Reach(store, ws, t) PROVE HasKey(t, a) /\ HasKey(t, b)
  BY <1>1, <1>2, <1>4, RenameReaches, RenameHasKey
<1>5. /\ \A w \in S : \A p \in DOMAIN w : Holds(p, w[p])
      /\ \A w \in S : \A p \in DOMAIN w : p = Default \/ p \in Own(a) \/ p \in Own(b)
  <2>1. ASSUME NEW p, NEW v, Holds(p, v), p = Default \/ p \in Own(a) \/ p \in Own(b)
        PROVE  \A q \in DOMAIN Write(p, v) : Holds(q, Write(p, v)[q]) /\ (q = Default \/ q \in Own(a) \/ q \in Own(b))
    <3> DEFINE w == Write(p, v)
    <3>1. DOMAIN w = {p} /\ w[p] = v
      BY OneWrite
    <3> HIDE DEF w
    <3>2. \A q \in DOMAIN w : Holds(q, w[q]) /\ (q = Default \/ q \in Own(a) \/ q \in Own(b))
      BY <2>1, <3>1
    <3> QED BY <3>2 DEF w
  <2>2. \A n \in Names : KeyPlace(n, spec) \in {Pem(n), Ring(n), Ring(DlgUser[n])}
    BY KeyIsOwn
  <2>3. KeyOf(a) \in Materials \cup {None}
    BY <1>2, <2>2, Five, OwnApart DEF KeyOf, Holds
  <2>4. \A q \in DOMAIN Relist(a, b) : Holds(q, Relist(a, b)[q]) /\ (q = Default \/ q \in Own(a) \/ q \in Own(b))
    <3>1. DOMAIN Relist(a, b) = {List(a), List(b)}
          /\ \A p \in {List(a), List(b)} : Relist(a, b)[p] = IF p = List(b) THEN spec ELSE None
      BY DEF Relist
    <3>2. Entry(spec)
      BY <1>1, <1>2, Five DEF Holds
    <3> QED BY <3>1, <3>2, Five, HoldsAt
  <2>5. /\ store[Chain(a)] \in Chains \cup {None} /\ store[Ring(DlgUser[a])] \in Materials \cup {None}
    BY <1>2, Five, OwnApart DEF Holds
  <2>6. /\ Holds(Chain(b), store[Chain(a)]) /\ Holds(KeyPlace(b, spec), KeyOf(a))
        /\ Holds(Ring(DlgUser[b]), store[Ring(DlgUser[a])]) /\ Holds(Ring(DlgUser[a]), None) /\ Holds(Chain(a), None)
        /\ Holds(Default, b) /\ Holds(KeyPlace(a, spec), None)
    BY <2>2, <2>3, <2>5, HoldsAt
  <2>7. /\ Chain(b) \in Own(b) /\ KeyPlace(b, spec) \in Own(b) /\ Ring(DlgUser[b]) \in Own(b)
        /\ Ring(DlgUser[a]) \in Own(a) /\ Chain(a) \in Own(a) /\ KeyPlace(a, spec) \in Own(a)
    BY <2>2, Five
  <2> HIDE DEF spec
  <2>8. ASSUME NEW w \in S, NEW p \in DOMAIN w PROVE Holds(p, w[p]) /\ (p = Default \/ p \in Own(a) \/ p \in Own(b))
    BY <2>1, <2>4, <2>6, <2>7, <2>8 DEF RenameWrites, spec
  <2> QED BY <2>8
<1>6. two \in SUBSET Names /\ two \subseteq two
  OBVIOUS
<1>7. \A w \in S : \A p \in DOMAIN w : Holds(p, w[p])
  BY <1>5
<1>8. \A w \in S : \A p \in DOMAIN w : p = Default \/ \E m \in two : p \in Own(m)
  BY <1>5
<1>9. \A t : Reach(store, ws, t) => \A m \in two : HasKey(t, m)
  BY <1>4
<1>10. two \cap interrupted = {} => \A m \in two \ interrupted : Clean(All(store, ws), m)
  BY <1>1, <1>3, RenamedClean
<1>11. \A t : Reach(store, ws, t) => \A m \in two \ (two \cup interrupted) : Clean(t, m)
  OBVIOUS
<1>12. Waits'
  BY <1>1 DEF Waits
<1>13. DefaultIs(store', interrupted')
  <2>1. Reach(store, ws, store') /\ interrupted \subseteq interrupted'
    BY <1>1, <1>3, SectionIs, CutsGrow
  <2>2. ASSUME NEW m \in Names, m # a, m # b PROVE store'[List(m)] = store[List(m)]
    <3>1. List(m) \in Places /\ List(m) # Default /\ List(m) \notin Own(a) /\ List(m) \notin Own(b)
      BY <2>2, Apart DEF Own
    <3>2. \A w \in S : List(m) \notin DOMAIN w
      BY <1>5, <3>1
    <3> HIDE DEF S, ws
    <3> QED BY <1>3, <2>1, <3>1, <3>2, ReachElse
  <2>3. store[Default] \in Names => store[List(store[Default])] # None \/ store[Default] \in interrupted
    BY DEF IInv, DefaultIs
  <2>4. CASE Cut(two)
    <3>1. interrupted' = interrupted \cup {a, b}
      BY <2>4 DEF Cut
    <3>2. store'[Default] = store[Default] \/ store'[Default] = b
      <4>1. \A w \in S : Default \in DOMAIN w => w[Default] = b
        <5>1. Default # Chain(b) /\ Default # KeyPlace(b, spec) /\ Default # Ring(DlgUser[b]) /\ Default # Ring(DlgUser[a])
              /\ Default # Chain(a) /\ Default # KeyPlace(a, spec) /\ Default # List(a) /\ Default # List(b)
          BY Apart, KeyIsOwn
        <5>2. ASSUME NEW p, NEW v, Default # p PROVE Default \notin DOMAIN Write(p, v)
          BY <5>2, OneWrite
        <5>3. DOMAIN Relist(a, b) = {List(a), List(b)}
          BY DEF Relist
        <5>4. Write(Default, b)[Default] = b
          BY OneWrite
        <5>5. /\ Default \notin DOMAIN Write(Chain(b), store[Chain(a)]) /\ Default \notin DOMAIN Write(KeyPlace(b, spec), KeyOf(a))
              /\ Default \notin DOMAIN Write(Ring(DlgUser[b]), store[Ring(DlgUser[a])])
              /\ Default \notin DOMAIN Write(Ring(DlgUser[a]), None) /\ Default \notin DOMAIN Write(Chain(a), None)
              /\ Default \notin DOMAIN Write(KeyPlace(a, spec), None) /\ Default \notin DOMAIN Relist(a, b)
          BY <5>1, <5>2, <5>3
        <5> HIDE DEF spec
        <5> QED BY <5>4, <5>5 DEF RenameWrites, spec
      <4>2. Default \in Places
        BY Apart
      <4> HIDE DEF S, ws
      <4> QED BY <1>3, <2>1, <4>1, <4>2, ReachHolds
    <3> QED BY <2>1, <2>2, <2>3, <3>1, <3>2 DEF DefaultIs
  <2>5. CASE store' = All(store, ws)
    <3>1. store'[Default] = (IF store[Default] = a THEN b ELSE store[Default]) /\ store'[List(b)] = spec
      <4>1. Dropped(a, spec) \subseteq Own(a)
        BY KeyIsOwn, Five DEF Dropped
      <4>2. Default \in Places /\ List(b) \in Places /\ Default \notin Dropped(a, spec) /\ List(b) \notin Dropped(a, spec)
            /\ Default # List(b)
        BY <1>1, <4>1, Five, Ten, Apart
      <4>3. Renamed(a, b)[List(b)] = spec
        BY <1>1, <4>2, RenamedIs
      <4>4. \A n \in Names : Default # List(n) /\ Default # Chain(n) /\ Default # Ring(DlgUser[n])
                             /\ Default # KeyPlace(n, spec)
        BY Apart, KeyIsOwn
      <4>5. Renamed(a, b)[Default] = IF store[Default] = a THEN b ELSE store[Default]
        BY <1>1, <4>2, <4>4, RenamedIs
      <4> QED BY <1>3, <2>5, <4>3, <4>5
    <3> QED BY <1>1, <2>1, <2>2, <2>3, <3>1 DEF DefaultIs
  <2> QED BY <1>1, <1>3, <2>4, <2>5, SectionIs
<1> HIDE DEF S, ws, two, spec
<1> QED BY <1>1, <1>3, <1>6, <1>7, <1>8, <1>9, <1>10, <1>11, <1>12, <1>13, SectionKeeps

-------------------------------------------------------------------------------
LEMMA InitGood == ASSUME NamesApart, Init PROVE IInv
<1>1. store = [p \in Places |-> IF p = Default THEN Anonymous ELSE None]
      /\ reauth = None /\ interrupted = {} /\ cuts = 0
  BY DEF Init
<1>2. store[Default] = Anonymous /\ \A p \in Places : p # Default => store[p] = None
  BY <1>1, Apart
<1>3. Holds(Default, Anonymous) /\ \A p \in Places : p # Default => Holds(p, None)
  <2>1. Holds(Default, Anonymous)
    BY HoldsAt
  <2>2. \A p \in Places : p # Default => Holds(p, None)
    BY DEF Holds
  <2> QED BY <2>1, <2>2
<1>4. Typed(store)
  <2>1. store = [p \in Places |-> store[p]]
    BY <1>1
  <2> QED BY <1>2, <1>3, <2>1 DEF Typed
<1>5. ASSUME NEW n \in Names PROVE HasKey(store, n) /\ Clean(store, n)
  <2>1. \A p \in Own(n) : store[p] = None
    BY <1>2, OwnApart
  <2>2. store[List(n)] = None
    BY <2>1, Five
  <2> QED BY <2>1, <2>2 DEF HasKey, Clean, Unlisted, OnlyUseful
<1>6. DefaultIs(store, interrupted)
  BY <1>2, IdentityAssumption DEF DefaultIs
<1>7. cuts \in 0 .. MaxCuts
  BY <1>1, IdentityAssumption
<1> QED BY <1>1, <1>4, <1>5, <1>6, <1>7 DEF IInv, Waits

LEMMA NextKeeps == ASSUME NamesApart, SafeFaults, IInv, [Next]_vars PROVE IInv'
<1>1. CASE UNCHANGED vars
  BY <1>1 DEF IInv, Waits, vars
<1>2. Quiet => reauth = None
  BY DEF Quiet, SafeFaults
<1>3. ASSUME NEW n \in Names, Create(n) PROVE IInv'
  <2>1. Quiet
    BY <1>3 DEF Create, create_identity
  <2> QED BY <1>2, <1>3, <2>1, CreateKeeps
<1>4. ASSUME NEW n \in Names, link_hsm_identity(n) PROVE IInv'
  <2>1. Quiet
    BY <1>4 DEF link_hsm_identity
  <2> QED BY <1>2, <1>4, <2>1, HsmKeeps
<1>5. ASSUME NEW n \in Names, link_webauth_identity(n) PROVE IInv'
  <2>1. Quiet
    BY <1>5 DEF link_webauth_identity
  <2> QED BY <1>2, <1>5, <2>1, WebKeeps
<1>6. ASSUME NEW n \in Names, create_pending_delegation(n) PROVE IInv'
  <2>1. Quiet
    BY <1>6 DEF create_pending_delegation
  <2> QED BY <1>2, <1>6, <2>1, PendingKeeps
<1>7. ASSUME NEW n \in Names, complete_delegation(n) PROVE IInv'
  <2>1. Quiet
    BY <1>7 DEF complete_delegation
  <2> QED BY <1>2, <1>7, <2>1, CompleteKeeps
<1>8. ASSUME NEW n \in Names, delete_identity(n) PROVE IInv'
  <2>1. Quiet
    BY <1>8 DEF delete_identity
  <2> QED BY <1>2, <1>8, <2>1, DeleteKeeps
<1>9. ASSUME NEW n \in Names, Load(n) PROVE IInv'
  <2>1. Quiet
    BY <1>9 DEF Load
  <2> QED BY <1>2, <1>9, <2>1, LoadKeeps
<1>10. ASSUME NEW n \in Names, Expire(n) PROVE IInv'
  <2>1. Quiet
    BY <1>10 DEF Expire
  <2> QED BY <1>2, <1>10, <2>1, ExpireKeeps
<1>11. ASSUME NEW n \in Names, NEW m \in Names, rename_identity(n, m) PROVE IInv'
  <2>1. Quiet
    BY <1>11 DEF rename_identity
  <2> QED BY <1>2, <1>11, <2>1, RenameKeeps
<1>12. ASSUME NEW n \in Names \cup {Anonymous}, change_default_identity(n) PROVE IInv'
  <2>1. Quiet
    BY <1>12 DEF change_default_identity
  <2> QED BY <1>2, <1>12, <2>1, DefaultKeeps
<1> QED BY <1>1, <1>3, <1>4, <1>5, <1>6, <1>7, <1>8, <1>9, <1>10, <1>11, <1>12,
           BeginKeeps, ReauthWebKeeps, ReauthPemKeeps, FailsKeeps DEF Next

(* What the invariant says of the properties.                                 *)
LEMMA IntactByIInv == ASSUME NamesApart, IInv PROVE IdentityIntact
<1>1. \A p \in Places : Holds(p, store[p])
  BY DEF IInv, Typed
<1>2. TypeOK
  <2>1. store[Default] \in Names \cup {Anonymous}
    BY <1>1, Apart DEF Holds
  <2>2. ASSUME NEW n \in Names
        PROVE  store[List(n)] \in Specs \cup {None} /\ store[Pem(n)] \in Materials \cup {None}
               /\ store[Chain(n)] \in Chains \cup {None}
    BY <1>1, Five DEF Holds, Entry
  <2>3. \A u \in Users : store[Ring(u)] \in Materials \cup {None}
    BY <1>1, Apart DEF Holds
  <2>4. reauth \in Reauths \cup {None} /\ interrupted \subseteq Names /\ cuts \in 0 .. MaxCuts
    BY DEF IInv, Waits
  <2> QED BY <2>1, <2>2, <2>3, <2>4 DEF TypeOK
<1>3. ASSUME NEW n \in Listed
      PROVE  /\ Kind(n) # "hsm" => Readable(n)
             /\ Kind(n) \in {"pem", "keyring"} => KeyOf(n).key = store[List(n)].who
             /\ Kind(n) \in Delegated => store[Chain(n)] # None /\ store[Chain(n)].root = store[List(n)].who
  <2>1. n \in Names /\ store[List(n)] # None
    BY DEF Listed
  <2>2. HasKey(store, n)
    BY <2>1 DEF IInv
  <2> QED BY <2>1, <2>2 DEF HasKey, KeyIn, KeyOf, Kind, Readable, Format
<1>4. KeyAtHand
  BY <1>3 DEF KeyAtHand
<1>5. ASSUME NEW n \in Listed, n \notin interrupted PROVE load_identity(n) \in {None, store[List(n)].who}
  <2>1. n \in Names /\ store[List(n)] # None /\ OnlyUseful(store, n)
    BY <1>5 DEF Listed, IInv, Clean
  <2>2. Kind(n) = "pem" /\ store[Chain(n)] # None => store[Chain(n)].root = store[List(n)].who
    BY <2>1 DEF OnlyUseful, Kind
  <2>3. try_load_pem_session(n) => store[Chain(n)] # None
    BY DEF try_load_pem_session, Valid
  <2>4. CASE Kind(n) = "pem"
    BY <1>3, <2>2, <2>3, <2>4 DEF load_identity, Delegated
  <2>5. CASE Kind(n) = "keyring"
    BY <1>3, <2>5 DEF load_identity, Delegated
  <2>6. CASE Kind(n) = "hsm"
    BY <2>6 DEF load_identity, Delegated
  <2>7. CASE Kind(n) \in Delegated
    BY <1>3, <2>7 DEF load_identity, Delegated
  <2>8. CASE Kind(n) \notin {"pem", "keyring", "hsm"} \cup Delegated
    BY <2>8 DEF load_identity, Delegated
  <2> QED BY <2>4, <2>5, <2>6, <2>7, <2>8
<1>6. SignsAsListed
  BY <1>5 DEF SignsAsListed
<1>7. DefaultListed
  <2>1. store[Default] \in Names \cup {Anonymous}
    BY <1>2 DEF TypeOK
  <2> QED BY <2>1 DEF DefaultListed, IInv, DefaultIs, Listed
<1> QED BY <1>2, <1>4, <1>6, <1>7 DEF IdentityIntact

LEMMA LeftByIInv == ASSUME NamesApart, IInv PROVE NothingLeftBehind
<1>1. ASSUME NEW n \in Names, n \notin Listed, n \notin interrupted PROVE \A p \in Own(n) : store[p] = None
  BY <1>1 DEF IInv, Clean, Unlisted, Listed
<1> QED BY <1>1 DEF NothingLeftBehind, Own

(* Wherever commands are cut short, each listed identity has its own readable *)
(* key and chain, signs as the principal it is listed with, whoever had the   *)
(* name before, and the default is on the list, as long as no other command   *)
(* runs while a reauth is in the browser, no identity is renamed to itself    *)
(* and no name is a session key's user name (identity/key.rs).                *)
THEOREM IdentitiesStayIntact == ASSUME NamesApart, SafeFaults PROVE Spec => []IdentityIntact
<1>1. Init => IInv
  BY InitGood
<1>2. IInv /\ [Next]_vars => IInv'
  BY NextKeeps
<1>3. IInv => IdentityIntact
  BY IntactByIInv
<1> QED BY <1>1, <1>2, <1>3, PTL DEF Spec

(* Under the same conditions a name that is not in use, and was not left by a *)
(* command cut short, has nothing in the keyring or on disk: delete and       *)
(* rename take the key, the chain and the cached session with them.           *)
THEOREM NothingStaysBehind == ASSUME NamesApart, SafeFaults PROVE Spec => []NothingLeftBehind
<1>1. Init => IInv
  BY InitGood
<1>2. IInv /\ [Next]_vars => IInv'
  BY NextKeeps
<1>3. IInv => NothingLeftBehind
  BY LeftByIInv
<1> QED BY <1>1, <1>2, <1>3, PTL DEF Spec

-----------------------------------------------------------------------------
Requests == [nonce : BOOLEAN, body : Bodies, at : Steps]

(* Whatever ends a login was a request that may: a handler gets as far as   *)
(* sending only with one, and what it sends is the outcome of one.          *)
LoginInv ==
    /\ posts \in Seq(Requests)
    /\ waiting = "prompt" => posts = <<>>
    /\ \A i \in DOMAIN posts : posts[i].at \in {"sending", "stopping"} => Ends(posts[i])
    /\ \A i \in DOMAIN posts : posts[i].at = "stopping" => chain # None
    /\ chain # None => \E i \in DOMAIN posts : Ends(posts[i]) /\ Outcome(posts[i]) = chain
    /\ shutdown \/ served => chain # None
    /\ result # None => result = chain /\ chain # "invalid"
    /\ waiting \in {"failed", "panicked"} => posts = <<>> \/ chain # None

LEMMA LoginStarts == LoginInit => LoginInv
BY DEF LoginInit, LoginInv

(* A handler goes on with its request.                                      *)
LEMMA HandlerKeeps ==
    ASSUME LoginInv, NEW i \in DOMAIN posts, NEW at \in Steps, Answer(i, at),
           at \in {"sending", "stopping"} => Ends(posts[i]),
           at = "stopping" => chain' # None,
           UNCHANGED <<expected, waiting, result>>, shutdown' \/ served' => chain' # None,
           chain' = chain \/ (chain = None /\ Ends(posts[i]) /\ chain' = Outcome(posts[i]))
    PROVE  LoginInv'
<1>1. /\ posts \in [1 .. Len(posts) -> Requests] /\ DOMAIN posts = 1 .. Len(posts)
      /\ posts \in Seq(Requests) /\ Len(posts) \in Nat
  BY DEF LoginInv
<1>2. posts' = [posts EXCEPT ![i] = [posts[i] EXCEPT !.at = at]]
  BY DEF Answer
<1>3. PICK p : p = [posts[i] EXCEPT !.at = at]
  OBVIOUS
<1>4. posts[i] \in Requests
  BY <1>1
<1>5. p \in Requests /\ p.at = at /\ p.nonce = posts[i].nonce /\ p.body = posts[i].body
  BY <1>3, <1>4 DEF Requests
<1>6. DOMAIN posts' = DOMAIN posts /\ posts'[i] = p /\ \A j \in DOMAIN posts \ {i} : posts'[j] = posts[j]
  BY <1>1, <1>2, <1>3
<1>7. posts' \in Seq(Requests)
  BY <1>1, <1>2, <1>3, <1>5
<1>8. \A j \in DOMAIN posts : posts'[j].nonce = posts[j].nonce /\ posts'[j].body = posts[j].body
  BY <1>5, <1>6
<1>9. \A j \in DOMAIN posts : (Ends(posts[j])' <=> Ends(posts[j])) /\ Outcome(posts[j])' = Outcome(posts[j])
  BY <1>8 DEF Ends, Mismatch, Outcome
<1>10. \A j \in DOMAIN posts : posts'[j].at \in {"sending", "stopping"} => Ends(posts[j])'
  BY <1>5, <1>6, <1>9 DEF LoginInv
<1>11. chain' # None => \E j \in DOMAIN posts : Ends(posts[j])' /\ Outcome(posts[j])' = chain'
  BY <1>6, <1>9 DEF LoginInv
<1>12. \A j \in DOMAIN posts : posts'[j].at = "stopping" => chain' # None
  BY <1>5, <1>6 DEF LoginInv
<1>13. posts # <<>> /\ waiting # "prompt"
  BY DEF LoginInv
<1>14. chain # None => chain' = chain
  OBVIOUS
<1>15. result' # None => result' = chain' /\ chain' # "invalid"
  BY <1>14 DEF LoginInv
<1>16. waiting' \in {"failed", "panicked"} => posts' = <<>> \/ chain' # None
  BY <1>13, <1>14 DEF LoginInv
<1> QED BY <1>6, <1>7, <1>10, <1>11, <1>12, <1>13, <1>15, <1>16 DEF LoginInv

LEMMA HandleStep == ASSUME LoginInv, LoginAssumption, Handle PROVE LoginInv'
<1>1. PICK i \in DOMAIN posts : Receive(i) \/ Send(i) \/ Stop(i)
  BY DEF Handle
<1>2. CASE Receive(i)
  <2>1. PICK at : at = IF Ends(posts[i]) THEN "sending" ELSE "answered"
    OBVIOUS
  <2>2. Answer(i, at) /\ at \in Steps
    BY <1>2, <2>1 DEF Receive, Steps
  <2> QED BY <1>2, <2>1, <2>2, HandlerKeeps DEF Receive, LoginInv
<1>3. CASE Send(i)
  <2>1. Ends(posts[i])
    BY <1>3 DEF LoginInv, Send
  <2>2. Outcome(posts[i]) # None
    <3>1. posts[i] \in Requests
      BY DEF LoginInv
    <3> QED BY <3>1 DEF Outcome, Requests, LoginAssumption
  <2>3. chain' # None /\ "stopping" \in Steps
    BY <1>3, <2>2 DEF Send, Steps
  <2> QED BY <1>3, <2>1, <2>3, HandlerKeeps DEF Send
<1>4. CASE Stop(i)
  <2>1. chain # None /\ "answered" \in Steps
    BY <1>4 DEF LoginInv, Stop, Steps
  <2> QED BY <1>4, <2>1, HandlerKeeps DEF Stop
<1> QED BY <1>1, <1>2, <1>3, <1>4

LEMMA PostStep == ASSUME LoginInv, NEW nonce \in BOOLEAN, NEW body \in Bodies, Post(nonce, body) PROVE LoginInv'
<1>1. PICK p : p = [nonce |-> nonce, body |-> body, at |-> "arrived"]
  OBVIOUS
<1>2. p \in Requests /\ p.at = "arrived"
  BY <1>1 DEF Requests, Steps
<1>3. posts' = Append(posts, p) /\ posts \in Seq(Requests)
  BY <1>1 DEF Post, LoginInv
<1>4. /\ posts' \in Seq(Requests) /\ posts' # <<>> /\ DOMAIN posts' = DOMAIN posts \cup {Len(posts) + 1}
      /\ posts'[Len(posts) + 1] = p /\ \A i \in DOMAIN posts : posts'[i] = posts[i]
  BY <1>2, <1>3
<1>5. UNCHANGED <<expected, waiting, chain, shutdown, served, result>> /\ waiting = "select"
  BY DEF Post
<1>6. \A i \in DOMAIN posts : (Ends(posts[i])' <=> Ends(posts[i])) /\ Outcome(posts[i])' = Outcome(posts[i])
  BY <1>4, <1>5 DEF Ends, Mismatch, Outcome
<1>7. chain' # None => \E i \in DOMAIN posts' : Ends(posts[i])' /\ Outcome(posts[i])' = chain'
  BY <1>4, <1>5, <1>6 DEF LoginInv
<1>8. \A i \in DOMAIN posts' : posts'[i].at \in {"sending", "stopping"} => Ends(posts[i])'
  BY <1>2, <1>4, <1>6 DEF LoginInv
<1>9. \A i \in DOMAIN posts' : posts'[i].at = "stopping" => chain' # None
  BY <1>2, <1>4, <1>5 DEF LoginInv
<1> QED BY <1>4, <1>5, <1>7, <1>8, <1>9 DEF LoginInv

LEMMA LoginStep == ASSUME LoginAssumption PROVE LoginInv /\ [LoginNext]_loginVars => LoginInv'
<1> SUFFICES ASSUME LoginInv, [LoginNext]_loginVars PROVE LoginInv'
  OBVIOUS
<1>1. ASSUME UNCHANGED <<expected, posts, chain, shutdown, result>>, served' => shutdown \/ served,
             waiting' = "prompt" => waiting = "prompt",
             waiting' \in {"failed", "panicked"} => posts = <<>> \/ chain # None
      PROVE  LoginInv'
  BY <1>1 DEF LoginInv, Ends, Mismatch, Outcome
<1>2. CASE UNCHANGED loginVars
  BY <1>1, <1>2 DEF loginVars, LoginInv
<1>3. CASE Enter
  BY <1>1, <1>3 DEF Enter, LoginInv
<1>4. CASE ServerEnds
  BY <1>1, <1>4 DEF ServerEnds, LoginInv
<1>5. CASE SelectEvent
  BY <1>1, <1>5 DEF SelectEvent, LoginInv
<1>6. CASE SelectServer
  BY <1>1, <1>6 DEF SelectServer, LoginInv
<1>7. CASE SelectChain
  <2>1. UNCHANGED <<expected, posts, chain, shutdown, served>> /\ chain # None
    BY <1>7 DEF SelectChain
  <2>2. waiting' \in {"failed", "returned"} /\ (result' # None => result' = chain /\ chain # "invalid")
    BY <1>7 DEF SelectChain
  <2> QED BY <2>1, <2>2 DEF LoginInv, Ends, Mismatch, Outcome
<1>8. CASE \E nonce \in BOOLEAN, body \in Bodies : Post(nonce, body)
  BY <1>8, PostStep
<1> QED BY <1>2, <1>3, <1>4, <1>5, <1>6, <1>7, <1>8, HandleStep DEF LoginNext

(* web.rs: a login that returns returns the chain of a request that echoed  *)
(* the nonce, of the expected principal if there is one; and once requests  *)
(* have come it fails only because of one that echoed the nonce and was not *)
(* of another principal.  For any requests, however their handlers          *)
(* interleave with one another and with the waiting command.                *)
THEOREM LoginsAreBound == ASSUME LoginAssumption PROVE LoginSpec => []LoginBound
<1>1. LoginInv => LoginBound
  <2> SUFFICES ASSUME LoginInv PROVE LoginBound
    OBVIOUS
  <2>1. ASSUME result # None
        PROVE  /\ \E i \in DOMAIN posts : posts[i].nonce /\ posts[i].body = result
               /\ result \in Principals => expected \in {None, result}
    <3>1. PICK i \in DOMAIN posts : Ends(posts[i]) /\ Outcome(posts[i]) = result
      BY <2>1 DEF LoginInv
    <3>2. posts[i].nonce /\ posts[i].body = result /\ ~Mismatch(posts[i])
      BY <2>1, <3>1 DEF LoginInv, Ends, Outcome
    <3> QED BY <3>2 DEF Mismatch
  <2>2. ASSUME posts # <<>>, waiting \in {"failed", "panicked"}
        PROVE  \E i \in DOMAIN posts : posts[i].nonce /\ ~Mismatch(posts[i])
    BY <2>2 DEF LoginInv, Ends
  <2> QED BY <2>1, <2>2 DEF LoginBound
<1> QED BY <1>1, LoginStarts, LoginStep, PTL DEF LoginSpec

-----------------------------------------------------------------------------
(* The key in a file and in the store is the user's, unless the user said   *)
(* that it is something else; and a file that was exported is sealed with   *)
(* the password it was exported with.                                       *)
KeyInv ==
    /\ IF file = None THEN key = "secp256k1" ELSE key = file.real
    /\ kept # None /\ ~misread =>
           /\ key \in Algorithms
           /\ \E storage \in Storages, p \in Sealings : kept = Stored(key, storage, p)
    /\ wrapping # None =>
           /\ key \in Algorithms
           /\ file # None /\ file = PemFile("ENCRYPTED PRIVATE KEY", key, TRUE, FALSE, trim(wrapping))

(* What is read of a file is the key itself, unless something else is said  *)
(* to be in it.                                                             *)
LEMMA ReadsItself ==
    ASSUME NEW f, NEW password, NEW asserted \in Algorithms \cup {None}, asserted \in {None, f.real},
           NEW algorithm \in ReadFrom(f, password, asserted) \ {None}
    PROVE  algorithm = f.real /\ algorithm \in Algorithms
BY DEF ReadFrom, import_pkcs8, import_sec1, ReadAs, Algorithms, Curves

LEMMA KeyStarts == KeyInit => KeyInv
BY DEF KeyInit, KeyInv

LEMMA KeyStep == ASSUME KeyAssumption PROVE KeyInv /\ [KeyNext]_keyVars => KeyInv'
<1> SUFFICES ASSUME KeyInv, [KeyNext]_keyVars PROVE KeyInv'
  OBVIOUS
<1>1. CASE UNCHANGED keyVars
  BY <1>1 DEF keyVars, KeyInv
<1>2. ASSUME NEW algorithm, NEW storage \in Storages, NEW protect \in Sealings, kept' = Stored(algorithm, storage, protect),
             key' = key, UNCHANGED <<file, wrapping>>, ~misread' => algorithm = key /\ key \in Algorithms
      PROVE  KeyInv'
  BY <1>2 DEF KeyInv
<1>3. ASSUME NEW asserted \in Algorithms \cup {None}, NEW storage \in Storages, NEW p \in Texts, NEW protect \in Texts,
             import_from_pem(p, asserted, storage, protect)
      PROVE  KeyInv'
  <2>1. PICK algorithm \in ReadFrom(file, p, asserted) \ {None} : kept' = Stored(algorithm, storage, trim(protect))
    BY <1>3 DEF import_from_pem
  <2>2. file # None /\ key = file.real /\ (~misread' => asserted \in {None, key}) /\ UNCHANGED <<key, file, wrapping>>
    BY <1>3 DEF import_from_pem, KeyInv
  <2>3. ~misread' => algorithm = key /\ key \in Algorithms
    BY <2>1, <2>2, ReadsItself
  <2> QED BY <1>2, <2>1, <2>2, <2>3 DEF Sealings
<1>4. ASSUME NEW storage \in Storages, NEW protect \in Texts, new(storage, protect)
      PROVE  KeyInv'
  <2>1. key = "secp256k1"
    BY <1>4 DEF new, KeyInv
  <2> QED BY <1>2, <1>4, <2>1 DEF new, Algorithms, Curves, Sealings
<1>5. ASSUME NEW storage \in Storages, NEW protect \in Texts, NEW curve \in Algorithms,
             import_from_seed_phrase(curve, storage, protect)
      PROVE  KeyInv'
  BY <1>2, <1>5 DEF import_from_seed_phrase, Sealings
<1>6. ASSUME NEW p \in Texts, NEW wrap \in Texts \cup {None}, ~misread, export_identity(p, wrap)
      PROVE  KeyInv'
  <2>1. UNCHANGED <<key, kept, misread>> /\ kept # None /\ wrapping' = wrap
    BY <1>6 DEF export_identity
  <2>2. PICK storage \in Storages, q \in Sealings : kept = Stored(key, storage, q)
    BY <1>6, <2>1 DEF KeyInv
  <2>3. key \in Algorithms /\ kept.pem.real = key
    BY <1>6, <2>1, <2>2 DEF KeyInv, Stored, PemFile
  <2>4. file' = IF wrap = None THEN PemFile("PRIVATE KEY", key, TRUE, FALSE, None)
                ELSE PemFile("ENCRYPTED PRIVATE KEY", key, TRUE, FALSE, trim(wrap))
    BY <1>6, <2>3 DEF export_identity
  <2>5. file' # None
    BY <1>6, <2>3, <2>4 DEF KeyAssumption, Sealings
  <2>6. file'.real = key
    BY <2>4 DEF PemFile
  <2> QED BY <2>1, <2>2, <2>3, <2>4, <2>5, <2>6 DEF KeyInv
<1>7. CASE Forget
  BY <1>7 DEF Forget, KeyInv
<1> QED BY <1>1, <1>3, <1>4, <1>5, <1>6, <1>7 DEF KeyNext

(* key.rs, import.rs, export.rs: unless the user says that it is something  *)
(* else, a key signs as the same principal wherever it has been, and what   *)
(* export writes can be imported again by typing the password it was        *)
(* exported with, also if export read it from a file with a line break.     *)
THEOREM KeysStay == ASSUME KeyAssumption PROVE KeySpec => []KeyKept
<1>1. KeyInv => KeyKept
  <2> SUFFICES ASSUME KeyInv PROVE KeyKept
    OBVIOUS
  <2>1. ASSUME kept # None, ~misread
        PROVE  kept.algorithm = key /\ load(kept, kept.pem.seal) = {key}
    <3>1. PICK storage \in Storages, p \in Sealings : kept = Stored(key, storage, p)
      BY <2>1 DEF KeyInv
    <3>2. /\ kept.algorithm = key /\ kept.storage = storage /\ kept.pem.real = key
          /\ kept.pem.label = IF storage = "pbes2" THEN "ENCRYPTED PRIVATE KEY" ELSE "PRIVATE KEY"
      BY <3>1 DEF Stored, PemFile
    <3> QED BY <3>2 DEF load, ReadAs
  <2>2. ASSUME wrapping # None
        PROVE  ReadFrom(file, trim(wrapping), None) = {key}
    <3>1. file = PemFile("ENCRYPTED PRIVATE KEY", key, TRUE, FALSE, trim(wrapping)) /\ key \in Algorithms
      BY <2>2 DEF KeyInv
    <3>2. file.label = "ENCRYPTED PRIVATE KEY" /\ file.real = key /\ file.seal = trim(wrapping) /\ file.stated
      BY <3>1 DEF PemFile
    <3>3. import_pkcs8(file, trim(wrapping), None) = {key}
      BY <3>1, <3>2 DEF import_pkcs8
    <3> QED BY <3>2, <3>3 DEF ReadFrom
  <2> QED BY <2>1, <2>2 DEF KeyKept
<1> QED BY <1>1, KeyStarts, KeyStep, PTL DEF KeySpec
=============================================================================
