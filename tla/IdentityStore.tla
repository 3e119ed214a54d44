---------------------------- MODULE IdentityStore ----------------------------
(***************************************************************************)
(* The identities of a user: the list and the default, key files, entries  *)
(* of the system's keyring and delegation chains, which every identity     *)
(* command changes one after the other.                                    *)
(*                                                                         *)
(*   crates/icp/src/identity/{mod,key,manifest,delegation}.rs              *)
(*   crates/icp-cli/src/commands/identity/**                               *)
(*                                                                         *)
(* A command works inside one with_write section (DirLock), so others see  *)
(* all of its writes or, if it fails or is killed, the first few.  A       *)
(* section is the sequence of its writes, and a step of it a prefix.  Only *)
(* reauth of a web identity is two sections with a login in a browser      *)
(* between them.  A key stands for itself and for its principal; what is   *)
(* signed with a chain is signed as the chain's root.                      *)
(***************************************************************************)
EXTENDS Absent, Naturals, Sequences, FiniteSets

CONSTANTS
    Names,      \* names of identities, without "anonymous"
    Users,      \* user names of the service icp-cli in the keyring
    DlgUser,    \* per name: the user name "delegation:<name>"
    P256,       \* keys of session pairs that icp-cli generates or imports
    Keys,       \* keys of the other algorithms
    Roots,      \* principals behind web logins, HSMs and other people's chains
    Formats,    \* how key material is kept: "plain", "pbes2", "keyring"
    Faults,     \* which of AllFaults may happen
    MaxCuts,    \* bound on the sections that end early
    Anonymous

(* overlap   other commands run while a reauth waits for the browser       *)
(* mismatch  the user attaches a chain that was issued to another key      *)
(* self      an identity is renamed to the name that it has                *)
AllFaults == {"overlap", "mismatch", "self"}
AllKeys == P256 \cup Keys

(* What is kept of an identity, and of a reauth.                           *)
Specs == [kind : {"pem", "keyring", "hsm", "webauth", "pending", "delegation"}, storage : Formats \cup {"plain"},
          who : AllKeys \cup Roots \cup {None}]
Materials == [key : AllKeys, enc : BOOLEAN]
Chains == [root : AllKeys \cup Roots, leaf : AllKeys, live : BOOLEAN]
Reauths == [name : Names, kind : {"webauth", "pem"}, leaf : AllKeys, root : AllKeys \cup Roots]

ASSUME IdentityAssumption ==
    /\ Names \subseteq Users /\ DlgUser \in [Names -> Users]
    /\ \A n, m \in Names : n # m => DlgUser[n] # DlgUser[m]
    /\ P256 \cap Keys = {} /\ AllKeys \cap Roots = {}
    /\ Formats \subseteq {"plain", "pbes2", "keyring"}
    /\ Anonymous \notin Names /\ Faults \subseteq AllFaults /\ MaxCuts \in Nat
    /\ None \notin Names \cup Specs \cup Materials \cup Chains \cup Reauths

(* No identity is called what a session key is kept under.  Nothing in the *)
(* code sees to it: names are not validated.                               *)
NamesApart == \A n, m \in Names : DlgUser[n] # m

VARIABLES
    store,          \* what is on disk and in the keyring, by Places
    reauth,         \* a reauth that waits for its login, or None
    interrupted,    \* ghost: names whose files a section left half changed
    cuts            \* ghost: how many sections ended early

vars == <<store, reauth, interrupted, cuts>>

-----------------------------------------------------------------------------
(* Where things are: identity_list.json by name, identity_defaults.json,   *)
(* keys/<name>.pem, delegations/<name>.json, the keyring.                  *)
Default == <<"default", Anonymous>>
List(n) == <<"list", n>>
Pem(n) == <<"pem", n>>
Chain(n) == <<"chain", n>>
Ring(u) == <<"ring", u>>
Places == {Default} \cup {List(n) : n \in Names} \cup {Pem(n) : n \in Names}
          \cup {Chain(n) : n \in Names} \cup {Ring(u) : u \in Users}

Spec_(kind, storage, who) == [kind |-> kind, storage |-> storage, who |-> who]
Material(key, format) == [key |-> key, enc |-> format = "pbes2"]
Chained(root, leaf) == [root |-> root, leaf |-> leaf, live |-> TRUE]

Listed == {n \in Names : store[List(n)] # None}
Kind(n) == store[List(n)].kind
Format(n) == store[List(n)].storage
Delegated == {"webauth", "delegation"}

(* Where the key of an identity is kept: session keys under a user name of *)
(* their own.  An HSM keeps its key.                                       *)
KeyPlace(n, spec) ==
    IF spec.storage # "keyring" THEN Pem(n)
    ELSE IF spec.kind = "keyring" THEN Ring(n) ELSE Ring(DlgUser[n])
KeyOf(n) == store[KeyPlace(n, store[List(n)])]

(* Keys that were never in use.                                            *)
Unused(keys) ==
    {k \in keys : /\ \A p \in Places : store[p] # None /\ p[1] \in {"pem", "ring"} => store[p].key # k
                  /\ \A n \in Names : store[Chain(n)] # None => k \notin {store[Chain(n)].leaf, store[Chain(n)].root}
                  /\ reauth # None => reauth.leaf # k}

Write(p, what) == [q \in {p} |-> what]

(* The store after the first k of the writes ws, each a function on some   *)
(* places: the last write to a place counts.                               *)
After(ws, k) ==
    [p \in Places |->
        LET hits == {i \in 1 .. k : p \in DOMAIN ws[i]}
        IN  IF hits = {} THEN store[p]
            ELSE ws[CHOOSE i \in hits : \A j \in hits : j <= i][p]]

(* One section about the names ns.  It may be cut short by a failing write *)
(* or the end of the process.  A name that has leftovers passes them on.   *)
Cut(ns) == cuts < MaxCuts /\ cuts' = cuts + 1 /\ interrupted' = interrupted \cup ns

Section(ns, ws) ==
    \/ /\ store' = After(ws, Len(ws))
       /\ interrupted' = IF ns \cap interrupted # {} THEN interrupted \cup ns ELSE interrupted
       /\ UNCHANGED cuts
    \/ /\ \E k \in 1 .. Len(ws) - 1 : store' = After(ws, k)
       /\ Cut(ns)

Quiet == reauth # None => "overlap" \in Faults

-----------------------------------------------------------------------------
(* new, import: the key, then the chain of an imported delegation, then    *)
(* the list.  A session key in the keyring is taken back if one of the     *)
(* later writes fails.                                                     *)
NewSpec(key, format, chain) ==
    IF chain # None THEN Spec_("delegation", format, chain.root)
    ELSE Spec_(IF format = "keyring" THEN "keyring" ELSE "pem", format, key)

CreateWrites(n, key, format, chain) ==
    LET spec == NewSpec(key, format, chain)
    IN  <<Write(KeyPlace(n, spec), Material(key, format))>>
        \o (IF chain = None THEN <<>> ELSE <<Write(Chain(n), chain)>>)
        \o <<Write(List(n), spec)>>

CreateRolledBack(n, chain) ==
    /\ \/ store' = [store EXCEPT ![Ring(DlgUser[n])] = None]
       \/ store' = [store EXCEPT ![Ring(DlgUser[n])] = None, ![Chain(n)] = chain]
    /\ Cut({n})

create_identity(n, key, format, chain) ==
    /\ Quiet /\ n \notin Listed
    /\ chain # None => chain.leaf = key
    /\ \/ Section({n}, CreateWrites(n, key, format, chain))
       \/ chain # None /\ format = "keyring" /\ CreateRolledBack(n, chain)
    /\ UNCHANGED reauth

Create(n) ==
    \E format \in Formats :
        \/ \E key \in Unused(Keys) : create_identity(n, key, format, None)
        \/ \E key \in Unused(P256), root \in Roots : create_identity(n, key, format, Chained(root, key))

(* identity link hsm: the key stays on the device.                         *)
link_hsm_identity(n) ==
    /\ Quiet /\ n \notin Listed
    /\ \E device \in Roots : Section({n}, <<Write(List(n), Spec_("hsm", "plain", device))>>)
    /\ UNCHANGED reauth

(* identity link web: an Ed25519 session key and the chain that the login  *)
(* returned for it.  Nothing is taken back on failure.                     *)
link_webauth_identity(n) ==
    /\ Quiet /\ n \notin Listed
    /\ \E key \in Unused(Keys), format \in Formats, root \in Roots :
         LET spec == Spec_("webauth", format, root)
         IN  Section({n}, <<Write(KeyPlace(n, spec), Material(key, format)), Write(Chain(n), Chained(root, key)),
                            Write(List(n), spec)>>)
    /\ UNCHANGED reauth

(* delegation request: a session key that has no chain yet.                *)
create_pending_delegation(n) ==
    /\ Quiet /\ n \notin Listed
    /\ \E key \in Unused(P256), format \in Formats :
         LET spec == Spec_("pending", format, None)
         IN  Section({n}, <<Write(KeyPlace(n, spec), Material(key, format)), Write(List(n), spec)>>)
    /\ UNCHANGED reauth

(* delegation use: attaches a chain, which is not compared with the key.   *)
complete_delegation(n) ==
    /\ Quiet /\ n \in Listed /\ Kind(n) = "pending"
    /\ \E root \in Roots, leaf \in P256 :
         /\ leaf # KeyOf(n).key => "mismatch" \in Faults
         /\ Section({n}, <<Write(Chain(n), Chained(root, leaf)), Write(List(n), Spec_("delegation", Format(n), root))>>)
    /\ UNCHANGED reauth

(* identity default.                                                       *)
change_default_identity(n) ==
    /\ Quiet /\ n \in Listed \cup {Anonymous}
    /\ Section({}, <<Write(Default, n)>>)
    /\ UNCHANGED reauth

-----------------------------------------------------------------------------
(* rename: key material is copied to the new name, the cached session of a *)
(* PEM identity is moved, the list and the default follow, and the old     *)
(* material goes last.  That the new name is free is asked after the old   *)
(* one was taken out of the list.                                          *)
CopiesNoChain(a, b) == IF Kind(a) = "hsm" THEN <<>> ELSE <<Write(KeyPlace(b, store[List(a)]), KeyOf(a))>>

Copies(a, b) ==
    LET spec == store[List(a)]
    IN  (IF spec.kind \in Delegated THEN <<Write(Chain(b), store[Chain(a)])>> ELSE <<>>)
        \o (IF spec.kind = "hsm" THEN <<>> ELSE <<Write(KeyPlace(b, spec), KeyOf(a))>>)

SessionMoves(a, b) ==
    LET key == store[Ring(DlgUser[a])]
        chain == store[Chain(a)]
    IN  IF Kind(a) # "pem" THEN <<>>
        ELSE (IF key = None THEN <<>> ELSE <<Write(Ring(DlgUser[b]), key), Write(Ring(DlgUser[a]), None)>>)
             \o (IF chain = None THEN <<>> ELSE <<Write(Chain(b), chain), Write(Chain(a), None)>>)

Drops(n, spec) ==
    (IF spec.kind = "hsm" THEN <<>> ELSE <<Write(KeyPlace(n, spec), None)>>)
    \o (IF spec.kind \in Delegated THEN <<Write(Chain(n), None)>> ELSE <<>>)

Relist(a, b) == [p \in {List(a), List(b)} |-> IF p = List(b) THEN store[List(a)] ELSE None]

RenameTaken(a, b) == b \in Listed \ {a}

Follow(a, b) == IF store[Default] = a THEN <<Write(Default, b)>> ELSE <<>>

rename_identity(a, b) ==
    /\ Quiet /\ a \in Listed /\ ~RenameTaken(a, b)
    /\ a = b => "self" \in Faults
    /\ Kind(a) # "hsm" => KeyOf(a) # None
    /\ Kind(a) \in Delegated => store[Chain(a)] # None
    /\ Section({a, b},
         Copies(a, b) \o SessionMoves(a, b)
         \o <<Relist(a, b)>>
         \o Follow(a, b)
         \o Drops(a, store[List(a)]))
    /\ UNCHANGED reauth

(* delete: the list first, then the material; the cached session of a PEM  *)
(* identity as far as that works.                                          *)
SessionDropsKey(n) == IF Kind(n) = "pem" THEN <<Write(Ring(DlgUser[n]), None)>> ELSE <<>>

SessionDrops(n) ==
    IF Kind(n) = "pem" THEN <<Write(Ring(DlgUser[n]), None), Write(Chain(n), None)>> ELSE <<>>

delete_identity(n) ==
    /\ Quiet /\ n \in Listed
    /\ store[Default] # n
    /\ Section({n}, <<Write(List(n), None)>> \o Drops(n, store[List(n)]) \o SessionDrops(n))
    /\ UNCHANGED reauth

-----------------------------------------------------------------------------
(* A chain is of use if it is not about to expire and was issued to the    *)
(* key: DelegatedIdentity::new refuses it otherwise.                       *)
Valid(chain, key) == chain # None /\ chain.live /\ key # None /\ chain.leaf = key.key

(* The session of a password-protected PEM identity: a P-256 key in the    *)
(* keyring and a chain in the file of the name.                            *)
try_load_pem_session(n) ==
    LET key == store[Ring(DlgUser[n])]
    IN  Valid(store[Chain(n)], key) /\ key.key \in P256

Readable(n) == KeyOf(n) # None /\ KeyOf(n).enc = (Format(n) = "pbes2")

(* As whom an identity signs, None if it cannot be loaded.                 *)
load_identity(n) ==
    CASE Kind(n) = "pem" -> IF Format(n) = "pbes2" /\ try_load_pem_session(n) THEN store[Chain(n)].root
                            ELSE IF Readable(n) THEN KeyOf(n).key ELSE None
      [] Kind(n) = "keyring" -> IF Readable(n) THEN KeyOf(n).key ELSE None
      [] Kind(n) = "hsm" -> store[List(n)].who
      [] Kind(n) \in Delegated -> IF Readable(n) /\ Valid(store[Chain(n)], KeyOf(n)) THEN store[Chain(n)].root ELSE None
      [] OTHER -> None

(* A session for a PEM identity, signed by its key: the new session key,   *)
(* then the chain; if the chain cannot be saved the key is taken back.     *)
create_pem_session(n, file) ==
    \E key \in Unused(P256) :
        \/ Section({}, <<Write(Ring(DlgUser[n]), Material(key, "keyring")), Write(Chain(n), Chained(file.key, key))>>)
        \/ /\ store' = [store EXCEPT ![Ring(DlgUser[n])] = None]
           /\ Cut({})

(* Any command that signs loads its identity first; for a PEM identity     *)
(* with a password this leaves a session, if sessions are enabled.         *)
Load(n) ==
    /\ Quiet /\ n \in Listed
    /\ Kind(n) = "pem" /\ Format(n) = "pbes2" /\ ~try_load_pem_session(n) /\ Readable(n)
    /\ create_pem_session(n, KeyOf(n))
    /\ UNCHANGED reauth

(* reauth reads the identity in a section of its own.                      *)
ReauthBegin(n) ==
    /\ reauth = None /\ n \in Listed /\ Readable(n)
    /\ \/ Kind(n) = "webauth"
       \/ Kind(n) = "pem" /\ Format(n) = "pbes2"
    /\ reauth' = [name |-> n, kind |-> Kind(n), leaf |-> KeyOf(n).key, root |-> store[List(n)].who]
    /\ UNCHANGED <<store, interrupted, cuts>>

(* The login must be with the principal that was read.  update_webauth_-   *)
(* delegation then looks only whether the name is still a web identity.    *)
ReauthWeb ==
    /\ reauth # None /\ reauth.kind = "webauth"
    /\ reauth.name \in Listed /\ Kind(reauth.name) = "webauth"
    /\ Section({}, <<Write(Chain(reauth.name), Chained(reauth.root, reauth.leaf))>>)
    /\ reauth' = None

(* create_explicit_pem_session decrypts the file that is there now.        *)
ReauthPem ==
    /\ reauth # None /\ reauth.kind = "pem"
    /\ LET file == store[Pem(reauth.name)]
       IN  file # None /\ file.enc /\ create_pem_session(reauth.name, file)
    /\ reauth' = None

(* The user gives up, or the login or a later check fails.                 *)
ReauthFails == reauth # None /\ reauth' = None /\ UNCHANGED <<store, interrupted, cuts>>

(* Time passes.                                                            *)
Expire(n) ==
    /\ Quiet /\ store[Chain(n)] # None /\ store[Chain(n)].live
    /\ store' = [store EXCEPT ![Chain(n)].live = FALSE]
    /\ UNCHANGED <<reauth, interrupted, cuts>>

-----------------------------------------------------------------------------
Init ==
    /\ store = [p \in Places |-> IF p = Default THEN Anonymous ELSE None]
    /\ reauth = None /\ interrupted = {} /\ cuts = 0

Next ==
    \/ \E n \in Names :
         \/ Create(n) \/ link_hsm_identity(n) \/ link_webauth_identity(n) \/ create_pending_delegation(n)
         \/ complete_delegation(n) \/ delete_identity(n) \/ Load(n) \/ ReauthBegin(n) \/ Expire(n)
         \/ \E m \in Names : rename_identity(n, m)
    \/ \E n \in Names \cup {Anonymous} : change_default_identity(n)
    \/ ReauthWeb \/ ReauthPem \/ ReauthFails

Spec == Init /\ [][Next]_vars

-----------------------------------------------------------------------------
(* Every file holds what it is for.                                        *)
TypeOK ==
    /\ store[Default] \in Names \cup {Anonymous}
    /\ \A n \in Names : /\ store[List(n)] \in Specs \cup {None}
                        /\ store[Pem(n)] \in Materials \cup {None}
                        /\ store[Chain(n)] \in Chains \cup {None}
    /\ \A u \in Users : store[Ring(u)] \in Materials \cup {None}
    /\ reauth \in Reauths \cup {None}
    /\ interrupted \subseteq Names /\ cuts \in 0 .. MaxCuts

(* Wherever a command is cut short, an identity that is on the list has    *)
(* its own key, readable in the listed format, and, if it is delegated,    *)
(* the chain of the listed principal: creation lists last, rename drops    *)
(* last, delete unlists first (key.rs, "before updating the list", "before *)
(* deleting key material").                                                *)
KeyAtHand ==
    \A n \in Listed :
        /\ Kind(n) # "hsm" => Readable(n)
        /\ Kind(n) \in {"pem", "keyring"} => KeyOf(n).key = store[List(n)].who
        /\ Kind(n) \in Delegated => store[Chain(n)] # None /\ store[Chain(n)].root = store[List(n)].who

(* An identity signs as the principal that the list shows for it, whatever *)
(* sessions were cached under the name by it or by identities that had the *)
(* name before; names with leftovers of an interrupted command excepted.   *)
SignsAsListed ==
    \A n \in Listed \ interrupted : load_identity(n) \in {None, store[List(n)].who}

(* The default is on the list: it cannot be deleted and follows a rename.  *)
(* Only a rename that is cut short between the two files breaks this.      *)
DefaultListed == store[Default] \in Listed \cup {Anonymous} \cup interrupted

(* Every identity that is listed has its key, signs as the principal it is *)
(* listed with, and the default is one of them (and every file holds what  *)
(* it is for).                                                             *)
IdentityIntact == TypeOK /\ KeyAtHand /\ SignsAsListed /\ DefaultListed

(* A name that is not in use has nothing in the keyring or on disk that a  *)
(* later identity of this name could pick up.                              *)
NothingLeftBehind ==
    \A n \in Names \ (Listed \cup interrupted) :
        \A p \in {Pem(n), Chain(n), Ring(n), Ring(DlgUser[n])} : store[p] = None
=============================================================================
