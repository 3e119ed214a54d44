------------------------- MODULE PackageCache_proofs -------------------------
(* What was asked for by its hash is that content, nothing stays in the     *)
(* cache that nobody vouched for, and no launcher is started that is stale  *)
(* for its CLI: for any invocations, URLs, contents and versions.           *)
EXTENDS PackageCache, TLAPS

(* The pcs of each kind of request, and those inside with_write.            *)
OfWasm == {"wasm", "cache_wasm", "copy"}
OfRecipe == {"recipe", "verify", "render", "tag_recipe", "cache_recipe"}
OfLauncher == {"start", "update", "tag_launcher", "download", "replace", "rename", "spawn"}
Inside == {"cache_recipe", "tag_launcher", "download", "replace", "rename"}

Typed ==
    /\ CacheTypeOK
    /\ wasms \in [Contents -> Contents \cup {None, Torn}]
    /\ templates \in [Contents -> Contents \cup {None, Torn}]

(* What an invocation does is what it was asked to do.                      *)
Asked(x) ==
    /\ x.pc \in OfWasm => x.kind = "wasm"
    /\ x.pc \in OfRecipe => x.kind = "recipe"
    /\ x.pc = "fetch" => x.kind \in {"wasm", "recipe"}
    /\ x.pc \in OfLauncher => x.kind \in {"start", "update"}
    /\ x.kind = "wasm" => x.req \in Wasms /\ x.pin \in Contents \cup {None}
    /\ x.kind = "recipe" => x.req \in Recipes /\ x.pin \in Contents \cup {None}

(* What it has of a module: the content it asked for, whose file is there.  *)
HasWasm(x) ==
    /\ x.pc \in {"cache_wasm", "copy"} => x.got \in Contents /\ x.pin \in {None, x.got}
    /\ x.pc = "copy" => wasms[x.got] # None

(* What it has of a recipe: before it is verified, a file from the cache    *)
(* that is of the pin or cut short, or what the URL served; from then on    *)
(* the content that it asked for; and what it caches was vouched for.       *)
HasRecipe(x) ==
    /\ x.pc \in {"wasm", "recipe", "fetch"} => ~x.hit
    /\ x.pc \in OfRecipe \cup {"fetch"} /\ x.kind = "recipe" /\ x.pin # None => x.pin \in vouched
    /\ x.pc \in {"verify", "render"} => x.got \in Contents \cup {Torn} /\ (~x.hit => x.got \in Contents)
    /\ x.pc = "verify" /\ x.hit /\ x.req \in RecipeUrls /\ x.pin # None => x.got \in {x.pin, Torn}
    /\ x.pc \in {"render", "tag_recipe", "cache_recipe"} => x.pin \in {None, x.got}
    /\ x.pc \in {"tag_recipe", "cache_recipe"} => x.got \in vouched

(* How it ended.                                                            *)
EndedWell(x) ==
    /\ x.pc = "done" /\ x.why = "ok" /\ x.kind \in {"wasm", "recipe"} /\ x.pin # None
         => x.got = x.pin \/ (x.kind = "wasm" /\ x.got = Torn)
    /\ x.pc = "done" /\ x.why = "mismatch" /\ x.hit /\ x.req \in RecipeUrls => x.got = Torn

Settled(x) == Asked(x) /\ HasWasm(x) /\ HasRecipe(x) /\ EndedWell(x)

(* The exclusive section is entered by one at a time, and the version of    *)
(* the launcher that is being installed stays the tagged one until it is    *)
(* left.                                                                    *)
Exclusive == \A c \in Clis : cli[c].pc \in Inside => writer = c
TagHeld ==
    \A c \in Clis :
        cli[c].pc \in {"download", "replace", "rename"} /\ cli[c].pin = None
            => tags.latest = cli[c].got /\ tags.updater = CliVersion[c]

AllSettled == \A c \in Clis : Settled(cli[c])
IInv == Typed /\ AllSettled /\ Exclusive /\ TagHeld /\ NothingUnvouched

------------------------------------------------------------------------------
(* How an invocation moves: the others stay, and so does its request.       *)
Alone(c) == \A d \in Clis \ {c} : cli'[d] = cli[d]
SameRequest(c) == cli'[c].kind = cli[c].kind /\ cli'[c].req = cli[c].req /\ cli'[c].pin = cli[c].pin

LEMMA GotoIs ==
    ASSUME Typed, NEW c \in Clis, NEW pc \in Pcs, Goto(c, pc)
    PROVE  /\ cli' \in [Clis -> CliStates] /\ Alone(c) /\ SameRequest(c)
           /\ cli'[c].pc = pc /\ cli'[c].got = cli[c].got /\ cli'[c].hit = cli[c].hit
<1>1. cli \in [Clis -> CliStates] /\ cli' = [cli EXCEPT ![c] = [cli[c] EXCEPT !.pc = pc]]
  BY DEF Typed, CacheTypeOK, Goto
<1>2. cli[c] \in CliStates
  BY <1>1
<1> DEFINE x == [cli[c] EXCEPT !.pc = pc]
<1>3. /\ x \in CliStates /\ x.pc = pc /\ x.got = cli[c].got /\ x.hit = cli[c].hit
      /\ x.kind = cli[c].kind /\ x.req = cli[c].req /\ x.pin = cli[c].pin
  BY <1>2 DEF CliStates
<1> HIDE DEF x
<1>4. cli' = [cli EXCEPT ![c] = x]
  BY <1>1 DEF x
<1> QED BY <1>1, <1>3, <1>4 DEF Alone, SameRequest

LEMMA HaveIs ==
    ASSUME Typed, NEW c \in Clis, NEW pc \in Pcs, NEW got \in Anything, NEW hit \in BOOLEAN,
           Have(c, pc, got, hit)
    PROVE  /\ cli' \in [Clis -> CliStates] /\ Alone(c) /\ SameRequest(c)
           /\ cli'[c].pc = pc /\ cli'[c].got = got /\ cli'[c].hit = hit
<1>1. cli \in [Clis -> CliStates]
  BY DEF Typed, CacheTypeOK
<1>2. cli[c] \in CliStates
  BY <1>1
<1> DEFINE x == [cli[c] EXCEPT !.pc = pc, !.got = got, !.hit = hit]
<1>3. /\ x \in CliStates /\ x.pc = pc /\ x.got = got /\ x.hit = hit
      /\ x.kind = cli[c].kind /\ x.req = cli[c].req /\ x.pin = cli[c].pin
  BY <1>2 DEF CliStates
<1>4. cli' = [cli EXCEPT ![c] = x]
  BY DEF Have
<1> HIDE DEF x
<1> QED BY <1>1, <1>3, <1>4 DEF Alone, SameRequest

LEMMA DoneIs ==
    ASSUME Typed, NEW c \in Clis, NEW got \in Anything, NEW why \in Outcomes, Done(c, got, why)
    PROVE  /\ cli' \in [Clis -> CliStates] /\ Alone(c) /\ SameRequest(c)
           /\ cli'[c].pc = "done" /\ cli'[c].got = got /\ cli'[c].hit = cli[c].hit /\ cli'[c].why = why
<1>1. cli \in [Clis -> CliStates]
  BY DEF Typed, CacheTypeOK
<1>2. cli[c] \in CliStates
  BY <1>1
<1> DEFINE x == [cli[c] EXCEPT !.pc = "done", !.got = got, !.why = why]
<1>3. /\ x \in CliStates /\ x.pc = "done" /\ x.got = got /\ x.why = why /\ x.hit = cli[c].hit
      /\ x.kind = cli[c].kind /\ x.req = cli[c].req /\ x.pin = cli[c].pin
  BY <1>2 DEF CliStates, Pcs
<1>4. cli' = [cli EXCEPT ![c] = x]
  BY DEF Done
<1> HIDE DEF x
<1> QED BY <1>1, <1>3, <1>4 DEF Alone, SameRequest

(* A file that is there and a content that was vouched for stay so, which   *)
(* is all that the others rely on.                                          *)
LEMMA OthersStaySettled ==
    ASSUME IInv, NEW c \in Clis, Alone(c), Settled(cli[c])', vouched \subseteq vouched',
           \A h \in Contents : wasms[h] # None => wasms'[h] # None
    PROVE  AllSettled'
<1> SUFFICES ASSUME NEW d \in Clis PROVE Settled(cli[d])'
  BY DEF AllSettled
<1>1. CASE d = c
  BY <1>1
<1>2. CASE d # c
  <2>1. cli'[d] = cli[d] /\ Settled(cli[d])
    BY <1>2 DEF Alone, IInv, AllSettled
  <2>2. Asked(cli[d])'
    BY <2>1 DEF Settled, Asked
  <2>3. HasWasm(cli[d])'
    BY <2>1 DEF Settled, HasWasm
  <2>4. HasRecipe(cli[d])'
    BY <2>1 DEF Settled, HasRecipe
  <2>5. EndedWell(cli[d])'
    BY <2>1 DEF Settled, EndedWell
  <2> QED BY <2>2, <2>3, <2>4, <2>5 DEF Settled
<1> QED BY <1>1, <1>2

(* It stays where it is, inside or outside of the section, enters it when   *)
(* nobody is inside, or leaves it.                                          *)
SectionMoves(c) ==
    \/ writer' = writer /\ (cli[c].pc \in Inside <=> cli'[c].pc \in Inside)
    \/ NobodyInside /\ writer' = c /\ cli'[c].pc \in Inside
    \/ writer' = (IF writer = c THEN None ELSE writer) /\ cli'[c].pc \notin Inside

SectionOK ==
    /\ Exclusive
    /\ writer \in Clis \cup {None}
    /\ writer # None => cli[writer].pc \in Inside

LEMMA SectionKept ==
    ASSUME CacheAssumption, IInv, NEW c \in Clis, Alone(c), SectionMoves(c) PROVE SectionOK'
<1>1. SectionOK /\ None \notin Clis
  BY DEF IInv, Typed, CacheTypeOK, SectionOK, Inside, CacheAssumption
<1>2. \A d \in Clis : d # c => cli'[d] = cli[d]
  BY DEF Alone
<1>3. CASE writer' = writer /\ (cli[c].pc \in Inside <=> cli'[c].pc \in Inside)
  BY <1>1, <1>2, <1>3 DEF SectionOK, Exclusive
<1>4. CASE NobodyInside /\ writer' = c /\ cli'[c].pc \in Inside
  BY <1>1, <1>2, <1>4 DEF SectionOK, Exclusive, NobodyInside
<1>5. CASE writer' = (IF writer = c THEN None ELSE writer) /\ cli'[c].pc \notin Inside
  BY <1>1, <1>2, <1>5 DEF SectionOK, Exclusive
<1> QED BY <1>3, <1>4, <1>5 DEF SectionMoves

Installing(x) == x.pc \in {"download", "replace", "rename"} /\ x.pin = None
Tagged(c) == tags.latest = cli[c].got /\ tags.updater = CliVersion[c]

LEMMA TagKept ==
    ASSUME CacheAssumption, IInv, NEW c \in Clis, Alone(c),
           tags' = tags \/ NobodyInside \/ writer = c,
           Installing(cli[c])' => Tagged(c)'
    PROVE  TagHeld'
<1> SUFFICES ASSUME NEW d \in Clis, Installing(cli[d])' PROVE Tagged(d)'
  BY DEF TagHeld, Installing, Tagged
<1>1. CASE d = c
  BY <1>1
<1>2. CASE d # c
  <2>1. cli'[d] = cli[d]
    BY <1>2 DEF Alone
  <2>2. Installing(cli[d])
    BY <2>1 DEF Installing
  <2>3. writer = d
    BY <2>2 DEF Installing, IInv, Exclusive, Inside
  <2>4. tags' = tags
    BY <1>2, <2>3 DEF CacheAssumption, NobodyInside
  <2>5. Tagged(d)
    BY <2>2 DEF Installing, Tagged, IInv, TagHeld
  <2> QED BY <2>1, <2>4, <2>5 DEF Tagged
<1> QED BY <1>1, <1>2

(* A step of an invocation.                                                 *)
DiskTyped ==
    /\ wasms \in [Contents -> Contents \cup {None, Torn}]
    /\ templates \in [Contents -> Contents \cup {None, Torn}]
    /\ \A h \in Contents : wasms[h] \in {None, Torn, h} /\ templates[h] \in {None, Torn, h}
    /\ launchers \in [Versions -> {None, "partial", "whole"}]
    /\ tags \in Tags \cup {Torn}

LEMMA DiskIsTyped == IInv => DiskTyped
BY DEF IInv, Typed, CacheTypeOK, DiskTyped

LEMMA StepKeeps ==
    ASSUME CacheAssumption, IInv, NEW c \in Clis, cli' \in [Clis -> CliStates], Alone(c), Settled(cli[c])',
           SectionMoves(c),
           tags' = tags \/ NobodyInside \/ writer = c,
           Installing(cli[c])' => Tagged(c)',
           DiskTyped', UNCHANGED world, asked' \in 0 .. MaxAsked,
           vouched \subseteq vouched', vouched' \subseteq Contents,
           \A h \in Contents : wasms[h] # None => wasms'[h] # None,
           \A h \in Contents : templates'[h] = h => templates[h] = h \/ h \in vouched'
    PROVE  IInv'
<1>1. AllSettled'
  BY OthersStaySettled
<1>2. SectionOK'
  BY SectionKept
<1>3. TagHeld'
  BY TagKept
<1>4. Typed'
  BY <1>2 DEF Typed, CacheTypeOK, SectionOK, DiskTyped, IInv, world, Inside
<1>5. NothingUnvouched'
  BY DEF NothingUnvouched, IInv
<1> QED BY <1>1, <1>2, <1>3, <1>4, <1>5 DEF IInv, SectionOK

(* One that only looks.                                                     *)
LEMMA LookKeeps ==
    ASSUME CacheAssumption, IInv, NEW c \in Clis, cli' \in [Clis -> CliStates], Alone(c), Settled(cli[c])',
           SectionMoves(c), Installing(cli[c])' => Tagged(c)',
           UNCHANGED <<disk, world, ghosts>>
    PROVE  IInv'
<1>1. DiskTyped'
  BY DiskIsTyped DEF DiskTyped, disk
<1>2. UNCHANGED <<tags, world, asked, vouched, wasms, templates>>
  BY DEF disk, ghosts
<1>3. asked' \in 0 .. MaxAsked /\ vouched' \subseteq Contents
  BY <1>2 DEF IInv, Typed, CacheTypeOK
<1> QED BY <1>1, <1>2, <1>3, StepKeeps

(* It ends, with what it was asked for or with an error.                    *)
LEMMA DoneSettles ==
    ASSUME IInv, NEW c \in Clis, NEW got \in Anything, NEW why \in Outcomes, Done(c, got, why),
           why = "ok" /\ cli[c].kind \in {"wasm", "recipe"} /\ cli[c].pin # None
               => got = cli[c].pin \/ (cli[c].kind = "wasm" /\ got = Torn),
           why = "mismatch" /\ cli[c].hit /\ cli[c].req \in RecipeUrls => got = Torn
    PROVE  /\ cli' \in [Clis -> CliStates] /\ Alone(c) /\ Settled(cli[c])'
           /\ cli'[c].pc \notin Inside /\ ~Installing(cli[c])'
<1>1. /\ cli' \in [Clis -> CliStates] /\ Alone(c) /\ SameRequest(c)
      /\ cli'[c].pc = "done" /\ cli'[c].got = got /\ cli'[c].hit = cli[c].hit /\ cli'[c].why = why
  BY DoneIs DEF IInv
<1>2. Asked(cli[c])
  BY DEF IInv, AllSettled, Settled
<1>3. Settled(cli[c])'
  BY <1>1, <1>2 DEF Settled, Asked, HasWasm, HasRecipe, EndedWell, OfWasm, OfRecipe, OfLauncher, SameRequest
<1> QED BY <1>1, <1>3 DEF Installing, Inside

LEMMA SettledNow == ASSUME IInv, NEW c \in Clis PROVE Settled(cli[c]) /\ cli[c] \in CliStates
BY DEF IInv, AllSettled, Typed, CacheTypeOK

LEMMA DiskHas ==
    ASSUME IInv, NEW h \in Contents
    PROVE  wasms[h] \in {None, Torn, h} /\ templates[h] \in {None, Torn, h}
BY DEF IInv, Typed, CacheTypeOK

LEMMA BeginKeeps ==
    ASSUME CacheAssumption, IInv, NEW c \in Clis, NEW kind, NEW req, NEW pin, BeginRequest(c, kind, req, pin),
           req \in Wasms \cup Recipes \cup {None}, pin \in Contents \cup Versions \cup {None},
           kind = "wasm" => req \in Wasms /\ pin \in Contents \cup {None},
           kind = "recipe" => req \in Recipes /\ pin \in Contents \cup {None}
    PROVE  IInv'
<1> DEFINE x == [Unasked EXCEPT !.pc = kind, !.kind = kind, !.req = req, !.pin = pin]
<1>1. kind \in AllKinds /\ cli \in [Clis -> CliStates]
  BY DEF BeginRequest, CacheAssumption, IInv, Typed, CacheTypeOK
<1>2. /\ x \in CliStates /\ x.pc = kind /\ x.kind = kind /\ x.req = req /\ x.pin = pin
      /\ x.hit = FALSE /\ x.got = None
  BY <1>1 DEF Unasked, CliStates, Pcs, AllKinds, Anything, Outcomes
<1>3. cli' = [cli EXCEPT ![c] = x]
  BY DEF BeginRequest
<1> HIDE DEF x
<1>4. cli' \in [Clis -> CliStates] /\ Alone(c) /\ cli'[c] = x
  BY <1>1, <1>2, <1>3 DEF Alone
<1>5. /\ vouched' = vouched \cup (IF kind = "recipe" THEN {pin} \ {None} ELSE {})
      /\ asked' = asked + 1 /\ asked < MaxAsked
      /\ UNCHANGED <<writer, wasms, templates, launchers, tags, world>>
      /\ cli[c].pc \in {"idle", "done"}
  BY DEF BeginRequest, disk
<1>6. vouched \subseteq Contents /\ asked \in 0 .. MaxAsked /\ MaxAsked \in Nat
  BY DEF IInv, Typed, CacheTypeOK, CacheAssumption
<1>7. Settled(cli[c])'
  <2>1. x.kind = "recipe" /\ x.pin # None => x.pin \in vouched'
    BY <1>2, <1>5
  <2>2. Settled(x)'
    BY <1>1, <1>2, <2>1 DEF Settled, Asked, HasWasm, HasRecipe, EndedWell, OfWasm, OfRecipe, OfLauncher, AllKinds
  <2> QED BY <1>4, <2>2
<1>8. SectionMoves(c) /\ ~Installing(cli[c])'
  BY <1>1, <1>2, <1>4, <1>5 DEF SectionMoves, Installing, Inside, AllKinds
<1>9. DiskTyped'
  BY <1>5, DiskIsTyped DEF DiskTyped
<1>10. vouched \subseteq vouched' /\ vouched' \subseteq Contents /\ asked' \in 0 .. MaxAsked
  BY <1>5, <1>6
<1> QED BY <1>4, <1>5, <1>7, <1>8, <1>9, <1>10, StepKeeps

LEMMA BeginSomeKeeps == ASSUME CacheAssumption, IInv, NEW c \in Clis, BeginSome(c) PROVE IInv'
<1>1. CASE \E u \in Wasms, pin \in Contents \cup {None} : BeginRequest(c, "wasm", u, pin)
  BY <1>1, BeginKeeps
<1>2. CASE \E u \in Recipes, pin \in Contents \cup {None} : BeginRequest(c, "recipe", u, pin)
  BY <1>2, BeginKeeps
<1>3. CASE \E v \in 1 .. released \cup {None} : BeginRequest(c, "start", None, v)
  <2>1. PICK v \in 1 .. released \cup {None} : BeginRequest(c, "start", None, v)
    BY <1>3
  <2>0. MaxVersion \in Nat /\ released \in 1 .. MaxVersion
    BY DEF IInv, Typed, CacheTypeOK, Versions, CacheAssumption
  <2>2. v \in Versions \cup {None}
    BY <2>0 DEF Versions
  <2> QED BY <2>1, <2>2, BeginKeeps
<1>4. CASE BeginRequest(c, "update", None, None)
  BY <1>4, BeginKeeps
<1> QED BY <1>1, <1>2, <1>3, <1>4 DEF BeginSome

------------------------------------------------------------------------------
LEMMA LookupWasmKeeps == ASSUME CacheAssumption, IInv, NEW c \in Clis, LookupWasm(c) PROVE IInv'
<1>1. /\ cli[c].pc = "wasm" /\ cli[c].kind = "wasm" /\ cli[c].req \in Wasms
      /\ cli[c].pin \in Contents \cup {None} /\ UNCHANGED <<writer, disk, world, ghosts>>
  BY SettledNow DEF LookupWasm, At, Settled, Asked, OfWasm
<1>2. CASE cli[c].pin # None /\ wasms[cli[c].pin] # None /\ Have(c, "copy", cli[c].pin, TRUE)
  <2>1. /\ cli' \in [Clis -> CliStates] /\ Alone(c) /\ SameRequest(c)
        /\ cli'[c].pc = "copy" /\ cli'[c].got = cli[c].pin
    BY <1>1, <1>2, HaveIs DEF IInv, Pcs, Anything
  <2>2. Settled(cli[c])'
    BY <1>1, <1>2, <2>1 DEF Settled, Asked, HasWasm, HasRecipe, EndedWell, OfWasm, OfRecipe, OfLauncher, SameRequest, disk
  <2>3. SectionMoves(c) /\ ~Installing(cli[c])'
    BY <1>1, <2>1 DEF SectionMoves, Installing, Inside
  <2> QED BY <1>1, <2>1, <2>2, <2>3, LookKeeps
<1>3. CASE Goto(c, "fetch")
  <2>1. /\ cli' \in [Clis -> CliStates] /\ Alone(c) /\ SameRequest(c)
        /\ cli'[c].pc = "fetch" /\ cli'[c].hit = cli[c].hit
    BY <1>3, GotoIs DEF IInv, Pcs
  <2>2. ~cli[c].hit
    BY <1>1, SettledNow DEF Settled, HasRecipe
  <2>3. Settled(cli[c])'
    BY <1>1, <2>1, <2>2 DEF Settled, Asked, HasWasm, HasRecipe, EndedWell, OfWasm, OfRecipe, OfLauncher, SameRequest
  <2>4. SectionMoves(c) /\ ~Installing(cli[c])'
    BY <1>1, <2>1 DEF SectionMoves, Installing, Inside
  <2> QED BY <1>1, <2>1, <2>3, <2>4, LookKeeps
<1> QED BY <1>2, <1>3 DEF LookupWasm

LEMMA FetchWasmKeeps == ASSUME CacheAssumption, IInv, NEW c \in Clis, FetchWasm(c) PROVE IInv'
<1> DEFINE got == serves[cli[c].req]
<1>1. /\ cli[c].pc = "fetch" /\ cli[c].kind = "wasm" /\ cli[c].req \in Wasms /\ ~cli[c].hit
      /\ cli[c].pin \in Contents \cup {None} /\ UNCHANGED <<writer, disk, world, ghosts>>
  BY SettledNow DEF FetchWasm, At, Settled, Asked, HasRecipe
<1>2. got \in Contents
  BY <1>1 DEF IInv, Typed, CacheTypeOK
<1>3. CASE cli[c].pin \in {None, got} /\ Have(c, "cache_wasm", got, FALSE)
  <2>1. /\ cli' \in [Clis -> CliStates] /\ Alone(c) /\ SameRequest(c)
        /\ cli'[c].pc = "cache_wasm" /\ cli'[c].got = got
    BY <1>2, <1>3, HaveIs DEF IInv, Pcs, Anything
  <2>2. Settled(cli[c])'
    BY <1>1, <1>2, <1>3, <2>1 DEF Settled, Asked, HasWasm, HasRecipe, EndedWell, OfWasm, OfRecipe, OfLauncher, SameRequest
  <2>3. SectionMoves(c) /\ ~Installing(cli[c])'
    BY <1>1, <2>1 DEF SectionMoves, Installing, Inside
  <2> QED BY <1>1, <2>1, <2>2, <2>3, LookKeeps
<1>4. CASE Done(c, None, "mismatch")
  <2>1. /\ cli' \in [Clis -> CliStates] /\ Alone(c) /\ Settled(cli[c])'
        /\ cli'[c].pc \notin Inside /\ ~Installing(cli[c])'
    BY <1>1, <1>4, DoneSettles DEF Anything, Outcomes
  <2>2. SectionMoves(c)
    BY <1>1, <2>1 DEF SectionMoves, Inside
  <2> QED BY <1>1, <2>1, <2>2, LookKeeps
<1> QED BY <1>3, <1>4 DEF FetchWasm

LEMMA CacheWasmKeeps == ASSUME CacheAssumption, IInv, NEW c \in Clis, CacheWasm(c) PROVE IInv'
<1> DEFINE h == cli[c].got
<1>1. /\ cli[c].pc = "cache_wasm" /\ cli[c].kind = "wasm" /\ cli[c].req \in Wasms
      /\ cli[c].pin \in {None, h} /\ h \in Contents
      /\ UNCHANGED <<writer, templates, launchers, tags, world, ghosts>>
  BY SettledNow DEF CacheWasm, At, Settled, Asked, HasWasm, OfWasm
<1>2. /\ cli' \in [Clis -> CliStates] /\ Alone(c) /\ SameRequest(c)
      /\ cli'[c].pc = "copy" /\ cli'[c].got = h
  BY GotoIs DEF CacheWasm, IInv, Pcs
<1> HIDE DEF h
<1>3. wasms' = [wasms EXCEPT ![h] = IF wasms[h] = None THEN h ELSE wasms[h]]
  BY DEF CacheWasm, h
<1>4. DiskTyped /\ None \notin Contents
  BY DiskIsTyped DEF CacheAssumption
<1>5. /\ DiskTyped' /\ wasms'[h] # None
      /\ \A g \in Contents : wasms[g] # None => wasms'[g] # None
  BY <1>1, <1>3, <1>4 DEF DiskTyped
<1>6. Settled(cli[c])'
  BY <1>1, <1>2, <1>5 DEF Settled, Asked, HasWasm, HasRecipe, EndedWell, OfWasm, OfRecipe, OfLauncher, SameRequest
<1>7. SectionMoves(c) /\ ~Installing(cli[c])'
  BY <1>1, <1>2 DEF SectionMoves, Installing, Inside
<1>8. UNCHANGED <<asked, vouched>> /\ asked' \in 0 .. MaxAsked /\ vouched' \subseteq Contents
  BY <1>1 DEF ghosts, IInv, Typed, CacheTypeOK
<1> QED BY <1>1, <1>2, <1>5, <1>6, <1>7, <1>8, StepKeeps

(* The file at the path may be one that a kill cut short.                   *)
LEMMA CopyWasmKeeps == ASSUME CacheAssumption, IInv, NEW c \in Clis, CopyWasm(c) PROVE IInv'
<1> DEFINE h == cli[c].got
<1>1. /\ cli[c].pc = "copy" /\ cli[c].kind = "wasm"
      /\ cli[c].pin \in {None, h} /\ h \in Contents /\ wasms[h] # None
      /\ UNCHANGED <<writer, disk, world, ghosts>>
  BY SettledNow DEF CopyWasm, At, Settled, Asked, HasWasm, OfWasm
<1>2. wasms[h] \in {Torn, h}
  BY <1>1, DiskHas
<1>3. Done(c, wasms[h], "ok")
  BY DEF CopyWasm
<1> HIDE DEF h
<1>4. /\ cli' \in [Clis -> CliStates] /\ Alone(c) /\ Settled(cli[c])'
      /\ cli'[c].pc \notin Inside /\ ~Installing(cli[c])'
  BY <1>1, <1>2, <1>3, DoneSettles DEF Anything, Outcomes
<1>5. SectionMoves(c)
  BY <1>1, <1>4 DEF SectionMoves, Inside
<1> QED BY <1>1, <1>4, <1>5, LookKeeps

------------------------------------------------------------------------------
(* A step that ends the request with an error and touches nothing.          *)
LEMMA FailsKeeps ==
    ASSUME CacheAssumption, IInv, NEW c \in Clis, NEW got \in Anything, NEW why \in Outcomes \ {"ok", "mismatch"},
           Done(c, got, why), cli[c].pc \notin Inside, UNCHANGED <<writer, disk, world, ghosts>>
    PROVE  IInv'
<1>1. /\ cli' \in [Clis -> CliStates] /\ Alone(c) /\ Settled(cli[c])'
      /\ cli'[c].pc \notin Inside /\ ~Installing(cli[c])'
  BY DoneSettles
<1>2. SectionMoves(c)
  BY <1>1 DEF SectionMoves
<1> QED BY <1>1, <1>2, LookKeeps

LEMMA LookupRecipeKeeps == ASSUME CacheAssumption, IInv, NEW c \in Clis, LookupRecipe(c) PROVE IInv'
<1> DEFINE key == Key(cli[c].req, cli[c].pin)
<1>1. /\ cli[c].pc = "recipe" /\ cli[c].kind = "recipe" /\ cli[c].req \in Recipes /\ ~cli[c].hit
      /\ cli[c].pin \in Contents \cup {None} /\ (cli[c].pin # None => cli[c].pin \in vouched)
      /\ UNCHANGED <<writer, disk, world, ghosts>>
  BY SettledNow DEF LookupRecipe, At, Settled, Asked, HasRecipe, OfRecipe
<1>2. CASE tags = Torn
  BY <1>1, <1>2, FailsKeeps DEF LookupRecipe, Anything, Outcomes, Inside
<1>3. CASE Goto(c, "fetch")
  <2>1. /\ cli' \in [Clis -> CliStates] /\ Alone(c) /\ SameRequest(c)
        /\ cli'[c].pc = "fetch" /\ cli'[c].hit = cli[c].hit
    BY <1>3, GotoIs DEF IInv, Pcs
  <2>2. Settled(cli[c])'
    BY <1>1, <2>1 DEF Settled, Asked, HasWasm, HasRecipe, EndedWell, OfWasm, OfRecipe, OfLauncher, SameRequest, ghosts
  <2>3. SectionMoves(c) /\ ~Installing(cli[c])'
    BY <1>1, <2>1 DEF SectionMoves, Installing, Inside
  <2> QED BY <1>1, <2>1, <2>2, <2>3, LookKeeps
<1>4. CASE tags # Torn /\ key # None /\ templates[key] # None /\ Have(c, "verify", templates[key], TRUE)
  <2>1. key \in Contents
    <3>1. tags.of[cli[c].req] \in Contents \cup {None}
      BY <1>1, <1>4 DEF IInv, Typed, CacheTypeOK, Tags
    <3> QED BY <1>1, <1>4, <3>1 DEF Key
  <2>2. cli[c].req \in RecipeUrls /\ cli[c].pin # None => key = cli[c].pin
    BY <1>4 DEF Key
  <2> HIDE DEF key
  <2>3. templates[key] \in {Torn, key}
    BY <1>4, <2>1, DiskHas
  <2>4. /\ cli' \in [Clis -> CliStates] /\ Alone(c) /\ SameRequest(c)
        /\ cli'[c].pc = "verify" /\ cli'[c].got = templates[key] /\ cli'[c].hit = TRUE
    BY <1>4, <2>1, <2>3, HaveIs DEF IInv, Pcs, Anything
  <2>5. Settled(cli[c])'
    BY <1>1, <2>1, <2>2, <2>3, <2>4
       DEF Settled, Asked, HasWasm, HasRecipe, EndedWell, OfWasm, OfRecipe, OfLauncher, SameRequest, ghosts
  <2>6. SectionMoves(c) /\ ~Installing(cli[c])'
    BY <1>1, <2>4 DEF SectionMoves, Installing, Inside
  <2> QED BY <1>1, <2>4, <2>5, <2>6, LookKeeps
<1> QED BY <1>2, <1>3, <1>4 DEF LookupRecipe

LEMMA FetchRecipeKeeps == ASSUME CacheAssumption, IInv, NEW c \in Clis, FetchRecipe(c) PROVE IInv'
<1> DEFINE got == serves[cli[c].req]
<1>1. /\ cli[c].pc = "fetch" /\ cli[c].kind = "recipe" /\ cli[c].req \in Recipes
      /\ cli[c].pin \in Contents \cup {None} /\ (cli[c].pin # None => cli[c].pin \in vouched)
      /\ UNCHANGED <<writer, disk, world, ghosts>>
  BY SettledNow DEF FetchRecipe, At, Settled, Asked, HasRecipe
<1>2. got \in Contents /\ Have(c, "verify", got, FALSE)
  BY <1>1 DEF FetchRecipe, IInv, Typed, CacheTypeOK
<1> HIDE DEF got
<1>3. /\ cli' \in [Clis -> CliStates] /\ Alone(c) /\ SameRequest(c)
      /\ cli'[c].pc = "verify" /\ cli'[c].got = got /\ cli'[c].hit = FALSE
  BY <1>2, HaveIs DEF IInv, Pcs, Anything
<1>4. Settled(cli[c])'
  BY <1>1, <1>2, <1>3 DEF Settled, Asked, HasWasm, HasRecipe, EndedWell, OfWasm, OfRecipe, OfLauncher, SameRequest, ghosts
<1>5. SectionMoves(c) /\ ~Installing(cli[c])'
  BY <1>1, <1>3 DEF SectionMoves, Installing, Inside
<1> QED BY <1>1, <1>3, <1>4, <1>5, LookKeeps

(* What is verified is the pin; what fails although it was looked up by the *)
(* pin was cut short.                                                       *)
LEMMA VerifyKeeps == ASSUME CacheAssumption, IInv, NEW c \in Clis, Verify(c) PROVE IInv'
<1>1. /\ cli[c].pc = "verify" /\ cli[c].kind = "recipe" /\ cli[c].req \in Recipes
      /\ cli[c].pin \in Contents \cup {None} /\ (cli[c].pin # None => cli[c].pin \in vouched)
      /\ cli[c].got \in Contents \cup {Torn} /\ (~cli[c].hit => cli[c].got \in Contents)
      /\ (cli[c].hit /\ cli[c].req \in RecipeUrls /\ cli[c].pin # None => cli[c].got \in {cli[c].pin, Torn})
      /\ cli[c].hit \in BOOLEAN
      /\ UNCHANGED <<writer, disk, world, ghosts>>
  BY SettledNow DEF Verify, At, Settled, Asked, HasRecipe, OfRecipe, CliStates
<1>2. CASE cli[c].pin \notin {None, cli[c].got}
  <2> DEFINE got == IF cli[c].hit THEN cli[c].got ELSE None
  <2>1. Done(c, got, "mismatch") /\ got \in Anything
    BY <1>1, <1>2 DEF Verify, Anything
  <2>2. cli[c].hit /\ cli[c].req \in RecipeUrls => got = Torn
    BY <1>1, <1>2
  <2> HIDE DEF got
  <2>3. /\ cli' \in [Clis -> CliStates] /\ Alone(c) /\ Settled(cli[c])'
        /\ cli'[c].pc \notin Inside /\ ~Installing(cli[c])'
    BY <2>1, <2>2, DoneSettles DEF Outcomes
  <2>4. SectionMoves(c)
    BY <1>1, <2>3 DEF SectionMoves, Inside
  <2> QED BY <1>1, <2>3, <2>4, LookKeeps
<1>3. CASE cli[c].pin \in {None, cli[c].got}
  <2> DEFINE next == IF ~cli[c].hit /\ cli[c].pin # None THEN "tag_recipe" ELSE "render"
  <2>1. next \in {"tag_recipe", "render"} /\ Goto(c, next)
    BY <1>3 DEF Verify
  <2>2. next = "tag_recipe" => ~cli[c].hit /\ cli[c].pin # None
    OBVIOUS
  <2> HIDE DEF next
  <2>3. /\ cli' \in [Clis -> CliStates] /\ Alone(c) /\ SameRequest(c)
        /\ cli'[c].pc = next /\ cli'[c].got = cli[c].got /\ cli'[c].hit = cli[c].hit
    BY <2>1, GotoIs DEF IInv, Pcs
  <2>4. Settled(cli[c])'
    BY <1>1, <1>3, <2>1, <2>2, <2>3
       DEF Settled, Asked, HasWasm, HasRecipe, EndedWell, OfWasm, OfRecipe, OfLauncher, SameRequest, ghosts
  <2>5. SectionMoves(c) /\ ~Installing(cli[c])'
    BY <1>1, <2>1, <2>3 DEF SectionMoves, Installing, Inside
  <2> QED BY <1>1, <2>3, <2>4, <2>5, LookKeeps
<1> QED BY <1>2, <1>3

(* Rendering vouches for what nobody asked for by its hash.                 *)
LEMMA RenderKeeps == ASSUME CacheAssumption, IInv, NEW c \in Clis, Render(c) PROVE IInv'
<1> DEFINE got == cli[c].got
<1>1. /\ cli[c].pc = "render" /\ cli[c].kind = "recipe" /\ cli[c].req \in Recipes
      /\ cli[c].pin \in Contents \cup {None} /\ (cli[c].pin # None => cli[c].pin \in vouched)
      /\ got \in Contents \cup {Torn} /\ (~cli[c].hit => got \in Contents)
      /\ cli[c].pin \in {None, got}
      /\ UNCHANGED <<writer, disk, world, asked>>
  BY SettledNow DEF Render, At, Settled, Asked, HasRecipe, OfRecipe
<1>2. vouched' \subseteq vouched \cup ({got} \ {Torn}) /\ vouched \subseteq vouched'
  BY DEF Render
<1>3. vouched' \subseteq Contents /\ asked' \in 0 .. MaxAsked
  BY <1>1, <1>2 DEF IInv, Typed, CacheTypeOK
<1>4. /\ DiskTyped'
      /\ \A h \in Contents : templates'[h] = templates[h] /\ wasms'[h] = wasms[h]
  BY <1>1, DiskIsTyped DEF DiskTyped, disk
<1>5. CASE Done(c, got, "ok") \/ Done(c, got, "render")
  <2>1. /\ cli' \in [Clis -> CliStates] /\ Alone(c) /\ Settled(cli[c])'
        /\ cli'[c].pc \notin Inside /\ ~Installing(cli[c])'
    BY <1>1, <1>5, DoneSettles DEF Anything, Outcomes
  <2>2. SectionMoves(c)
    BY <1>1, <2>1 DEF SectionMoves, Inside
  <2> QED BY <1>1, <1>2, <1>3, <1>4, <2>1, <2>2, StepKeeps DEF disk
<1>6. CASE /\ ~cli[c].hit /\ cli[c].pin = None /\ Goto(c, "tag_recipe")
           /\ vouched' = vouched \cup ({got} \ {Torn})
  <2>1. /\ cli' \in [Clis -> CliStates] /\ Alone(c) /\ SameRequest(c)
        /\ cli'[c].pc = "tag_recipe" /\ cli'[c].got = got /\ cli'[c].hit = cli[c].hit
    BY <1>6, GotoIs DEF IInv, Pcs
  <2>2. got \in vouched'
    BY <1>1, <1>6 DEF CacheAssumption
  <2> HIDE DEF got
  <2>3. Settled(cli[c])'
    BY <1>1, <1>6, <2>1, <2>2 DEF Settled, Asked, HasWasm, HasRecipe, EndedWell, OfWasm, OfRecipe, OfLauncher, SameRequest
  <2>4. SectionMoves(c) /\ ~Installing(cli[c])'
    BY <1>1, <2>1 DEF SectionMoves, Installing, Inside
  <2> QED BY <1>1, <1>2, <1>3, <1>4, <2>1, <2>3, <2>4, StepKeeps DEF disk
<1> QED BY <1>5, <1>6 DEF Render

LEMMA TagRecipeKeeps == ASSUME CacheAssumption, IInv, NEW c \in Clis, TagRecipe(c) PROVE IInv'
<1>1. /\ cli[c].pc = "tag_recipe" /\ cli[c].kind = "recipe" /\ cli[c].req \in Recipes
      /\ cli[c].pin \in Contents \cup {None} /\ (cli[c].pin # None => cli[c].pin \in vouched)
      /\ cli[c].got \in vouched /\ cli[c].pin \in {None, cli[c].got}
      /\ UNCHANGED <<wasms, templates, launchers, world, ghosts>>
  BY SettledNow DEF TagRecipe, At, Settled, Asked, HasRecipe, OfRecipe
<1>2. vouched \subseteq Contents /\ asked \in 0 .. MaxAsked
  BY DEF IInv, Typed, CacheTypeOK
<1>3. CASE tags = Torn
  BY <1>1, <1>3, FailsKeeps DEF TagRecipe, Anything, Outcomes, Inside, disk
<1>4. CASE tags # Torn
  <2>1. /\ NobodyInside /\ writer' = c /\ Goto(c, "cache_recipe")
        /\ tags' = [tags EXCEPT !.of = [tags.of EXCEPT ![cli[c].req] = cli[c].got]]
    BY <1>4 DEF TagRecipe, EnterSection
  <2>2. /\ cli' \in [Clis -> CliStates] /\ Alone(c) /\ SameRequest(c)
        /\ cli'[c].pc = "cache_recipe" /\ cli'[c].got = cli[c].got
    BY <2>1, GotoIs DEF IInv, Pcs
  <2>3. tags' \in Tags
    <3>1. tags \in Tags
      BY <1>4 DEF IInv, Typed, CacheTypeOK
    <3>2. [tags.of EXCEPT ![cli[c].req] = cli[c].got] \in [Recipes -> Contents \cup {None}]
      BY <1>1, <1>2, <3>1 DEF Tags
    <3> QED BY <2>1, <3>1, <3>2 DEF Tags
  <2>4. DiskTyped'
    BY <1>1, <2>3, DiskIsTyped DEF DiskTyped
  <2>5. Settled(cli[c])'
    BY <1>1, <2>2 DEF Settled, Asked, HasWasm, HasRecipe, EndedWell, OfWasm, OfRecipe, OfLauncher, SameRequest, ghosts
  <2>6. SectionMoves(c) /\ ~Installing(cli[c])'
    BY <2>1, <2>2 DEF SectionMoves, Installing, Inside
  <2> QED BY <1>1, <1>2, <2>1, <2>2, <2>4, <2>5, <2>6, StepKeeps DEF ghosts
<1> QED BY <1>3, <1>4

LEMMA CacheRecipeKeeps == ASSUME CacheAssumption, IInv, NEW c \in Clis, CacheRecipe(c) PROVE IInv'
<1> DEFINE h == cli[c].got
<1>1. /\ cli[c].pc = "cache_recipe" /\ cli[c].kind = "recipe" /\ cli[c].req \in Recipes
      /\ cli[c].pin \in Contents \cup {None} /\ (cli[c].pin # None => cli[c].pin \in vouched)
      /\ h \in vouched /\ cli[c].pin \in {None, h}
      /\ UNCHANGED <<wasms, launchers, tags, world, ghosts>>
  BY SettledNow DEF CacheRecipe, At, Settled, Asked, HasRecipe, OfRecipe
<1>2. vouched \subseteq Contents /\ asked \in 0 .. MaxAsked /\ h \in Contents
  BY <1>1 DEF IInv, Typed, CacheTypeOK
<1> HIDE DEF h
<1>3. templates' = [templates EXCEPT ![h] = IF templates[h] = None THEN h ELSE templates[h]]
  BY DEF CacheRecipe, h
<1>4. DiskTyped
  BY DiskIsTyped
<1>5. /\ DiskTyped'
      /\ \A g \in Contents : templates'[g] = g => templates[g] = g \/ g \in vouched
  BY <1>1, <1>2, <1>3, <1>4 DEF DiskTyped
<1>6. writer' = IF writer = c THEN None ELSE writer
  BY <1>1 DEF CacheRecipe, LeaveSection, IInv, Exclusive, Inside
<1>7. CASE Goto(c, "render") /\ cli[c].pin # None
  <2>1. /\ cli' \in [Clis -> CliStates] /\ Alone(c) /\ SameRequest(c)
        /\ cli'[c].pc = "render" /\ cli'[c].got = h /\ cli'[c].hit = cli[c].hit
    BY <1>7, GotoIs DEF IInv, Pcs, h
  <2>2. Settled(cli[c])'
    BY <1>1, <1>2, <2>1 DEF Settled, Asked, HasWasm, HasRecipe, EndedWell, OfWasm, OfRecipe, OfLauncher, SameRequest, ghosts
  <2>3. SectionMoves(c) /\ ~Installing(cli[c])'
    BY <1>6, <2>1 DEF SectionMoves, Installing, Inside
  <2> QED BY <1>1, <1>2, <1>5, <2>1, <2>2, <2>3, StepKeeps DEF ghosts
<1>8. CASE Done(c, h, "ok")
  <2>1. /\ cli' \in [Clis -> CliStates] /\ Alone(c) /\ Settled(cli[c])'
        /\ cli'[c].pc \notin Inside /\ ~Installing(cli[c])'
    BY <1>1, <1>2, <1>8, DoneSettles DEF Anything, Outcomes
  <2>2. SectionMoves(c)
    BY <1>6, <2>1 DEF SectionMoves
  <2> QED BY <1>1, <1>2, <1>5, <2>1, <2>2, StepKeeps DEF ghosts
<1> QED BY <1>7, <1>8 DEF CacheRecipe, h

------------------------------------------------------------------------------
LEMMA LauncherSettles ==
    ASSUME IInv, NEW c \in Clis, SameRequest(c), cli[c].pc \in OfLauncher, cli'[c].pc \in OfLauncher
    PROVE  Settled(cli[c])'
<1>1. cli[c].kind \in {"start", "update"}
  BY SettledNow DEF Settled, Asked
<1> QED BY <1>1 DEF Settled, Asked, HasWasm, HasRecipe, EndedWell, OfWasm, OfRecipe, OfLauncher, SameRequest

LEMMA CachedIs ==
    ASSUME CacheAssumption, IInv, NEW c \in Clis, CachedLauncher(c) # None, cli[c].pin = None
    PROVE  tags.latest = CachedLauncher(c) /\ ~Stale(c)
BY DEF CachedLauncher

LEMMA GhostsTyped ==
    ASSUME IInv, UNCHANGED ghosts
    PROVE  vouched' \subseteq Contents /\ asked' \in 0 .. MaxAsked /\ vouched \subseteq vouched'
BY DEF IInv, Typed, CacheTypeOK, ghosts

LEMMA FindLauncherKeeps == ASSUME CacheAssumption, IInv, NEW c \in Clis, FindLauncher(c) PROVE IInv'
<1> DEFINE found == CachedLauncher(c)
           pin == cli[c].pin
<1>1. cli[c].pc = "start" /\ UNCHANGED <<disk, world, ghosts>> /\ cli[c] \in CliStates
  BY SettledNow DEF FindLauncher, At
<1>2. CASE Done(c, None, "manifest") /\ UNCHANGED writer
  BY <1>1, <1>2, FailsKeeps DEF Anything, Outcomes, Inside
<1>3. CASE found # None /\ Have(c, "spawn", found, TRUE) /\ UNCHANGED writer /\ ~(pin = None /\ tags = Torn)
  <2>1. found \in Anything
    <3>1. tags # Torn => tags.latest \in Versions \cup {None}
      BY DEF IInv, Typed, CacheTypeOK, Tags
    <3> QED BY <1>1, <1>3, <3>1 DEF CachedLauncher, Anything, CliStates
  <2> HIDE DEF found
  <2>2. /\ cli' \in [Clis -> CliStates] /\ Alone(c) /\ SameRequest(c) /\ cli'[c].pc = "spawn"
    BY <1>3, <2>1, HaveIs DEF IInv, Pcs
  <2>3. Settled(cli[c])' /\ SectionMoves(c) /\ ~Installing(cli[c])'
    BY <1>1, <1>3, <2>2, LauncherSettles DEF OfLauncher, SectionMoves, Installing, Inside
  <2> QED BY <1>1, <2>2, <2>3, LookKeeps
<1>4. CASE EnterSection(c) /\ Have(c, IF pin = None THEN "tag_launcher" ELSE "download", pin, FALSE)
  <2> DEFINE next == IF pin = None THEN "tag_launcher" ELSE "download"
  <2>1. pin \in Anything /\ next \in Pcs
    BY <1>1 DEF CliStates, Anything, Pcs
  <2>2. Have(c, next, pin, FALSE)
    BY <1>4
  <2>3. next \in {"tag_launcher", "download"} /\ (next = "download" => pin # None)
    OBVIOUS
  <2> HIDE DEF next
  <2>4. /\ cli' \in [Clis -> CliStates] /\ Alone(c) /\ SameRequest(c) /\ cli'[c].pc = next
    BY <2>1, <2>2, HaveIs DEF IInv
  <2>5. Settled(cli[c])' /\ SectionMoves(c) /\ ~Installing(cli[c])'
    BY <1>1, <1>4, <2>3, <2>4, LauncherSettles DEF OfLauncher, SectionMoves, Installing, Inside, EnterSection, SameRequest
  <2> QED BY <1>1, <2>4, <2>5, LookKeeps
<1> QED BY <1>2, <1>3, <1>4 DEF FindLauncher

LEMMA EnterUpdateKeeps == ASSUME CacheAssumption, IInv, NEW c \in Clis, EnterUpdate(c) PROVE IInv'
<1>1. /\ cli' \in [Clis -> CliStates] /\ Alone(c) /\ SameRequest(c) /\ cli'[c].pc = "tag_launcher"
      /\ cli[c].pc = "update" /\ UNCHANGED <<disk, world, ghosts>>
  BY GotoIs DEF EnterUpdate, At, IInv, Pcs
<1>2. Settled(cli[c])' /\ SectionMoves(c) /\ ~Installing(cli[c])'
  BY <1>1, LauncherSettles DEF OfLauncher, SectionMoves, Installing, Inside, EnterSection, EnterUpdate
<1> QED BY <1>1, <1>2, LookKeeps

(* Whoever is in the section and gives up leaves it.                        *)
LEMMA LeavesKeeps ==
    ASSUME CacheAssumption, IInv, NEW c \in Clis, NEW got \in Anything, NEW why \in Outcomes \ {"ok", "mismatch"},
           Done(c, got, why), writer' = (IF writer = c THEN None ELSE writer), UNCHANGED <<disk, world, ghosts>>
    PROVE  IInv'
<1>1. /\ cli' \in [Clis -> CliStates] /\ Alone(c) /\ Settled(cli[c])'
      /\ cli'[c].pc \notin Inside /\ ~Installing(cli[c])'
  BY DoneSettles
<1>2. SectionMoves(c)
  BY <1>1 DEF SectionMoves
<1> QED BY <1>1, <1>2, LookKeeps

LEMMA TagLauncherKeeps == ASSUME CacheAssumption, IInv, NEW c \in Clis, TagLauncher(c) PROVE IInv'
<1>1. /\ cli[c].pc = "tag_launcher" /\ writer = c
      /\ UNCHANGED <<wasms, templates, launchers, world, ghosts>>
  BY DEF TagLauncher, At, IInv, Exclusive, Inside
<1>2. CASE tags = Torn
  BY <1>1, <1>2, LeavesKeeps DEF TagLauncher, LeaveSection, Anything, Outcomes, disk
<1>3. CASE tags # Torn
  <2>1. released \in Versions /\ tags \in Tags
    BY <1>3 DEF IInv, Typed, CacheTypeOK
  <2>2. /\ tags' = [tags EXCEPT !.latest = released, !.updater = CliVersion[c]]
        /\ Have(c, "download", released, FALSE) /\ writer' = writer
    BY <1>3 DEF TagLauncher
  <2>3. tags' \in Tags /\ tags'.latest = released /\ tags'.updater = CliVersion[c]
    BY <2>1, <2>2 DEF Tags
  <2>4. /\ cli' \in [Clis -> CliStates] /\ Alone(c) /\ SameRequest(c)
        /\ cli'[c].pc = "download" /\ cli'[c].got = released
    BY <2>1, <2>2, HaveIs DEF IInv, Pcs, Anything
  <2>5. Settled(cli[c])' /\ SectionMoves(c)
    BY <1>1, <2>2, <2>4, LauncherSettles DEF OfLauncher, SectionMoves, Inside
  <2>6. Tagged(c)'
    BY <2>3, <2>4 DEF Tagged
  <2>7. DiskTyped'
    BY <1>1, <2>3, DiskIsTyped DEF DiskTyped
  <2> QED BY <1>1, <2>4, <2>5, <2>6, <2>7, GhostsTyped, StepKeeps
<1> QED BY <1>2, <1>3

LEMMA InstallingStays ==
    ASSUME IInv, NEW c \in Clis, SameRequest(c), cli'[c].got = cli[c].got, tags' = tags,
           cli[c].pc \in {"download", "replace", "rename"}
    PROVE  Installing(cli[c])' => Tagged(c)'
BY DEF IInv, TagHeld, Installing, Tagged, SameRequest

LEMMA InstallLauncherKeeps ==
    ASSUME CacheAssumption, IInv, NEW c \in Clis, Download(c) \/ RemoveOld(c) PROVE IInv'
<1> DEFINE next == IF Download(c) THEN "replace" ELSE "rename"
<1>1. /\ cli[c].pc \in {"download", "replace"} /\ Goto(c, next) /\ next \in {"replace", "rename"}
      /\ UNCHANGED <<writer, wasms, templates, tags, world, ghosts>>
      /\ launchers' \in [Versions -> {None, "partial", "whole"}]
  <2>1. launchers \in [Versions -> {None, "partial", "whole"}]
    BY DEF IInv, Typed, CacheTypeOK
  <2>2. CASE Download(c)
    BY <2>1, <2>2 DEF Download, At, disk
  <2>3. CASE ~Download(c) /\ RemoveOld(c)
    BY <2>1, <2>3 DEF RemoveOld, At
  <2> QED BY <2>2, <2>3
<1> HIDE DEF next
<1>2. /\ cli' \in [Clis -> CliStates] /\ Alone(c) /\ SameRequest(c)
      /\ cli'[c].pc = next /\ cli'[c].got = cli[c].got
  BY <1>1, GotoIs DEF IInv, Pcs
<1>3. Settled(cli[c])' /\ SectionMoves(c)
  BY <1>1, <1>2, LauncherSettles DEF OfLauncher, SectionMoves, Inside
<1>4. Installing(cli[c])' => Tagged(c)'
  BY <1>1, <1>2, InstallingStays
<1>5. DiskTyped'
  BY <1>1, DiskIsTyped DEF DiskTyped
<1> QED BY <1>1, <1>2, <1>3, <1>4, <1>5, GhostsTyped, StepKeeps

LEMMA PutNewKeeps == ASSUME CacheAssumption, IInv, NEW c \in Clis, PutNew(c) PROVE IInv'
<1>1. /\ cli[c].pc = "rename" /\ cli[c].kind \in {"start", "update"} /\ cli[c].got \in Anything
      /\ UNCHANGED <<wasms, templates, tags, world, ghosts>>
      /\ launchers' \in [Versions -> {None, "partial", "whole"}]
  BY SettledNow DEF PutNew, At, Settled, Asked, OfLauncher, CliStates, IInv, Typed, CacheTypeOK
<1>2. writer' = IF writer = c THEN None ELSE writer
  BY <1>1 DEF PutNew, LeaveSection, IInv, Exclusive, Inside
<1>3. DiskTyped'
  BY <1>1, DiskIsTyped DEF DiskTyped
<1>4. CASE Goto(c, "spawn")
  <2>1. cli' \in [Clis -> CliStates] /\ Alone(c) /\ SameRequest(c) /\ cli'[c].pc = "spawn"
    BY <1>4, GotoIs DEF IInv, Pcs
  <2>2. Settled(cli[c])' /\ SectionMoves(c) /\ ~Installing(cli[c])'
    BY <1>1, <1>2, <2>1, LauncherSettles DEF OfLauncher, SectionMoves, Inside, Installing
  <2> QED BY <1>1, <1>3, <2>1, <2>2, GhostsTyped, StepKeeps
<1>5. CASE Done(c, cli[c].got, "ok")
  <2>1. /\ cli' \in [Clis -> CliStates] /\ Alone(c) /\ Settled(cli[c])'
        /\ cli'[c].pc \notin Inside /\ ~Installing(cli[c])'
    BY <1>1, <1>5, DoneSettles DEF Outcomes
  <2>2. SectionMoves(c)
    BY <1>2, <2>1 DEF SectionMoves
  <2> QED BY <1>1, <1>3, <2>1, <2>2, GhostsTyped, StepKeeps
<1> QED BY <1>4, <1>5 DEF PutNew

LEMMA SpawnLauncherKeeps == ASSUME CacheAssumption, IInv, NEW c \in Clis, SpawnLauncher(c) PROVE IInv'
<1>1. /\ cli[c].pc = "spawn" /\ cli[c].kind \in {"start", "update"} /\ cli[c].got \in Anything
      /\ UNCHANGED <<writer, disk, world, ghosts>>
  BY SettledNow DEF SpawnLauncher, At, Settled, Asked, OfLauncher, CliStates
<1>2. PICK why \in {"ok", "broken"} : Done(c, cli[c].got, why)
  BY DEF SpawnLauncher
<1>3. /\ cli' \in [Clis -> CliStates] /\ Alone(c) /\ Settled(cli[c])'
      /\ cli'[c].pc \notin Inside /\ ~Installing(cli[c])'
  BY <1>1, <1>2, DoneSettles DEF Outcomes
<1>4. SectionMoves(c)
  BY <1>1, <1>3 DEF SectionMoves, Inside
<1> QED BY <1>1, <1>3, <1>4, LookKeeps

------------------------------------------------------------------------------
LEMMA DownloadFailsKeeps == ASSUME CacheAssumption, IInv, NEW c \in Clis, DownloadFails(c) PROVE IInv'
BY LeavesKeeps DEF DownloadFails, Anything, Outcomes

(* A kill leaves of a file a part, which is no content; the lock is gone,   *)
(* and with a tag that was being written all tags.                          *)
LEMMA KillKeeps == ASSUME CacheAssumption, IInv, NEW c \in Clis, Kill(c) PROVE IInv'
<1>1. /\ cli' = [cli EXCEPT ![c] = Unasked] /\ cli \in [Clis -> CliStates]
      /\ writer' = (IF writer = c THEN None ELSE writer)
      /\ UNCHANGED <<world, ghosts>>
  BY DEF Kill, IInv, Typed, CacheTypeOK
<1>2. Unasked \in CliStates /\ Unasked.pc = "idle" /\ Unasked.kind = "none"
  BY DEF Unasked, CliStates, Pcs, Anything, Outcomes
<1>3. cli' \in [Clis -> CliStates] /\ Alone(c) /\ cli'[c] = Unasked
  BY <1>1, <1>2 DEF Alone
<1>4. Settled(cli[c])' /\ SectionMoves(c) /\ ~Installing(cli[c])'
  <2>1. Settled(Unasked)'
    BY <1>2 DEF Settled, Asked, HasWasm, HasRecipe, EndedWell, OfWasm, OfRecipe, OfLauncher
  <2> QED BY <1>1, <1>2, <1>3, <2>1 DEF SectionMoves, Installing, Inside
<1>5. DiskTyped /\ Torn \notin Contents /\ None # Torn
  BY DiskIsTyped DEF CacheAssumption
<1> DEFINE Unharmed == /\ DiskTyped' /\ (tags' = tags \/ NobodyInside \/ writer = c)
                       /\ \A h \in Contents : wasms[h] # None => wasms'[h] # None
                       /\ \A h \in Contents : templates'[h] = h => templates[h] = h
<1>6. Unharmed
  <2>1. CASE UNCHANGED disk
    BY <1>5, <2>1 DEF DiskTyped, disk
  <2>2. CASE wasms' = CutOff(wasms, cli[c].got) /\ UNCHANGED <<templates, launchers, tags>>
    BY <1>5, <2>2 DEF DiskTyped, CutOff
  <2>3. CASE templates' = CutOff(templates, cli[c].got) /\ UNCHANGED <<wasms, launchers, tags>>
    BY <1>5, <2>3 DEF DiskTyped, CutOff
  <2>4. CASE /\ (At(c, "tag_recipe") /\ NobodyInside) \/ At(c, "tag_launcher")
             /\ tags' = Torn /\ UNCHANGED <<wasms, templates, launchers>>
    <3>1. NobodyInside \/ writer = c
      BY <2>4 DEF At, IInv, Exclusive, Inside
    <3> QED BY <1>5, <2>4, <3>1 DEF DiskTyped
  <2>5. CASE launchers' = [launchers EXCEPT ![cli[c].got] = "partial"] /\ UNCHANGED <<wasms, templates, tags>>
    BY <1>5, <2>5 DEF DiskTyped
  <2> HIDE DEF Unharmed
  <2> QED BY <2>1, <2>2, <2>3, <2>4, <2>5 DEF Kill
<1> QED BY <1>1, <1>3, <1>4, <1>6, GhostsTyped, StepKeeps

LEMMA WorldKeeps ==
    ASSUME CacheAssumption, IInv, UNCHANGED <<cli, writer, disk, ghosts>>,
           serves' \in [Wasms \cup Recipes -> Contents], released' \in Versions
    PROVE  IInv'
<1>1. Typed'
  BY DEF IInv, Typed, CacheTypeOK, disk, ghosts
<1>2. AllSettled'
  BY DEF IInv, AllSettled, Settled, Asked, HasWasm, HasRecipe, EndedWell, disk, ghosts
<1>3. Exclusive' /\ TagHeld' /\ NothingUnvouched'
  BY DEF IInv, Exclusive, TagHeld, NothingUnvouched, disk, ghosts
<1> QED BY <1>1, <1>2, <1>3 DEF IInv

LEMMA InitIInv == ASSUME CacheAssumption, CacheInit PROVE IInv
<1>1. cli \in [Clis -> CliStates] /\ \A c \in Clis : cli[c].pc = "idle" /\ cli[c].kind = "none"
  BY DEF CacheInit, Unasked, CliStates, Pcs, Anything, Outcomes
<1>0. released \in Versions /\ asked \in 0 .. MaxAsked
  <2>1. MaxVersion \in Nat \ {0} /\ MaxAsked \in Nat
    BY DEF CacheAssumption
  <2>2. released = 1 /\ asked = 0
    BY DEF CacheInit
  <2> QED BY <2>1, <2>2 DEF Versions
<1>2. Typed
  BY <1>0, <1>1 DEF CacheInit, Typed, CacheTypeOK, Tags, NoTags
<1>3. AllSettled
  BY <1>1 DEF AllSettled, Settled, Asked, HasWasm, HasRecipe, EndedWell, OfWasm, OfRecipe, OfLauncher
<1>4. Exclusive /\ TagHeld /\ NothingUnvouched
  BY <1>1 DEF CacheInit, Exclusive, TagHeld, NothingUnvouched, Inside, CacheAssumption
<1> QED BY <1>2, <1>3, <1>4 DEF IInv

LEMMA CliKeeps ==
    ASSUME CacheAssumption, IInv, NEW c \in Clis,
           \/ BeginSome(c)
           \/ LookupWasm(c) \/ FetchWasm(c) \/ CacheWasm(c) \/ CopyWasm(c)
           \/ LookupRecipe(c) \/ FetchRecipe(c) \/ Verify(c) \/ Render(c)
           \/ TagRecipe(c) \/ CacheRecipe(c)
           \/ FindLauncher(c) \/ EnterUpdate(c) \/ TagLauncher(c) \/ Download(c)
           \/ RemoveOld(c) \/ PutNew(c) \/ SpawnLauncher(c)
           \/ DownloadFails(c) \/ Kill(c)
    PROVE  IInv'
BY BeginSomeKeeps, LookupWasmKeeps, FetchWasmKeeps, CacheWasmKeeps, CopyWasmKeeps, LookupRecipeKeeps,
   FetchRecipeKeeps, VerifyKeeps, RenderKeeps, TagRecipeKeeps, CacheRecipeKeeps, FindLauncherKeeps,
   EnterUpdateKeeps, TagLauncherKeeps, InstallLauncherKeeps, PutNewKeeps, SpawnLauncherKeeps,
   DownloadFailsKeeps, KillKeeps

LEMMA IInvStep == ASSUME CacheAssumption, IInv, [CacheNext]_cacheVars PROVE IInv'
<1>1. serves \in [Wasms \cup Recipes -> Contents] /\ released \in Versions
  BY DEF IInv, Typed, CacheTypeOK
<1>2. CASE \E u \in Wasms \cup Recipes, h \in Contents : Change(u, h)
  BY <1>1, <1>2, WorldKeeps DEF Change
<1>3. CASE Release
  <2>1. released' \in Versions
    BY <1>1, <1>3 DEF Release, Versions, CacheAssumption
  <2> QED BY <1>1, <1>3, <2>1, WorldKeeps DEF Release
<1>4. CASE UNCHANGED cacheVars
  BY <1>1, <1>4, WorldKeeps DEF cacheVars, world
<1> QED BY <1>2, <1>3, <1>4, CliKeeps DEF CacheNext

(* Only two steps come to a launcher that can be run, and each is alone.    *)
LEMMA MovesTo ==
    ASSUME IInv, NEW d \in Clis, NEW pc, NEW got, NEW other
    PROVE  /\ Goto(d, pc) => Alone(d) /\ cli'[d].pc = pc
           /\ Have(d, pc, got, other) => Alone(d) /\ cli'[d].pc = pc /\ cli'[d].got = got
           /\ Done(d, got, other) => Alone(d) /\ cli'[d].pc = "done"
<1>1. cli \in [Clis -> CliStates] /\ cli[d] \in CliStates
  BY DEF IInv, Typed, CacheTypeOK
<1>2. ASSUME NEW x, cli' = [cli EXCEPT ![d] = x] PROVE Alone(d) /\ cli'[d] = x
  BY <1>1, <1>2 DEF Alone
<1>3. Goto(d, pc) => Alone(d) /\ cli'[d].pc = pc
  <2> DEFINE x == [cli[d] EXCEPT !.pc = pc]
  <2>1. x.pc = pc /\ (Goto(d, pc) => cli' = [cli EXCEPT ![d] = x])
    BY <1>1 DEF CliStates, Goto
  <2> HIDE DEF x
  <2> QED BY <1>2, <2>1
<1>4. Have(d, pc, got, other) => Alone(d) /\ cli'[d].pc = pc /\ cli'[d].got = got
  <2> DEFINE x == [cli[d] EXCEPT !.pc = pc, !.got = got, !.hit = other]
  <2>1. x.pc = pc /\ x.got = got
    BY <1>1 DEF CliStates
  <2>2. Have(d, pc, got, other) => cli' = [cli EXCEPT ![d] = x]
    BY DEF Have
  <2> HIDE DEF x
  <2> QED BY <1>2, <2>1, <2>2
<1>5. Done(d, got, other) => Alone(d) /\ cli'[d].pc = "done"
  <2> DEFINE x == [cli[d] EXCEPT !.pc = "done", !.got = got, !.why = other]
  <2>1. x.pc = "done"
    BY <1>1 DEF CliStates
  <2>2. Done(d, got, other) => cli' = [cli EXCEPT ![d] = x]
    BY DEF Done
  <2> HIDE DEF x
  <2> QED BY <1>2, <2>1, <2>2
<1> QED BY <1>3, <1>4, <1>5

LEMMA GotoMovesTo ==
    ASSUME IInv, NEW d \in Clis, NEW pc, Goto(d, pc) PROVE Alone(d) /\ cli'[d].pc = pc
<1>1. \A got, other : Goto(d, pc) => Alone(d) /\ cli'[d].pc = pc
  BY MovesTo
<1> QED BY <1>1

LEMMA SpawnsOnly ==
    ASSUME CacheAssumption, IInv, NEW c \in Clis, cli'[c].pc = "spawn", ~At(c, "spawn"), [CacheNext]_cacheVars
    PROVE  FindLauncher(c) \/ PutNew(c)
<1>1. ASSUME UNCHANGED cli PROVE FALSE
  BY <1>1 DEF At
<1>2. ASSUME NEW d \in Clis, Alone(d), cli'[d].pc # "spawn" PROVE FALSE
  BY <1>1, <1>2 DEF Alone, At
<1>3. ASSUME NEW d \in Clis, Alone(d) PROVE d = c
  BY <1>3 DEF Alone, At
<1>4. ASSUME NEW d \in Clis, BeginSome(d) PROVE FALSE
  <2>1. PICK kind, req, pin : BeginRequest(d, kind, req, pin)
    BY <1>4 DEF BeginSome
  <2> DEFINE x == [Unasked EXCEPT !.pc = kind, !.kind = kind, !.req = req, !.pin = pin]
  <2>2. x.pc = kind /\ kind # "spawn"
    BY <2>1 DEF BeginRequest, CacheAssumption, AllKinds, Unasked
  <2>3. cli' = [cli EXCEPT ![d] = x]
    BY <2>1 DEF BeginRequest
  <2> HIDE DEF x
  <2>4. Alone(d) /\ cli'[d] = x
    BY <2>3 DEF Alone, IInv, Typed, CacheTypeOK
  <2> QED BY <1>2, <2>2, <2>4
<1>5. ASSUME NEW d \in Clis, NEW pc, pc # "spawn", Goto(d, pc) PROVE FALSE
  BY <1>2, <1>5, GotoMovesTo
<1>6. ASSUME NEW d \in Clis, NEW pc, pc # "spawn", NEW got, NEW hit, Have(d, pc, got, hit) PROVE FALSE
  BY <1>2, <1>6, MovesTo
<1>7. ASSUME NEW d \in Clis, NEW got, NEW why, Done(d, got, why) PROVE FALSE
  BY <1>2, <1>7, MovesTo
<1>8. ASSUME NEW d \in Clis,
             \/ LookupWasm(d) \/ FetchWasm(d) \/ CacheWasm(d) \/ CopyWasm(d)
             \/ LookupRecipe(d) \/ FetchRecipe(d) \/ Verify(d) \/ Render(d) \/ TagRecipe(d) \/ CacheRecipe(d)
             \/ EnterUpdate(d) \/ TagLauncher(d) \/ Download(d) \/ RemoveOld(d) \/ SpawnLauncher(d) \/ DownloadFails(d)
      PROVE  FALSE
  <2>1. CASE LookupWasm(d) \/ FetchWasm(d)
    BY <1>5, <1>6, <1>7, <2>1 DEF LookupWasm, FetchWasm
  <2>2. CASE CacheWasm(d) \/ CopyWasm(d)
    BY <1>5, <1>7, <2>2 DEF CacheWasm, CopyWasm
  <2>3. CASE LookupRecipe(d) \/ FetchRecipe(d)
    BY <1>5, <1>6, <1>7, <2>3 DEF LookupRecipe, FetchRecipe
  <2>4. CASE Verify(d) \/ Render(d)
    <3> DEFINE next == IF ~cli[d].hit /\ cli[d].pin # None THEN "tag_recipe" ELSE "render"
    <3>1. next # "spawn"
      OBVIOUS
    <3> QED BY <1>5, <1>7, <2>4, <3>1 DEF Verify, Render
  <2>5. CASE TagRecipe(d) \/ CacheRecipe(d)
    BY <1>5, <1>7, <2>5 DEF TagRecipe, CacheRecipe
  <2>6. CASE EnterUpdate(d) \/ Download(d) \/ RemoveOld(d)
    BY <1>5, <2>6 DEF EnterUpdate, Download, RemoveOld
  <2>7. CASE TagLauncher(d)
    BY <1>6, <1>7, <2>7 DEF TagLauncher
  <2>8. CASE SpawnLauncher(d) \/ DownloadFails(d)
    BY <1>7, <2>8 DEF SpawnLauncher, DownloadFails
  <2> QED BY <1>8, <2>1, <2>2, <2>3, <2>4, <2>5, <2>6, <2>7, <2>8
<1>9. ASSUME NEW d \in Clis, Kill(d) PROVE FALSE
  <2>1. cli' = [cli EXCEPT ![d] = Unasked] /\ Unasked.pc = "idle" /\ cli \in [Clis -> CliStates]
    BY <1>9 DEF Kill, Unasked, IInv, Typed, CacheTypeOK
  <2>2. Alone(d) /\ cli'[d].pc = "idle"
    BY <2>1 DEF Alone
  <2> QED BY <1>2, <2>2
<1>10. ASSUME NEW d \in Clis, FindLauncher(d) \/ PutNew(d) PROVE d = c
  <2>1. Alone(d)
    BY <1>10, MovesTo DEF FindLauncher, PutNew
  <2> QED BY <1>3, <2>1
<1>11. CASE UNCHANGED cacheVars
  BY <1>1, <1>11 DEF cacheVars
<1>12. CASE Release \/ \E u \in Wasms \cup Recipes, h \in Contents : Change(u, h)
  BY <1>1, <1>12 DEF Release, Change
<1> QED BY <1>4, <1>8, <1>9, <1>10, <1>11, <1>12 DEF CacheNext

(* The version that is run is the one the tag names.                        *)
LEMMA FreshStep ==
    ASSUME CacheAssumption, IInv, [CacheNext]_cacheVars, NEW c \in Clis,
           ~At(c, "spawn"), cli'[c].pc = "spawn", cli[c].pin = None
    PROVE  tags.latest = cli'[c].got /\ ~Stale(c)
<1>1. CASE FindLauncher(c)
  <2>1. CachedLauncher(c) # None /\ Have(c, "spawn", CachedLauncher(c), TRUE)
    BY <1>1, MovesTo DEF FindLauncher
  <2>2. cli'[c].got = CachedLauncher(c)
    BY <2>1, MovesTo
  <2> QED BY <2>1, <2>2, CachedIs
<1>2. CASE PutNew(c)
  <2>1. cli[c].pc = "rename" /\ Goto(c, "spawn")
    BY <1>2, MovesTo DEF PutNew, At
  <2>2. cli'[c].got = cli[c].got
    BY <2>1, GotoIs DEF IInv, Pcs
  <2>3. tags.latest = cli[c].got /\ tags.updater = CliVersion[c]
    BY <2>1 DEF IInv, TagHeld
  <2> QED BY <2>2, <2>3 DEF Stale, CacheAssumption
<1> QED BY <1>1, <1>2, SpawnsOnly

------------------------------------------------------------------------------
LEMMA Always == ASSUME CacheAssumption PROVE CacheSpec => []IInv
<1>1. CacheInit => IInv
  BY InitIInv
<1>2. IInv /\ [CacheNext]_cacheVars => IInv'
  BY IInvStep
<1> QED BY <1>1, <1>2, PTL DEF CacheSpec

(* Every variable keeps its type.                                           *)
THEOREM CacheTypeCorrect == ASSUME CacheAssumption PROVE CacheSpec => []CacheTypeOK
<1>1. IInv => CacheTypeOK
  BY DEF IInv, Typed
<1> QED BY <1>1, Always, PTL

(* fetch.rs, wasm.rs: what was asked for with a sha256 is that content or   *)
(* an error; only a module may be one that a kill cut short.                *)
THEOREM PinsAreHonoured == ASSUME CacheAssumption PROVE CacheSpec => []PinHonoured
<1>1. IInv => PinHonoured
  BY DEF IInv, AllSettled, Settled, EndedWell, PinHonoured, At
<1> QED BY <1>1, Always, PTL

(* fetch.rs 50-57: a template that stays in the cache has rendered or was   *)
(* asked for by its hash.                                                   *)
THEOREM CacheIsVouchedFor == ASSUME CacheAssumption PROVE CacheSpec => []NothingUnvouched
<1>1. IInv => NothingUnvouched
  BY DEF IInv
<1> QED BY <1>1, Always, PTL

(* fetch.rs: a pinned URL fails only on a file that was cut short.          *)
THEOREM PinsGoBeforeTags == ASSUME CacheAssumption PROVE CacheSpec => []PinBeatsTag
<1>1. IInv => PinBeatsTag
  BY DEF IInv, AllSettled, Settled, EndedWell, PinBeatsTag, At
<1> QED BY <1>1, Always, PTL

(* All of this together, for any invocations, URLs, contents and versions.  *)
THEOREM CacheIsSound == ASSUME CacheAssumption PROVE CacheSpec => []Vouched
<1>1. CacheTypeOK /\ PinHonoured /\ NothingUnvouched /\ PinBeatsTag <=> Vouched
  BY DEF Vouched
<1> QED BY <1>1, CacheTypeCorrect, PinsAreHonoured, CacheIsVouchedFor, PinsGoBeforeTags, PTL

(* start.rs 182: who asks for the latest launcher gets the one that the tag *)
(* names, written by a CLI no older than itself.                            *)
THEOREM LaunchersAreFresh == ASSUME CacheAssumption PROVE CacheSpec => FreshLaunch
<1>1. IInv /\ [CacheNext]_cacheVars =>
        [\A c \in Clis :
            ~At(c, "spawn") /\ cli'[c].pc = "spawn" /\ cli[c].pin = None
                => tags.latest = cli'[c].got /\ ~Stale(c)]_cacheVars
  BY FreshStep
<1> QED BY <1>1, Always, PTL DEF CacheSpec, FreshLaunch
==============================================================================
