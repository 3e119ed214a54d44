---------------------------- MODULE PackageCache ----------------------------
(***************************************************************************)
(* The package cache that all projects of a user share: wasm modules,      *)
(* recipe templates and network launchers, kept from one invocation to the *)
(* next.                                                                   *)
(*                                                                         *)
(*   crates/icp/src/package.rs                                             *)
(*   crates/icp/src/canister/wasm.rs, canister/build/prebuilt.rs           *)
(*   crates/icp/src/canister/recipe/fetch.rs, project.rs                   *)
(*   crates/icp/src/network/managed/cache.rs                               *)
(*   crates/icp-cli/src/commands/network/{start,update}.rs                 *)
(*                                                                         *)
(* An invocation reads under with_read, in one step, and writes under      *)
(* with_write, whose holder is writer (DirLock).  Between its sections it  *)
(* holds nothing.  A content stands for the bytes and for their sha256, so *)
(* a file named by a hash is absent, Torn (its writer was killed inside    *)
(* the write) or that content.                                             *)
(***************************************************************************)
EXTENDS Absent, Naturals

CONSTANTS
    Clis,           \* invocations that can run at the same time
    CliVersion,     \* the version of icp-cli each of them is
    Wasms,          \* URLs of wasm modules
    RecipeUrls,     \* URLs of recipes
    Registry,       \* recipes of the registry, each with its version
    Contents,       \* what a URL may serve
    Renders,        \* the contents that are a recipe which renders
    MaxVersion,     \* bound: launcher versions are 1 .. MaxVersion
    MaxAsked,       \* bound: requests in a behaviour
    RequestKinds,   \* what is asked for, of AllKinds
    CacheFaults,    \* which of AllCacheFaults may happen
    Torn

(* kill   an invocation is killed, also inside a write                     *)
(* fail   a download fails                                                 *)
(* change a URL serves something else from now on                          *)
AllCacheFaults == {"kill", "fail", "change"}

(* wasm and recipe: a build or a sync; start and update: the launcher.     *)
AllKinds == {"wasm", "recipe", "start", "update"}

Recipes == RecipeUrls \cup Registry
Versions == 1 .. MaxVersion

\* What an instance assumes.
CacheAssumption ==
    /\ CliVersion \in [Clis -> Nat]
    /\ Renders \subseteq Contents
    /\ MaxVersion \in Nat \ {0} /\ MaxAsked \in Nat
    /\ RequestKinds \subseteq AllKinds /\ CacheFaults \subseteq AllCacheFaults
    /\ Torn \notin Contents \cup Versions
    /\ None \notin Contents \cup Versions \cup {Torn} \cup {CliVersion[c] : c \in Clis}
    /\ None \notin Clis

VARIABLES
    cli,        \* per invocation: what it does and what it has found
    writer,     \* who is inside with_write
    wasms,      \* per content: wasms/<sha>/module.wasm
    templates,  \* per content: recipes/<sha>/recipe.hbs
    launchers,  \* per version: its directory
    tags,       \* manifest.json: tags and the updater of "latest", or Torn
    serves,     \* what each URL serves
    released,   \* the newest launcher on GitHub
    asked,      \* requests so far
    vouched     \* ghost: contents that rendered or were asked for by hash

disk == <<wasms, templates, launchers, tags>>
world == <<serves, released>>
ghosts == <<asked, vouched>>
cacheVars == <<cli, writer, disk, world, ghosts>>

(* req: what was asked for; pin: a sha256 or a launcher version, None for  *)
(* any content and for "latest"; got: what it has; hit: from the cache.    *)
Unasked == [pc |-> "idle", kind |-> "none", req |-> None, pin |-> None,
            got |-> None, hit |-> FALSE, why |-> "none"]

NoTags == [of |-> [u \in Recipes |-> None], latest |-> None, updater |-> None]

CacheInit ==
    /\ cli = [c \in Clis |-> Unasked]
    /\ writer = None
    /\ wasms = [h \in Contents |-> None]
    /\ templates = [h \in Contents |-> None]
    /\ launchers = [v \in Versions |-> None]
    /\ tags = NoTags
    /\ serves \in [Wasms \cup Recipes -> Contents]
    /\ released = 1
    /\ asked = 0
    /\ vouched = {}

-----------------------------------------------------------------------------
At(c, pc) == cli[c].pc = pc
Goto(c, pc) == cli' = [cli EXCEPT ![c].pc = pc]
Have(c, pc, got, hit) == cli' = [cli EXCEPT ![c].pc = pc, ![c].got = got, ![c].hit = hit]
Done(c, got, why) == cli' = [cli EXCEPT ![c].pc = "done", ![c].got = got, ![c].why = why]

(* The exclusive section: entered when nobody is inside.                   *)
NobodyInside == writer = None
EnterSection(c) == NobodyInside /\ writer' = c
LeaveSection(c) == writer' = None

BeginRequest(c, kind, req, pin) ==
    /\ cli[c].pc \in {"idle", "done"}
    /\ kind \in RequestKinds
    /\ asked < MaxAsked
    /\ asked' = asked + 1
    /\ cli' = [cli EXCEPT ![c] =
                  [Unasked EXCEPT !.pc = kind, !.kind = kind, !.req = req, !.pin = pin]]
    /\ vouched' = vouched \cup (IF kind = "recipe" THEN {pin} \ {None} ELSE {})
    /\ UNCHANGED <<writer, disk, world>>

BeginSome(c) ==
    \/ \E u \in Wasms, pin \in Contents \cup {None} : BeginRequest(c, "wasm", u, pin)
    \/ \E u \in Recipes, pin \in Contents \cup {None} : BeginRequest(c, "recipe", u, pin)
    \/ \E v \in 1 .. released \cup {None} : BeginRequest(c, "start", None, v)
    \/ BeginRequest(c, "update", None, None)

-----------------------------------------------------------------------------
(* wasm::resolve of a remote source, and the copy its caller makes. *)

(* Only a module with a sha256 can be looked for; what is found is taken.  *)
LookupWasm(c) ==
    LET pin == cli[c].pin IN
    /\ At(c, "wasm")
    /\ pin # None => NobodyInside
    /\ IF pin # None /\ wasms[pin] # None
       THEN Have(c, "copy", pin, TRUE)
       ELSE Goto(c, "fetch")
    /\ UNCHANGED <<writer, disk, world, ghosts>>

(* A response, whose checksum is verified when one was given.              *)
FetchWasm(c) ==
    LET got == serves[cli[c].req] IN
    /\ At(c, "fetch") /\ cli[c].kind = "wasm"
    /\ IF cli[c].pin \in {None, got}
       THEN Have(c, "cache_wasm", got, FALSE)
       ELSE Done(c, None, "mismatch")
    /\ UNCHANGED <<writer, disk, world, ghosts>>

(* cache_wasm: a file that exists is left as it is.                        *)
CacheWasm(c) ==
    LET h == cli[c].got IN
    /\ At(c, "cache_wasm")
    /\ NobodyInside
    /\ wasms' = [wasms EXCEPT ![h] = IF @ = None THEN h ELSE @]
    /\ Goto(c, "copy")
    /\ UNCHANGED <<writer, templates, launchers, tags, world, ghosts>>

(* The caller reads the file at the path, holding no lock.                 *)
CopyWasm(c) ==
    /\ At(c, "copy")
    /\ Done(c, wasms[cli[c].got], "ok")
    /\ UNCHANGED <<writer, disk, world, ghosts>>

-----------------------------------------------------------------------------
(* RecipeFetcher::fetch_recipe, and render and commit by project.rs. *)

(* The hash that the cache is asked for.  A URL's pin goes before its tag: *)
(* the tag only has to exist.                                              *)
Key(u, pin) ==
    IF tags.of[u] # None /\ u \in RecipeUrls /\ pin # None THEN pin ELSE tags.of[u]

LookupRecipe(c) ==
    /\ At(c, "recipe")
    /\ NobodyInside
    /\ IF tags = Torn
       THEN Done(c, None, "manifest")
       ELSE LET key == Key(cli[c].req, cli[c].pin) IN
            IF key = None THEN Goto(c, "fetch")
            ELSE IF templates[key] = None THEN Goto(c, "fetch")
                 ELSE Have(c, "verify", templates[key], TRUE)
    /\ UNCHANGED <<writer, disk, world, ghosts>>

FetchRecipe(c) ==
    /\ At(c, "fetch") /\ cli[c].kind = "recipe"
    /\ Have(c, "verify", serves[cli[c].req], FALSE)
    /\ UNCHANGED <<writer, disk, world, ghosts>>

VerifyFetched(c) ==     \* mutant: only what was downloaded is verified
    /\ At(c, "verify")
    /\ IF ~cli[c].hit /\ cli[c].pin \notin {None, cli[c].got}
       THEN Done(c, None, "mismatch")
       ELSE Goto(c, IF ~cli[c].hit /\ cli[c].pin # None THEN "tag_recipe" ELSE "render")
    /\ UNCHANGED <<writer, disk, world, ghosts>>

(* Cached or not, the template has the sha256 that was given.  A download  *)
(* that was verified is cached now, any other after it has rendered.       *)
Verify(c) ==
    /\ At(c, "verify")
    /\ IF cli[c].pin \notin {None, cli[c].got}
       THEN Done(c, IF cli[c].hit THEN cli[c].got ELSE None, "mismatch")
       ELSE Goto(c, IF ~cli[c].hit /\ cli[c].pin # None THEN "tag_recipe" ELSE "render")
    /\ UNCHANGED <<writer, disk, world, ghosts>>

(* A template cut short may still render, into something else.             *)
Render(c) ==
    LET got == cli[c].got IN
    /\ At(c, "render")
    /\ \/ /\ got \in Renders \cup {Torn}
          /\ IF ~cli[c].hit /\ cli[c].pin = None THEN Goto(c, "tag_recipe") ELSE Done(c, got, "ok")
          /\ vouched' = vouched \cup ({got} \ {Torn})
       \/ /\ got \notin Renders
          /\ Done(c, got, "render")
          /\ UNCHANGED vouched
    /\ UNCHANGED <<writer, disk, world, asked>>

(* cache_registry_recipe, cache_uri_recipe: the tag first,                 *)
TagRecipe(c) ==
    /\ At(c, "tag_recipe")
    /\ IF tags = Torn
       THEN NobodyInside /\ Done(c, None, "manifest") /\ UNCHANGED <<writer, tags>>
       ELSE /\ EnterSection(c)
            /\ tags' = [tags EXCEPT !.of = [tags.of EXCEPT ![cli[c].req] = cli[c].got]]
            /\ Goto(c, "cache_recipe")
    /\ UNCHANGED <<wasms, templates, launchers, world, ghosts>>

(* then the template, unless it is there.                                  *)
CacheRecipe(c) ==
    LET h == cli[c].got IN
    /\ At(c, "cache_recipe")
    /\ templates' = [templates EXCEPT ![h] = IF @ = None THEN h ELSE @]
    /\ LeaveSection(c)
    /\ IF cli[c].pin # None THEN Goto(c, "render") ELSE Done(c, h, "ok")
    /\ UNCHANGED <<wasms, launchers, tags, world, ghosts>>

-----------------------------------------------------------------------------
(* The network launcher: start.rs 183-212, update.rs, cache.rs. *)

Stale(c) == tags.updater = None \/ tags.updater < CliVersion[c]

(* get_cached_launcher_version_if_fresh; a directory that exists is a      *)
(* version that is there.                                                  *)
CachedLauncher(c) ==
    LET want == IF cli[c].pin # None THEN cli[c].pin
                ELSE IF Stale(c) THEN None ELSE tags.latest
    IN  IF want = None THEN None ELSE IF launchers[want] = None THEN None ELSE want

(* start looks and downloads in one section, and runs the path after it.   *)
FindLauncher(c) ==
    LET pin == cli[c].pin IN
    /\ At(c, "start")
    /\ NobodyInside
    /\ IF pin = None /\ tags = Torn
       THEN Done(c, None, "manifest") /\ UNCHANGED writer
       ELSE IF CachedLauncher(c) # None
            THEN Have(c, "spawn", CachedLauncher(c), TRUE) /\ UNCHANGED writer
            ELSE /\ EnterSection(c)
                 /\ Have(c, IF pin = None THEN "tag_launcher" ELSE "download", pin, FALSE)
    /\ UNCHANGED <<disk, world, ghosts>>

EnterUpdate(c) ==
    /\ At(c, "update")
    /\ EnterSection(c)
    /\ Goto(c, "tag_launcher")
    /\ UNCHANGED <<disk, world, ghosts>>

TagLauncherOnly(c) ==     \* mutant: set_tag, which keeps the updater
    /\ At(c, "tag_launcher")
    /\ IF tags = Torn
       THEN LeaveSection(c) /\ Done(c, None, "manifest") /\ UNCHANGED tags
       ELSE /\ tags' = [tags EXCEPT !.latest = released]
            /\ Have(c, "download", released, FALSE)
            /\ UNCHANGED writer
    /\ UNCHANGED <<wasms, templates, launchers, world, ghosts>>

(* get_latest_launcher_version, and the tag, before there is a download.   *)
TagLauncher(c) ==
    /\ At(c, "tag_launcher")
    /\ IF tags = Torn
       THEN LeaveSection(c) /\ Done(c, None, "manifest") /\ UNCHANGED tags
       ELSE /\ tags' = [tags EXCEPT !.latest = released, !.updater = CliVersion[c]]
            /\ Have(c, "download", released, FALSE)
            /\ UNCHANGED writer
    /\ UNCHANGED <<wasms, templates, launchers, world, ghosts>>

(* Downloaded and extracted beside the version directories.                *)
Download(c) ==
    /\ At(c, "download")
    /\ Goto(c, "replace")
    /\ UNCHANGED <<writer, disk, world, ghosts>>

(* remove_dir_all of the version that is there, if one is,                 *)
RemoveOld(c) ==
    /\ At(c, "replace")
    /\ launchers' = [launchers EXCEPT ![cli[c].got] = None]
    /\ Goto(c, "rename")
    /\ UNCHANGED <<writer, wasms, templates, tags, world, ghosts>>

(* and rename.                                                             *)
PutNew(c) ==
    /\ At(c, "rename")
    /\ launchers' = [launchers EXCEPT ![cli[c].got] = "whole"]
    /\ LeaveSection(c)
    /\ IF cli[c].kind = "start" THEN Goto(c, "spawn") ELSE Done(c, cli[c].got, "ok")
    /\ UNCHANGED <<wasms, templates, tags, world, ghosts>>

(* run_network runs what is at the path now.                               *)
SpawnLauncher(c) ==
    /\ At(c, "spawn")
    /\ Done(c, cli[c].got, IF launchers[cli[c].got] = "whole" THEN "ok" ELSE "broken")
    /\ UNCHANGED <<writer, disk, world, ghosts>>

-----------------------------------------------------------------------------
(* The environment. *)

DownloadFails(c) ==
    /\ "fail" \in CacheFaults
    /\ cli[c].pc \in {"fetch", "tag_launcher", "download"}
    /\ Done(c, None, "download")
    /\ writer' = IF writer = c THEN None ELSE writer
    /\ UNCHANGED <<disk, world, ghosts>>

CutOff(files, h) == [files EXCEPT ![h] = IF @ = None THEN Torn ELSE @]

(* Killed: the kernel drops the lock.  A write that was going on leaves a  *)
(* truncated file, remove_dir_all a part of the directory.                 *)
Kill(c) ==
    LET got == cli[c].got IN
    /\ "kill" \in CacheFaults
    /\ cli[c].pc \notin {"idle", "done"}
    /\ cli' = [cli EXCEPT ![c] = Unasked]
    /\ writer' = IF writer = c THEN None ELSE writer
    /\ \/ UNCHANGED disk
       \/ /\ At(c, "cache_wasm") /\ NobodyInside
          /\ wasms' = CutOff(wasms, got) /\ UNCHANGED <<templates, launchers, tags>>
       \/ /\ At(c, "cache_recipe")
          /\ templates' = CutOff(templates, got) /\ UNCHANGED <<wasms, launchers, tags>>
       \/ /\ (At(c, "tag_recipe") /\ NobodyInside) \/ At(c, "tag_launcher")
          /\ tags' = Torn /\ UNCHANGED <<wasms, templates, launchers>>
       \/ /\ At(c, "replace") /\ launchers[got] # None
          /\ launchers' = [launchers EXCEPT ![got] = "partial"] /\ UNCHANGED <<wasms, templates, tags>>
    /\ UNCHANGED <<world, ghosts>>

Change(u, h) ==
    /\ "change" \in CacheFaults
    /\ serves' = [serves EXCEPT ![u] = h]
    /\ UNCHANGED <<cli, writer, disk, released, ghosts>>

Release ==
    /\ released < MaxVersion
    /\ released' = released + 1
    /\ UNCHANGED <<cli, writer, disk, serves, ghosts>>

-----------------------------------------------------------------------------
CacheNext ==
    \/ \E c \in Clis :
        \/ BeginSome(c)
        \/ LookupWasm(c) \/ FetchWasm(c) \/ CacheWasm(c) \/ CopyWasm(c)
        \/ LookupRecipe(c) \/ FetchRecipe(c) \/ Verify(c) \/ Render(c)
        \/ TagRecipe(c) \/ CacheRecipe(c)
        \/ FindLauncher(c) \/ EnterUpdate(c) \/ TagLauncher(c) \/ Download(c)
        \/ RemoveOld(c) \/ PutNew(c) \/ SpawnLauncher(c)
        \/ DownloadFails(c) \/ Kill(c)
    \/ \E u \in Wasms \cup Recipes, h \in Contents : Change(u, h)
    \/ Release

CacheSpec == CacheInit /\ [][CacheNext]_cacheVars

-----------------------------------------------------------------------------
Pcs == {"idle", "done", "wasm", "recipe", "start", "update", "fetch", "cache_wasm",
        "copy", "verify", "render", "tag_recipe", "cache_recipe", "tag_launcher",
        "download", "replace", "rename", "spawn"}
Outcomes == {"none", "ok", "mismatch", "manifest", "render", "download", "broken"}

Anything == Contents \cup Versions \cup {None, Torn}
CliStates == [pc : Pcs, kind : AllKinds \cup {"none"}, req : Wasms \cup Recipes \cup {None},
              pin : Contents \cup Versions \cup {None}, got : Anything, hit : BOOLEAN, why : Outcomes]

Tags == [of : [Recipes -> Contents \cup {None}], latest : Versions \cup {None},
         updater : {CliVersion[c] : c \in Clis} \cup {None}]

CacheTypeOK ==
    /\ cli \in [Clis -> CliStates]
    /\ writer \in Clis \cup {None}
    /\ writer # None => cli[writer].pc \in
          {"cache_recipe", "tag_launcher", "download", "replace", "rename"}
    /\ \A h \in Contents : wasms[h] \in {None, Torn, h} /\ templates[h] \in {None, Torn, h}
    /\ launchers \in [Versions -> {None, "partial", "whole"}]
    /\ tags \in Tags \cup {Torn}
    /\ serves \in [Wasms \cup Recipes -> Contents]
    /\ released \in Versions
    /\ asked \in 0 .. MaxAsked
    /\ vouched \subseteq Contents

(* What was asked for with a sha256 is that content or an error, whatever  *)
(* is served, cached or tagged by others: "Verifies `sha256` when set"     *)
(* (fetch.rs 116).  A recipe that a kill cut short is found out; a module  *)
(* is not, since what the cache has under its hash is taken (package.rs).  *)
PinHonoured ==
    \A c \in Clis :
        At(c, "done") /\ cli[c].why = "ok" /\ cli[c].kind \in {"wasm", "recipe"} /\ cli[c].pin # None
            => \/ cli[c].got = cli[c].pin
               \/ cli[c].kind = "wasm" /\ cli[c].got = Torn

(* What the cache holds has rendered for someone or was asked for by its   *)
(* hash: no bad response to a request without a checksum is read back by   *)
(* later ones (fetch.rs 50-57, "would let a single bad response become     *)
(* sticky").                                                               *)
NothingUnvouched == \A h \in Contents : templates[h] = h => h \in vouched

(* A pinned recipe of a URL does not fail on what the URL served to others *)
(* before or since: only a file cut short can fail its checksum.           *)
PinBeatsTag ==
    \A c \in Clis :
        At(c, "done") /\ cli[c].why = "mismatch" /\ cli[c].hit /\ cli[c].req \in RecipeUrls
            => cli[c].got = Torn

(* A pin is honoured whatever the cache has for others, and nothing stays  *)
(* in it that nobody vouched for; and the variables keep their types.      *)
Vouched == CacheTypeOK /\ PinHonoured /\ NothingUnvouched /\ PinBeatsTag

(* A start that asks for the latest launcher gets the version that was the *)
(* newest for a CLI at least as new as itself: "one that is either         *)
(* specified exactly, or was last updated since icp-cli was updated"       *)
(* (start.rs 182).                                                         *)
FreshLaunch ==
    [][\A c \in Clis :
          ~At(c, "spawn") /\ cli'[c].pc = "spawn" /\ cli[c].pin = None
              => tags.latest = cli'[c].got /\ ~Stale(c)]_cacheVars
=============================================================================
