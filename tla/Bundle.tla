-------------------------------- MODULE Bundle --------------------------------
(***************************************************************************)
(* icp project bundle: a loaded workspace is written into an archive that  *)
(* mirrors it, every build step replaced by the built wasm                 *)
(* (crates/icp-cli/src/operations/bundle.rs).  The archive is then         *)
(* extracted and loaded in its turn, as whoever received it would.         *)
(***************************************************************************)
EXTENDS Workspace

CONSTANT Workspaces    \* the source trees: functions from Dirs to manifests or None

VARIABLES stage,   \* "load", "walk", "refused", "extracted"
          found,   \* the instances the bundler's own walk has reached, in order
          todo,    \* the edges that walk has yet to follow, the next one first
          source   \* what loading the source tree gave

bundleVars == <<stage, found, todo, source>>
vars == <<placeVars, loadVars, bundleVars>>

Init ==
    /\ files \in Workspaces
    /\ cwd \in {d \in Dirs : files[d] # None}
    /\ root = Locate(cwd)
    /\ archive = <<>>
    /\ LoadInit
    /\ stage = "load" /\ found = <<>> /\ todo = <<>> /\ source = <<>>

Load == LoadStep /\ UNCHANGED bundleVars

-----------------------------------------------------------------------------
(* workspace_instances walks the same manifests a second time.             *)

Edges(d) == [i \in DOMAIN files[d].deps |-> files[d].deps[i].dir]

StartWalk ==
    /\ stage = "load" /\ outcome = "loaded" /\ cwd = root
    /\ stage' = "walk" /\ found' = <<root>> /\ todo' = Edges(root)
    /\ source' = [canisters |-> canisters, project |-> project]
    /\ UNCHANGED <<placeVars, loadVars>>

Walk ==
    /\ stage = "walk" /\ todo # <<>>
    /\ IF Head(todo) \in ToSet(found)
       THEN todo' = Tail(todo) /\ UNCHANGED found
       ELSE /\ found' = Append(found, Head(todo))
            /\ todo' = Edges(Head(todo)) \o Tail(todo)
    /\ UNCHANGED <<placeVars, loadVars, stage, source>>

-----------------------------------------------------------------------------
(* What create_bundle refuses.                                             *)

Instances == ToSet(found)
Depth(d) == IF d = root THEN 1 ELSE 2
Owner(k) == IF k[1] = Bare THEN root ELSE k[1]
Inside(p) == Within(p, Path[root])

(* path_segment, for names that are valid: a device name is escaped.       *)
Segment(n) == IF n = "con" THEN "_con" ELSE n
RefSegment(r) == IF r[1] = Bare THEN Segment(r[2]) ELSE r[1] \o "_" \o r[2]

ScriptSync == \E k \in DOMAIN canisters : <<"script">> \in ToSet(canisters[k].sync)
NameCollision ==
    \E d \in Instances : \E m, n \in Own(d) : m # n /\ Segment(m) = Segment(n)
SourceEscapes ==
    \E d \in Instances : \E i \in DOMAIN files[d].own :
        \E s \in ToSet(files[d].own[i].sync) :
            ~Inside(Normal(Path[d] \o files[d].own[i].sub \o s))

(* override_store_key and override_base_dir: whose canister an override of *)
(* the manifest in d is about, and where its paths start from.             *)
StoreKey(d, r) == IF d = root THEN r ELSE IF r[1] = Bare THEN <<d, r[2]>> ELSE <<d, r>>
Mine(d, r) == d = root \/ r[1] = Bare
BaseDir(d, r) ==
    IF Mine(d, r) /\ StoreKey(d, r) \in DOMAIN canisters
    THEN canisters[StoreKey(d, r)].home ELSE Path[d]

(* Mutant of OwnerDir: the file goes beside the manifest that names it.    *)
OwnerDirDeclaring(d, r) == d

OwnerDir(d, r) ==
    IF Mine(d, r) /\ StoreKey(d, r) \in DOMAIN canisters THEN Owner(StoreKey(d, r)) ELSE d

(* The init-args files the environments name, in the order they are met.   *)
ArgPaths ==
    UNION {UNION {{<<i, j, r>> : r \in {x \in DOMAIN files[found[i]].envs[j].args :
                                            Head(files[found[i]].envs[j].args[x]) = "path"}}
                  : j \in DOMAIN files[found[i]].envs}
           : i \in DOMAIN found}
ArgPath(a) == Tail(files[found[a[1]]].envs[a[2]].args[a[3]])
ArgSource(a) == Normal(BaseDir(found[a[1]], a[3]) \o ArgPath(a))
ArgTarget(r, path) == <<"init-args", RefSegment(r)>> \o Normal(path)
ArgEntry(a) == Path[OwnerDir(found[a[1]], a[3])] \o ArgTarget(a[3], ArgPath(a))
Before(a, b) == a[1] < b[1] \/ (a[1] = b[1] /\ a[2] < b[2])

(* Only the first file that goes to a path is written there.               *)
ArgFiles == {a \in ArgPaths : \A b \in ArgPaths : ArgEntry(b) = ArgEntry(a) => ~Before(b, a)}

SyncEntry(d, i, s) == <<"plugins", Segment(files[d].own[i].name), ToString(s), "files">>
SyncFiles ==
    UNION {UNION {{<<d, i, s>> : s \in DOMAIN files[d].own[i].sync} : i \in DOMAIN files[d].own}
           : d \in Instances}
SyncTarget(f) == SyncEntry(f[1], f[2], f[3]) \o Normal(files[f[1]].own[f[2]].sync[f[3]])
WasmTarget(n) == <<"canisters", Segment(n) \o ".wasm">>

(* Where the archive's entries go, and what is in them.                    *)
Entries ==
    {<<Path[d] \o <<"icp.yaml">>, <<"manifest", d>>>> : d \in Instances}
    \cup {<<Path[Owner(k)] \o WasmTarget(k[2]), canisters[k].wasm>> : k \in DOMAIN canisters}
    \cup {<<ArgEntry(a), <<"source">> \o ArgSource(a)>> : a \in ArgFiles}
    \cup {<<Path[f[1]] \o SyncTarget(f),
            canisters[Key(Depth(f[1]), f[1], files[f[1]].own[f[2]].name)].sync[f[3]]>> : f \in SyncFiles}

(* validate_archive_paths: no two entries at a path, none beneath another. *)
Clash == \E e, f \in Entries : e # f /\ Within(e[1], f[1])

Refusal ==
    CASE \E d \in Instances : ~Inside(Path[d])                       -> "DependencyOutsideWorkspace"
      [] \E k \in DOMAIN canisters : Owner(k) \notin Instances       -> "OrphanCanister"
      [] ScriptSync                                                  -> "ScriptSyncStep"
      [] NameCollision                                               -> "CanisterNameCollision"
      [] SourceEscapes \/ (\E a \in ArgPaths : ~Inside(ArgSource(a))) -> "SourceEscapesProject"
      [] Clash                                                       -> "DuplicateArchiveEntry"
      [] OTHER                                                       -> None

Refuse ==
    /\ stage = "walk" /\ todo = <<>> /\ Refusal # None
    /\ stage' = "refused"
    /\ UNCHANGED <<placeVars, loadVars, found, todo, source>>

-----------------------------------------------------------------------------
(* The manifests the archive holds.                                        *)

(* localize_controllers: the instance's own store keys become local names. *)
Localized(d, refs) == {IF Owner(r) = d /\ r[2] \in Own(d) THEN <<Bare, r[2]>> ELSE r : r \in refs}

BundledCanister(d, i) ==
    LET c == canisters[Key(Depth(d), d, files[d].own[i].name)]
    IN [name |-> files[d].own[i].name, sub |-> <<>>, ctl |-> Localized(d, c.settings.ctl),
        wasm |-> WasmTarget(files[d].own[i].name), args |-> c.args,
        sync |-> [s \in DOMAIN c.sync |-> SyncTarget(<<d, i, s>>)]]

(* inline_environments *)
BundledEnv(env) ==
    [env EXCEPT !.args = [r \in DOMAIN env.args |->
        IF Head(env.args[r]) = "path" THEN <<"path">> \o ArgTarget(r, Tail(env.args[r]))
        ELSE env.args[r]]]

Bundled(d) ==
    [files[d] EXCEPT
        !.own = [i \in DOMAIN files[d].own |-> BundledCanister(d, i)],
        !.envs = [j \in DOMAIN files[d].envs |-> BundledEnv(files[d].envs[j])]]

(* The archive is written, extracted elsewhere and loaded from there.      *)
Pack ==
    /\ stage = "walk" /\ todo = <<>> /\ Refusal = None
    /\ files' = [d \in Dirs |-> IF d \in Instances THEN Bundled(d) ELSE None]
    /\ archive' = [p \in {e[1] : e \in Entries} |-> (CHOOSE e \in Entries : e[1] = p)[2]]
    /\ stage' = "extracted"
    /\ frames' = <<>> /\ registry' = <<>> /\ canisters' = <<>>
    /\ members' = <<>> /\ project' = <<>> /\ outcome' = "loading"
    /\ UNCHANGED <<cwd, root, found, todo, source>>

-----------------------------------------------------------------------------
(* The alias chains that lead from the root to each directory. *)
Chains ==
    LET step[n \in 0..Cardinality(Dirs)] ==
            IF n = 0 THEN {<<root, <<>>>>}
            ELSE step[n - 1] \cup
                 UNION {{<<files[x[1]].deps[i].dir, Append(x[2], files[x[1]].deps[i].alias)>>
                            : i \in DOMAIN files[x[1]].deps} : x \in step[n - 1]}
    IN step[Cardinality(Dirs)]

(* A loaded canister has one friendly URL for every chain of aliases that  *)
(* leads to its project, however instances are shared, and no other, and   *)
(* its project is reached by an acyclic declaration.                       *)
UrlPerChain ==
    outcome = "loaded" =>
        \A k \in DOMAIN canisters :
            canisters[k].urls = {x[2] : x \in {y \in Chains : y[1] = Owner(k)}}

(* A member's canister finds in a workspace what it finds when its project *)
(* is the root: the same names bound to the same canisters, and in every   *)
(* environment, unless the workspace root says otherwise, the settings and *)
(* init args its own project gives it there.                               *)
AloneBindings(d) ==
    [n \in {<<Bare, m>> : m \in Own(d)} |-> <<d, n[2]>>] @@
    [n \in UNION {{<<e.alias, m>> : m \in IF e.expose = Everything THEN Own(e.dir) ELSE e.expose}
                   : e \in ToSet(files[d].deps)} |->
        <<(CHOOSE e \in ToSet(files[d].deps) : e.alias = n[1]).dir, n[2]>>]

AloneConfig(d, n, e) ==
    LET envs == {x \in ToSet(files[d].envs) : x.name = e}
        base == Declared(d, n)
        over == CHOOSE x \in envs : TRUE
        ctl == IF envs # {} /\ <<Bare, n>> \in DOMAIN over.sets THEN over.sets[<<Bare, n>>] ELSE base.ctl
        args == IF envs # {} /\ <<Bare, n>> \in DOMAIN over.args THEN over.args[<<Bare, n>>] ELSE base.args
    IN <<{<<d, r[2]>> : r \in ctl}, ReadArgs(Home(d, n), args)>>

StandsAlone ==
    outcome = "loaded" =>
        \A d \in DOMAIN registry : \A n \in Own(d) :
            /\ canisters[<<d, n>>].bindings = AloneBindings(d)
            /\ \A e \in DOMAIN project : <<d, n>> \in DOMAIN project[e].canisters =>
                LET c == project[e].canisters[<<d, n>>]
                    alone == AloneConfig(d, n, e)
                    above == {x \in ToSet(files[root].envs) : x.name = e}
                IN /\ c.settings.ctl = alone[1] \/ \E x \in above : <<d, n>> \in DOMAIN x.sets
                   /\ c.args = alone[2] \/ \E x \in above : <<d, n>> \in DOMAIN x.args

(* A command run in a member loads a workspace that holds the member, and  *)
(* targets by default the canisters of the projects in its directory.      *)
ScopedToMember ==
    outcome = "loaded" /\ cwd # root =>
        /\ cwd \in DOMAIN registry
        /\ \A e \in DOMAIN project :
            DefaultTargets(e) = {k \in DOMAIN project[e].canisters : Within(Path[Owner(k)], Path[cwd])}

(* The bundler's own walk reaches exactly the instances consolidation      *)
(* imported, and what it writes loads again, as the same workspace: the    *)
(* same canisters, wired and named alike, made of the wasms that were      *)
(* built, and in every environment the same settings and init args.        *)
Carried(c) == [wasm |-> c.wasm, args |-> c.args, sync |-> c.sync, ctl |-> c.settings.ctl,
               bindings |-> c.bindings, urls |-> c.urls]
SameCanisters(cs, ds) ==
    DOMAIN cs = DOMAIN ds /\ \A k \in DOMAIN cs : Carried(cs[k]) = Carried(ds[k])

BundleFaithful ==
    /\ stage = "walk" /\ todo = <<>> => Instances = {root} \cup DOMAIN registry
    /\ stage = "extracted" =>
        /\ outcome \in {"loading", "loaded"}
        /\ outcome = "loaded" =>
            /\ SameCanisters(source.canisters, canisters)
            /\ DOMAIN source.project = DOMAIN project
            /\ \A e \in DOMAIN project :
                /\ SameCanisters(source.project[e].canisters, project[e].canisters)
                /\ source.project[e].missing = project[e].missing

Next == Load \/ StartWalk \/ Walk \/ Refuse \/ Pack

Spec == Init /\ [][Next]_vars

===============================================================================
