------------------------------ MODULE Workspace ------------------------------
(***************************************************************************)
(* Loading a workspace: the root project's manifest and, depth first in    *)
(* declaration order, those of the projects it depends on, folded into one *)
(* project (crates/icp/src/project.rs).  A frame is one running call of    *)
(* import_dependency, the first one consolidate_manifest itself.           *)
(*                                                                         *)
(* A canister is named by <<scope, local name>>: scope is Bare for a name  *)
(* as its own manifest writes it (and for the store keys of the root's     *)
(* canisters), and a directory for the store key of a dependency's         *)
(* canister.  Paths are abstracted: Dirs are the canonical directories.    *)
(***************************************************************************)
EXTENDS Naturals, Sequences, FiniteSets, SequencesExt, Functions

CONSTANTS Dirs,        \* canonical directories that may hold an icp.yaml
          Path,        \* where each directory is: its segments below the topmost one
          Bare,        \* the scope of a name without a prefix
          BadNames,    \* names is_valid_name refuses
          None

\* What an instance assumes.
WorkspaceAssumption == Bare \notin Dirs /\ DOMAIN Path = Dirs

VARIABLES cwd,        \* the project the command is run in
          root,       \* the workspace root it resolved to
          files,      \* the manifest in each directory
          archive,    \* the files an extracted bundle brought, by path (none in a source tree)
          frames,     \* the calls in progress, the root's first
          registry,   \* the instances imported so far, by directory
          canisters,  \* the workspace's canisters, by store key
          members,    \* the environments each imported member defines
          project,    \* the environments of the consolidated project
          outcome     \* "loading", "loaded", or the error

placeVars == <<cwd, root, files, archive>>
loadVars == <<frames, registry, canisters, members, project, outcome>>

Everything == {"*"}
Local == "local"
Ic == "ic"
Base == "base"

Over(f, g) == [x \in DOMAIN f \cup DOMAIN g |-> IF x \in DOMAIN f THEN f[x] ELSE g[x]]

Within(p, q) == IsPrefix(q, p)

(* A relative path resolved lexically: "up" leaves the last directory.     *)
Normal(p) == FoldLeft(LAMBDA at, s : IF s # "up" THEN Append(at, s)
                                     ELSE IF at = <<>> THEN <<>> ELSE Front(at), <<>>, p)

Top == frames[Len(frames)]
Manifest(d) == files[d]
Own(d) == ToSet([i \in DOMAIN files[d].own |-> files[d].own[i].name])
Declared(d, n) == files[d].own[CHOOSE i \in DOMAIN files[d].own : files[d].own[i].name = n]

(* The store key of canister n of the project in d, which is the root's    *)
(* own call (at depth 1) or a dependency's.                                *)
Key(depth, d, n) == <<IF depth = 1 THEN Bare ELSE d, n>>

(* translate_settings_controllers: a name of the project's own is replaced *)
(* by its store key, any other is left as it is written.                   *)
Translated(refs, depth, d) ==
    {IF r[1] = Bare /\ r[2] \in Own(d) THEN Key(depth, d, r[2]) ELSE r : r \in refs}

-----------------------------------------------------------------------------
(* Where a command run in d finds its workspace: it climbs from project to *)
(* project for as long as the one above declares d, however indirectly.    *)

DependencyDirs(d) ==
    IF files[d] = None THEN {} ELSE {files[d].deps[i].dir : i \in DOMAIN files[d].deps}

TransitiveDeps(d) ==
    LET reach[n \in 0..Cardinality(Dirs)] ==
            IF n = 0 THEN DependencyDirs(d)
            ELSE reach[n - 1] \cup UNION {DependencyDirs(x) : x \in reach[n - 1]}
    IN reach[Cardinality(Dirs)]

ManifestsAbove(d) == {a \in Dirs : files[a] # None /\ a # d /\ Within(Path[d], Path[a])}

(* Mutant of Adopted: the topmost manifest, whether or not it declares d.  *)
AdoptedBlindly(d) == ManifestsAbove(d)

Adopted(d) ==
    {a \in ManifestsAbove(d) :
        \A b \in ManifestsAbove(d) : Within(Path[b], Path[a]) => d \in TransitiveDeps(b)}

Locate(d) ==
    CHOOSE a \in Adopted(d) \cup {d} : \A b \in Adopted(d) \cup {d} : Within(Path[b], Path[a])

-----------------------------------------------------------------------------
(* What one project declares is checked before its dependencies are.       *)

HasDuplicates(s) == \E i, j \in DOMAIN s : i # j /\ s[i] = s[j]
OwnNames(d) == [i \in DOMAIN files[d].own |-> files[d].own[i].name]
Aliases(d) == [i \in DOMAIN files[d].deps |-> files[d].deps[i].alias]

BadAliases(d) ==
    CASE ToSet(Aliases(d)) \cap BadNames # {} -> "InvalidDependencyAlias"
      [] ToSet(Aliases(d)) \cap Own(d) # {}   -> "DependencyAliasCollision"
      [] HasDuplicates(Aliases(d))            -> "DuplicateDependencyAlias"
      [] OTHER                                -> None

Problem(d) ==
    CASE Own(d) \cap BadNames # {}   -> "InvalidCanisterName"
      [] HasDuplicates(OwnNames(d)) -> "Duplicate"
      [] OTHER                      -> BadAliases(d)

(* The file a path names, seen from a canister's directory: the path       *)
(* itself stands for what a source tree holds there.                       *)
Read(home, path) ==
    LET at == Normal(home \o path)
    IN CASE archive = <<>>          -> <<"source">> \o at
         [] at \in DOMAIN archive   -> archive[at]
         [] OTHER                   -> <<"missing">>

(* resolve_manifest_init_args: inline, or a path to be read; <<>> is none. *)
ReadArgs(home, args) ==
    IF args = <<>> \/ Head(args) = "value" THEN args ELSE <<"value">> \o Read(home, Tail(args))

Home(d, n) == Path[d] \o Declared(d, n).sub

(* build_manifest_canisters: the wasm stands for the build steps, sync for *)
(* what the sync plugins will be given.                                    *)
BuiltCanisters(depth, d, chain) ==
    [k \in {Key(depth, d, n) : n \in Own(d)} |->
        LET decl == Declared(d, k[2])
        IN [settings |-> [from |-> Base, ctl |-> Translated(decl.ctl, depth, d)],
            wasm     |-> IF decl.wasm = <<>> THEN <<"build", d, k[2]>> ELSE Read(Path[d], decl.wasm),
            args     |-> ReadArgs(Home(d, k[2]), decl.args),
            sync     |-> [i \in DOMAIN decl.sync |->
                            IF decl.sync[i] = <<"script">> THEN <<"script">>
                            ELSE Read(Home(d, k[2]), decl.sync[i])],
            home     |-> Home(d, k[2]),
            bindings |-> <<>>,
            urls     |-> {chain}]]

NewFrame(depth, d, chain) ==
    [dir |-> d, chain |-> chain, next |-> 1, exposed |-> <<>>,
     subtree |-> {<<Key(depth, d, n), <<>>>> : n \in Own(d)}]

Fail(error) ==
    /\ outcome' = error
    /\ UNCHANGED <<frames, registry, canisters, members, project>>

-----------------------------------------------------------------------------
(* consolidate_manifest starts with the root's own canisters. *)
Begin ==
    /\ outcome = "loading" /\ frames = <<>>
    /\ IF Problem(root) # None
       THEN Fail(Problem(root))
       ELSE /\ canisters' = BuiltCanisters(1, root, <<>>)
            /\ frames' = <<NewFrame(1, root, <<>>)>>
            /\ UNCHANGED <<registry, members, project, outcome>>

Edge == Manifest(Top.dir).deps[Top.next]
Importing == /\ outcome = "loading" /\ frames # <<>>
             /\ Top.next <= Len(Manifest(Top.dir).deps)

(* The directories of the calls in progress; the root's is not among them. *)
Stack == {frames[i].dir : i \in 2..Len(frames)}

(* select_exposed, the names a parent sees of an instance's own canisters. *)
Exposed(edge) ==
    LET names == IF edge.expose = Everything THEN Own(edge.dir) ELSE edge.expose
    IN [n \in {<<edge.alias, m>> : m \in names} |-> Key(2, edge.dir, n[2])]
UnknownExposed(edge) == edge.expose # Everything /\ ~(edge.expose \subseteq Own(edge.dir))

(* The parent's call continues with the instance the edge resolved to.     *)
Continued(frame, edge, instance) ==
    [frame EXCEPT
        !.next = @ + 1,
        !.exposed = Over(Exposed(edge), @),
        !.subtree = @ \cup {<<m[1], <<edge.alias>> \o m[2]>> : m \in instance}]

Missing ==
    /\ Importing /\ Manifest(Edge.dir) = None
    /\ Fail("DependencyNotFound")

Cycle ==
    /\ Importing /\ Manifest(Edge.dir) # None /\ Edge.dir \in Stack
    /\ Fail("CircularDependency")

(* A directory imported before: the same instance, reached by one more     *)
(* chain of aliases, which names every canister below it once more.        *)
Reuse ==
    /\ Importing /\ Manifest(Edge.dir) # None /\ Edge.dir \notin Stack
    /\ Edge.dir \in DOMAIN registry
    /\ IF UnknownExposed(Edge)
       THEN Fail("UnknownDependencyCanister")
       ELSE LET instance == registry[Edge.dir]
                chain == Append(Top.chain, Edge.alias)
            IN /\ canisters' = [k \in DOMAIN canisters |->
                    [canisters[k] EXCEPT
                        !.urls = @ \cup {chain \o m[2] : m \in {x \in instance : x[1] = k}}]]
               /\ frames' = [frames EXCEPT ![Len(frames)] = Continued(Top, Edge, instance)]
               /\ UNCHANGED <<registry, members, project, outcome>>

Import ==
    /\ Importing /\ Manifest(Edge.dir) # None /\ Edge.dir \notin Stack
    /\ Edge.dir \notin DOMAIN registry
    /\ LET d == Edge.dir
           chain == Append(Top.chain, Edge.alias)
           built == BuiltCanisters(2, d, chain)
       IN IF Problem(d) # None
          THEN Fail(Problem(d))
          ELSE /\ canisters' = Over(canisters, built)
               /\ members' = Over((d :> {e.name : e \in ToSet(Manifest(d).envs)}), members)
               /\ frames' = Append(frames, NewFrame(2, d, chain))
               /\ UNCHANGED <<registry, project, outcome>>

(* compute_bindings: what the canisters of the project in the top frame    *)
(* see, their own by name and the exposed ones by alias and name.          *)
Bindings(frame) ==
    Over([n \in {<<Bare, m>> : m \in Own(frame.dir)} |-> Key(Len(frames), frame.dir, n[2])],
         frame.exposed)

Bound(frame) ==
    [k \in DOMAIN canisters |->
        IF k \in {Key(Len(frames), frame.dir, n) : n \in Own(frame.dir)}
        THEN [canisters[k] EXCEPT !.bindings = Bindings(frame)]
        ELSE canisters[k]]

Finished == /\ outcome = "loading" /\ frames # <<>>
            /\ Top.next > Len(Manifest(Top.dir).deps)

(* import_dependency returns to the call that made it. *)
Return ==
    /\ Finished /\ Len(frames) > 1
    /\ LET parent == frames[Len(frames) - 1]
           edge == Manifest(parent.dir).deps[parent.next]
       IN /\ registry' = Over((Top.dir :> Top.subtree), registry)
          /\ canisters' = Bound(Top)
          /\ IF UnknownExposed(edge)
             THEN outcome' = "UnknownDependencyCanister" /\ UNCHANGED frames
             ELSE /\ frames' = [SubSeq(frames, 1, Len(frames) - 1) EXCEPT
                                    ![Len(frames) - 1] = Continued(@, edge, Top.subtree)]
                  /\ UNCHANGED outcome
    /\ UNCHANGED <<members, project>>

-----------------------------------------------------------------------------
(* The root's networks and environments close the consolidation.           *)

Networks == {Ic, Local} \cup ToSet(Manifest(root).nets)

BadNetworks ==
    CASE Ic \in ToSet(Manifest(root).nets)   -> "Reserved"
      [] HasDuplicates(Manifest(root).nets) -> "Duplicate"
      [] OTHER                              -> None

(* Only the base settings are looked at; an environment's are not.         *)
UnknownController(cs) ==
    \E k \in DOMAIN cs : \E r \in cs[k].settings.ctl : r \notin DOMAIN cs

EnvNamed(d, e) ==
    LET S == {i \in DOMAIN files[d].envs : files[d].envs[i].name = e}
    IN IF S = {} THEN None ELSE files[d].envs[CHOOSE i \in S : \A j \in S : j <= i]

(* The overrides of one canister by one environment manifest: written by   *)
(* the project in d under the name r, its controllers read at that depth.  *)
Overridden(c, env, r, from, depth, d) ==
    IF env = None THEN c
    ELSE [c EXCEPT
            !.settings = IF r \in DOMAIN env.sets
                         THEN [from |-> from,
                               ctl |-> IF depth = 1 THEN env.sets[r]
                                       ELSE Translated(env.sets[r], depth, d)]
                         ELSE @,
            !.args = IF r \in DOMAIN env.args THEN ReadArgs(c.home, env.args[r]) ELSE @]

(* What the environment named e makes of a canister: the overrides of its  *)
(* own project below those of the root.                                    *)
Configured(cs, k, e) ==
    LET owned == IF k[1] = Bare THEN cs[k]
                 ELSE Overridden(cs[k], EnvNamed(k[1], e), <<Bare, k[2]>>, <<k[1], e>>, 2, k[1])
    IN Overridden(owned, EnvNamed(root, e), k, <<root, e>>, 1, root)

Selected(cs, env) == IF env.select = Everything THEN DOMAIN cs ELSE env.select

(* The members that do not declare an environment of the root's: whoever   *)
(* selects that environment is refused (Context::get_environment).         *)
MissingFor(e) == IF e \in {Local, Ic} THEN {} ELSE {d \in DOMAIN members : e \notin members[d]}

Environment(cs, env) ==
    [network   |-> env.network,
     canisters |-> [k \in Selected(cs, env) |-> Configured(cs, k, env.name)],
     missing   |-> MissingFor(env.name)]

Implicit(e) == [name |-> e, network |-> e, select |-> Everything, sets |-> <<>>, args |-> <<>>]
RootEnvs ==
    LET named == {e.name : e \in ToSet(Manifest(root).envs)}
    IN ToSet(Manifest(root).envs) \cup {Implicit(e) : e \in {Local, Ic} \ named}

BadEnvironments(cs) ==
    LET envs == Manifest(root).envs IN
    CASE HasDuplicates([i \in DOMAIN envs |-> envs[i].name])                    -> "Duplicate"
      [] \E e \in ToSet(envs) : e.network \notin Networks                       -> "InvalidNetwork"
      [] \E e \in ToSet(envs) : ~(Selected(cs, e) \subseteq DOMAIN cs)          -> "InvalidCanister"
      [] OTHER                                                                  -> None

Conclude ==
    /\ Finished /\ Len(frames) = 1
    /\ LET cs == Bound(Top)
           problem == CASE UnknownController(cs)    -> "UnknownControllerCanister"
                        [] BadNetworks # None      -> BadNetworks
                        [] OTHER                   -> BadEnvironments(cs)
       IN IF problem # None
          THEN Fail(problem)
          ELSE /\ canisters' = cs
               /\ project' = [n \in {e.name : e \in RootEnvs} |->
                                Environment(cs, CHOOSE e \in RootEnvs : e.name = n)]
               /\ outcome' = "loaded"
               /\ UNCHANGED <<frames, registry, members>>

LoadInit ==
    /\ frames = <<>> /\ registry = <<>> /\ canisters = <<>>
    /\ members = <<>> /\ project = <<>> /\ outcome = "loading"

LoadStep ==
    /\ Begin \/ Missing \/ Cycle \/ Reuse \/ Import \/ Return \/ Conclude
    /\ UNCHANGED placeVars

(* member_scoped_canisters: what a command run in a member targets when it *)
(* names no canister.                                                      *)
DefaultTargets(e) ==
    IF cwd = root THEN DOMAIN project[e].canisters
    ELSE {k \in DOMAIN project[e].canisters : Within(canisters[k].home, Path[cwd])}
===============================================================================
