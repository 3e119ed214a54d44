----------------------------- MODULE ProjectTrees -----------------------------
(* The source trees that are bundled: every way four projects may depend on    *)
(* each other, one tree with the environments its root and its shared member   *)
(* may define, and one with each declaration that is refused.                  *)
EXTENDS Naturals, Sequences, TLC

CONSTANTS Bare, None

Everything == {"*"}
Local == "local"
Ic == "ic"

\* app holds svc, which holds lib; mail lies beside svc.
AnyPath == [app |-> <<>>, svc |-> <<"svc">>, lib |-> <<"svc", "lib">>, mail |-> <<"mail">>]

Names == [app |-> <<"a">>, svc |-> <<"a">>, lib |-> <<"b">>, mail |-> <<"a", "b">>]
Plain(n) == [name |-> n, sub |-> <<>>, ctl |-> {}, wasm |-> <<>>, args |-> <<>>, sync |-> <<>>]
Project(d, deps) ==
    [own |-> [i \in DOMAIN Names[d] |-> Plain(Names[d][i])], deps |-> deps, nets |-> <<>>, envs |-> <<>>]

To(alias, d) == [alias |-> alias, dir |-> d, expose |-> IF d = "mail" THEN {"b"} ELSE Everything]
DepLists(S) == {<<>>} \cup {<<To("x", d)>> : d \in S} \cup {<<To("x", d), To("y", e)>> : d \in S, e \in S}
Short(S) == {l \in DepLists(S) : Len(l) <= 1}
Tree(a, s, l, m) ==
    ("app" :> Project("app", a)) @@ ("svc" :> Project("svc", s)) @@
    ("lib" :> Project("lib", l)) @@ ("mail" :> Project("mail", m))
Trees ==
    {Tree(a, s, l, m) : a \in DepLists({"app", "svc", "lib", "mail"}), s \in DepLists({"lib", "mail"}),
                        l \in Short({"svc", "mail"}), m \in Short({"lib"})}

\* A shared dependency with everything a manifest can say about it.
Full == Tree(<<To("x", "svc"), To("y", "mail")>>, <<To("x", "lib"), To("y", "mail")>>, <<To("z", "mail")>>, <<>>)
Env(name, sets, args) == [name |-> name, network |-> Local, select |-> Everything, sets |-> sets, args |-> args]
Path1 == <<"path", "args">>
Path2 == <<"path", "conf", "args">>

Set(w, d, f, v) == [w EXCEPT ![d] = [@ EXCEPT ![f] = v]]
EnvChoices(refs) ==
    {<<>>} \cup {<<Env("staging", <<>>, <<>>)>>}
    \cup {<<Env(e, (r :> {<<Bare, "a">>}), (r :> p))>> : e \in {"staging", Local}, r \in refs, p \in {Path1, Path2}}
Configs ==
    {Set(Set(Full, "app", "envs", a), "mail", "envs", m) :
        a \in EnvChoices({<<Bare, "a">>, <<"mail", "b">>}), m \in EnvChoices({<<Bare, "b">>})}

\* Every declaration that is refused.
Own1(d, i, f, v) == [Full EXCEPT ![d].own[i] = [@ EXCEPT ![f] = v]]
Defects ==
    {Own1("svc", 1, "name", "a:b"), Own1("mail", 2, "name", "a"), Own1("mail", 2, "name", "x"),
     Own1("lib", 1, "ctl", {<<Bare, "nobody">>}), Own1("svc", 1, "sync", <<<<"script">>>>),
     Own1("svc", 1, "sync", <<<<"up", "up", "dist">>>>), Own1("svc", 1, "sync", <<<<"up", "dist">>, <<"dist">>>>),
     Own1("mail", 1, "ctl", {<<Bare, "b">>}), Own1("svc", 1, "sub", <<"src">>),
     Set(Full, "mail", "own", <<Plain("con"), Plain("_con"), Plain("b")>>),
     Set(Full, "mail", "own", <<Plain("con"), [Plain("b") EXCEPT !.args = Path1]>>),
     Set(Full, "app", "nets", <<Ic>>), Set(Full, "app", "nets", <<"n", "n">>), Set(Full, "app", "nets", <<"n", Local>>),
     Set(Full, "app", "envs", <<Env("e", <<>>, <<>>), Env("e", <<>>, <<>>)>>),
     Set(Full, "app", "envs", <<[Env("e", <<>>, <<>>) EXCEPT !.network = "n"]>>),
     Set(Full, "app", "envs", <<[Env("e", <<>>, <<>>) EXCEPT !.select = {<<Bare, "b">>}]>>),
     Set(Full, "app", "envs", <<[Env("e", <<>>, <<>>) EXCEPT !.select = {<<"lib", "b">>}]>>),
     Set(Full, "app", "deps", <<To("a", "svc")>>), Set(Full, "app", "deps", <<To("x", "svc"), To("x", "mail")>>),
     Set(Full, "svc", "deps", <<To("x:y", "mail")>>), Set(Full, "app", "deps", <<[To("x", "svc") EXCEPT !.expose = {"b"}]>>),
     [Full EXCEPT !["lib"] = None], [Full EXCEPT !["svc"] = None]}

AllTrees == Trees \cup Configs \cup Defects
===============================================================================
