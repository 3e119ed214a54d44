-------------------------- MODULE ContextSelection --------------------------
(***************************************************************************)
(* What a command acts on.  The network, the environment and the canister  *)
(* come from arguments, from the variables ICP_ENVIRONMENT and ICP_NETWORK *)
(* or from defaults; the agent that talks to the network and the id of the *)
(* canister are then resolved in two steps, each of which asks for the     *)
(* project.  The project is read once: its files may be edited meanwhile.  *)
(***************************************************************************)
EXTENDS Absent, Naturals

CONSTANTS Projects,         \* versions of the project a user may save
          EnvironmentNames, \* names that may be asked for
          NetworkNames,
          CanisterNames,
          Local, Ic,        \* the default environment, the name of mainnet
          Mainnet           \* the network behind the name Ic

VARIABLES files,   \* the project on disk, or None
          cached,  \* the project this command has read
          input,   \* arguments and variables
          phase, agent, found

contextVars == <<files, cached, input, phase, agent, found>>

Urls == {"url"}
ContextAssumption == None \notin Urls

Inputs ==
    [command : {"canister"}, env : EnvironmentNames \cup {None}, net : NetworkNames \cup Urls \cup {None},
     key : BOOLEAN, canister : CanisterNames \cup {"principal"}, name : {None}, var : {None}]
    \cup
    [command : {"network"}, env : EnvironmentNames \cup {None}, net : {None}, key : {FALSE},
     canister : {None}, name : NetworkNames \cup {None}, var : EnvironmentNames \cup {None}]

ContextInit ==
    /\ files \in Projects \cup {None}
    /\ input \in Inputs
    /\ cached = None /\ phase = "parse" /\ agent = None /\ found = None

-----------------------------------------------------------------------------
(* One of -n and -e, by argument or by variable; a URL needs a root key,   *)
(* and nothing else may have one.                                          *)
OneSelected(i) == i.env = None \/ IF i.command = "canister" THEN i.net = None ELSE i.name = None

KeyFits(i) == i.key <=> i.net \in Urls

(* Lazy::load: the first load is kept for the rest of the command.         *)
Loaded == IF cached = None THEN files ELSE cached

KeptNever(held, loaded) == held     \* mutant: every selection loads again

Kept(held, loaded) == IF held = None THEN loaded ELSE held

(* get_environment: None for an error.                                     *)
Environment(p, e) ==
    IF p # None /\ e \in DOMAIN p.environments /\ e \notin p.undeclared
    THEN p.environments[e] ELSE None

NetworkOf(env) == IF env = None THEN None ELSE env.network

(* get_network.                                                            *)
Network(p, n) ==
    CASE n \in Urls -> n
      [] n \notin Urls /\ p # None -> IF n \in DOMAIN p.networks THEN p.networks[n] ELSE None
      [] n \notin Urls /\ p = None -> IF n = Ic THEN Mainnet ELSE None

(* NetworkOrEnvironmentArgs: a name, -e, the variable, the local network.  *)
Asked(i) ==
    CASE i.name # None -> [network |-> i.name, env |-> None]
      [] i.name = None /\ i.env # None -> [network |-> None, env |-> i.env]
      [] i.name = None /\ i.env = None /\ i.var # None -> [network |-> None, env |-> i.var]
      [] OTHER -> [network |-> Local, env |-> None]

(* get_network_or_environment.                                             *)
NetworkOrEnvironment(p, s) ==
    IF s.env = None THEN Network(p, s.network) ELSE NetworkOf(Environment(p, s.env))

EnvironmentOf(i) == IF i.env = None THEN Local ELSE i.env

(* get_agent: the environment's network, or the one that is named.         *)
AgentOf(p, i) ==
    IF i.command = "network" THEN NetworkOrEnvironment(p, Asked(i))
    ELSE IF i.net # None THEN Network(p, i.net)
    ELSE NetworkOf(Environment(p, EnvironmentOf(i)))

(* get_canister_id_for_env: a canister of the environment, looked up in    *)
(* the store that its kind of network has.                                 *)
Lookup(p, e, n) ==
    LET env == Environment(p, e) IN
    IF env # None /\ n \in env.canisters THEN [managed |-> env.managed, env |-> e, name |-> n] ELSE None

(* get_canister_id: a name next to -n is ambiguous.                        *)
CanisterId(p, i) ==
    IF i.canister = "principal" THEN "principal"
    ELSE IF i.net # None THEN None
    ELSE Lookup(p, EnvironmentOf(i), i.canister)

-----------------------------------------------------------------------------
Parse ==
    /\ phase = "parse"
    /\ phase' = IF OneSelected(input) /\ KeyFits(input) THEN "agent" ELSE "error"
    /\ UNCHANGED <<files, cached, input, agent, found>>

(* A URL and a name of mainnet outside any project need no project.        *)
GetAgent ==
    /\ phase = "agent"
    /\ cached' = IF input.net \in Urls THEN cached ELSE Kept(cached, Loaded)
    /\ agent' = AgentOf(Loaded, input)
    /\ phase' = IF agent' = None THEN "error" ELSE IF input.command = "network" THEN "call" ELSE "id"
    /\ UNCHANGED <<files, input, found>>

GetCanisterId ==
    /\ phase = "id"
    /\ cached' = IF input.canister = "principal" \/ input.net # None THEN cached ELSE Kept(cached, Loaded)
    /\ found' = CanisterId(Loaded, input)
    /\ phase' = IF found' = None THEN "error" ELSE "call"
    /\ UNCHANGED <<files, input, agent>>

Edit ==
    /\ phase \in {"parse", "agent", "id"}
    /\ files' \in Projects
    /\ UNCHANGED <<cached, input, phase, agent, found>>

ContextNext == Parse \/ GetAgent \/ GetCanisterId \/ Edit

ContextSpec == ContextInit /\ [][ContextNext]_contextVars

-----------------------------------------------------------------------------
(* context get_agent, get_canister_id: a canister named in an environment  *)
(* is called on that environment's network under the id that is recorded   *)
(* for it there, both by one version of the project, whatever combination  *)
(* of arguments was given and whatever is edited between the two lookups;  *)
(* and a network that is named is the one that is talked to.               *)
AgentMatchesIds ==
    phase = "call" =>
        IF input.command = "canister" /\ input.canister # "principal"
        THEN \E p \in Projects :
                 LET env == p.environments[EnvironmentOf(input)] IN
                 /\ EnvironmentOf(input) \in DOMAIN p.environments \ p.undeclared
                 /\ input.canister \in env.canisters
                 /\ agent = env.network
                 /\ found = [managed |-> env.managed, env |-> EnvironmentOf(input), name |-> input.canister]
        ELSE \E p \in Projects \cup {None} :
                 agent = IF input.net # None THEN Network(p, input.net)
                         ELSE IF input.name # None THEN Network(p, input.name)
                         ELSE IF input.command = "canister" THEN NetworkOf(Environment(p, EnvironmentOf(input)))
                         ELSE IF input.env # None THEN NetworkOf(Environment(p, input.env))
                         ELSE IF input.var # None THEN NetworkOf(Environment(p, input.var))
                         ELSE Network(p, Local)
=============================================================================
