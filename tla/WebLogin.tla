------------------------------- MODULE WebLogin -------------------------------
(***************************************************************************)
(* identity link web and identity reauth ask the user to log in on a web   *)
(* page, which posts a delegation chain to a server that the command runs  *)
(* on the loopback interface (commands/identity/link/web.rs).  Requests    *)
(* are handled concurrently, by a handler that hands over at most one      *)
(* result, while recv_delegation waits for it, for the server and for      *)
(* events.                                                                 *)
(***************************************************************************)
EXTENDS Absent, Naturals, Sequences

CONSTANTS Principals,  \* whom the user can log in as
          MaxPosts     \* bound: requests the server gets

VARIABLES expected,   \* the principal a reauth expects, None for a link
          waiting,    \* recv_delegation: "prompt", "select", "returned", "failed", "panicked"
          posts,      \* the requests, oldest first, with the step of their handlers
          chain,      \* the oneshot channel: None, "invalid" or a principal
          shutdown,   \* the other one: the server is told to stop
          served,     \* the server has stopped
          events,     \* mismatches the user is yet to be told of
          result      \* what recv_delegation returned

loginVars == <<expected, waiting, posts, chain, shutdown, served, events, result>>

(* A request: whether it echoes the nonce, and the chain in it: a          *)
(* principal's, one whose key does not decode, or no chain at all.         *)
Bodies == Principals \cup {"undecodable", "unparsable"}
Steps == {"arrived", "sending", "stopping", "answered"}

LoginAssumption == None \notin Bodies \cup {"invalid"}

LoginInit ==
    /\ expected \in Principals \cup {None}
    /\ waiting = "prompt" /\ posts = <<>>
    /\ chain = None /\ shutdown = FALSE /\ served = FALSE /\ events = 0 /\ result = None

(* Nothing is served until the user has pressed Enter.                     *)
Enter ==
    /\ waiting = "prompt"
    /\ waiting' \in {"select", "failed"}
    /\ UNCHANGED <<expected, posts, chain, shutdown, served, events, result>>

Post(nonce, body) ==
    /\ waiting = "select" /\ ~shutdown /\ Len(posts) < MaxPosts
    /\ posts' = Append(posts, [nonce |-> nonce, body |-> body, at |-> "arrived"])
    /\ UNCHANGED <<expected, waiting, chain, shutdown, served, events, result>>

-----------------------------------------------------------------------------
(* handle_callback: a request with another nonce, or of a principal that   *)
(* is not the expected one, does not end the login; everything else does.  *)
Mismatch(p) == expected # None /\ p.body \in Principals \ {expected}

(* Mutant of Ends: whatever is refused stops the server.                   *)
EndsAlways(p) == TRUE

Ends(p) == p.nonce /\ ~Mismatch(p)

Outcome(p) ==
    IF p.body = "unparsable" \/ (p.body = "undecodable" /\ expected # None) THEN "invalid" ELSE p.body

Answer(i, at) == posts' = [posts EXCEPT ![i].at = at]

Receive(i) ==
    /\ posts[i].at = "arrived"
    /\ Answer(i, IF Ends(posts[i]) THEN "sending" ELSE "answered")
    /\ events' = IF posts[i].nonce /\ Mismatch(posts[i]) THEN events + 1 ELSE events
    /\ UNCHANGED <<expected, waiting, chain, shutdown, served, result>>

(* finish: the first handler hands over its result, then it stops the      *)
(* server; the senders are behind two locks.                               *)
Send(i) ==
    /\ posts[i].at = "sending"
    /\ chain' = IF chain = None THEN Outcome(posts[i]) ELSE chain
    /\ Answer(i, "stopping")
    /\ UNCHANGED <<expected, waiting, shutdown, served, events, result>>

Stop(i) ==
    /\ posts[i].at = "stopping"
    /\ shutdown' = TRUE
    /\ Answer(i, "answered")
    /\ UNCHANGED <<expected, waiting, chain, served, events, result>>

Handle == \E i \in DOMAIN posts : Receive(i) \/ Send(i) \/ Stop(i)

(* with_graceful_shutdown waits for the requests that were accepted.       *)
ServerEnds ==
    /\ shutdown /\ ~served
    /\ \A i \in DOMAIN posts : posts[i].at = "answered"
    /\ served' = TRUE
    /\ UNCHANGED <<expected, waiting, posts, chain, shutdown, events, result>>

-----------------------------------------------------------------------------
(* tokio::select! takes any branch that is ready.                          *)
SelectChain ==
    /\ waiting = "select" /\ chain # None
    /\ waiting' = IF chain = "invalid" THEN "failed" ELSE "returned"
    /\ result' = IF chain = "invalid" THEN None ELSE chain
    /\ UNCHANGED <<expected, posts, chain, shutdown, served, events>>

SelectEvent ==
    /\ waiting = "select" /\ events > 0
    /\ events' = events - 1
    /\ UNCHANGED <<expected, waiting, posts, chain, shutdown, served, result>>

SelectServer ==
    /\ waiting = "select" /\ served
    /\ waiting' = "panicked"
    /\ UNCHANGED <<expected, posts, chain, shutdown, served, events, result>>

LoginNext ==
    \/ Enter \/ Handle \/ ServerEnds \/ SelectChain \/ SelectEvent \/ SelectServer
    \/ \E nonce \in BOOLEAN, body \in Bodies : Post(nonce, body)

LoginSpec == LoginInit /\ [][LoginNext]_loginVars

-----------------------------------------------------------------------------
(* Only the page the user logged in through ends a login: what comes back  *)
(* is the chain of a request with the nonce, of the expected principal if  *)
(* there is one, and nothing else makes the login fail once the browser is *)
(* open (web.rs, "stray or forged local requests can't abort an            *)
(* in-progress login", "Keep listening so the user can retry").            *)
LoginBound ==
    /\ result # None =>
         /\ \E i \in DOMAIN posts : posts[i].nonce /\ posts[i].body = result
         /\ result \in Principals => expected \in {None, result}
    /\ posts # <<>> /\ waiting \in {"failed", "panicked"} =>
         \E i \in DOMAIN posts : posts[i].nonce /\ ~Mismatch(posts[i])
===============================================================================
