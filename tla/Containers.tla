----------------------------- MODULE Containers -----------------------------
(***************************************************************************)
(* `icp network start` of a network that runs in a container, from the     *)
(* image to the report the user sees, with the container, the Docker       *)
(* daemon and the task that mirrors the container's output beside it.      *)
(*                                                                         *)
(*   crates/icp/src/network/managed/docker.rs   spawn_docker_launcher      *)
(*   crates/icp/src/network/managed/run.rs      what is done with its guard*)
(*                                                                         *)
(* NetworkLifecycle has the locks, the descriptors and the other commands; *)
(* there a launcher is one step.  Here that step is taken apart.  A line   *)
(* of output is a number: written lines have been logged by the container, *)
(* the first `shown` of them are on the terminal.  Timeouts are choices    *)
(* that are open only where something is stuck.                            *)
(***************************************************************************)
EXTENDS Absent, Naturals, Sequences, FiniteSets, Functions

CONSTANTS
    HostPorts,      \* host ports a manifest can name
    MaxLines,       \* bound: lines the container logs
    Troubles        \* what may be wrong with the daemon, of AllTroubles

(* daemon    any call to the daemon may fail: the client gives up waiting  *)
(*           for an answer after 120 seconds (docker.rs 721-728)           *)
(* cut       the log stream may break                                      *)
(* stalled   the log stream may neither deliver nor end                    *)
(* stuck     a write to the terminal may never return                      *)
AllTroubles == {"daemon", "cut", "stalled", "stuck"}

(* What the error of a container that exited says of its output.           *)
ExitDetails == {"exited, output above", "exited, output inline", "exited, removed",
                "exited, see docker logs"}

Containable ==
    /\ HostPorts \cap {"0", "range", "free"} = {} /\ Troubles \subseteq AllTroubles
    /\ None \notin AllTroubles \cup ExitDetails

VARIABLES
    options,    \* the converted manifest: ManagedImageOptions, and background
    trouble,    \* what is wrong with the daemon, or None
    image,      \* the image is on this host
    container,  \* "none", "created", "running", "exited" or "removed"
    written,    \* lines the container logged
    status,     \* status.json in the mounted directory, or None
    at,         \* where the start is
    guard,      \* DockerDropGuard: "none", "armed" or "empty"
    follower,   \* the log task: "none", "following", "aborted" or "ended"
    shown,      \* lines mirrored to the terminal
    failure,    \* the error being returned, or None
    reported    \* what the user was told: None or a report

containerVars == <<options, trouble, image, container, written, status, at,
                   guard, follower, shown, failure, reported>>
cliVars == <<at, guard, failure, reported>>

(* The host part of a mapping is kept as it is written: a port, 0, or a    *)
(* text that Docker takes for a choice of its own (empty, or a range).     *)
HostTexts == HostPorts \cup {"0", "range"}

Mappings == UNION {[1 .. n -> [inside : {"gateway", "config"}, host : HostTexts]] :
                   n \in 0 .. 2}

(* The last mapping of a container port is the one in force: the mappings  *)
(* are collected into a map keyed by container port.                       *)
Bindings(mappings) ==
    [c \in {m.inside : m \in Range(mappings)} |->
        LET last == CHOOSE i \in DOMAIN mappings :
                        /\ mappings[i].inside = c
                        /\ \A j \in DOMAIN mappings :
                               mappings[j].inside = c => j <= i
        IN mappings[last].host]

(* The ports run.rs locks: the texts that parse as a number other than 0.  *)
FixedPorts(bindings) == {bindings[c] : c \in DOMAIN bindings} \cap HostPorts

(* The gateway is reported as fixed if its host part is any text but "0".  *)
GatewayFixed(bindings, gateway) ==
    gateway \in DOMAIN bindings /\ bindings[gateway] # "0"

(* The port inspect_container then finds: the one that is named, or one    *)
(* that Docker picked and nothing else of this container holds.            *)
Bound(bindings, gateway) ==
    IF bindings[gateway] \in HostPorts THEN {bindings[gateway]}
    ELSE (HostPorts \ FixedPorts(bindings)) \cup {"free"}

Options == [background : BOOLEAN, rm : BOOLEAN, ports : Mappings]

ContainersInit ==
    /\ options \in Options
    /\ trouble \in Troubles \cup {None}
    /\ image \in BOOLEAN
    /\ container = "none" /\ written = 0 /\ status = None
    /\ at = "image" /\ guard = "none"
    /\ follower = "none" /\ shown = 0
    /\ failure = None /\ reported = None

----------------------------------------------------------------------------
(* The container.                                                          *)

Log ==
    /\ container = "running" /\ written < MaxLines
    /\ written' = written + 1
    /\ UNCHANGED <<options, trouble, image, container, status, follower, shown,
                   cliVars>>

(* An image can write a status the launcher interface does not allow, and  *)
(* can name a gateway port the manifest maps or one it does not.           *)
WriteStatus ==
    /\ container = "running" /\ status = None
    /\ status' \in {"gateway", "unmapped", "bad"}
    /\ UNCHANGED <<options, trouble, image, container, written, follower, shown,
                   cliVars>>

Exit ==
    /\ container = "running"
    /\ container' = "exited"
    /\ UNCHANGED <<options, trouble, image, written, status, follower, shown,
                   cliVars>>

----------------------------------------------------------------------------
(* follow_container_logs.                                                  *)

Flowing == trouble \notin {"stalled", "stuck"}

Mirror ==
    /\ follower = "following" /\ shown < written
    /\ shown' = shown + 1
    /\ UNCHANGED <<options, trouble, image, container, written, status, follower,
                   cliVars>>

StreamEnds ==
    /\ follower = "following"
    /\ \/ shown = written /\ container \in {"exited", "removed"} /\ Flowing
       \/ trouble = "cut"
    /\ follower' = "ended"
    /\ UNCHANGED <<options, trouble, image, container, written, status, shown,
                   cliVars>>

(* An abort takes effect where the task awaits: not inside a stuck write.  *)
AbortTakes ==
    /\ follower = "aborted" /\ trouble # "stuck"
    /\ follower' = "ended"
    /\ UNCHANGED <<options, trouble, image, container, written, status, shown,
                   cliVars>>

(* A line whose write was under way when the task was aborted.             *)
StuckWriteLands ==
    /\ follower = "aborted" /\ trouble = "stuck" /\ shown < written
    /\ shown' = shown + 1
    /\ follower' = "ended"
    /\ UNCHANGED <<options, trouble, image, container, written, status, cliVars>>

----------------------------------------------------------------------------
(* spawn_docker_launcher.  An error leaves through the drop of the guard.  *)

ReturnUnguarded(why) ==     \* mutant: the guard is armed only once the network is up
    /\ failure' = why /\ at' = "report"
    /\ UNCHANGED <<guard, reported>>

Return(why) ==
    /\ failure' = why
    /\ at' = IF guard = "armed" THEN "stop" ELSE "report"
    /\ UNCHANGED <<guard, reported>>

GoTo(next) == at' = next /\ UNCHANGED <<guard, failure, reported>>

(* The daemon refuses a call of the start itself.                          *)
CallFails ==
    /\ trouble = "daemon"
    /\ at \in {"image", "pull", "create", "start", "wait", "inspect"}
    /\ Return("error")
    /\ UNCHANGED <<options, trouble, image, container, written, status, follower,
                   shown>>

InspectImage ==
    /\ at = "image"
    /\ GoTo(IF image THEN "create" ELSE "pull")
    /\ UNCHANGED <<options, trouble, image, container, written, status, follower,
                   shown>>

Pull ==
    /\ at = "pull"
    /\ image' = TRUE
    /\ GoTo("create")
    /\ UNCHANGED <<options, trouble, container, written, status, follower, shown>>

Create ==
    /\ at = "create"
    /\ container' = "created" /\ guard' = "armed" /\ at' = "start"
    /\ UNCHANGED <<options, trouble, image, written, status, follower, shown,
                   failure, reported>>

Start ==
    /\ at = "start"
    /\ container' = "running"
    /\ follower' = IF options.background THEN "none" ELSE "following"
    /\ GoTo("wait")
    /\ UNCHANGED <<options, trouble, image, written, status, shown>>

(* The two arms of the select; either may win when both are ready.         *)
SeesStatus ==
    /\ at = "wait" /\ status # None
    /\ IF status = "bad" THEN Return("error") ELSE GoTo("inspect")
    /\ UNCHANGED <<options, trouble, image, container, written, status, follower,
                   shown>>

SeesExit ==
    /\ at = "wait" /\ container = "exited"
    /\ GoTo(IF follower = "none" THEN "detail" ELSE "drain")
    /\ UNCHANGED <<options, trouble, image, container, written, status, follower,
                   shown>>

(* drain_log_follower: the task ends, or the wait for it times out.        *)
Drained ==
    /\ at \in {"drain", "aborting"} /\ follower = "ended"
    /\ GoTo("detail")
    /\ UNCHANGED <<options, trouble, image, container, written, status, follower,
                   shown>>

DrainDetaches ==     \* mutant: the handle is dropped, which detaches the task
    /\ at = "drain" /\ follower # "ended" /\ ~Flowing
    /\ GoTo("detail")
    /\ UNCHANGED <<options, trouble, image, container, written, status, follower,
                   shown>>

DrainTimesOut ==
    /\ at = "drain" /\ follower # "ended" /\ ~Flowing
    /\ follower' = "aborted"
    /\ GoTo("aborting")
    /\ UNCHANGED <<options, trouble, image, container, written, status, shown>>

AbortTimesOut ==
    /\ at = "aborting" /\ follower # "ended" /\ trouble = "stuck"
    /\ GoTo("detail")
    /\ UNCHANGED <<options, trouble, image, container, written, status, follower,
                   shown>>

(* premature_exit_detail: what the error says of the container's output.   *)
(* A tail that cannot be fetched counts as no output.  A background start  *)
(* reads the tail from the log stream, and no timeout ends that: one that  *)
(* neither delivers nor ends holds the start here.                         *)
HeldByLog == options.background /\ trouble = "stalled"

Detail ==
    /\ at = "detail" /\ ~HeldByLog
    /\ \E tail \in {written > 0} \cup (IF trouble = "daemon" THEN {FALSE} ELSE {}) :
           Return(IF ~options.background THEN "exited, output above"
                 ELSE IF tail THEN "exited, output inline"
                 ELSE IF options.rm THEN "exited, removed"
                 ELSE "exited, see docker logs")
    /\ UNCHANGED <<options, trouble, image, container, written, status, follower,
                   shown>>

(* inspect_container, and the gateway's host port.  A container that has   *)
(* exited since has no ports.                                              *)
Inspect ==
    /\ at = "inspect"
    /\ IF /\ container = "running" /\ status = "gateway"
          /\ "gateway" \in DOMAIN Bindings(options.ports)
       THEN GoTo("initialize")
       ELSE Return("error")
    /\ UNCHANGED <<options, trouble, image, container, written, status, follower,
                   shown>>

(* run.rs: initialize_network and the descriptors; an error drops the      *)
(* guard.                                                                  *)
InitializeFails ==
    /\ at = "initialize"
    /\ Return("error")
    /\ UNCHANGED <<options, trouble, image, container, written, status, follower,
                   shown>>

Ready ==
    /\ at = "initialize"
    /\ at' = IF options.background THEN "end" ELSE "serve"
    /\ guard' = IF options.background THEN "empty" ELSE guard
    /\ \E port \in Bound(Bindings(options.ports), "gateway") :
           reported' = [is |-> "ok", port |-> port,
                        fixed |-> GatewayFixed(Bindings(options.ports), "gateway")]
    /\ UNCHANGED <<options, trouble, image, container, written, status, follower,
                   shown, failure>>

(* wait_for_shutdown watches for the signal only, not for the container.   *)
Interrupt ==
    /\ at = "serve"
    /\ GoTo("stop")
    /\ UNCHANGED <<options, trouble, image, container, written, status, follower,
                   shown>>

(* The guard's stop, with its errors ignored: a container that could not   *)
(* be stopped is not removed.                                              *)
Stopped(c) == IF c = "running" THEN "exited" ELSE c

GuardStops ==
    /\ at = "stop"
    /\ guard' = "empty"
    /\ \/ /\ container' = IF options.rm THEN "removed" ELSE Stopped(container)
       \/ /\ trouble = "daemon"
          /\ container' \in {container, Stopped(container)}
    /\ at' = "report"
    /\ UNCHANGED <<options, trouble, image, written, status, follower, shown,
                   failure, reported>>

Report ==
    /\ at = "report"
    /\ at' = "end"
    /\ reported' = IF failure = None THEN reported
                   ELSE [is |-> failure, port |-> None, fixed |-> FALSE]
    /\ UNCHANGED <<options, trouble, image, container, written, status, guard,
                   follower, shown, failure>>

(* `icp network stop`, for a network that was left in the background.      *)
StopNetwork ==
    /\ at = "end" /\ reported.is = "ok" /\ options.background
    /\ container # "removed"
    /\ trouble # "daemon"
    /\ container' = IF options.rm THEN "removed" ELSE Stopped(container)
    /\ at' = "stopped"
    /\ UNCHANGED <<options, trouble, image, written, status, guard, follower,
                   shown, failure, reported>>

----------------------------------------------------------------------------
Cli == \/ CallFails \/ InspectImage \/ Pull \/ Create \/ Start \/ SeesStatus
       \/ SeesExit \/ Drained \/ DrainTimesOut \/ AbortTimesOut \/ Detail
       \/ Inspect \/ InitializeFails \/ Ready \/ GuardStops \/ Report

Follower == StreamEnds \/ AbortTakes \/ (Flowing /\ Mirror)

ContainersNext == \/ Log \/ WriteStatus \/ Exit
                  \/ Mirror \/ StuckWriteLands \/ StreamEnds \/ AbortTakes
                  \/ Cli \/ Interrupt \/ StopNetwork

(* The runtime polls the start and the log task, and timers fire; nothing  *)
(* is asked of the container or of the user.                               *)
ContainersSpec == /\ ContainersInit /\ [][ContainersNext]_containerVars
                  /\ WF_containerVars(Cli) /\ WF_containerVars(Follower)

----------------------------------------------------------------------------
Exited == reported # None /\ reported.is \in ExitDetails

(* Once the error of a container that exited is on the terminal, no output *)
(* of the container follows it, unless a write of the terminal itself is   *)
(* stuck; and while the stream is sound, all of it stands above the error. *)
(* (drain_log_follower: "free to write after the error - the interleaving  *)
(* this drain exists to prevent".)                                         *)
OutputBeforeError ==
    [][Exited /\ trouble # "stuck" => shown' = shown]_containerVars

(* A start that ends with an error leaves no container running, and none   *)
(* at all under rm-on-exit; and where it points its reader for the output  *)
(* the output is.  Holds while the daemon answers.                         *)
StartLeavesNothing ==
    at = "end" /\ failure # None /\ trouble # "daemon" =>
        /\ container # "running"
        /\ options.rm => container \in {"none", "removed"}
        /\ failure = "exited, removed" => container = "removed"
        /\ failure = "exited, see docker logs" => container = "exited"
        /\ failure = "exited, output above" /\ trouble = None => shown = written

(* A start that reports a fixed gateway port locked that port, and the one *)
(* it reports is locked only if it is reported fixed: the access check of  *)
(* every later command looks for the port's descriptor.  The two decisions *)
(* differ for a host part that is neither a port nor 0: that gateway is    *)
(* reported fixed and its port is locked by nobody.                        *)
GatewayClaimed ==
    reported # None /\ reported.is = "ok" =>
        LET bindings == Bindings(options.ports) IN
        /\ reported.port \in FixedPorts(bindings) => reported.fixed
        /\ reported.fixed =>
               \/ reported.port \in FixedPorts(bindings)
               \/ bindings["gateway"] \notin HostPorts \cup {"0"}

StartsCleanly == StartLeavesNothing /\ GatewayClaimed

(* Once the container wrote its status or exited, the start reports,       *)
(* however the stream and the terminal behave; but for a background start  *)
(* whose container exited and whose log stream stalls.                     *)
StartEnds ==
    at = "wait" /\ (status # None \/ container = "exited")
        ~> reported # None \/ (at = "detail" /\ HeldByLog)
=============================================================================
