--------------------------- MODULE CreateOperation ---------------------------
(***************************************************************************)
(* The creation of canisters on the network, by the calls that one         *)
(* invocation of the CLI makes side by side.                               *)
(*                                                                         *)
(*   crates/icp-cli/src/operations/create.rs                               *)
(*                                                                         *)
(* A call resolves the subnet, which all calls of an invocation share,     *)
(* picks who is to create the canister, and asks for it once; or it pays   *)
(* the cycles minting canister (CMC) in ICP and notifies it until it has   *)
(* created the canister.  An answer may be lost after the work was done.   *)
(*                                                                         *)
(* CanisterCreation adds the invocations and what they record.             *)
(***************************************************************************)
EXTENDS Absent, Naturals, Sequences, FiniteSets

CONSTANTS
    Runs,           \* invocations that may go on at the same time
    Names,          \* the canisters of the project
    Ids,            \* bound: the canisters that can be referred to at once
    Subnets,        \* the subnets available
    Engines,        \* those of type CloudEngine
    Operators,      \* those that an engine operator is registered for
    Placements,     \* what --subnet and --proxy ask for, None for neither
    Mishaps         \* which of AllMishaps may happen

(* fail            a call fails with no effect                             *)
(* lost            a canister is created, the answer is lost               *)
(* unconfirmed     ICP is transferred, the answer is lost or unreadable    *)
(* refused         the CMC will not make a canister for the block, nor     *)
(*                 give the ICP back                                       *)
(* unread          an answer of the CMC is unreadable                      *)
(* kill            an invocation ends at once                              *)
(* tear            it ends while it writes the id store                    *)
AllMishaps == {"fail", "lost", "unconfirmed", "refused", "unread", "kill", "tear"}

(* Who creates a canister: the cycles ledger, the operator of an engine,   *)
(* the management canister, or the proxy canister.                         *)
Creators == {"ledger", "operator", "mgmt", "proxy"}
Waiting == {"subnet", "engine", "transfer", "notify"} \cup Creators

Canisters == [name : Names, subnet : Subnets, placed : BOOLEAN]

ASSUME NetworkAssumption ==
    /\ Ids \cap (Waiting \cup {"none", "failed"}) = {}
    /\ Subnets \cap {"proxy", "error"} = {}
    /\ Operators \subseteq Engines /\ Engines \subseteq Subnets
    /\ Placements \subseteq Subnets \cup {"proxy", None}
    /\ Mishaps \subseteq AllMishaps
    /\ None \notin Ids \cup Subnets \cup Canisters
    /\ None \notin {"proxy", "error"}

Operations == [target : Subnets \cup {"proxy", None}, icp : BOOLEAN,
               first : Ids \cup {None}, subnet : Subnets \cup {"error", None}]

VARIABLES
    made,       \* per id: the canister on the network, None if there is none
    op,         \* per run: its CreateOperation
    call,       \* per run and name: the step of the call, or its result
    charged,    \* per run and name: how often creation was paid for
    icp,        \* per run and name: what became of the ICP
    block       \* per run and name: the canister the CMC made for the block

network == <<made, op, call, charged, icp, block>>

NoOperation == [target |-> None, icp |-> FALSE, first |-> None, subnet |-> None]
NoCall == [n \in Names |-> "none"]

InitNetwork ==
    /\ made = [i \in Ids |-> None]
    /\ op = [r \in Runs |-> NoOperation]
    /\ call = [r \in Runs |-> NoCall]
    /\ charged = [r \in Runs |-> [n \in Names |-> 0]]
    /\ icp = [r \in Runs |-> [n \in Names |-> "none"]]
    /\ block = [r \in Runs |-> [n \in Names |-> None]]

(* Where create sends a call first.                                        *)
FirstStep(o) == IF o.target = "proxy" /\ ~o.icp THEN "proxy" ELSE "subnet"

(* The calls for the names in S begin, or with S = {} are forgotten.       *)
StartCalls(r, S, o) ==
    /\ op' = [op EXCEPT ![r] = o]
    /\ call' = [call EXCEPT ![r] = [n \in Names |-> IF n \in S THEN FirstStep(o) ELSE "none"]]
    /\ charged' = [charged EXCEPT ![r] = [n \in Names |-> 0]]
    /\ icp' = [icp EXCEPT ![r] = [n \in Names |-> "none"]]
    /\ block' = [block EXCEPT ![r] = [n \in Names |-> None]]

-----------------------------------------------------------------------------
(* Choosing the subnet and the creator. *)

SubnetChoicesAny(o) == Subnets     \* mutant: the existing canisters are not looked at

(* The subnet asked for, else that of the first existing canister, else    *)
(* any that is available.                                                  *)
SubnetChoices(o) ==
    IF o.target \in Subnets THEN {o.target}
    ELSE IF o.first # None THEN {made[o.first].subnet}
    ELSE Subnets

(* get_subnet: the first call to get there resolves it for all of them,    *)
(* and an error stays an error.                                            *)
ResolveSubnet(r) ==
    /\ op[r].subnet = None
    /\ \E n \in Names : call[r][n] = "subnet"
    /\ \E s \in SubnetChoices(op[r]) \cup (IF "fail" \in Mishaps THEN {"error"} ELSE {}) :
          op' = [op EXCEPT ![r].subnet = s]
    /\ UNCHANGED <<made, call, charged, icp, block>>

Goto(r, n, step) == call' = [call EXCEPT ![r][n] = step]

UseSubnet(r, n) ==
    /\ call[r][n] = "subnet"
    /\ op[r].subnet # None
    /\ Goto(r, n, IF op[r].subnet = "error" THEN "failed"
                  ELSE IF op[r].icp THEN "transfer"
                  ELSE IF op[r].subnet \in Engines THEN "engine"
                  ELSE "ledger")
    /\ UNCHANGED <<made, op, charged, icp, block>>

(* Only an engine known to have no operator falls back to the management   *)
(* canister.                                                               *)
ResolveEngineOperator(r, n) ==
    /\ call[r][n] = "engine"
    /\ Goto(r, n, IF op[r].subnet \in Operators THEN "operator" ELSE "mgmt")
    /\ UNCHANGED <<made, op, charged, icp, block>>

-----------------------------------------------------------------------------
(* The call that creates the canister. *)

(* The proxy creates on its own subnet, whichever that is.                 *)
Homes(r, n) == IF call[r][n] = "proxy" THEN Subnets ELSE {op[r].subnet}

NewCanister(r, n, i) ==
    /\ made[i] = None
    /\ \E s \in Homes(r, n) :
          made' = [made EXCEPT ![i] = [name |-> n, subnet |-> s,
                                       placed |-> op[r].target \in Subnets \/ call[r][n] = "proxy"]]

Pay(r, n) == charged' = [charged EXCEPT ![r][n] = @ + 1]

CallSucceeds(r, n) ==
    /\ call[r][n] \in Creators
    /\ \E i \in Ids : NewCanister(r, n, i) /\ Goto(r, n, i)
    /\ Pay(r, n)
    /\ UNCHANGED <<op, icp, block>>

AnswerLostFallsBack(r, n) ==     \* mutant: any failure of the operator falls back
    /\ call[r][n] \in Creators
    /\ "lost" \in Mishaps
    /\ Pay(r, n)
    /\ Goto(r, n, IF call[r][n] = "operator" THEN "mgmt" ELSE "failed")
    /\ UNCHANGED <<made, op, icp, block>>

(* Created and paid for, but the call ends in an error: nobody learns the  *)
(* id, so the canister has none in the model.                              *)
AnswerLost(r, n) ==
    /\ call[r][n] \in Creators
    /\ "lost" \in Mishaps
    /\ Pay(r, n)
    /\ Goto(r, n, "failed")
    /\ UNCHANGED <<made, op, icp, block>>

(* get_subnet_by_id, the engine registry, a creator or the ICP ledger      *)
(* fails.                                                                  *)
CallFails(r, n) ==
    /\ "fail" \in Mishaps
    /\ \/ call[r][n] \in Creators \cup {"engine", "transfer"}
       \/ call[r][n] = "subnet" /\ op[r].subnet # None /\ ~op[r].icp
    /\ Goto(r, n, "failed")
    /\ UNCHANGED <<made, op, charged, icp, block>>

-----------------------------------------------------------------------------
(* Creation paid for in ICP: create_cmc. *)

Fund(r, n, what) == icp' = [icp EXCEPT ![r][n] = what]

Transfer(r, n) ==
    /\ call[r][n] = "transfer"
    /\ Pay(r, n)
    /\ \/ Goto(r, n, "notify") /\ Fund(r, n, "paid")
       \/ "unconfirmed" \in Mishaps /\ Goto(r, n, "failed") /\ Fund(r, n, "unconfirmed")
    /\ UNCHANGED <<made, op, block>>

(* The CMC makes one canister for a block, however often it is notified.   *)
(* Its answer ends the loop, or is lost and the loop goes on.              *)
NotifyCreates(r, n) ==
    /\ call[r][n] = "notify"
    /\ \E i \in Ids :
          /\ IF block[r][n] = None THEN NewCanister(r, n, i)
             ELSE i = block[r][n] /\ UNCHANGED made
          /\ block' = [block EXCEPT ![r][n] = i]
          /\ \/ Goto(r, n, i) /\ Fund(r, n, "spent")
             \/ "lost" \in Mishaps /\ UNCHANGED <<call, icp>>
    /\ UNCHANGED <<op, charged>>

(* The waiting ends in an error, and this became of the ICP.               *)
NotifyEnds(r, n, what) ==
    /\ call[r][n] = "notify"
    /\ Fund(r, n, what) /\ Goto(r, n, "failed")
    /\ UNCHANGED <<made, op, charged, block>>

(* Terminal answers, for a block that no canister was made for: the CMC    *)
(* gave the ICP back,                                                      *)
NotifyRefunded(r, n) ==
    "fail" \in Mishaps /\ block[r][n] = None /\ NotifyEnds(r, n, "refunded")

(* or finds the block too old or not a payment to it, and keeps the ICP.   *)
NotifyRefused(r, n) ==
    "refused" \in Mishaps /\ block[r][n] = None /\ NotifyEnds(r, n, "refused")

(* The answer arrives, whatever it was, but cannot be decoded.             *)
NotifyUnread(r, n) == "unread" \in Mishaps /\ NotifyEnds(r, n, "unread")

NotifyGivesUpSilently(r, n) ==     \* mutant: the error does not name the block
    /\ call[r][n] = "notify"
    /\ "fail" \in Mishaps
    /\ Goto(r, n, "failed")
    /\ UNCHANGED <<made, op, charged, icp, block>>

(* The minute is over or the user interrupts: the error names the block    *)
(* and the command that completes the creation.                            *)
NotifyGivesUp(r, n) == "fail" \in Mishaps /\ NotifyEnds(r, n, "told")

-----------------------------------------------------------------------------
CallStep(r, n) ==
    \/ UseSubnet(r, n) \/ ResolveEngineOperator(r, n)
    \/ CallSucceeds(r, n) \/ Transfer(r, n) \/ NotifyCreates(r, n)

CallFailure(r, n) ==
    \/ AnswerLost(r, n) \/ CallFails(r, n)
    \/ NotifyRefunded(r, n) \/ NotifyRefused(r, n)
    \/ NotifyUnread(r, n) \/ NotifyGivesUp(r, n)

(* What may have become of the ICP for a canister.                         *)
Unfollowed == {"unconfirmed", "refused", "unread"}
Fortunes == {"none", "paid", "spent", "refunded", "told"} \cup Unfollowed

NetworkTypeOK ==
    /\ made \in [Ids -> Canisters \cup {None}]
    /\ op \in [Runs -> Operations]
    /\ call \in [Runs -> [Names -> Waiting \cup Ids \cup {"none", "failed"}]]
    /\ charged \in [Runs -> [Names -> Nat]]
    /\ icp \in [Runs -> [Names -> Fortunes]]
    /\ block \in [Runs -> [Names -> Ids \cup {None}]]

(* However its calls fail, an invocation pays at most once for a canister: *)
(* after the operator was asked, "retrying via the management canister     *)
(* could double-create and double-charge" (create.rs 241-243).             *)
ChargedOnce == \A r \in Runs, n \in Names : charged[r][n] <= 1

(* ICP whose transfer was confirmed is followed up to the end.  It became  *)
(* the canister that the call returns, the one the CMC made for the block; *)
(* or it came back, and no canister was made for it; or the user was told  *)
(* how to complete the creation: "so the paid-for ICP is never stranded"   *)
(* (create.rs 514-517).  The code follows it no further in three cases,    *)
(* which are named here and told from the others: a transfer whose answer  *)
(* was lost or unreadable (488-493), a block that the CMC refuses for good *)
(* (585-586), and an answer of the CMC that is unreadable (576).           *)
IcpAccounted ==
    \A r \in Runs, n \in Names :
        /\ icp[r][n] = "spent" => call[r][n] \in Ids /\ call[r][n] = block[r][n]
        /\ icp[r][n] = "paid" => call[r][n] = "notify"
        /\ icp[r][n] \in {"refunded", "refused", "unconfirmed"} => block[r][n] = None
        /\ call[r][n] = "failed" =>
              icp[r][n] \in {"none", "refunded", "told"} \cup (Unfollowed \cap Mishaps)

(* Whatever fails, what is paid for is not paid for again or lost.         *)
Accounted == ChargedOnce /\ IcpAccounted
=============================================================================
