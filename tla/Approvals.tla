----------------------------- MODULE Approvals -----------------------------
(***************************************************************************)
(* The approval gate of the Agent Server                                   *)
(* (apps/agents-server/src/approval-service.ts over                        *)
(* packages/database/src/approval-repository.ts).  An Action that needs    *)
(* the user's consent waits here; Desktop and Mobile clients decide it, or *)
(* let a Session "allow all"; a sweep expires what nobody decides.         *)
(*                                                                         *)
(* A client composes a command from what it sees (the revision of the      *)
(* request or of the policy) under an idempotency key of its own.  The     *)
(* command may be delivered late, and again and again: it is never taken   *)
(* out of flight.  One delivery is one handler, and the repository's       *)
(* transaction in it is followed by a flush of the timeline that may fail: *)
(* then what was committed stays and the rest of the handler is skipped.   *)
(***************************************************************************)
EXTENDS Integers, FiniteSets

CONSTANTS
    Requests,        \* the calls of requireApproval(), each with its own Action
    Sessions,
    SessionOf,       \* the Session whose Run makes each request
    Critical,        \* the requests with a risk that is not overridable
    Keys,            \* idempotency keys, one for each command of a client
    NoKey,
    MaxFlushFaults   \* bound on the flushes, and the cancel() of an abort, that fail

ASSUME ApprovalsAssumption ==
    /\ SessionOf \in [Requests -> Sessions]
    /\ Critical \subseteq Requests
    /\ NoKey \notin Keys
    /\ MaxFlushFaults \in Nat

VARIABLES
    requests,        \* the rows of action_approval_requests
    policies,        \* the rows of session_approval_policies
    waiting,         \* #waiters: the requests somebody waits for in this process
    gate,            \* what requireApproval() told its caller
    due,             \* the requests whose deadline has passed
    visible,         \* the Sessions that are not deleted
    commands,        \* the command each key stands for
    applied,         \* history: how often each command changed anything
    flushFaults

approvalVars == <<requests, policies, waiting, gate, due, visible, commands, applied, flushFaults>>

-----------------------------------------------------------------------------
States   == {"none", "pending", "approved", "rejected", "expired", "cancelled"}
Resolved == {"approved", "rejected", "expired", "cancelled"}

\* via is the source of the decision, evidence the revision of the policy.
Row == [state : States, revision : Nat, key : Keys \union {NoKey},
        via : {"none", "user", "policy", "system"}]
Policy == [exists : BOOLEAN, allowAll : BOOLEAN, revision : Nat, key : Keys \union {NoKey}]

NoRow    == [state |-> "none", revision |-> 0, key |-> NoKey, via |-> "none"]
NoPolicy == [exists |-> FALSE, allowAll |-> FALSE, revision |-> 0, key |-> NoKey]

Command ==
         [type : {"none"}]
    \union [type : {"decide"}, request : Requests, state : {"approved", "rejected"}, revision : Nat]
    \union [type : {"policy"}, session : Sessions, allowAll : BOOLEAN, revision : Nat,
          requests : {{}} \union {{r} : r \in Requests}]

ApprovalInit ==
    /\ requests = [r \in Requests |-> NoRow]
    /\ policies = [s \in Sessions |-> NoPolicy]
    /\ waiting = {}
    /\ gate = [r \in Requests |-> "none"]
    /\ due = {}
    /\ visible = Sessions
    /\ commands = [k \in Keys |-> [type |-> "none"]]
    /\ applied = [k \in Keys |-> 0]
    /\ flushFaults = 0

Pending(r) == requests[r].state = "pending"
Asked(r)   == requests[r].state # "none"

\* #applyTerminal on the rows of R; a key is kept where none is given.
Terminated(rows, R, state, key, via) ==
    [r \in Requests |->
        IF r \in R THEN [state |-> state, revision |-> rows[r].revision + 1, via |-> via,
                         key |-> IF key = NoKey THEN rows[r].key ELSE key]
                   ELSE rows[r]]

\* Wrong variant: a waiter is told of the end of the wait, whatever the end.
SettleBlindly(R, rows) ==
    /\ waiting' = waiting \ R
    /\ gate' = [r \in Requests |-> IF r \in R \intersect waiting THEN "allowed" ELSE gate[r]]

\* #settleWaiter for the rows of R, as they are now in "rows".
Settle(R, rows) ==
    /\ waiting' = waiting \ R
    /\ gate' = [r \in Requests |->
           IF r \in R \intersect waiting
             THEN IF rows[r].state = "approved" THEN "allowed" ELSE "refused"
             ELSE gate[r]]

\* What follows the transaction: the flush, then the waiters of R; or only
\* the flush, which fails.
FlushAndSettle(R, rows) ==
    \/ Settle(R, rows) /\ UNCHANGED flushFaults
    \/ flushFaults < MaxFlushFaults /\ flushFaults' = flushFaults + 1 /\ UNCHANGED <<waiting, gate>>

-----------------------------------------------------------------------------
(* requireApproval()                                                       *)

AutoApproved(r) == policies[SessionOf[r]].allowAll /\ r \notin Critical

Created(r) == [requests EXCEPT ![r] =
    IF AutoApproved(r) THEN [NoRow EXCEPT !.state = "approved", !.revision = 1, !.via = "policy"]
                       ELSE [NoRow EXCEPT !.state = "pending", !.revision = 1]]

CanRequire(r) == ~Asked(r) /\ SessionOf[r] \in visible

\* The request is approved at once, or its caller starts to wait.
RequireApproval(r) ==
    /\ CanRequire(r)
    /\ requests' = Created(r)
    /\ gate' = [gate EXCEPT ![r] = IF AutoApproved(r) THEN "allowed" ELSE "waiting"]
    /\ waiting' = IF AutoApproved(r) THEN waiting ELSE waiting \union {r}
    /\ UNCHANGED <<policies, due, visible, commands, applied, flushFaults>>

\* The caller had aborted already.
RequireAborted(r) ==
    /\ CanRequire(r)
    /\ ~AutoApproved(r)
    /\ requests' = Terminated(Created(r), {r}, "cancelled", NoKey, "system")
    /\ gate' = [gate EXCEPT ![r] = "refused"]
    /\ UNCHANGED <<policies, waiting, due, visible, commands, applied, flushFaults>>

\* The flush fails: the row stays and the caller gets the error.
RequireFails(r) ==
    /\ CanRequire(r)
    /\ flushFaults < MaxFlushFaults
    /\ flushFaults' = flushFaults + 1
    /\ requests' = Created(r)
    /\ gate' = [gate EXCEPT ![r] = "refused"]
    /\ UNCHANGED <<policies, waiting, due, visible, commands, applied>>

\* onAbort: the Run is cancelled while the request waits.  If cancel() throws the
\* row stays as it is, and nobody waits for it any more; if the flush after it
\* throws, the outcome is the same as if it had not.
Abort(r) ==
    /\ r \in waiting
    /\ waiting' = waiting \ {r}
    /\ \/ /\ requests' = IF Pending(r) THEN Terminated(requests, {r}, "cancelled", NoKey, "system")
                                    ELSE requests
          /\ UNCHANGED flushFaults
       \/ /\ flushFaults < MaxFlushFaults
          /\ flushFaults' = flushFaults + 1
          /\ UNCHANGED requests
    /\ gate' = [gate EXCEPT ![r] = "refused"]
    /\ UNCHANGED <<policies, due, visible, commands, applied>>

-----------------------------------------------------------------------------
(* The clients compose commands from what they see.                        *)

ComposeDecision(k, r, state) ==
    /\ commands[k].type = "none"
    /\ Asked(r)
    /\ commands' = [commands EXCEPT ![k] =
           [type |-> "decide", request |-> r, state |-> state, revision |-> requests[r].revision]]
    /\ UNCHANGED <<requests, policies, waiting, gate, due, visible, applied, flushFaults>>

\* R is empty, or the one request the user lets pass along with the policy.
ComposePolicy(k, s, allowAll, R) ==
    /\ commands[k].type = "none"
    /\ R = {} \/ \E r \in R : R = {r} /\ Asked(r) /\ SessionOf[r] = s
    /\ commands' = [commands EXCEPT ![k] =
           [type |-> "policy", session |-> s, allowAll |-> allowAll, requests |-> R,
            revision |-> policies[s].revision]]
    /\ UNCHANGED <<requests, policies, waiting, gate, due, visible, applied, flushFaults>>

-----------------------------------------------------------------------------
(* decideApproval(): a delivery of the command with key k.                 *)

Delivers(k, r) ==
    /\ commands[k].type = "decide"
    /\ commands[k].request = r
    /\ SessionOf[r] \in visible

\* The decision is taken: the request is pending, in time and unchanged.
Decide(k, r) ==
    /\ Delivers(k, r)
    /\ Pending(r)
    /\ r \notin due
    /\ commands[k].revision = requests[r].revision
    /\ requests' = Terminated(requests, {r}, commands[k].state, k, "user")
    /\ applied' = [applied EXCEPT ![k] = @ + 1]
    /\ FlushAndSettle({r}, requests')
    /\ UNCHANGED <<policies, due, visible, commands>>

\* Too late: the request expires instead.
DecideExpires(k, r) ==
    /\ Delivers(k, r)
    /\ Pending(r)
    /\ r \in due
    /\ requests' = Terminated(requests, {r}, "expired", NoKey, "none")
    /\ FlushAndSettle({r}, requests')
    /\ UNCHANGED <<policies, due, visible, commands, applied>>

\* The request is resolved, by this command or by something else: the client
\* gets the row, and a waiter that was not told so far is told now.
DecideSuperseded(k, r) ==
    /\ Delivers(k, r)
    /\ requests[r].state \in Resolved
    /\ FlushAndSettle({r}, requests)
    /\ UNCHANGED <<requests, policies, due, visible, commands, applied>>

-----------------------------------------------------------------------------
(* updateSessionPolicy(): a delivery of the command with key k.            *)

DeliversPolicy(k, s) ==
    /\ commands[k].type = "policy"
    /\ commands[k].session = s
    /\ s \in visible

\* The retry of the last command that changed the policy.  The request it let
\* pass has been resolved by then.
PolicyRetried(k, s) ==
    /\ DeliversPolicy(k, s)
    /\ policies[s].exists /\ policies[s].key = k
    /\ IF commands[k].requests = {} THEN UNCHANGED <<waiting, gate, flushFaults>>
                                    ELSE FlushAndSettle(commands[k].requests, requests)
    /\ UNCHANGED <<requests, policies, due, visible, commands, applied>>

\* Wrong variant: the request is let pass whatever its risk.
PolicyAcceptableBlindly(k, s) ==
    /\ DeliversPolicy(k, s)
    /\ ~(policies[s].exists /\ policies[s].key = k)
    /\ commands[k].revision = policies[s].revision

\* Compare and set on the revision, and no request let pass that is not
\* overridable or without "allow all".  (The revision of that request is
\* compared as well, only while it is pending: a pending row has revision 1.)
PolicyAcceptable(k, s) ==
    /\ DeliversPolicy(k, s)
    /\ ~(policies[s].exists /\ policies[s].key = k)
    /\ commands[k].revision = policies[s].revision
    /\ \A r \in commands[k].requests : commands[k].allowAll /\ r \notin Critical

UpdatePolicy(k, s) ==
    /\ PolicyAcceptable(k, s)
    /\ policies' = [policies EXCEPT ![s] =
           [exists |-> TRUE, allowAll |-> commands[k].allowAll, revision |-> @.revision + 1,
            key |-> k]]
    /\ LET R       == {r \in commands[k].requests : Pending(r)}
           expired == Terminated(requests, R \intersect due, "expired", NoKey, "none")
       IN  requests' = Terminated(expired, R \ due, "approved", k, "policy")
    /\ applied' = [applied EXCEPT ![k] = @ + 1]
    /\ IF commands[k].requests = {} THEN UNCHANGED <<waiting, gate, flushFaults>>
                                    ELSE FlushAndSettle(commands[k].requests, requests')
    /\ UNCHANGED <<due, visible, commands>>

-----------------------------------------------------------------------------
(* Time, restarts and the end of a Session.                                *)

DeadlinePasses(r) ==
    /\ Asked(r)
    /\ r \notin due
    /\ due' = due \union {r}
    /\ UNCHANGED <<requests, policies, waiting, gate, visible, commands, applied, flushFaults>>

\* Wrong variant: the rows expire but their waiters are not told.
SweepQuietly ==
    LET R == {r \in due : Pending(r)} IN
    /\ R # {}
    /\ requests' = Terminated(requests, R, "expired", NoKey, "none")
    /\ UNCHANGED <<policies, waiting, gate, due, visible, commands, applied, flushFaults>>

\* sweepExpired(), every 30 seconds.
SweepExpired ==
    LET R == {r \in due : Pending(r)} IN
    /\ R # {}
    /\ requests' = Terminated(requests, R, "expired", NoKey, "none")
    /\ FlushAndSettle(R, requests')
    /\ UNCHANGED <<policies, due, visible, commands, applied>>

\* Wrong variant: a restart drops the policies.
RestartDropsPolicies ==
    /\ requests' = Terminated(requests, {r \in Requests : Pending(r)}, "expired", NoKey, "none")
    /\ policies' = [s \in Sessions |-> NoPolicy]
    /\ waiting' = {}
    /\ gate' = [r \in Requests |-> IF gate[r] = "waiting" THEN "refused" ELSE gate[r]]
    /\ UNCHANGED <<due, visible, commands, applied, flushFaults>>

\* recoverOnStartup(): no caller survives, no "allow all" survives.
Restart ==
    /\ requests' = Terminated(requests, {r \in Requests : Pending(r)}, "expired", NoKey, "none")
    /\ policies' = [s \in Sessions |->
           IF policies[s].allowAll
             THEN [exists |-> TRUE, allowAll |-> FALSE, revision |-> policies[s].revision + 1,
                   key |-> NoKey]
             ELSE policies[s]]
    /\ waiting' = {}
    /\ gate' = [r \in Requests |-> IF gate[r] = "waiting" THEN "refused" ELSE gate[r]]
    /\ UNCHANGED <<due, visible, commands, applied, flushFaults>>

OfSession(s) == {r \in Requests : SessionOf[r] = s}

\* A Session is deleted once none of its Runs is active, so that none of its
\* Actions waits.  The rows of its requests and of its policy go with it.
Retire(s) ==
    /\ s \in visible
    /\ OfSession(s) \intersect waiting = {}
    /\ visible' = visible \ {s}
    /\ requests' = [r \in Requests |-> IF r \in OfSession(s) THEN NoRow ELSE requests[r]]
    /\ policies' = [policies EXCEPT ![s] = NoPolicy]
    /\ UNCHANGED <<waiting, gate, due, commands, applied, flushFaults>>

-----------------------------------------------------------------------------
Deliver(k) ==
    \/ \E r \in Requests : Decide(k, r) \/ DecideExpires(k, r) \/ DecideSuperseded(k, r)
    \/ \E s \in Sessions : PolicyRetried(k, s) \/ UpdatePolicy(k, s)

Compose(k) ==
    \/ \E r \in Requests, state \in {"approved", "rejected"} : ComposeDecision(k, r, state)
    \/ \E s \in Sessions, allowAll \in BOOLEAN, R \in {{}} \union {{r} : r \in Requests} :
           ComposePolicy(k, s, allowAll, R)

ApprovalNext ==
    \/ \E r \in Requests :
           RequireApproval(r) \/ RequireAborted(r) \/ RequireFails(r) \/ Abort(r)
             \/ DeadlinePasses(r)
    \/ \E k \in Keys : Compose(k) \/ Deliver(k)
    \/ SweepExpired
    \/ Restart
    \/ \E s \in Sessions : Retire(s)

ApprovalSpec == ApprovalInit /\ [][ApprovalNext]_approvalVars

\* Deadlines pass and the sweep is periodic; nobody has to decide or abort.
FairApprovalSpec ==
    /\ ApprovalSpec
    /\ WF_approvalVars(SweepExpired)
    /\ \A r \in Requests : WF_approvalVars(DeadlinePasses(r))

-----------------------------------------------------------------------------
ApprovalTypeOK ==
    /\ requests \in [Requests -> Row]
    /\ policies \in [Sessions -> Policy]
    /\ waiting \subseteq Requests
    /\ gate \in [Requests -> {"none", "waiting", "allowed", "refused"}]
    /\ due \subseteq Requests
    /\ visible \subseteq Sessions
    /\ commands \in [Keys -> Command]
    /\ applied \in [Keys -> Nat]
    /\ flushFaults \in 0..MaxFlushFaults

\* The gate opens only for a request that is, durably, approved.
AllowedMeansApproved ==
    \A r \in Requests : gate[r] = "allowed" /\ SessionOf[r] \in visible =>
        requests[r].state = "approved"

\* An Action whose risk is not overridable runs only if a user decided that
\* very request: no "allow all", before or after it was made, lets it pass.
CriticalNeedsUser ==
    \A r \in Critical : requests[r].state = "approved" =>
        /\ requests[r].via = "user"
        /\ \E k \in Keys : /\ commands[k].type = "decide"
                           /\ commands[k].request = r
                           /\ commands[k].state = "approved"

\* A command takes effect at most once, however often it is delivered, and
\* whatever restarts, sweeps and other commands come in between.
CommandAppliedOnce == \A k \in Keys : applied[k] <= 1

\* Whoever still waits waits for a request that is still pending, unless a
\* flush failed.
WaitersArePending == flushFaults = 0 => \A r \in waiting : Pending(r)

\* A decision is final, for as long as the Session exists.
DecisionIsFinal ==
    [][\A r \in Requests : requests[r].state \in Resolved /\ SessionOf[r] \in visible' =>
           requests'[r] = requests[r]]_approvalVars

\* Nobody waits for ever, even if no client ever answers, unless a flush fails.
WaitersSettle ==
    \A r \in Requests :
        gate[r] = "waiting" ~> (gate[r] \in {"allowed", "refused"} \/ flushFaults > 0)

\* What the comment on the sweep's timer says: it bounds how long an Action
\* waits past its deadline, with no client at all.
SweepBoundsWait ==
    \A r \in Requests : (gate[r] = "waiting" /\ r \in due) ~> gate[r] # "waiting"
=============================================================================
