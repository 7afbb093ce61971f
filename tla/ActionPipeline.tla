--------------------------- MODULE ActionPipeline ---------------------------
(***************************************************************************)
(* One Action from the Agent Server's decision to run it to the moment     *)
(* both sides have put it away: the server's call                          *)
(* (apps/agents-server/src/runtime-box-registry.ts, invokeForRuntimeBox    *)
(* and invokeMcpForRuntimeBox, mcp-action-dispatcher.ts for a server-side  *)
(* MCP Tool), the grant (action-authorization-service.ts over              *)
(* ActionRepository), the Box's handler (apps/runtime-box/src/             *)
(* tool-handler.ts and mcp-tool-handler.ts over InvocationJournal), and    *)
(* the reconciliation of the two durable records after a lost connection   *)
(* or a crash of either process.                                           *)
(*                                                                         *)
(* There is one Box.  A connection that is replaced behaves as one that is *)
(* lost and made again: its calls fail, its handlers finish unheard.       *)
(***************************************************************************)
EXTENDS InvocationJournal, ActionRepository, FiniteSetsExt

CONSTANTS
    Mcp,             \* the invocations of a Box-owned MCP Tool
    Outside,         \* the built-in Tool calls whose path leaves the workspace
    BatchSize,       \* items in one reconciliation request (64)
    MaxFaults        \* bound on lost connections, crashes and failed writes

ASSUME PipelineAssumption ==
    /\ Mcp \subseteq Invocations \ Local
    /\ Outside \subseteq Invocations \ (Local \union Mcp)
    /\ BatchSize \in Nat \ {0}
    /\ MaxFaults \in Nat

VARIABLES
    calls,           \* where the server is in invokeForRuntimeBox
    stale,           \* the calls whose captured peer is no longer the current one
    link,            \* the connection, as the registry sees it
    net,             \* the messages in flight on it
    handler,         \* where the Box is in the handler of each invocation
    attached,        \* the handlers whose request came over the current connection
    loop,            \* where the Box is in reconcileInvocationJournal
    faults           \* how much of MaxFaults is used

serverVars == <<calls, stale>>
boxVars    == <<handler, attached, loop>>
vars == <<records, consumedGrants, disk, boxUp, expired, admitted, recorded,
          intents, calls, stale, link, net, handler, attached, loop, faults>>

Remote == Invocations \ Local

-----------------------------------------------------------------------------
Codes == {"result", "tool_error", "error", "rejected", "violation"}

Message ==
         [type : {"invoke", "ack"}, inv : Remote]
    \union [type : {"reply"}, inv : Remote, code : Codes]
    \union [type : {"acked"}, inv : Remote, ok : BOOLEAN]
    \union [type : {"reconcile"}, items : SUBSET Remote, states : [Remote -> RecordStates],
          receipts : SUBSET Remote]
    \union [type : {"reconciled"}, acked : SUBSET Remote, confirmed : SUBSET Remote]
    \union [type : {"refused"}]

Invoke(i)      == [type |-> "invoke", inv |-> i]
Reply(i, code) == [type |-> "reply", inv |-> i, code |-> code]
Ack(i)         == [type |-> "ack", inv |-> i]
AckReply(i, b) == [type |-> "acked", inv |-> i, ok |-> b]

\* A message is sent if the connection it belongs to is still there.
Send(m)        == net' = net \union {m}
Answer(m, r)   == net' = (net \ {m}) \union {r}

Fault == faults < MaxFaults /\ faults' = faults + 1

Init ==
    /\ JournalInit
    /\ RepositoryInit
    /\ calls = [i \in Invocations |-> "idle"]
    /\ stale = {}
    /\ link = "down"
    /\ net = {}
    /\ handler = [i \in Remote |-> "idle"]
    /\ attached = {}
    /\ loop = "idle"
    /\ faults = 0

-----------------------------------------------------------------------------
(* The server's side of a call.                                            *)

Goto(i, phase) == calls' = [calls EXCEPT ![i] = phase]

\* The call needs a ready Box; then it waits for policy and approval.
StartCall(i) ==
    /\ calls[i] = "idle"
    /\ i \in Local \/ link = "ready"
    /\ Goto(i, "approving")
    /\ UNCHANGED <<journalVars, intents, stale, link, net, boxVars, faults>>

\* The policy denies the Action, the user rejects it or the caller gives up.
ApprovalRefused(i) ==
    /\ calls[i] = "approving"
    /\ Goto(i, "done")
    /\ UNCHANGED <<journalVars, intents, stale, link, net, boxVars, faults>>

IssueGrant(i) ==
    /\ calls[i] = "approving"
    /\ CreateGrant(i)
    /\ Goto(i, "granting")
    /\ UNCHANGED <<journalVars, stale, link, net, boxVars, faults>>

\* consumeGrant refuses a grant that expired since it was issued, or the flush
\* of the timeline throws after it: authorize() throws, and the call ends before
\* it reached the code that would cancel it.
UseGrant(i) ==
    /\ calls[i] = "granting"
    /\ \/ i \notin expired /\ ConsumeGrant(i) /\ Goto(i, "granted") /\ UNCHANGED faults
       \/ i \notin expired /\ ConsumeGrant(i) /\ Goto(i, "done") /\ Fault
       \/ i \in expired /\ UNCHANGED <<intents, faults>> /\ Goto(i, "done")
    /\ UNCHANGED <<journalVars, stale, link, net, boxVars>>

\* After authorization the peer must still be the one the grant names.
Dispatch(i) ==
    /\ calls[i] = "granted"
    /\ i \in Remote
    /\ i \notin stale
    /\ link = "ready"
    /\ Goto(i, "waiting")
    /\ Send(Invoke(i))
    /\ UNCHANGED <<journalVars, intents, stale, link, boxVars, faults>>

\* The peer is gone, the caller gave up or the peer's request limit is hit.
NotDispatched(i) ==
    /\ calls[i] = "granted"
    /\ i \in Remote
    /\ CancelUndispatched(i)
    /\ Goto(i, "done")
    /\ UNCHANGED <<journalVars, stale, link, net, boxVars, faults>>

\* A server-side MCP Tool: the dispatcher calls it in-process and persists
\* what it concludes from the way the call ended.
RunLocal(i) ==
    /\ calls[i] = "granted"
    /\ i \in Local
    /\ \/ CompleteLocal(i)
       \/ MarkFailed(i)
       \/ MarkCancelled(i)
       \/ MarkOutcomeUnknown(i)
    /\ Goto(i, "done")
    /\ UNCHANGED <<journalVars, stale, link, net, boxVars, faults>>

\* Wrong variant: the Box is told before the result is stored.
ReceiveResultAckFirst(i) ==
    /\ calls[i] = "waiting"
    /\ Reply(i, "result") \in net
    /\ Answer(Reply(i, "result"), Ack(i))
    /\ Goto(i, "acking")
    /\ UNCHANGED <<journalVars, intents, stale, link, boxVars, faults>>

\* t is the table with the outcome in it.  It is acknowledged and the Box is told;
\* or the flush of the timeline throws first, and what follows, markOutcomeUnknown,
\* leaves a terminal row alone.
Persisted(i, t, reply) ==
    \/ /\ intents' = Acked(t, {i})
       /\ Goto(i, "acking")
       /\ Answer(reply, Ack(i))
       /\ UNCHANGED faults
    \/ /\ intents' = t
       /\ Goto(i, "done")
       /\ net' = net \ {reply}
       /\ Fault

\* The result came: complete().
ReceiveResult(i) ==
    /\ calls[i] = "waiting"
    /\ Reply(i, "result") \in net
    /\ IF Conflicts(intents, i, "succeeded")
         THEN /\ MarkOutcomeUnknown(i)
              /\ Goto(i, "done")
              /\ net' = net \ {Reply(i, "result")}
              /\ UNCHANGED faults
         ELSE Persisted(i, [intents EXCEPT ![i].state = "succeeded"], Reply(i, "result"))
    /\ UNCHANGED <<journalVars, stale, link, boxVars>>

\* The rows after markFailed.
Failed(i) == IF isTerminal(i) THEN intents ELSE [intents EXCEPT ![i].state = "failed"]

\* An MCP Tool reported an error as its result: fail().
ReceiveToolError(i) ==
    /\ calls[i] = "waiting"
    /\ Reply(i, "tool_error") \in net
    /\ Persisted(i, Failed(i), Reply(i, "tool_error"))
    /\ UNCHANGED <<journalVars, stale, link, boxVars>>

\* An error code by which the Box says that it did not begin the Action.
ReceiveRejection(i) ==
    /\ calls[i] = "waiting"
    /\ \E code \in {"rejected", "violation"} :
           /\ Reply(i, code) \in net
           /\ net' = net \ {Reply(i, code)}
    /\ CancelUndispatched(i)
    /\ Goto(i, "done")
    /\ UNCHANGED <<journalVars, stale, link, boxVars, faults>>

\* Wrong variant: any error is taken for a failure.
ReceiveErrorAsFailure(i) ==
    /\ calls[i] = "waiting"
    /\ Reply(i, "error") \in net
    /\ MarkFailed(i)
    /\ Goto(i, "done")
    /\ net' = net \ {Reply(i, "error")}
    /\ UNCHANGED <<journalVars, stale, link, boxVars, faults>>

\* Any other error: the Action may have happened.
ReceiveError(i) ==
    /\ calls[i] = "waiting"
    /\ Reply(i, "error") \in net
    /\ MarkOutcomeUnknown(i)
    /\ Goto(i, "done")
    /\ net' = net \ {Reply(i, "error")}
    /\ UNCHANGED <<journalVars, stale, link, boxVars, faults>>

\* The caller aborts or the RPC times out; the answer, if any, is dropped.
AbandonCall(i) ==
    /\ calls[i] = "waiting"
    /\ MarkOutcomeUnknown(i)
    /\ Goto(i, "done")
    /\ net' = {m \in net : ~(m.type = "reply" /\ m.inv = i)}
    /\ UNCHANGED <<journalVars, stale, link, boxVars, faults>>

\* The Box acknowledged, or failed to: then reconciliation will see to it.
ReceiveAck(i) ==
    /\ calls[i] = "acking"
    /\ \E ok \in BOOLEAN :
           /\ AckReply(i, ok) \in net
           /\ IF ok THEN MarkReceiptConfirmed({i}) ELSE UNCHANGED intents
           /\ net' = net \ {AckReply(i, ok)}
    /\ Goto(i, "done")
    /\ UNCHANGED <<journalVars, stale, link, boxVars, faults>>

-----------------------------------------------------------------------------
(* The Box's side of a call.  A handler whose connection is gone finishes, *)
(* but nobody hears its answer; an answer nobody waits for is dropped.     *)

Respond(i, code) ==
    IF i \in attached /\ calls[i] = "waiting"
      THEN net' = (net \ {Invoke(i)}) \union {Reply(i, code)}
      ELSE net' = net \ {Invoke(i)}

\* The handler refuses before it reaches the journal: the request is not
\* valid, the Tool is not ready, or too many requests are open.  Of an MCP Tool
\* the server does not take the last of these for a rejection.
RefuseInvoke(i) ==
    /\ boxUp
    /\ Invoke(i) \in net
    /\ \E code \in {"rejected"} \union (IF i \in Mcp THEN {"error"} ELSE {}) :
           Answer(Invoke(i), Reply(i, code))
    /\ UNCHANGED <<journalVars, intents, serverVars, link, boxVars, faults>>

\* begin() refuses the grant.
RejectInvoke(i) ==
    /\ Invoke(i) \in net
    /\ BeginRejected(i)
    /\ Answer(Invoke(i), Reply(i, "rejected"))
    /\ UNCHANGED <<intents, serverVars, link, boxVars, faults>>

\* begin() could not write its record and took it back.
PrepareFails(i) ==
    /\ Invoke(i) \in net
    /\ BeginPrepareFailed(i)
    /\ Fault
    /\ Answer(Invoke(i), Reply(i, "rejected"))
    /\ UNCHANGED <<intents, serverVars, link, boxVars>>

\* begin() cannot tell what it wrote: the handler answers with an error.
PrepareUncertain(i) ==
    /\ Invoke(i) \in net
    /\ BeginUncertain(i)
    /\ Fault
    /\ Answer(Invoke(i), Reply(i, "error"))
    /\ UNCHANGED <<intents, serverVars, link, boxVars>>

Accept(i) ==
    /\ Invoke(i) \in net
    /\ BeginAdmitted(i)
    /\ net' = net \ {Invoke(i)}
    /\ handler' = [handler EXCEPT ![i] = "begun"]
    /\ attached' = attached \union {i}
    /\ UNCHANGED <<intents, serverVars, link, loop, faults>>

\* The path is inside the workspace: the Tool runs.
Execute(i) ==
    /\ boxUp
    /\ handler[i] = "begun"
    /\ i \notin Outside
    /\ handler' = [handler EXCEPT ![i] = "executing"]
    /\ UNCHANGED <<journalVars, intents, serverVars, link, net, attached, loop, faults>>

\* How a handler may end: the outcome it records, the code it answers with,
\* and whether that takes a failed write.  After a torn write of "succeeded"
\* the record keeps it, but the handler answers with an error; after a lost
\* one the handler records "failed", or "cancelled" if it was aborted.
Ending(state, code, torn) == [state |-> state, code |-> code, torn |-> torn]

Endings(i) ==
    LET stopped == {Ending("failed", "error", FALSE), Ending("cancelled", "error", FALSE)} IN
    CASE handler[i] = "begun" /\ i \in Outside ->
             stopped \union {Ending("failed", "violation", FALSE)}
      [] handler[i] = "begun"                  -> stopped
      [] handler[i] = "executing" ->
             stopped \union {Ending("succeeded", "result", FALSE), Ending("succeeded", "error", TRUE)}
             \union IF i \in Mcp THEN {Ending("failed", "tool_error", FALSE),
                                  Ending("outcome_unknown", "error", FALSE)}
                            ELSE {}
      [] OTHER -> {}

FinishHandler(i) ==
    /\ \E ending \in Endings(i) :
           /\ Finish(i, ending.state)
           /\ Respond(i, ending.code)
           /\ IF ending.torn THEN Fault ELSE UNCHANGED faults
    /\ handler' = [handler EXCEPT ![i] = "idle"]
    /\ attached' = attached \ {i}
    /\ UNCHANGED <<intents, serverVars, link, loop>>

\* Not even the failure could be written: the record stays "running".
FinishUnrecorded(i) ==
    /\ handler[i] # "idle"
    /\ FinishLost(i)
    /\ Fault
    /\ Respond(i, "error")
    /\ handler' = [handler EXCEPT ![i] = "idle"]
    /\ attached' = attached \ {i}
    /\ UNCHANGED <<intents, serverVars, link, loop>>

\* The server tells the Box that it has stored the result.
HandleAck(i) ==
    /\ Ack(i) \in net
    /\ \/ \E taken \in SUBSET {i} :
              /\ Acknowledge({i}, taken)
              /\ Answer(Ack(i), AckReply(i, i \in AcknowledgedIds({i}, taken)))
              /\ UNCHANGED faults
       \/ \E taken \in SUBSET {i} :      \* torn: done, but the server hears an error
              /\ Acknowledge({i}, taken)
              /\ taken # {}
              /\ Answer(Ack(i), AckReply(i, FALSE))
              /\ Fault
       \/ /\ AcknowledgeLost({i})
          /\ Answer(Ack(i), AckReply(i, FALSE))
          /\ Fault
    /\ UNCHANGED <<intents, serverVars, link, boxVars>>

-----------------------------------------------------------------------------
(* reconcileInvocationJournal: before the Box declares itself ready, and   *)
(* every second after that.                                                *)

\* The first BatchSize of a set (in some order: the journal's is immaterial).
Batches(S) == {b \in SUBSET S : Cardinality(b) = Min({BatchSize, Cardinality(S)})}

SendReconcile ==
    /\ boxUp
    /\ link \in {"registered", "ready"}
    /\ loop = "idle"
    /\ listEvidence \union UnconfirmedReceipts # {}
    /\ \E items \in Batches(listEvidence), receipts \in Batches(UnconfirmedReceipts) :
           Send([type |-> "reconcile", items |-> items, receipts |-> receipts,
                 states |-> [i \in Remote |-> IF i \in items THEN records[i] ELSE "absent"]])
    /\ loop' = "waiting"
    /\ UNCHANGED <<journalVars, intents, serverVars, link, handler, attached, faults>>

\* Nothing is left to reconcile: runtimeBoxReady, and the registry opens.
BoxReady ==
    /\ boxUp
    /\ link = "registered"
    /\ loop = "idle"
    /\ listEvidence \union UnconfirmedReceipts = {}
    /\ link' = "ready"
    /\ UNCHANGED <<journalVars, intents, serverVars, net, boxVars, faults>>

\* The rows after complete() of the given items.
Completed(t, m, items) ==
    [i \in Invocations |-> IF i \in items THEN [t[i] EXCEPT !.state = m.states[i]] ELSE t[i]]

\* The items that complete() accepts, and the prefixes of the batch it may
\* have gone through when it throws at the first one it does not.
Accepted(m)      == {i \in m.items : ~Conflicts(intents, i, m.states[i])}
ThrownPrefixes(m) == SUBSET Accepted(m)

ServerReconcile ==
    /\ \E m \in net :
        /\ m.type = "reconcile"
        /\ LET t == Acked(Completed(intents, m, m.items), m.items) IN
           IF Accepted(m) # m.items
             THEN /\ \E prefix \in ThrownPrefixes(m) : intents' = Completed(intents, m, prefix)
                  /\ Answer(m, [type |-> "refused"])
             ELSE IF \A i \in m.receipts : ReceiptAcceptable(t, i)
               THEN /\ intents' = Receipted(t, m.receipts)
                    /\ Answer(m, [type |-> "reconciled", acked |-> m.items,
                                  confirmed |-> m.receipts])
               ELSE /\ \E part \in SUBSET {i \in m.receipts : ReceiptAcceptable(t, i)} :
                           intents' = Receipted(t, part)
                    /\ Answer(m, [type |-> "refused"])
    /\ UNCHANGED <<journalVars, serverVars, link, boxVars, faults>>

\* What a reconciliation that is cut short leaves: complete() and the two marks
\* commit row by row, and there is no mark before the last complete().
PartlyReconciled(m) ==
    LET all == Completed(intents, m, m.items) IN
    {Completed(intents, m, prefix) : prefix \in ThrownPrefixes(m)}
    \union
    (IF Accepted(m) = m.items
       THEN {Acked(all, part) : part \in SUBSET m.items}
            \union {Receipted(Acked(all, m.items), part) :
                      part \in SUBSET {i \in m.receipts :
                                         ReceiptAcceptable(Acked(all, m.items), i)}}
       ELSE {})

\* The database or the timeline flush throws on the way: what is committed stays
\* and the Box is refused.
ServerReconcileFails ==
    /\ Fault
    /\ \E m \in net :
        /\ m.type = "reconcile"
        /\ intents' \in PartlyReconciled(m)
        /\ Answer(m, [type |-> "refused"])
    /\ UNCHANGED <<journalVars, serverVars, link, boxVars>>

\* The Box notes the confirmed receipts first ...
NoteConfirmed ==
    /\ loop = "waiting"
    /\ \E m \in net :
        /\ m.type = "reconciled"
        /\ \/ /\ ConfirmAcknowledgements(m.confirmed)
              /\ loop' = "acknowledging"
              /\ UNCHANGED <<net, faults>>
           \/ /\ m.confirmed # {}        \* torn or lost: the loop throws
              /\ ConfirmAcknowledgements(m.confirmed) \/ ConfirmLost(m.confirmed)
              /\ Fault
              /\ loop' = "failed"
              /\ net' = net \ {m}
    /\ UNCHANGED <<intents, serverVars, link, handler, attached>>

\* ... then turns the acknowledged evidence into receipts; a round without
\* any progress throws.
NoteAcknowledged ==
    /\ loop = "acknowledging"
    /\ \E m \in net :
        /\ m.type = "reconciled"
        /\ net' = net \ {m}
        /\ \/ \E taken \in SUBSET m.acked :
                 /\ Acknowledge(m.acked, taken)
                 /\ loop' = IF AcknowledgedIds(m.acked, taken) \union m.confirmed = {}
                              THEN "failed" ELSE "idle"
                 /\ UNCHANGED faults
           \/ /\ m.acked # {}            \* torn or lost: the loop throws
              /\ \/ AcknowledgeLost(m.acked)
                 \/ \E taken \in SUBSET m.acked : Acknowledge(m.acked, taken)
              /\ Fault
              /\ loop' = "failed"
    /\ UNCHANGED <<intents, serverVars, link, handler, attached>>

\* The server refused the batch.
ReconcileRefused ==
    /\ loop = "waiting"
    /\ [type |-> "refused"] \in net
    /\ net' = net \ {[type |-> "refused"]}
    /\ loop' = "failed"
    /\ UNCHANGED <<journalVars, intents, serverVars, link, handler, attached, faults>>

\* Wrong variant: the first failed round ends the loop for good.
RetryNever ==
    /\ loop = "failed"
    /\ link = "down"
    /\ UNCHANGED vars

\* In a ready Box the error is logged and the next round tries again.
RetryReconcile ==
    /\ loop = "failed"
    /\ link = "ready"
    /\ loop' = "idle"
    /\ UNCHANGED <<journalVars, intents, serverVars, link, net, handler, attached, faults>>

-----------------------------------------------------------------------------
(* Connections, crashes and restarts.                                      *)

\* authenticate, register, synchronizeInventory
Connect ==
    /\ boxUp
    /\ link = "down"
    /\ link' = "registered"
    /\ UNCHANGED <<journalVars, intents, serverVars, net, boxVars, faults>>

\* Wrong variant: a call that waits for the acknowledgement is forgotten.
CallsFailWaiting ==
    [i \in Invocations |-> IF calls[i] = "waiting" THEN "done" ELSE calls[i]]

\* What the loss of the connection does to both sides: the registry fails the
\* calls in flight, calls not yet dispatched lose the peer their grant names,
\* messages are gone, handlers go on unheard and the reconcile loop ends.
CallsFail ==
    [i \in Invocations |-> IF calls[i] \in {"waiting", "acking"} THEN "done" ELSE calls[i]]

Unknowns(t) ==
    [i \in Invocations |->
        IF calls[i] = "waiting" /\ t[i].state \notin TerminalStates
          THEN [t[i] EXCEPT !.state = "outcome_unknown"] ELSE t[i]]

Disconnected ==
    /\ link' = "down"
    /\ net' = {}
    /\ attached' = {}
    /\ loop' = "idle"

PeerGone ==
    /\ calls' = CallsFail
    /\ stale' = stale \union {i \in Remote : calls[i] \in {"approving", "granting", "granted"}}
    /\ intents' = Unknowns(intents)

LinkDrops ==
    /\ link # "down"
    /\ Fault
    /\ Disconnected
    /\ PeerGone
    /\ UNCHANGED <<journalVars, handler>>

\* An error of the loop before the Box is ready ends the connection attempt.
ConnectionAttemptFails ==
    /\ loop = "failed"
    /\ link = "registered"
    /\ Disconnected
    /\ PeerGone
    /\ UNCHANGED <<journalVars, handler, faults>>

BoxDies ==
    /\ BoxCrash
    /\ Fault
    /\ Disconnected
    /\ PeerGone
    /\ handler' = [i \in Remote |-> "idle"]

BoxStarts ==
    /\ \/ BoxRestart /\ UNCHANGED faults
       \/ BoxRestartTorn /\ Fault
    /\ UNCHANGED <<intents, serverVars, link, net, boxVars>>

\* The rows a crash of the server may leave: those it had, or those with part
\* of what it was about to do for one message committed.
MidwayRows ==
    {intents}
    \union {[intents EXCEPT ![i].state = "succeeded"] :
          i \in {j \in Remote : /\ calls[j] = "waiting"
                                /\ Reply(j, "result") \in net
                                /\ ~Conflicts(intents, j, "succeeded")}}
    \union {Failed(i) : i \in {j \in Remote : calls[j] = "waiting"
                                           /\ Reply(j, "tool_error") \in net}}
    \union UNION {PartlyReconciled(m) : m \in {n \in net : n.type = "reconcile"}}

\* The server dies and starts again: no call survives, the rows are recovered.
ServerRestarts ==
    /\ Fault
    /\ \E t \in MidwayRows : RecoverOnStartup(t)
    /\ Disconnected
    /\ calls' = [i \in Invocations |-> IF calls[i] = "idle" THEN "idle" ELSE "done"]
    /\ stale' = {}
    /\ UNCHANGED <<journalVars, handler>>

GrantRunsOut(i) ==
    /\ Exists(i)
    /\ GrantExpires(i)
    /\ UNCHANGED <<intents, serverVars, link, net, boxVars, faults>>

-----------------------------------------------------------------------------
ServerCall(i) ==
    \/ StartCall(i) \/ ApprovalRefused(i) \/ IssueGrant(i) \/ UseGrant(i)
    \/ Dispatch(i) \/ NotDispatched(i) \/ RunLocal(i)
    \/ ReceiveResult(i) \/ ReceiveToolError(i) \/ ReceiveRejection(i)
    \/ ReceiveError(i) \/ AbandonCall(i) \/ ReceiveAck(i)

BoxCall(i) ==
    \/ RefuseInvoke(i) \/ RejectInvoke(i) \/ PrepareFails(i) \/ PrepareUncertain(i)
    \/ Accept(i) \/ Execute(i) \/ FinishHandler(i) \/ FinishUnrecorded(i)
    \/ HandleAck(i)

Reconciliation ==
    \/ SendReconcile \/ BoxReady \/ ServerReconcile \/ ServerReconcileFails
    \/ NoteConfirmed \/ NoteAcknowledged \/ ReconcileRefused \/ RetryReconcile

Environment ==
    \/ Connect \/ LinkDrops \/ ConnectionAttemptFails
    \/ BoxDies \/ BoxStarts \/ ServerRestarts

Next ==
    \/ \E i \in Invocations : ServerCall(i) \/ GrantRunsOut(i)
    \/ \E i \in Remote : BoxCall(i)
    \/ Reconciliation
    \/ Environment

(* The Tool ends (it has a deadline), a dead process is started again, a   *)
(* lost connection is made again, messages are delivered, the RPC times    *)
(* out, grants expire, and the loop runs every second.                     *)
Fairness ==
    /\ \A i \in Invocations :
           /\ WF_vars(UseGrant(i))
           /\ WF_vars((Dispatch(i) \/ NotDispatched(i) \/ RunLocal(i)))
           /\ WF_vars((ReceiveResult(i) \/ ReceiveToolError(i) \/ ReceiveRejection(i)
                         \/ ReceiveError(i) \/ AbandonCall(i)))
           /\ WF_vars(ReceiveAck(i))
           /\ WF_vars(GrantRunsOut(i))
    /\ \A i \in Remote :
           /\ WF_vars((RejectInvoke(i) \/ Accept(i)))
           /\ WF_vars((Execute(i) \/ FinishHandler(i)))
           /\ WF_vars(HandleAck(i))
    /\ WF_vars(Reconciliation)
    /\ WF_vars((Connect \/ ConnectionAttemptFails \/ BoxStarts))

Spec == Init /\ [][Next]_vars
FairSpec == Spec /\ Fairness

-----------------------------------------------------------------------------
TypeOK ==
    /\ JournalTypeOK
    /\ intents \in [Invocations -> Intent]
    /\ calls \in [Invocations -> {"idle", "approving", "granting", "granted",
                                  "waiting", "acking", "done"}]
    /\ stale \subseteq Remote
    /\ link \in {"down", "registered", "ready"}
    /\ net \subseteq Message
    /\ handler \in [Remote -> {"idle", "begun", "executing"}]
    /\ attached \subseteq Remote
    /\ loop \in {"idle", "waiting", "acknowledging", "failed"}
    /\ faults \in 0..MaxFaults

\* Whatever the Box holds as evidence, now or after a crash, the server can
\* accept: reconciliation never runs into ActionEvidenceConflictError.
EvidenceAcceptable ==
    \A i \in Remote :
        LET held == IF boxUp THEN records[i] ELSE Recovered(disk.records)[i]
        IN  held \in EvidenceStates => ~Conflicts(intents, i, held)

\* The Box drops a result only after the server has stored it for good, so
\* that between the two of them the outcome is never lost.
ReceiptAfterEvidence ==
    \A i \in Remote :
        consumedGrants[i] # "none" \/ disk.consumedGrants[i] # "none"
            => intents[i].acked /\ intents[i].state = recorded[i]

\* A verdict is final, and an acknowledgement or a receipt is never taken
\* back: no late answer, timeout, lost connection or restart revises them.
VerdictIsFinal ==
    [][\A i \in Invocations :
           /\ intents[i].state \in TerminalStates => intents'[i].state = intents[i].state
           /\ intents[i].acked => intents'[i].acked
           /\ intents[i].receipt => intents'[i].receipt]_vars

\* The pipeline implements ActionOutcome: the verdict on a Box's Action is the
\* state of its intent, the truth is the outcome the Box recorded first.
Outcome == INSTANCE ActionOutcome WITH
    Invocations <- Remote,
    truth   <- [i \in Remote |-> recorded[i]],
    verdict <- [i \in Remote |->
                   CASE intents[i].state \in TerminalStates    -> intents[i].state
                     [] intents[i].state = "outcome_unknown"  -> "unknown"
                     [] OTHER                                 -> "open"]

ImplementsOutcome == Outcome!OutcomeSpec

\* Every outcome the Box holds reaches the server, and its receipt comes back.
EvidenceConverges ==
    \A i \in Remote : i \in listEvidence ~> intents[i].receipt

\* A call that was started ends.
CallsEnd == \A i \in Invocations : calls[i] \in {"granting", "granted", "waiting", "acking"}
                                       ~> calls[i] = "done"
=============================================================================
