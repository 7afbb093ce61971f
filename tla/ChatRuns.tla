------------------------------ MODULE ChatRuns ------------------------------
(***************************************************************************)
(* The life of a chat Run in the Agent Server                              *)
(* (apps/agents-server/src/chat-application-service.ts over                *)
(* packages/database/src/run-journal-repository.ts and                     *)
(* run-timeline-outbox-repository.ts).                                     *)
(*                                                                         *)
(* A Run is created from one client request, executed by the agent runtime *)
(* and ended by the runtime, by the user, by an error or, after a restart, *)
(* by whoever looks at it next.  Its timeline has Parts; here each Run has *)
(* at most one text Part and one tool Part, whose tool call is a Runtime   *)
(* Box Action.  The Part of a call follows two authorities, the approval   *)
(* and the Action: their transactions leave rows in an outbox, and a flush *)
(* projects all rows there are.  Everything between two awaits of the code *)
(* is one step; what may fail on the way (a transaction, a flush) fails    *)
(* nondeterministically, MaxFaults times.                                  *)
(***************************************************************************)
EXTENDS Integers, Sequences, SequencesExt

CONSTANTS
    Runs,        \* the client requests, each with the Run created from it
    Sessions,
    SessionOf,
    Nobody,
    MaxFaults,   \* bound on failing transactions and flushes
    MaxRestarts  \* bound on restarts of the server

ASSUME ChatRunsAssumption ==
    /\ SessionOf \in [Runs -> Sessions]
    /\ Nobody \notin Runs
    /\ MaxFaults \in Nat
    /\ MaxRestarts \in Nat

VARIABLES
    status,          \* the row of chat_runs
    text,            \* its text Part
    tool,            \* its tool Part
    outbox,          \* the rows of run_timeline_outbox, for each Run
    call,            \* what the authorities know of the tool call
    retired,         \* the deleted Sessions
    exec,            \* #activeRuns: how far the execution of the Run is
    fence,           \* retainFence, and what set it
    starting,        \* #startingSessions: the request a Session is reserved for
    thrown,          \* the calls whose own flush failed, so that they threw
    fatal,           \* #dataPlaneFatal
    faults,
    restarts

parts == <<text, tool>>
volatile == <<exec, fence, starting, thrown, fatal>>
vars == <<status, text, tool, outbox, call, retired, exec, fence, starting,
          thrown, fatal, faults, restarts>>

-----------------------------------------------------------------------------
Live == {"queued", "running"}
Over == {"completed", "failed", "cancelled"}
Settled == {"completed", "failed", "denied", "cancelled", "outcome_unknown"}
Outcomes == {"completed", "failed", "cancelled", "outcome_unknown"}

Texts == {"absent", "streaming", "completed", "interrupted"}
Tools == {"absent", "queued", "waiting_approval", "running"} \union Settled
\* "abandoned": the caller gave up before the Action was granted.
Calls == {"none", "waiting", "approved", "denied", "abandoned", "running"} \union Outcomes
\* "parked": the execution is over but the fence keeps its Session busy.
Execs == {"none", "scheduled", "resolving", "streaming", "parked"}

Init ==
    /\ status = [r \in Runs |-> "none"]
    /\ text = [r \in Runs |-> "absent"]
    /\ tool = [r \in Runs |-> "absent"]
    /\ outbox = [r \in Runs |-> <<>>]
    /\ call = [r \in Runs |-> "none"]
    /\ retired = {}
    /\ exec = [r \in Runs |-> "none"]
    /\ fence = [r \in Runs |-> "none"]
    /\ starting = [s \in Sessions |-> Nobody]
    /\ thrown = {}
    /\ fatal = FALSE
    /\ faults = 0
    /\ restarts = 0

Of(s)     == {r \in Runs : SessionOf[r] = s}
Idle(s)   == starting[s] = Nobody /\ \A r \in Of(s) : exec[r] = "none"
Orphan(r) == status[r] \in Live /\ exec[r] = "none"
\* Wrong variant: only what was running is cleaned up.
RunningOrphans(s) == {r \in Of(s) : Orphan(r) /\ status[r] = "running"}
Orphans(s) == {r \in Of(s) : Orphan(r)}
Executing(r) == exec[r] \in {"scheduled", "resolving", "streaming"}

\* The runtime's events are heard: #throwIfRunFenced.
Streaming(r) == exec[r] = "streaming" /\ status[r] = "running" /\ fence[r] = "none"

Costs(n) == faults + n <= MaxFaults /\ faults' = faults + n

-----------------------------------------------------------------------------
(* The journal: the rows of the Runs and of their Parts.                   *)

\* create, updateStatus and commitTerminal; a Run ends once.
Created(r, rows) == [rows EXCEPT ![r] = "queued"]
Running(r)       == [status EXCEPT ![r] = "running"]
Terminal(r, to)  == [status EXCEPT ![r] = to]

\* appendEvent and projectTimelineEvent: an event creates or updates a Part.
TextPart(r, to)        == [text EXCEPT ![r] = to]
ToolPart(tools, r, to) == [tools EXCEPT ![r] = to]

\* deleteSessionAndRetireRuns: what hangs on the Session goes with it.
Retires(s) ==
    /\ retired' = retired \union {s}
    /\ status' = [r \in Runs |-> IF r \in Of(s) THEN "gone" ELSE status[r]]
    /\ text' = [r \in Runs |-> IF r \in Of(s) THEN "absent" ELSE text[r]]
    /\ tool' = [r \in Runs |-> IF r \in Of(s) THEN "absent" ELSE tool[r]]
    /\ call' = [r \in Runs |->
           IF r \in Of(s) /\ call[r] \in {"waiting", "approved"} THEN "abandoned" ELSE call[r]]

-----------------------------------------------------------------------------
(* The outbox.  Row(by, to) is what an authority has to say of a call.     *)

Row(by, to) == [by |-> by, to |-> to]

\* projectAuthoritativeToolTransition: whether the Part takes the row's status.
Takes(part, row) ==
    \/ row.by = "approval" /\ row.to = "waiting_approval" /\ part = "queued"
    \/ /\ row.by = "approval"
       /\ row.to \in {"denied", "cancelled"}
       /\ part \in {"queued", "waiting_approval"}
    \/ row.by = "action" /\ row.to = "running" /\ part \notin Settled
    \/ /\ row.by = "action"
       /\ row.to \in Settled
       /\ part \notin Settled \/ part = "outcome_unknown"

Projected(part, row) == IF Takes(part, row) THEN row.to ELSE part

\* drainTimelineOutbox on all the rows there are.
Drained(rows) == [r \in Runs |-> FoldLeft(Projected, tool[r], rows[r])]
Empty == [r \in Runs |-> <<>>]
With(r, row) == [outbox EXCEPT ![r] = Append(@, row)]

\* What is left of tool and outbox after a flush with these rows.
Flushed(rows) == {[tool |-> Drained(rows), outbox |-> Empty, cost |-> 0],
                  [tool |-> tool, outbox |-> rows, cost |-> 1]}
NotFlushed    == {[tool |-> tool, outbox |-> outbox, cost |-> 0]}

\* An authority commits a row and flushes.
Tells(rows) ==
    \E f \in Flushed(rows) : Costs(f.cost) /\ tool' = f.tool /\ outbox' = f.outbox

\* A flush that fails is an error of the call that made it.
Says(r, rows) ==
    /\ Tells(rows)
    /\ thrown' = IF faults' = faults THEN thrown ELSE thrown \union {r}

-----------------------------------------------------------------------------
(* Ending what is left of a Run.                                           *)

TextEnd(t) == IF t = "streaming" THEN "interrupted" ELSE t

\* Wrong variant: a call that runs is left to its authority.
ToolEndLeaves(p, reason) ==
    IF p \in Settled \union {"absent"} \/ (p = "running" /\ reason = "cancelled") THEN p
    ELSE IF reason = "failed" /\ p = "running" THEN "outcome_unknown"
    ELSE "cancelled"

\* interruptToolPart
ToolEnd(p, reason) ==
    IF p \in Settled \union {"absent"} THEN p
    ELSE IF reason = "failed" /\ p = "running" THEN "outcome_unknown"
    ELSE "cancelled"

\* How far #interruptActiveParts came when a transaction of it failed, or the
\* one after it: text Parts come first.
Partly(r, p, reason) == {<<text[r], p>>, <<TextEnd(text[r]), p>>,
                         <<TextEnd(text[r]), ToolEnd(p, reason)>>}

\* #interruptActiveParts and #interruptPersistedParts end the Parts of r, or fail.
Interrupts(r, tools, reason) ==
    /\ text' = TextPart(r, TextEnd(text[r]))
    /\ tool' = ToolPart(tools, r, ToolEnd(tools[r], reason))
InterruptsPartly(r, tools, reason) ==
    \E p \in Partly(r, tools[r], reason) :
        /\ text' = TextPart(r, p[1])
        /\ tool' = ToolPart(tools, r, p[2])

\* #markDataPlaneFatal: nothing is accepted any more, and r is not released.
GivesUp(r, why) ==
    /\ fatal' = TRUE
    /\ fence' = [fence EXCEPT ![r] = why]

\* #finalizeOrphanedRun for each Run of O.
OrphanEnd(r) == IF status[r] = "queued" THEN "cancelled" ELSE "failed"
FinalStatus(O) == [r \in Runs |-> IF r \in O THEN OrphanEnd(r) ELSE status[r]]
FinalText(O)   == [r \in Runs |-> IF r \in O THEN TextEnd(text[r]) ELSE text[r]]
FinalTool(O)   == [r \in Runs |-> IF r \in O THEN ToolEnd(tool[r], OrphanEnd(r)) ELSE tool[r]]
Finalize(O) ==
    /\ status' = FinalStatus(O)
    /\ text' = FinalText(O)
    /\ tool' = FinalTool(O)

\* Ending the orphan r fails: the data plane is given up.
FinalizeFails(r, reason) ==
    /\ Costs(1)
    /\ fatal' = TRUE
    /\ InterruptsPartly(r, tool, reason)
    /\ UNCHANGED status

\* The abort reaches a call that waits for its approval at once.
Abandoned(r) == call[r] = "waiting" /\ r \notin thrown
CallAborted(r) == IF Abandoned(r) THEN [call EXCEPT ![r] = "abandoned"] ELSE call
AfterAbort(r) ==
    IF Abandoned(r) THEN Flushed(With(r, Row("approval", "cancelled"))) ELSE NotFlushed

-----------------------------------------------------------------------------
(* Starting a Run.                                                         *)

Fresh(r) == status[r] = "none" /\ SessionOf[r] \notin retired

\* #startReservedMessage: orphans are ended, the Run is created and scheduled.
Start(r) ==
    LET O == Orphans(SessionOf[r]) IN
    /\ Fresh(r)
    /\ status' = Created(r, FinalStatus(O))
    /\ text' = FinalText(O)
    /\ tool' = FinalTool(O)
    /\ exec' = [exec EXCEPT ![r] = "scheduled"]
    /\ starting' = [starting EXCEPT ![SessionOf[r]] = Nobody]
    /\ UNCHANGED <<outbox, call, retired, fence, thrown, fatal, faults, restarts>>

\* A send in a Session without a Project.  Which Sessions have one is left open:
\* every send may go either way.
Send(r) ==
    /\ ~fatal
    /\ Idle(SessionOf[r])
    /\ Start(r)

\* A Project send reserves the Session and awaits the preflight.
Reserve(r) ==
    /\ ~fatal
    /\ Fresh(r)
    /\ Idle(SessionOf[r])
    /\ starting' = [starting EXCEPT ![SessionOf[r]] = r]
    /\ UNCHANGED <<status, parts, outbox, call, retired, exec, fence, thrown, fatal, faults, restarts>>

StartReserved(r) ==
    /\ starting[SessionOf[r]] = r
    /\ Start(r)

\* The preflight fails, or what follows refuses the Run: before orphans were
\* ended (no Provider) or after (an archived Session).
StartRefused(r) ==
    /\ starting[SessionOf[r]] = r
    /\ starting' = [starting EXCEPT ![SessionOf[r]] = Nobody]
    /\ \E O \in {{}, Orphans(SessionOf[r])} : Finalize(O)
    /\ UNCHANGED <<outbox, call, retired, exec, fence, thrown, fatal, faults, restarts>>

StartFails(r) ==
    /\ starting[SessionOf[r]] = r
    /\ starting' = [starting EXCEPT ![SessionOf[r]] = Nobody]
    /\ \E q \in Orphans(SessionOf[r]) : FinalizeFails(q, OrphanEnd(q))
    /\ UNCHANGED <<outbox, call, retired, exec, fence, thrown, restarts>>

\* A read, a replay, a retried send, archiving: each ends the orphans it meets.
FinalizeOrphan(r) ==
    /\ ~fatal
    /\ Orphan(r)
    /\ \/ Finalize({r}) /\ UNCHANGED <<fatal, faults>>
       \/ FinalizeFails(r, OrphanEnd(r))
    /\ UNCHANGED <<outbox, call, retired, exec, fence, starting, thrown, restarts>>

-----------------------------------------------------------------------------
(* #executeRun and the runtime's events.                                   *)

Begin(r) ==
    /\ exec[r] = "scheduled"
    /\ fence[r] = "none"
    /\ exec' = [exec EXCEPT ![r] = "resolving"]
    /\ UNCHANGED <<status, parts, outbox, call, retired, fence, starting, thrown, fatal, faults, restarts>>

\* The Skills and MCP Tools are resolved and the Run was not fenced meanwhile.
Resolved(r) ==
    /\ exec[r] = "resolving"
    /\ status[r] = "queued"
    /\ fence[r] = "none"
    /\ exec' = [exec EXCEPT ![r] = "streaming"]
    /\ status' = Running(r)
    /\ UNCHANGED <<parts, outbox, call, retired, fence, starting, thrown, fatal, faults, restarts>>

\* The model's message: text streams before the tool call of its message is
\* executed or in a later message.
TextStarted(r) ==
    /\ Streaming(r)
    /\ text[r] = "absent"
    /\ call[r] = "none" \/ tool[r] \in Settled
    /\ text' = TextPart(r, "streaming")
    /\ UNCHANGED <<status, tool, outbox, call, retired, volatile, faults, restarts>>

TextCompleted(r) ==
    /\ Streaming(r)
    /\ text[r] = "streaming"
    /\ text' = TextPart(r, "completed")
    /\ UNCHANGED <<status, tool, outbox, call, retired, volatile, faults, restarts>>

\* The output limit: the text Part ends and #commitOutputLimitFailure ends the
\* Run, the execution returns later.
TextOverflow(r) ==
    /\ Streaming(r)
    /\ text[r] = "streaming"
    /\ text' = TextPart(r, "interrupted")
    /\ \/ status' = Terminal(r, "failed") /\ UNCHANGED <<fence, fatal, faults>>
       \/ /\ Costs(1)
          /\ GivesUp(r, "limit")
          /\ UNCHANGED status
    /\ UNCHANGED <<tool, outbox, call, retired, exec, starting, thrown, restarts>>

ToolCreated(r) ==
    /\ Streaming(r)
    /\ tool[r] = "absent"
    /\ tool' = ToolPart(tool, r, "queued")
    /\ UNCHANGED <<status, text, outbox, call, retired, volatile, faults, restarts>>

\* Wrong variant: the runtime is believed before the authorities.
ToolEndedTrusting(r) ==
    /\ Streaming(r)
    /\ tool[r] \notin Settled \union {"absent"}
    /\ text[r] # "streaming"
    /\ call[r] \in {"none", "denied", "abandoned"} \union Outcomes \/ r \in thrown
    /\ tool' = ToolPart(tool, r, IF call[r] = "denied" THEN "failed" ELSE "completed")
    /\ thrown' = thrown \union {r}
    /\ UNCHANGED <<status, text, outbox, call, retired, exec, fence, starting, fatal, faults, restarts>>

\* tool.execution.completed for a Part that no authority settled: the call was
\* refused before it began, gave up, or its own flush failed.
ToolEnded(r) ==
    /\ Streaming(r)
    /\ tool[r] \notin Settled \union {"absent"}
    /\ text[r] # "streaming"
    /\ call[r] \in {"none", "denied", "abandoned"} \union Outcomes \/ r \in thrown
    /\ tool' = ToolPart(tool, r,
           IF call[r] = "completed" /\ r \notin thrown THEN "completed" ELSE "failed")
    /\ thrown' = thrown \union {r}
    /\ UNCHANGED <<status, text, outbox, call, retired, exec, fence, starting, fatal, faults, restarts>>

\* The runtime returns; the Run is completed and released.
Complete(r) ==
    /\ Streaming(r)
    /\ text[r] = "completed"
    /\ tool[r] \in Settled \union {"absent"}
    /\ status' = Terminal(r, "completed")
    /\ exec' = [exec EXCEPT ![r] = "none"]
    /\ UNCHANGED <<parts, outbox, call, retired, fence, starting, thrown, fatal, faults, restarts>>

\* Wrong variant: the Run is released even if nothing could be committed.
ReleasesAnyway(r, c) ==
    \/ /\ c = 0
       /\ status' = Terminal(r, "failed")
       /\ exec' = [exec EXCEPT ![r] = "none"]
       /\ UNCHANGED <<fence, fatal>>
    \/ /\ c = 1
       /\ GivesUp(r, "failure")
       /\ exec' = [exec EXCEPT ![r] = "none"]
       /\ UNCHANGED status

\* #handleFailedRun: the failure is committed, if need be at the second attempt,
\* or both failed (c) and the Run is not released.
CommitsFailure(r, c) ==
    \/ /\ c = 0
       /\ status' = Terminal(r, "failed")
       /\ exec' = [exec EXCEPT ![r] = "none"]
       /\ UNCHANGED <<fence, fatal>>
    \/ /\ c = 1
       /\ GivesUp(r, "failure")
       /\ exec' = [exec EXCEPT ![r] = "parked"]
       /\ UNCHANGED status

\* Anything in #executeRun throws: the Box is not ready, the runtime fails, an
\* event cannot be stored.  Interrupting the Parts may fail as well (i).
Fail(r) ==
    /\ Executing(r)
    /\ status[r] \in Live
    /\ fence[r] = "none"
    /\ call' = CallAborted(r)
    /\ \E a \in AfterAbort(r), i \in {0, 1}, c \in {0, 1} :
           /\ Costs(a.cost + i + c)
           /\ outbox' = a.outbox
           /\ \/ i = 0 /\ Interrupts(r, a.tool, "failed")
              \/ i = 1 /\ InterruptsPartly(r, a.tool, "failed")
           /\ CommitsFailure(r, c)
    /\ UNCHANGED <<retired, starting, thrown, restarts>>

\* The runtime reports a cancellation nobody asked for (the provider stopped):
\* #finishCancelledRun ends the Run as cancelled, or gives the data plane up.
ReportsCancelled(r) ==
    /\ Streaming(r)
    /\ call' = CallAborted(r)
    /\ \E a \in AfterAbort(r) :
           /\ outbox' = a.outbox
           /\ \/ /\ Costs(a.cost)
                 /\ Interrupts(r, a.tool, "cancelled")
                 /\ status' = Terminal(r, "cancelled")
                 /\ exec' = [exec EXCEPT ![r] = "none"]
                 /\ UNCHANGED <<fence, fatal>>
              \/ /\ Costs(a.cost + 1)
                 /\ InterruptsPartly(r, a.tool, "cancelled")
                 /\ GivesUp(r, "failure")
                 /\ exec' = [exec EXCEPT ![r] = "parked"]
                 /\ UNCHANGED status
    /\ UNCHANGED <<retired, starting, thrown, restarts>>

\* Wrong variant: a Run cancelled while its resources are resolved is left.
ReleaseStreaming(r) ==
    /\ exec[r] = "streaming"
    /\ status[r] \in Over
    /\ fence[r] = "none"
    /\ exec' = [exec EXCEPT ![r] = "none"]
    /\ UNCHANGED <<status, parts, outbox, call, retired, fence, starting, thrown, fatal, faults, restarts>>

\* The execution returns after its Run was ended by somebody else.
Release(r) ==
    /\ Executing(r)
    /\ status[r] \in Over
    /\ fence[r] = "none"
    /\ exec' = [exec EXCEPT ![r] = "none"]
    /\ UNCHANGED <<status, parts, outbox, call, retired, fence, starting, thrown, fatal, faults, restarts>>

\* The execution returns after a cancellation (or the output limit) whose
\* commit failed: #finishCancelledRun tries again, or the fence of the limit
\* keeps #handleFailedRun from it.
FencedEnd(r) ==
    /\ Executing(r)
    /\ status[r] \in Live
    /\ fence[r] \in {"cancel", "limit"}
    /\ exec' = [exec EXCEPT ![r] = "parked"]
    /\ \/ /\ status' = Terminal(r, "cancelled")
          /\ Interrupts(r, tool, "cancelled")
          /\ UNCHANGED faults
       \/ /\ Costs(1)
          /\ InterruptsPartly(r, tool, "cancelled")
          /\ UNCHANGED status
       \/ /\ fence[r] = "limit"
          /\ Interrupts(r, tool, "failed")
          /\ UNCHANGED <<status, faults>>
    /\ UNCHANGED <<outbox, call, retired, fence, starting, thrown, fatal, restarts>>

-----------------------------------------------------------------------------
(* The user's cancellation.  A Run that is not begun is released at once.  *)

Cancel(r) ==
    /\ ~fatal
    /\ Executing(r)
    /\ status[r] \in Live
    /\ call' = CallAborted(r)
    /\ \E a \in AfterAbort(r) :
           /\ Costs(a.cost)
           /\ outbox' = a.outbox
           /\ Interrupts(r, a.tool, "cancelled")
    /\ status' = Terminal(r, "cancelled")
    /\ exec' = IF exec[r] = "scheduled" THEN [exec EXCEPT ![r] = "none"] ELSE exec
    /\ UNCHANGED <<retired, fence, starting, thrown, fatal, restarts>>

CancelFails(r) ==
    /\ ~fatal
    /\ Executing(r)
    /\ status[r] \in Live
    /\ call' = CallAborted(r)
    /\ \E a \in AfterAbort(r) :
           /\ Costs(a.cost + 1)
           /\ outbox' = a.outbox
           /\ InterruptsPartly(r, a.tool, "cancelled")
    /\ GivesUp(r, "cancel")
    /\ UNCHANGED <<status, retired, exec, starting, thrown, restarts>>

CancelOrphan(r) ==
    /\ ~fatal
    /\ Orphan(r)
    /\ Idle(SessionOf[r])
    /\ \/ /\ status' = Terminal(r, "cancelled")
          /\ Interrupts(r, tool, "cancelled")
          /\ UNCHANGED <<fatal, faults>>
       \/ /\ Costs(1)
          /\ InterruptsPartly(r, tool, "cancelled")
          /\ fatal' \in BOOLEAN \* only a failed commit gives the data plane up
          /\ UNCHANGED status
    /\ UNCHANGED <<outbox, call, retired, exec, fence, starting, thrown, restarts>>

-----------------------------------------------------------------------------
(* The authorities.  ApprovalService and the Action's pipeline have models *)
(* of their own; here is what they commit about the call.                  *)

\* The Action needs no approval, or has it from the Session's policy, or its
\* request waits.
Ask(r) ==
    /\ Streaming(r)
    /\ tool[r] = "queued"
    /\ text[r] # "streaming"
    /\ call[r] = "none"
    /\ \/ /\ call' = [call EXCEPT ![r] = "waiting"]
          /\ Says(r, With(r, Row("approval", "waiting_approval")))
       \/ /\ call' = [call EXCEPT ![r] = "approved"]
          /\ Says(r, With(r, Row("approval", "queued")))
       \/ /\ call' = [call EXCEPT ![r] = "approved"]
          /\ UNCHANGED <<tool, outbox, thrown, faults>>
    /\ UNCHANGED <<status, text, retired, exec, fence, starting, fatal, restarts>>

\* A client decides, or the request expires.  A flush that fails here is an
\* error of the client, who decides again; how the waiter is told is in
\* Approvals.
Decide(r) ==
    /\ call[r] = "waiting"
    /\ \/ call' = [call EXCEPT ![r] = "approved"] /\ Tells(outbox)
       \/ call' = [call EXCEPT ![r] = "denied"] /\ Tells(With(r, Row("approval", "denied")))
    /\ UNCHANGED <<status, text, retired, volatile, restarts>>

Dispatch(r) ==
    /\ Streaming(r)
    /\ call[r] = "approved"
    /\ r \notin thrown
    /\ call' = [call EXCEPT ![r] = "running"]
    /\ Says(r, With(r, Row("action", "running")))
    /\ UNCHANGED <<status, text, retired, exec, fence, starting, fatal, restarts>>

\* The Run was aborted after the approval: the grant is consumed nevertheless
\* and the Action cancelled before it is sent, unless the first flush fails.
DispatchAborted(r) ==
    /\ ~Streaming(r)
    /\ call[r] = "approved"
    /\ r \notin thrown
    /\ \/ /\ call' = [call EXCEPT ![r] = "cancelled"]
          /\ Says(r, [outbox EXCEPT ![r] =
                 @ \o <<Row("action", "running"), Row("action", "cancelled")>>])
       \/ /\ call' = [call EXCEPT ![r] = "running"]
          /\ outbox' = With(r, Row("action", "running"))
          /\ thrown' = thrown \union {r}
          /\ Costs(1)
          /\ UNCHANGED tool
    /\ UNCHANGED <<status, text, retired, exec, fence, starting, fatal, restarts>>

\* The Action is denied by policy or its grant expired.
Refuse(r) ==
    /\ call[r] = "approved"
    /\ r \notin thrown
    /\ call' = [call EXCEPT ![r] = "abandoned"]
    /\ UNCHANGED <<status, parts, outbox, retired, volatile, faults, restarts>>

Outcome(r, o) ==
    /\ call[r] = "running"
    /\ r \notin thrown
    /\ call' = [call EXCEPT ![r] = o]
    /\ Says(r, With(r, Row("action", o)))
    /\ UNCHANGED <<status, text, retired, exec, fence, starting, fatal, restarts>>

\* The Box's evidence arrives after all.
Reconcile(r, o) ==
    /\ call[r] = "outcome_unknown"
    /\ o # "outcome_unknown"
    /\ call' = [call EXCEPT ![r] = o]
    /\ Tells(With(r, Row("action", o)))
    /\ UNCHANGED <<status, text, retired, volatile, restarts>>

-----------------------------------------------------------------------------
(* Deleting a Session, and restarting the server.                          *)

\* Wrong variant: an unacknowledged Action does not matter.
RemovableUnasked(s) ==
    /\ ~fatal
    /\ s \notin retired
    /\ Idle(s)

\* Nothing is executed, starting or unacknowledged there; its orphans are ended
\* on the way (a settled Action is unacknowledged for a while: until then the
\* step just does not happen).
Removable(s) ==
    /\ ~fatal
    /\ s \notin retired
    /\ Idle(s)
    /\ \A r \in Of(s) : call[r] \notin {"running", "outcome_unknown"}

Delete(s) ==
    /\ Removable(s)
    /\ Retires(s)
    /\ outbox' = [r \in Runs |-> IF r \in Of(s) THEN <<>> ELSE outbox[r]]
    /\ UNCHANGED <<volatile, faults, restarts>>

\* What recoverOnStartup of the Actions and then of the approvals makes of a
\* call; G are the approved calls with a grant that was not consumed.
Recovered(G) == [r \in Runs |->
    CASE call[r] = "running" -> "outcome_unknown"
      [] call[r] = "waiting" -> "denied"
      [] call[r] = "approved" -> IF r \in G THEN "cancelled" ELSE "abandoned"
      [] OTHER -> call[r]]
RecoveryRows(G) == [r \in Runs |->
    CASE call[r] = "running" -> Append(outbox[r], Row("action", "outcome_unknown"))
      [] call[r] = "waiting" -> Append(outbox[r], Row("approval", "denied"))
      [] r \in G -> Append(outbox[r], Row("action", "cancelled"))
      [] OTHER -> outbox[r]]

\* The process ends anywhere and starts again: Runs become orphans.
Restart ==
    /\ restarts < MaxRestarts
    /\ restarts' = restarts + 1
    /\ \E G \in SUBSET {r \in Runs : call[r] = "approved"} :
           call' = Recovered(G) /\ tool' = Drained(RecoveryRows(G))
    /\ outbox' = Empty
    /\ exec' = [r \in Runs |-> "none"]
    /\ fence' = [r \in Runs |-> "none"]
    /\ starting' = [s \in Sessions |-> Nobody]
    /\ thrown' = {}
    /\ fatal' = FALSE
    /\ UNCHANGED <<status, text, retired, faults>>

-----------------------------------------------------------------------------
Starts(r)  == Send(r) \/ Reserve(r) \/ StartReserved(r) \/ StartRefused(r) \/ StartFails(r)
Events(r)  == \/ TextStarted(r) \/ TextCompleted(r) \/ TextOverflow(r)
              \/ ToolCreated(r) \/ ToolEnded(r)
Returns(r) == Complete(r) \/ Fail(r) \/ ReportsCancelled(r) \/ Release(r) \/ FencedEnd(r)
Cancels(r) == Cancel(r) \/ CancelFails(r) \/ CancelOrphan(r)
Authority(r) ==
    \/ Ask(r) \/ Decide(r) \/ Dispatch(r) \/ DispatchAborted(r) \/ Refuse(r)
    \/ \E o \in Outcomes : Outcome(r, o) \/ Reconcile(r, o)

Next ==
    \/ \E r \in Runs : \/ Starts(r) \/ FinalizeOrphan(r) \/ Begin(r) \/ Resolved(r)
                       \/ Cancels(r) \/ Events(r) \/ Returns(r) \/ Authority(r)
    \/ \E s \in Sessions : Delete(s)
    \/ Restart

Spec == Init /\ [][Next]_vars

\* The scheduled execution is begun, and the runtime returns or throws.
Fairness == \A r \in Runs : WF_vars(Begin(r)) /\ WF_vars(Returns(r))
FairSpec == Spec /\ Fairness

-----------------------------------------------------------------------------
(* Properties                                                              *)

\* The types of the variables.
TypeOK ==
    /\ status \in [Runs -> {"none", "gone"} \union Live \union Over]
    /\ text \in [Runs -> Texts]
    /\ tool \in [Runs -> Tools]
    /\ \A r \in Runs : outbox[r] \in Seq([by : {"approval", "action"}, to : Tools])
    /\ call \in [Runs -> Calls]
    /\ retired \subseteq Sessions
    /\ exec \in [Runs -> Execs]
    /\ fence \in [Runs -> {"none", "cancel", "limit", "failure"}]
    /\ starting \in [Sessions -> Runs \union {Nobody}]
    /\ thrown \subseteq Runs
    /\ fatal \in BOOLEAN
    /\ faults \in 0 .. MaxFaults
    /\ restarts \in 0 .. MaxRestarts

\* A Session never has two Runs that are queued or running, however sends,
\* preflights, reads, cancellations, failures and restarts interleave
\* (#reserveSessionStart, #finalizeOrphanedRun).
OneLiveRun ==
    \A q, r \in Runs :
        q # r /\ SessionOf[q] = SessionOf[r] => ~(status[q] \in Live /\ status[r] \in Live)

\* Only a restart leaves a Run without an execution: as long as the process
\* lives, a Run is released (#releaseRun) only when its end is committed.
ReleasedRunsAreOver ==
    [][\A r \in Runs : exec[r] # "none" /\ exec'[r] = "none" /\ restarts' = restarts
                          => status'[r] \in Over]_vars

\* The tool Part never claims what the authorities do not: it is completed,
\* denied or running only if the call is, and its outcome is unknown only as
\* long as theirs is; the last two up to rows that are not flushed yet.  And no
\* such row waits for a Part that does not exist: it would make every later
\* flush of any Run throw (selectToolPartByCallId).
PartTellsTruth ==
    \A r \in Runs :
        /\ tool[r] = "completed" => call[r] = "completed"
        /\ tool[r] = "denied" => call[r] = "denied"
        /\ tool[r] = "running" /\ outbox[r] = <<>> => call[r] = "running"
        /\ tool[r] = "outcome_unknown" /\ outbox[r] = <<>> => call[r] \in {"running", "outcome_unknown"}
        /\ tool[r] = "absent" => outbox[r] = <<>>

\* As long as no transaction fails, a Run that is over leaves no Part that
\* looks as if something were still going on; an over-long answer alone may
\* leave a queued one behind (#interruptActiveParts, #interruptPersistedParts).
OverRunsAreQuiet ==
    faults = 0 => \A r \in Runs : status[r] \in Over =>
        /\ text[r] # "streaming"
        /\ tool[r] \notin {"waiting_approval", "running"}
        /\ tool[r] = "queued" => status[r] = "failed" /\ text[r] = "interrupted" /\ call[r] = "none"

\* In a deleted Session nothing is executed, starting, waiting for approval or
\* possibly still running on a Box (deleteSession).
DeletedIsQuiet ==
    \A s \in retired : /\ Idle(s)
                       /\ \A r \in Of(s) : /\ status[r] = "gone"
                                           /\ call[r] \notin {"waiting", "approved", "running", "outcome_unknown"}

\* Every execution ends: the Session is free again, or the data plane is given
\* up and the fence keeps it (#executeRun's finally).
ExecutionsEnd ==
    \A r \in Runs : Executing(r) ~> (exec[r] = "none" \/ fatal)

\* docs/design/run-aloud.md: the Action's receipt is the authority for how an
\* execution ended, so a settled outcome that is projected shows in the Part.
AuthorityWins ==
    \A r \in Runs : call[r] \in {"completed", "failed"} /\ outbox[r] = <<>> => tool[r] = call[r]

\* docs/implementation/data-contracts.md: the startup reconciliation ends the
\* Runs a restart left behind.
OrphansEndAtStartup ==
    [][restarts' # restarts => \A r \in Runs : status'[r] \notin Live]_vars

\* docs/design/run-aloud.md: what a message leaves out is ended with it, so no
\* Part of a Run that is over is still queued.
NoPartIsForgotten ==
    faults = 0 => \A r \in Runs : status[r] \in Over => tool[r] \in Settled \union {"absent"}
=============================================================================
