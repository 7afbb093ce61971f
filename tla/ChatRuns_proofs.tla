-------------------------- MODULE ChatRuns_proofs --------------------------
(***************************************************************************)
(* Proofs about chat Runs, for any Runs, Sessions, restarts and failing    *)
(* transactions, in three parts.  Which Runs of a Session may be alive     *)
(* needs only the control: the rows of the Runs, their executions, the     *)
(* reservations and the calls.  That a tool Part tells the truth is about  *)
(* what a flush makes of it, however many rows wait.  That a Run which is  *)
(* over is quiet is about the steps that do not fail.                      *)
(***************************************************************************)
EXTENDS ChatRuns, SequenceTheorems, WellFoundedInduction, TLAPS

-----------------------------------------------------------------------------
(* The inductive invariant.                                                *)

\* The types of the variables the argument is about.
ControlOK ==
    /\ status \in [Runs -> {"none", "gone"} \union Live \union Over]
    /\ exec \in [Runs -> Execs]
    /\ starting \in [Sessions -> Runs \union {Nobody}]
    /\ call \in [Runs -> Calls]
    /\ retired \subseteq Sessions
    /\ restarts \in Nat

\* An execution has its Session for itself: nothing else is executed there,
\* and whatever else was queued or running has been ended.
Exclusive ==
    \A q, r \in Runs :
        q # r /\ SessionOf[q] = SessionOf[r] /\ exec[r] # "none"
            => exec[q] = "none" /\ status[q] \notin Live

\* Nothing is executed in a Session that is reserved.
ReservedIsFree ==
    \A s \in Sessions : starting[s] # Nobody => \A r \in Of(s) : exec[r] = "none"

IInv == ControlOK /\ OneLiveRun /\ Exclusive /\ ReservedIsFree /\ DeletedIsQuiet

-----------------------------------------------------------------------------
(* What a step may do to a Run, a reservation and a call.                  *)

OpenCalls == {"waiting", "approved", "running", "outcome_unknown"}

\* r starts: its Session was reserved for it or idle, and is cleaned up.
Starting(r) ==
    /\ Fresh(r)
    /\ starting[SessionOf[r]] = r \/ Idle(SessionOf[r])
    /\ starting'[SessionOf[r]] = Nobody
    /\ status'[r] = "queued"
    /\ exec'[r] # "none"
    /\ \A q \in Of(SessionOf[r]) \ {r} :
           /\ exec'[q] = exec[q]
           /\ exec[q] = "none" => status'[q] \notin Live

\* r stays, starts, goes on, is released, ends as an orphan, is left by a
\* restart, or is deleted.
RunMoves(r) ==
    \/ status'[r] = status[r] /\ exec'[r] = exec[r]
    \/ Starting(r)
    \/ /\ exec[r] # "none" /\ exec'[r] # "none"
       /\ status'[r] = status[r] \/ (status[r] \in Live /\ status'[r] \in Live \union Over)
    \/ /\ exec[r] # "none" /\ exec'[r] = "none"
       /\ status'[r] \in Over
       /\ status[r] \in Live \/ status'[r] = status[r]
    \/ /\ exec[r] = "none" /\ exec'[r] = "none"
       /\ status[r] \in Live /\ status'[r] \in Over
    \/ /\ restarts' # restarts
       /\ status'[r] = status[r] /\ exec'[r] = "none"
    \/ /\ exec[r] = "none" /\ exec'[r] = "none"
       /\ status'[r] = "gone"

\* A reservation stays, is given up, or is made where nothing is executed.
ReservationMoves(s) ==
    \/ starting'[s] = starting[s]
    \/ starting'[s] = Nobody
    \/ s \notin retired /\ \A r \in Of(s) : exec'[r] = "none"

\* A call is opened by an execution only.
CallMoves(r) == call'[r] \in OpenCalls => call[r] \in OpenCalls \/ exec[r] # "none"

\* A Session is deleted when nothing goes on in it.
SessionMoves(s) ==
    s \in retired' => \/ s \in retired
                      \/ /\ Idle(s)
                         /\ starting'[s] = starting[s]
                         /\ \A r \in Of(s) : /\ exec'[r] = exec[r]
                                             /\ status'[r] = "gone"
                                             /\ call'[r] \notin OpenCalls

Moves ==
    /\ ControlOK'
    /\ \A r \in Runs : RunMoves(r) /\ CallMoves(r)
    /\ \A s \in Sessions : ReservationMoves(s) /\ SessionMoves(s)
    /\ retired \subseteq retired'

-----------------------------------------------------------------------------
(* Lemmas.                                                                 *)

\* A step that at most gives reservations up.
LEMMA QuietMoves ==
    ASSUME ControlOK, starting' \in [Sessions -> Runs \union {Nobody}],
           \A s \in Sessions : starting'[s] \in {starting[s], Nobody},
           UNCHANGED <<status, exec, call, retired, restarts>>
    PROVE  Moves
BY DEF Moves, ControlOK, RunMoves, ReservationMoves, CallMoves, SessionMoves

\* A step that only changes calls of an execution, or closes them.
LEMMA CallStepMoves ==
    ASSUME ControlOK, UNCHANGED <<status, exec, starting, retired, restarts>>,
           call' \in [Runs -> Calls], \A r \in Runs : CallMoves(r)
    PROVE  Moves
BY DEF Moves, ControlOK, RunMoves, ReservationMoves, SessionMoves

\* A call that is given up is closed.
LEMMA AbortedCall ==
    ASSUME ControlOK, NEW r \in Runs
    PROVE  /\ CallAborted(r) \in [Runs -> Calls]
           /\ \A q \in Runs : CallAborted(r)[q] = call[q] \/ CallAborted(r)[q] = "abandoned"
BY DEF CallAborted, ControlOK, Calls

\* What an orphan's end is.
LEMMA EndOfOrphan ==
    ASSUME NEW O \in SUBSET Runs, status \in [Runs -> {"none", "gone"} \union Live \union Over]
    PROVE  /\ FinalStatus(O) \in [Runs -> {"none", "gone"} \union Live \union Over]
           /\ \A q \in O : FinalStatus(O)[q] \in Over
           /\ \A q \in Runs \ O : FinalStatus(O)[q] = status[q]
BY DEF FinalStatus, OrphanEnd, Live, Over

\* Ending orphans moves them only.
LEMMA FinalizeMoves ==
    ASSUME ControlOK, NEW O \in SUBSET {r \in Runs : Orphan(r)}, status' = FinalStatus(O),
           starting' \in [Sessions -> Runs \union {Nobody}],
           \A s \in Sessions : starting'[s] \in {starting[s], Nobody},
           UNCHANGED <<exec, call, retired, restarts>>
    PROVE  Moves
<1>1. O \in SUBSET Runs
    OBVIOUS
<1>2. ControlOK'
    BY <1>1, EndOfOrphan DEF ControlOK
<1>3. ASSUME NEW r \in Runs PROVE RunMoves(r) /\ CallMoves(r)
    <2>1. CASE r \in O
        BY <1>1, <2>1, EndOfOrphan DEF ControlOK, Orphan, RunMoves, CallMoves
    <2>2. CASE r \notin O
        BY <1>1, <2>2, EndOfOrphan DEF ControlOK, RunMoves, CallMoves
    <2> QED
        BY <2>1, <2>2
<1>4. ASSUME NEW s \in Sessions PROVE ReservationMoves(s) /\ SessionMoves(s)
    BY DEF ReservationMoves, SessionMoves
<1> QED
    BY <1>2, <1>3, <1>4 DEF Moves

\* Starting a Run moves it and ends the orphans of its Session.
LEMMA StartMoves ==
    ASSUME ControlOK, NEW r \in Runs, Start(r),
           starting[SessionOf[r]] = r \/ Idle(SessionOf[r])
    PROVE  Moves
<1> DEFINE s == SessionOf[r]
           O == Orphans(s)
<1>1. s \in Sessions
    BY ChatRunsAssumption
<1>2. /\ O \in SUBSET Runs
      /\ \A q \in O : Orphan(q)
      /\ \A q \in Of(s) : Orphan(q) => q \in O
    BY DEF Orphans, Of
<1>3. /\ Fresh(r)
      /\ status' = [FinalStatus(O) EXCEPT ![r] = "queued"]
      /\ exec' = [exec EXCEPT ![r] = "scheduled"]
      /\ starting' = [starting EXCEPT ![s] = Nobody]
      /\ UNCHANGED <<call, retired, restarts>>
    BY DEF Start, Created
<1>4. /\ FinalStatus(O) \in [Runs -> {"none", "gone"} \union Live \union Over]
      /\ \A q \in O : FinalStatus(O)[q] \in Over
      /\ \A q \in Runs \ O : FinalStatus(O)[q] = status[q]
    BY <1>2, EndOfOrphan DEF ControlOK
<1> HIDE DEF O
<1>5. ControlOK'
    BY <1>1, <1>3, <1>4 DEF ControlOK, Live, Execs
<1>6. /\ status'[r] = "queued" /\ exec'[r] = "scheduled"
      /\ \A q \in Runs \ {r} : status'[q] = FinalStatus(O)[q] /\ exec'[q] = exec[q]
      /\ starting'[s] = Nobody
      /\ \A t \in Sessions : starting'[t] \in {starting[t], Nobody}
    BY <1>1, <1>3, <1>4 DEF ControlOK
<1>7. ASSUME NEW q \in Of(s) \ {r}, exec[q] = "none" PROVE status'[q] \notin Live
    <2>1. q \in Runs
        BY DEF Of
    <2>2. CASE q \in O
        BY <1>4, <1>6, <2>1, <2>2 DEF Live, Over
    <2>3. CASE q \notin O
        BY <1>2, <1>4, <1>6, <1>7, <2>1, <2>3 DEF Orphan
    <2> QED
        BY <2>2, <2>3
<1>8. Starting(r)
    BY <1>3, <1>6, <1>7 DEF Starting, Of
<1>9. ASSUME NEW q \in Runs PROVE RunMoves(q) /\ CallMoves(q)
    <2>1. CallMoves(q)
        BY <1>3 DEF CallMoves
    <2>2. CASE q = r
        BY <1>8, <2>1, <2>2 DEF RunMoves
    <2>3. CASE q # r /\ q \in O
        BY <1>2, <1>4, <1>6, <2>1, <2>3 DEF Orphan, RunMoves
    <2>4. CASE q # r /\ q \notin O
        BY <1>4, <1>6, <2>1, <2>4 DEF RunMoves
    <2> QED
        BY <2>1, <2>2, <2>3, <2>4
<1>10. ASSUME NEW t \in Sessions PROVE ReservationMoves(t) /\ SessionMoves(t)
    BY <1>3, <1>6 DEF ReservationMoves, SessionMoves
<1> QED
    BY <1>3, <1>5, <1>9, <1>10 DEF Moves

\* One Run moves; calls are opened by executions only.
LEMMA OneRunMoves ==
    ASSUME ControlOK, NEW r \in Runs, ControlOK',
           \A q \in Runs \ {r} : status'[q] = status[q] /\ exec'[q] = exec[q],
           RunMoves(r),
           \A q \in Runs : CallMoves(q),
           UNCHANGED <<starting, retired>>
    PROVE  Moves
BY DEF Moves, RunMoves, ReservationMoves, SessionMoves

-----------------------------------------------------------------------------
(* Every step moves so, one action at a time.                              *)

\* Starting a Run, or giving its start up.
LEMMA StartsMove == ASSUME ControlOK, NEW r \in Runs, Starts(r) PROVE Moves
<1>1. SessionOf[r] \in Sessions /\ starting \in [Sessions -> Runs \union {Nobody}]
    BY ChatRunsAssumption DEF ControlOK
<1>2. CASE Send(r)
    BY <1>2, StartMoves DEF Send
<1>3. CASE StartReserved(r)
    BY <1>3, StartMoves DEF StartReserved
<1>4. CASE Reserve(r)
    <2>1. /\ starting' = [starting EXCEPT ![SessionOf[r]] = r]
          /\ Fresh(r) /\ Idle(SessionOf[r])
          /\ UNCHANGED <<status, exec, call, retired, restarts>>
        BY <1>4 DEF Reserve
    <2>2. ControlOK'
        BY <1>1, <2>1 DEF ControlOK
    <2>3. ASSUME NEW s \in Sessions PROVE ReservationMoves(s) /\ SessionMoves(s)
        BY <1>1, <2>1 DEF ReservationMoves, SessionMoves, Fresh, Idle
    <2>4. \A q \in Runs : RunMoves(q) /\ CallMoves(q)
        BY <2>1 DEF RunMoves, CallMoves
    <2> QED
        BY <2>1, <2>2, <2>3, <2>4 DEF Moves
<1>5. CASE StartRefused(r)
    <2>1. /\ starting' = [starting EXCEPT ![SessionOf[r]] = Nobody]
          /\ UNCHANGED <<exec, call, retired, restarts>>
        BY <1>5 DEF StartRefused
    <2>2. PICK O \in {{}, Orphans(SessionOf[r])} : status' = FinalStatus(O)
        BY <1>5 DEF StartRefused, Finalize
    <2>3. O \in SUBSET {q \in Runs : Orphan(q)}
        BY <2>2 DEF Orphans, Of
    <2> QED
        BY <1>1, <2>1, <2>2, <2>3, FinalizeMoves
<1>6. CASE StartFails(r)
    <2>1. /\ starting' = [starting EXCEPT ![SessionOf[r]] = Nobody]
          /\ UNCHANGED <<status, exec, call, retired, restarts>>
        BY <1>6 DEF StartFails, FinalizeFails
    <2> QED
        BY <1>1, <2>1, QuietMoves
<1> QED
    BY <1>2, <1>3, <1>4, <1>5, <1>6 DEF Starts

\* Whoever meets an orphan ends it.
LEMMA FinalizeOrphanMoves == ASSUME ControlOK, NEW r \in Runs, FinalizeOrphan(r) PROVE Moves
<1>1. Orphan(r) /\ UNCHANGED <<exec, call, retired, starting, restarts>>
    BY DEF FinalizeOrphan
<1>2. starting' \in [Sessions -> Runs \union {Nobody}]
    BY <1>1 DEF ControlOK
<1>3. CASE Finalize({r})
    BY <1>1, <1>2, <1>3, FinalizeMoves DEF Finalize
<1>4. CASE FinalizeFails(r, OrphanEnd(r))
    BY <1>1, <1>2, <1>4, QuietMoves DEF FinalizeFails
<1> QED
    BY <1>3, <1>4 DEF FinalizeOrphan

\* The runtime's events end a Run at most.
LEMMA EventsMove == ASSUME ControlOK, NEW r \in Runs, Events(r) PROVE Moves
<1>1. starting \in [Sessions -> Runs \union {Nobody}]
    BY DEF ControlOK
<1>2. CASE TextStarted(r) \/ TextCompleted(r) \/ ToolCreated(r) \/ ToolEnded(r)
    <2>1. UNCHANGED <<status, exec, call, retired, starting, restarts>>
        BY <1>2 DEF TextStarted, TextCompleted, ToolCreated, ToolEnded, volatile
    <2> QED
        BY <1>1, <2>1, QuietMoves
<1>3. CASE TextOverflow(r)
    <2>1. UNCHANGED <<exec, call, retired, starting, restarts>>
        BY <1>3 DEF TextOverflow
    <2>2. CASE UNCHANGED status
        BY <1>1, <2>1, <2>2, QuietMoves
    <2>3. CASE status' = [status EXCEPT ![r] = "failed"]
        <3>1. exec[r] = "streaming" /\ status[r] = "running"
            BY <1>3 DEF TextOverflow, Streaming
        <3>2. ControlOK' /\ status'[r] = "failed"
            BY <2>1, <2>3 DEF ControlOK, Over
        <3>3. RunMoves(r)
            BY <2>1, <3>1, <3>2 DEF RunMoves, Live, Over
        <3> QED
            BY <2>1, <2>3, <3>2, <3>3, OneRunMoves DEF ControlOK, CallMoves
    <2> QED
        BY <1>3, <2>2, <2>3 DEF TextOverflow, Terminal
<1> QED
    BY <1>2, <1>3 DEF Events

\* Going on with an execution.
LEMMA BeginMoves == ASSUME ControlOK, NEW r \in Runs, Begin(r) \/ Resolved(r) PROVE Moves
<1>1. UNCHANGED <<call, retired, starting, restarts>>
    BY DEF Begin, Resolved
<1>2. /\ exec[r] # "none" /\ exec'[r] # "none"
      /\ status'[r] = status[r] \/ (status[r] = "queued" /\ status'[r] = "running")
      /\ \A q \in Runs \ {r} : status'[q] = status[q] /\ exec'[q] = exec[q]
      /\ ControlOK'
    <2>1. CASE Begin(r)
        BY <1>1, <2>1 DEF Begin, ControlOK, Execs
    <2>2. CASE Resolved(r)
        BY <1>1, <2>2 DEF Resolved, Running, ControlOK, Execs, Live
    <2> QED
        BY <2>1, <2>2
<1> QED
    BY <1>1, <1>2, OneRunMoves DEF RunMoves, CallMoves, Live

\* The end of an execution.
LEMMA ReturnsMove == ASSUME ControlOK, NEW r \in Runs, Returns(r) PROVE Moves
<1> DEFINE Moved == /\ UNCHANGED <<retired, starting, restarts>>
                    /\ call' = CallAborted(r) \/ call' = call
                    /\ exec[r] # "none"
                    /\ \A q \in Runs \ {r} : status'[q] = status[q] /\ exec'[q] = exec[q]
                    /\ status' \in [Runs -> {"none", "gone"} \union Live \union Over]
                    /\ exec' \in [Runs -> Execs]
                    /\ RunMoves(r)
<1>1. ASSUME Complete(r) PROVE Moved
    <2>1. /\ status' = [status EXCEPT ![r] = "completed"]
          /\ exec' = [exec EXCEPT ![r] = "none"]
          /\ exec[r] = "streaming" /\ status[r] = "running"
          /\ UNCHANGED <<call, retired, starting, restarts>>
        BY <1>1 DEF Complete, Terminal, Streaming
    <2> QED
        BY <2>1 DEF ControlOK, RunMoves, Live, Over, Execs
<1>2. ASSUME Fail(r) PROVE Moved
    <2>1. PICK c \in {0, 1} :
              /\ status' = IF c = 0 THEN [status EXCEPT ![r] = "failed"] ELSE status
              /\ exec' = [exec EXCEPT ![r] = IF c = 0 THEN "none" ELSE "parked"]
        BY <1>2 DEF Fail, CommitsFailure, Terminal
    <2>2. /\ Executing(r) /\ status[r] \in Live
          /\ call' = CallAborted(r)
          /\ UNCHANGED <<retired, starting, restarts>>
        BY <1>2 DEF Fail
    <2> QED
        BY <2>1, <2>2 DEF ControlOK, RunMoves, Over, Execs, Executing
<1>3. ASSUME Release(r) PROVE Moved
    <2>1. /\ exec' = [exec EXCEPT ![r] = "none"]
          /\ Executing(r) /\ status[r] \in Over
          /\ UNCHANGED <<status, call, retired, starting, restarts>>
        BY <1>3 DEF Release
    <2> QED
        BY <2>1 DEF ControlOK, RunMoves, Execs, Executing
<1>4. ASSUME FencedEnd(r) PROVE Moved
    <2>1. /\ exec' = [exec EXCEPT ![r] = "parked"]
          /\ status' \in {status, [status EXCEPT ![r] = "cancelled"]}
          /\ Executing(r) /\ status[r] \in Live
          /\ UNCHANGED <<call, retired, starting, restarts>>
        BY <1>4 DEF FencedEnd, Terminal
    <2> QED
        BY <2>1 DEF ControlOK, RunMoves, Over, Execs, Executing
<1>5. ASSUME ReportsCancelled(r) PROVE Moved
    <2>1. /\ \/ /\ status' = [status EXCEPT ![r] = "cancelled"]
                /\ exec' = [exec EXCEPT ![r] = "none"]
             \/ /\ exec' = [exec EXCEPT ![r] = "parked"]
                /\ UNCHANGED status
          /\ exec[r] = "streaming" /\ status[r] = "running"
          /\ call' = CallAborted(r)
          /\ UNCHANGED <<retired, starting, restarts>>
        BY <1>5 DEF ReportsCancelled, Terminal, Streaming
    <2> QED
        BY <2>1 DEF ControlOK, RunMoves, Live, Over, Execs
<1>6. Moved
    BY <1>1, <1>2, <1>3, <1>4, <1>5 DEF Returns
<1>7. call' \in [Runs -> Calls] /\ \A q \in Runs : CallMoves(q)
    BY <1>6, AbortedCall DEF ControlOK, CallMoves, OpenCalls
<1>8. ControlOK'
    BY <1>6, <1>7 DEF ControlOK
<1> QED
    BY <1>6, <1>7, <1>8, OneRunMoves

\* The user's cancellation.
LEMMA CancelsMove == ASSUME ControlOK, NEW r \in Runs, Cancels(r) PROVE Moves
<1>1. CASE Cancel(r)
    <2>1. /\ status' = [status EXCEPT ![r] = "cancelled"]
          /\ exec' \in {exec, [exec EXCEPT ![r] = "none"]}
          /\ Executing(r) /\ status[r] \in Live
          /\ call' = CallAborted(r)
          /\ UNCHANGED <<retired, starting, restarts>>
        BY <1>1 DEF Cancel, Terminal
    <2>2. call' \in [Runs -> Calls] /\ \A q \in Runs : CallMoves(q)
        BY <2>1, AbortedCall DEF CallMoves, OpenCalls
    <2>3. /\ ControlOK'
          /\ \A q \in Runs \ {r} : status'[q] = status[q] /\ exec'[q] = exec[q]
          /\ RunMoves(r)
        BY <2>1, <2>2 DEF ControlOK, RunMoves, Over, Execs, Executing
    <2> QED
        BY <2>1, <2>2, <2>3, OneRunMoves
<1>2. CASE CancelFails(r)
    <2>1. /\ call' = CallAborted(r)
          /\ UNCHANGED <<status, exec, retired, starting, restarts>>
        BY <1>2 DEF CancelFails
    <2>2. call' \in [Runs -> Calls] /\ \A q \in Runs : CallMoves(q)
        BY <2>1, AbortedCall DEF CallMoves, OpenCalls
    <2> QED
        BY <2>1, <2>2, CallStepMoves
<1>3. CASE CancelOrphan(r)
    <2>1. /\ Orphan(r)
          /\ status' \in {status, [status EXCEPT ![r] = "cancelled"]}
          /\ UNCHANGED <<exec, call, retired, starting, restarts>>
        BY <1>3 DEF CancelOrphan, Terminal
    <2>2. /\ ControlOK'
          /\ \A q \in Runs \ {r} : status'[q] = status[q] /\ exec'[q] = exec[q]
          /\ RunMoves(r)
          /\ \A q \in Runs : CallMoves(q)
        BY <2>1 DEF ControlOK, RunMoves, CallMoves, Over, Orphan
    <2> QED
        BY <2>1, <2>2, OneRunMoves
<1> QED
    BY <1>1, <1>2, <1>3 DEF Cancels

\* What the authorities do changes the call.
LEMMA AuthorityMoves == ASSUME ControlOK, NEW r \in Runs, Authority(r) PROVE Moves
<1> DEFINE Told == /\ UNCHANGED <<status, exec, retired, starting, restarts>>
                   /\ \E c \in Calls : call' = [call EXCEPT ![r] = c]
                   /\ call[r] \in OpenCalls \/ exec[r] # "none"
<1>1. ASSUME Ask(r) PROVE Told
    BY <1>1 DEF Ask, Calls, Streaming
<1>2. ASSUME Decide(r) PROVE Told
    BY <1>2 DEF Decide, Calls, OpenCalls, volatile
<1>3. ASSUME Dispatch(r) PROVE Told
    BY <1>3 DEF Dispatch, Calls, Streaming
<1>4. ASSUME DispatchAborted(r) PROVE Told
    BY <1>4 DEF DispatchAborted, Calls, Outcomes, OpenCalls
<1>5. ASSUME Refuse(r) PROVE Told
    BY <1>5 DEF Refuse, Calls, OpenCalls, volatile
<1>6. ASSUME NEW o \in Outcomes, Outcome(r, o) PROVE Told
    BY <1>6 DEF Outcome, Calls, OpenCalls
<1>7. ASSUME NEW o \in Outcomes, Reconcile(r, o) PROVE Told
    BY <1>7 DEF Reconcile, Calls, OpenCalls, volatile
<1>8. Told
    BY <1>1, <1>2, <1>3, <1>4, <1>5, <1>6, <1>7 DEF Authority
<1>9. call' \in [Runs -> Calls] /\ \A q \in Runs : CallMoves(q)
    BY <1>8 DEF ControlOK, CallMoves
<1> QED
    BY <1>8, <1>9, CallStepMoves

\* Deleting a Session closes it.
LEMMA DeleteMoves == ASSUME ControlOK, NEW s \in Sessions, Delete(s) PROVE Moves
<1>1. /\ Idle(s)
      /\ \A r \in Of(s) : call[r] \notin {"running", "outcome_unknown"}
      /\ retired' = retired \union {s}
      /\ status' = [r \in Runs |-> IF r \in Of(s) THEN "gone" ELSE status[r]]
      /\ call' = [r \in Runs |->
             IF r \in Of(s) /\ call[r] \in {"waiting", "approved"} THEN "abandoned" ELSE call[r]]
      /\ UNCHANGED <<exec, starting, restarts>>
    BY DEF Delete, Removable, Retires, volatile
<1>2. ControlOK'
    BY <1>1 DEF ControlOK, Calls
<1>3. ASSUME NEW r \in Runs PROVE RunMoves(r) /\ CallMoves(r)
    BY <1>1 DEF RunMoves, CallMoves, OpenCalls, Idle
<1>4. \A r \in Of(s) : status'[r] = "gone" /\ call'[r] \notin OpenCalls /\ exec'[r] = exec[r]
    BY <1>1 DEF Of, OpenCalls
<1>5. ASSUME NEW t \in Sessions PROVE ReservationMoves(t) /\ SessionMoves(t)
    BY <1>1, <1>4 DEF ReservationMoves, SessionMoves
<1> QED
    BY <1>1, <1>2, <1>3, <1>5 DEF Moves

\* A restart leaves Runs behind and opens no call.
LEMMA RestartMoves == ASSUME ControlOK, Restart PROVE Moves
<1>1. PICK G \in SUBSET {r \in Runs : call[r] = "approved"} : call' = Recovered(G)
    BY DEF Restart
<1>2. /\ exec' = [r \in Runs |-> "none"]
      /\ starting' = [s \in Sessions |-> Nobody]
      /\ restarts' = restarts + 1
      /\ UNCHANGED <<status, retired>>
    BY DEF Restart
<1>3. ASSUME NEW r \in Runs
      PROVE  call'[r] \in Calls /\ (call'[r] \in OpenCalls => call[r] \in OpenCalls)
    <2>1. call[r] \in Calls
        BY DEF ControlOK
    <2>2. call'[r] = CASE call[r] = "running" -> "outcome_unknown"
                       [] call[r] = "waiting" -> "denied"
                       [] call[r] = "approved" -> IF r \in G THEN "cancelled" ELSE "abandoned"
                       [] OTHER -> call[r]
        BY <1>1 DEF Recovered
    <2> QED
        BY <2>1, <2>2 DEF Calls, OpenCalls, Outcomes
<1>4. ControlOK' /\ restarts' # restarts
    <2>1. call' \in [Runs -> Calls]
        BY <1>1, <1>3 DEF Recovered
    <2> QED
        BY <1>2, <2>1 DEF ControlOK, Execs
<1>5. ASSUME NEW r \in Runs PROVE RunMoves(r) /\ CallMoves(r)
    BY <1>2, <1>3, <1>4 DEF RunMoves, CallMoves
<1>6. ASSUME NEW s \in Sessions PROVE ReservationMoves(s) /\ SessionMoves(s)
    BY <1>2 DEF ReservationMoves, SessionMoves
<1> QED
    BY <1>2, <1>4, <1>5, <1>6 DEF Moves

\* So every step moves what it may.
LEMMA StepMoves == ASSUME ControlOK, [Next]_vars PROVE Moves
<1>1. CASE UNCHANGED vars
    BY <1>1, QuietMoves DEF vars, ControlOK
<1>2. ASSUME NEW r \in Runs,
             \/ Starts(r) \/ FinalizeOrphan(r) \/ Begin(r) \/ Resolved(r)
             \/ Cancels(r) \/ Events(r) \/ Returns(r) \/ Authority(r)
      PROVE  Moves
    BY <1>2, StartsMove, FinalizeOrphanMoves, BeginMoves, CancelsMove, EventsMove,
       ReturnsMove, AuthorityMoves
<1>3. ASSUME NEW s \in Sessions, Delete(s) PROVE Moves
    BY <1>3, DeleteMoves
<1>4. CASE Restart
    BY <1>4, RestartMoves
<1> QED
    BY <1>1, <1>2, <1>3, <1>4 DEF Next

-----------------------------------------------------------------------------
(* The invariant is inductive.                                             *)

\* Nothing exists at first.
LEMMA InitOK == Init => IInv
BY ChatRunsAssumption DEF Init, IInv, ControlOK, OneLiveRun, Exclusive, ReservedIsFree,
                         DeletedIsQuiet, Live, Over, Execs, Calls

\* A Run that starts finds its Session without any execution.
LEMMA StartFindsSessionFree ==
    ASSUME IInv, NEW r \in Runs, Starting(r)
    PROVE  \A q \in Of(SessionOf[r]) : exec[q] = "none"
<1>1. SessionOf[r] \in Sessions /\ r # Nobody
    BY ChatRunsAssumption
<1> QED
    BY <1>1 DEF IInv, ReservedIsFree, Starting, Idle

\* Two Runs of a Session after a step: an execution of r leaves q none.
LEMMA ExclusiveKept ==
    ASSUME IInv, Moves, NEW q \in Runs, NEW r \in Runs,
           q # r, SessionOf[q] = SessionOf[r], exec'[r] # "none"
    PROVE  exec'[q] = "none" /\ status'[q] \notin Live
<1>1. RunMoves(q) /\ RunMoves(r)
    BY DEF Moves
<1>2. q \in Of(SessionOf[r]) /\ r \in Of(SessionOf[q]) /\ q \in Of(SessionOf[r]) \ {r}
    BY DEF Of
<1>3. CASE Starting(r)
    <2>1. exec[q] = "none"
        BY <1>2, <1>3, StartFindsSessionFree
    <2> QED
        BY <1>2, <1>3, <2>1 DEF Starting
<1>4. CASE ~Starting(r)
    <2>1. exec[r] # "none"
        BY <1>1, <1>4 DEF RunMoves
    <2>2. exec[q] = "none" /\ status[q] \notin Live
        BY <2>1 DEF IInv, Exclusive
    <2>3. ~Starting(q)
        BY <1>2, <2>1, StartFindsSessionFree
    <2> QED
        BY <1>1, <2>2, <2>3 DEF RunMoves, Live, Over
<1> QED
    BY <1>3, <1>4

\* They are never both alive.
LEMMA OneLiveRunKept ==
    ASSUME IInv, Moves, NEW q \in Runs, NEW r \in Runs,
           q # r, SessionOf[q] = SessionOf[r], status'[q] \in Live
    PROVE  status'[r] \notin Live
<1>1. RunMoves(q) /\ RunMoves(r)
    BY DEF Moves
<1>2. CASE exec'[q] # "none" \/ exec'[r] # "none"
    BY <1>2, ExclusiveKept
<1>3. CASE exec'[q] = "none" /\ exec'[r] = "none"
    <2>1. ~Starting(q) /\ ~Starting(r)
        BY <1>3 DEF Starting
    <2>2. /\ status'[q] \in Live => status[q] \in Live
          /\ status'[r] \in Live => status[r] \in Live
        BY <1>1, <2>1 DEF RunMoves, Live, Over
    <2> QED
        BY <2>2 DEF IInv, OneLiveRun
<1> QED
    BY <1>2, <1>3

\* In a deleted Session nothing moves any more.
LEMMA DeletedKept ==
    ASSUME IInv, Moves, NEW s \in retired'
    PROVE  /\ starting'[s] = Nobody
           /\ \A r \in Of(s) : /\ exec'[r] = "none"
                               /\ status'[r] = "gone"
                               /\ call'[r] \notin OpenCalls
<1>1. s \in Sessions /\ SessionMoves(s) /\ ReservationMoves(s)
    BY DEF Moves, ControlOK
<1>2. CASE s \in retired
    <2>1. /\ starting[s] = Nobody
          /\ \A r \in Of(s) : exec[r] = "none" /\ status[r] = "gone" /\ call[r] \notin OpenCalls
        BY <1>2 DEF IInv, DeletedIsQuiet, Idle, OpenCalls
    <2>2. starting'[s] = Nobody
        BY <1>1, <1>2, <2>1 DEF ReservationMoves
    <2>3. ASSUME NEW r \in Of(s)
          PROVE  exec'[r] = "none" /\ status'[r] = "gone" /\ call'[r] \notin OpenCalls
        <3>1. r \in Runs /\ SessionOf[r] = s
            BY DEF Of
        <3>2. RunMoves(r) /\ CallMoves(r)
            BY <3>1 DEF Moves
        <3>3. ~Starting(r)
            BY <1>2, <3>1 DEF Starting, Fresh
        <3> QED
            BY <2>1, <3>2, <3>3 DEF RunMoves, CallMoves, Live, Over
    <2> QED
        BY <2>2, <2>3
<1>3. CASE s \notin retired
    BY <1>1, <1>3 DEF SessionMoves, Idle
<1> QED
    BY <1>2, <1>3

\* Every step keeps the invariant.
LEMMA StepOK == ASSUME IInv, [Next]_vars PROVE IInv'
<1>1. Moves /\ ControlOK'
    BY StepMoves DEF IInv, Moves
<1>2. OneLiveRun'
    BY <1>1, OneLiveRunKept DEF OneLiveRun
<1>3. Exclusive'
    BY <1>1, ExclusiveKept DEF Exclusive
<1>4. ReservedIsFree'
    <2>1. ASSUME NEW s \in Sessions, starting'[s] # Nobody, NEW r \in Of(s)
          PROVE  exec'[r] = "none"
        <3>1. r \in Runs /\ SessionOf[r] = s
            BY DEF Of
        <3>2. RunMoves(r) /\ ReservationMoves(s)
            BY <1>1, <3>1 DEF Moves
        <3>3. ~Starting(r)
            BY <2>1, <3>1 DEF Starting
        <3>4. CASE starting'[s] = starting[s]
            <4>1. exec[r] = "none"
                BY <2>1, <3>4 DEF IInv, ReservedIsFree
            <4> QED
                BY <3>2, <3>3, <4>1 DEF RunMoves
        <3> QED
            BY <2>1, <3>2, <3>4 DEF ReservationMoves
    <2> QED
        BY <2>1 DEF ReservedIsFree, Of
<1>5. DeletedIsQuiet'
    BY <1>1, DeletedKept DEF DeletedIsQuiet, Idle, Of, OpenCalls
<1> QED
    BY <1>1, <1>2, <1>3, <1>4, <1>5 DEF IInv

-----------------------------------------------------------------------------
(* What a flush makes of a Part: the fold over the rows, unrolled.         *)

\* Every nonempty set of numbers has a least one, and so a set of numbers that
\* holds 0 and with each number the next one holds them all.
LEMMA LeastNumber ==
    ASSUME NEW T \in SUBSET Nat, T # {}
    PROVE  \E n \in T : \A m \in T : ~(m < n)
<1>1. IsWellFoundedOn(OpToRel(<, Nat), Nat)
    BY Zenon, NatLessThanWellFounded
<1>2. \E n \in T : \A m \in T : <<m, n>> \notin OpToRel(<, Nat)
    BY Zenon, <1>1, WFMin
<1>3. ASSUME NEW m \in Nat, NEW n \in Nat, m < n PROVE <<m, n>> \in OpToRel(<, Nat)
    BY Zenon, <1>3 DEF OpToRel
<1> QED
    BY Zenon, <1>2, <1>3

\* A set of numbers that holds 0, and with each number the next, holds them all.
LEMMA AllNumbers ==
    ASSUME NEW S, 0 \in S, \A n \in Nat : n \in S => n + 1 \in S
    PROVE  Nat \subseteq S
<1>1. SUFFICES ASSUME Nat \ S # {} PROVE FALSE
    OBVIOUS
<1>2. PICK n \in Nat \ S : \A m \in Nat \ S : ~(m < n)
    BY <1>1, LeastNumber
<1>3. n - 1 \in Nat /\ n - 1 < n /\ (n - 1) + 1 = n
    BY <1>2
<1> QED
    BY <1>2, <1>3

\* What the Part p becomes when the rows are projected onto it in their order.
Fold(p, rows) == FoldLeft(Projected, p, rows)

\* The function that FoldLeft chooses.
IsFold(f, p, rows, D) ==
    f = [t \in SUBSET D |-> IF t = {} THEN p ELSE Projected(f[t \ {Max(t)}], rows[Max(t)])]

\* The flush is what the chosen function says of all rows.
LEMMA FoldIs ==
    ASSUME NEW p, NEW rows
    PROVE  Fold(p, rows) = (CHOOSE f : IsFold(f, p, rows, DOMAIN rows))[DOMAIN rows]
BY DEF Fold, FoldLeft, MapThenFoldSet, IsFold

\* Of the first n + 1 numbers, those that hold n + 1 have it as their greatest.
LEMMA LastIsMax ==
    ASSUME NEW n \in Nat, NEW t \in SUBSET (1..(n + 1)), n + 1 \in t
    PROVE  Max(t) = n + 1
<1>1. \A x \in t : (\A y \in t : x >= y) <=> x = n + 1
    OBVIOUS
<1>2. Max(t) = CHOOSE x \in t : \A y \in t : x >= y
    BY DEF Max
<1> QED
    BY <1>1, <1>2

\* There is such a function, for any number of rows ...
LEMMA FoldExists ==
    ASSUME NEW p, NEW rows
    PROVE  \A n \in Nat : \E f : IsFold(f, p, rows, 1..n)
<1> DEFINE S == {n \in Nat : \E f : IsFold(f, p, rows, 1..n)}
<1>1. 0 \in S
    <2> DEFINE g == [t \in SUBSET (1..0) |-> p]
    <2>1. \A t \in SUBSET (1..0) : t = {}
        OBVIOUS
    <2>2. IsFold(g, p, rows, 1..0)
        BY <2>1 DEF IsFold
    <2> QED
        BY <2>2
<1>2. ASSUME NEW n \in Nat, n \in S PROVE n + 1 \in S
    <2>1. PICK f : IsFold(f, p, rows, 1..n)
        BY <1>2
    <2> DEFINE g == [t \in SUBSET (1..(n + 1)) |->
                        IF n + 1 \in t THEN Projected(f[t \ {n + 1}], rows[n + 1]) ELSE f[t]]
    <2>2. ASSUME NEW t \in SUBSET (1..(n + 1))
          PROVE  g[t] = IF t = {} THEN p ELSE Projected(g[t \ {Max(t)}], rows[Max(t)])
        <3>1. CASE n + 1 \in t
            <4>1. Max(t) = n + 1 /\ t # {}
                BY <3>1, LastIsMax
            <4>2. t \ {n + 1} \in SUBSET (1..(n + 1)) /\ n + 1 \notin t \ {n + 1}
                OBVIOUS
            <4> QED
                BY <3>1, <4>1, <4>2
        <3>2. CASE n + 1 \notin t
            <4>1. t \in SUBSET (1..n)
                BY <3>2
            <4>2. g[t] = f[t]
                BY <3>2
            <4>3. f[t] = IF t = {} THEN p ELSE Projected(f[t \ {Max(t)}], rows[Max(t)])
                BY <2>1, <4>1 DEF IsFold
            <4>4. t \ {Max(t)} \in SUBSET (1..(n + 1)) /\ n + 1 \notin t \ {Max(t)}
                BY <3>2
            <4>5. g[t \ {Max(t)}] = f[t \ {Max(t)}]
                BY <4>4
            <4> QED
                BY <4>2, <4>3, <4>5
        <3> QED
            BY <3>1, <3>2
    <2>3. IsFold(g, p, rows, 1..(n + 1))
        BY <2>2 DEF IsFold
    <2> QED
        BY <2>3
<1> HIDE DEF S
<1>3. Nat \subseteq S
    BY <1>1, <1>2, AllNumbers
<1> QED
    BY <1>3 DEF S

\* ... and it is one row further with each row.
Unrolls(f, p, rows, n) ==
    /\ f[{}] = p
    /\ \A k \in Nat : k + 1 <= n => f[1..(k + 1)] = Projected(f[1..k], rows[k + 1])

\* Such a function takes one row after the other.
LEMMA FoldUnrolled ==
    ASSUME NEW p, NEW rows, NEW n \in Nat, NEW f, IsFold(f, p, rows, 1..n)
    PROVE  Unrolls(f, p, rows, n)
<1>1. f[{}] = p
    BY DEF IsFold
<1>2. ASSUME NEW k \in Nat, k + 1 <= n
      PROVE  f[1..(k + 1)] = Projected(f[1..k], rows[k + 1])
    <2>1. 1..(k + 1) \in SUBSET (1..n) /\ k + 1 \in 1..(k + 1)
        BY <1>2
    <2>2. Max(1..(k + 1)) = k + 1
        BY <2>1, LastIsMax
    <2>3. (1..(k + 1)) \ {k + 1} = 1..k
        OBVIOUS
    <2> QED
        BY <2>1, <2>2, <2>3 DEF IsFold
<1> QED
    BY <1>1, <1>2 DEF Unrolls

\* The flush as the sequence of its steps.
LEMMA FoldSteps ==
    ASSUME NEW p, NEW X, NEW rows \in Seq(X)
    PROVE  \E f : Unrolls(f, p, rows, Len(rows)) /\ Fold(p, rows) = f[1..Len(rows)]
<1>1. Len(rows) \in Nat /\ DOMAIN rows = 1..Len(rows)
    OBVIOUS
<1>2. \E f : IsFold(f, p, rows, 1..Len(rows))
    BY <1>1, FoldExists
<1>3. PICK f : /\ f = CHOOSE g : IsFold(g, p, rows, 1..Len(rows))
               /\ IsFold(f, p, rows, 1..Len(rows))
    BY <1>2
<1>4. Fold(p, rows) = f[1..Len(rows)]
    BY <1>1, <1>3, FoldIs
<1>5. Unrolls(f, p, rows, Len(rows))
    BY <1>1, <1>3, FoldUnrolled
<1> QED
    BY <1>4, <1>5

\* No row, no change; one row more is projected last.
LEMMA FoldNothing == \A p : Fold(p, <<>>) = p
<1> SUFFICES ASSUME NEW p PROVE Fold(p, <<>>) = p
    OBVIOUS
<1>1. <<>> \in Seq(Tools) /\ Len(<<>>) = 0 /\ 1..0 = {}
    OBVIOUS
<1>2. PICK f : Unrolls(f, p, <<>>, Len(<<>>)) /\ Fold(p, <<>>) = f[1..Len(<<>>)]
    BY <1>1, FoldSteps
<1> QED
    BY <1>1, <1>2 DEF Unrolls

\* The row that was appended is projected last.
LEMMA FoldAppend ==
    ASSUME NEW p, NEW X, NEW rows \in Seq(X), NEW row \in X
    PROVE  Fold(p, Append(rows, row)) = Projected(Fold(p, rows), row)
<1>1. PICK n, more : n = Len(rows) /\ more = Append(rows, row)
    OBVIOUS
<1>2. /\ n \in Nat /\ more \in Seq(X) /\ Len(more) = n + 1
      /\ more[n + 1] = row /\ \A i \in 1..n : more[i] = rows[i]
    BY <1>1
<1>3. PICK f : Unrolls(f, p, rows, n) /\ Fold(p, rows) = f[1..n]
    BY <1>1, FoldSteps
<1>4. PICK h : Unrolls(h, p, more, n + 1) /\ Fold(p, more) = h[1..(n + 1)]
    BY <1>2, FoldSteps
<1> DEFINE S == {k \in Nat : k <= n => h[1..k] = f[1..k]}
<1>5. 0 \in S
    <2>1. 1..0 = {}
        OBVIOUS
    <2> QED
        BY <1>3, <1>4, <2>1 DEF Unrolls
<1>6. ASSUME NEW k \in Nat, k \in S PROVE k + 1 \in S
    <2>1. SUFFICES ASSUME k + 1 <= n PROVE h[1..(k + 1)] = f[1..(k + 1)]
        OBVIOUS
    <2>2. k <= n /\ k + 1 <= n + 1 /\ k + 1 \in 1..n
        BY <1>2, <2>1
    <2>3. h[1..k] = f[1..k]
        BY <1>6, <2>2
    <2>4. h[1..(k + 1)] = Projected(h[1..k], more[k + 1])
        BY <1>4, <2>2 DEF Unrolls
    <2>5. f[1..(k + 1)] = Projected(f[1..k], rows[k + 1])
        BY <1>3, <2>1 DEF Unrolls
    <2>6. more[k + 1] = rows[k + 1]
        BY <1>2, <2>2
    <2> QED
        BY <2>3, <2>4, <2>5, <2>6
<1>7. n \in S
    <2> HIDE DEF S
    <2> QED
        BY <1>2, <1>5, <1>6, AllNumbers
<1>8. h[1..(n + 1)] = Projected(h[1..n], more[n + 1])
    BY <1>2, <1>4 DEF Unrolls
<1> QED
    BY <1>1, <1>2, <1>3, <1>4, <1>7, <1>8

\* What every row keeps, the flush keeps.
LEMMA FoldKeeps ==
    ASSUME NEW A, NEW p \in A, NEW X, NEW rows \in Seq(X),
           \A a \in A : \A i \in 1..Len(rows) : Projected(a, rows[i]) \in A
    PROVE  Fold(p, rows) \in A
<1>1. PICK n : n = Len(rows) /\ n \in Nat
    OBVIOUS
<1>2. PICK f : Unrolls(f, p, rows, n) /\ Fold(p, rows) = f[1..n]
    BY <1>1, FoldSteps
<1> DEFINE S == {k \in Nat : k <= n => f[1..k] \in A}
<1>3. 0 \in S
    <2>1. 1..0 = {}
        OBVIOUS
    <2> QED
        BY <1>2, <2>1 DEF Unrolls
<1>4. ASSUME NEW k \in Nat, k \in S PROVE k + 1 \in S
    <2>1. SUFFICES ASSUME k + 1 <= n PROVE f[1..(k + 1)] \in A
        OBVIOUS
    <2>2. k <= n /\ k + 1 \in 1..n
        BY <1>1, <2>1
    <2>3. f[1..(k + 1)] = Projected(f[1..k], rows[k + 1])
        BY <1>2, <2>1 DEF Unrolls
    <2> QED
        BY <1>1, <1>4, <2>2, <2>3
<1>5. n \in S
    <2> HIDE DEF S
    <2> QED
        BY <1>1, <1>3, <1>4, AllNumbers
<1> QED
    BY <1>1, <1>2, <1>5

-----------------------------------------------------------------------------
(* The truth about a call.                                                 *)

Rows == [by : {"approval", "action"}, to : Tools \ {"absent"}]

\* Of a Part, the rows that wait for it and what the authorities know: neither
\* the Part nor what a flush would make of it claims what is not so, and a Part
\* that runs only waits for the row that says how it ended.
Good(t, o, c) ==
    /\ t \in Tools /\ o \in Seq(Rows) /\ c \in Calls
    /\ \A i \in 1..Len(o) : /\ o[i].to = "completed" => c = "completed"
                            /\ o[i].to = "denied" => c = "denied"
    /\ t = "completed" => c = "completed"
    /\ t = "denied" => c = "denied"
    /\ Fold(t, o) = "running" => c = "running"
    /\ Fold(t, o) = "outcome_unknown" => c \in {"running", "outcome_unknown"}
    /\ t \in {"running", "outcome_unknown"} /\ o # <<>> =>
           c \in Outcomes /\ o[Len(o)] = Row("action", c)
    /\ t = "absent" => o = <<>> /\ c \notin OpenCalls

\* A row and the change of the call it tells of.
Told(c, row, d) ==
    \/ c = "none" /\ d = "waiting" /\ row = Row("approval", "waiting_approval")
    \/ c = "none" /\ d = "approved" /\ row = Row("approval", "queued")
    \/ c = "waiting" /\ d = "denied" /\ row = Row("approval", "denied")
    \/ c = "waiting" /\ d = "abandoned" /\ row = Row("approval", "cancelled")
    \/ c = "approved" /\ d = "running" /\ row = Row("action", "running")
    \/ c = "approved" /\ d = "cancelled" /\ row = Row("action", "cancelled")
    \/ c \in {"running", "outcome_unknown"} /\ d \in Outcomes /\ row = Row("action", d)

\* A change of the call that no row tells of.
Untold(c, d) ==
    \/ c \in {"none", "waiting"} /\ d = "approved"
    \/ c \in {"waiting", "approved"} /\ d = "abandoned"

\* A settled Part whose outcome is known is not changed by any flush.
LEMMA FoldSettled ==
    ASSUME NEW t \in Settled \ {"outcome_unknown"}, NEW o \in Seq(Rows)
    PROVE  Fold(t, o) = t
<1>1. \A a \in {t} : \A i \in 1..Len(o) : Projected(a, o[i]) \in {t}
    BY DEF Projected, Takes, Settled
<1>2. t \in {t}
    OBVIOUS
<1>3. Fold(t, o) \in {t}
    BY <1>1, <1>2, FoldKeeps
<1> QED
    BY <1>3

\* A flush makes of a Part what it is or what a row says.
LEMMA FoldIsTold ==
    ASSUME NEW t, NEW o \in Seq(Rows)
    PROVE  Fold(t, o) = t \/ \E i \in 1..Len(o) : Fold(t, o) = o[i].to
<1> DEFINE A == {t} \union {o[i].to : i \in 1..Len(o)}
<1>1. \A a \in A : \A i \in 1..Len(o) : Projected(a, o[i]) \in A
    BY DEF Projected
<1>2. t \in A
    OBVIOUS
<1>3. Fold(t, o) \in A
    <2> HIDE DEF A
    <2> QED
        BY <1>1, <1>2, FoldKeeps
<1> QED
    BY <1>3

\* A flush makes a Part of a Part, and none disappears.
LEMMA FoldType ==
    ASSUME NEW t \in Tools, NEW o \in Seq(Rows)
    PROVE  Fold(t, o) \in Tools /\ (t # "absent" => Fold(t, o) # "absent")
<1>1. \A i \in 1..Len(o) : o[i] \in Rows
    OBVIOUS
<1>2. \A i \in 1..Len(o) : o[i].to \in Tools /\ o[i].to # "absent"
    BY <1>1 DEF Rows
<1> QED
    BY <1>2, FoldIsTold

\* Where the last row says how the call ended, the flush knows it, or the Part
\* was settled before.
LEMMA FoldLast ==
    ASSUME NEW t, NEW o \in Seq(Rows), o # <<>>, NEW c \in Outcomes,
           o[Len(o)] = Row("action", c)
    PROVE  Fold(t, o) \in {c} \union (Settled \ {"outcome_unknown"})
<1>1. PICK front \in Seq(Rows), row \in Rows : o = Append(front, row)
    BY SequenceEmptyOrAppend
<1>2. row = Row("action", c)
    BY <1>1
<1>3. Fold(t, o) = Projected(Fold(t, front), Row("action", c))
    BY <1>1, <1>2, FoldAppend
<1> QED
    BY <1>3 DEF Projected, Takes, Row, Outcomes, Settled

\* The claims of what a flush makes of a good Part are true.
LEMMA FoldTrue ==
    ASSUME NEW t, NEW o, NEW c, Good(t, o, c)
    PROVE  /\ Fold(t, o) = "completed" => c = "completed"
           /\ Fold(t, o) = "denied" => c = "denied"
BY FoldIsTold DEF Good

\* The flush of a good Part is good.
LEMMA GoodFlush ==
    ASSUME NEW t, NEW o, NEW c, Good(t, o, c)
    PROVE  Good(Fold(t, o), <<>>, c)
<1>1. t \in Tools /\ o \in Seq(Rows) /\ c \in Calls
    BY DEF Good
<1>2. PICK x : x = Fold(t, o)
    OBVIOUS
<1>3. x \in Tools /\ (x = "absent" => t = "absent")
    BY <1>1, <1>2, FoldType
<1>4. Fold(x, <<>>) = x
    BY FoldNothing
<1>5. <<>> \in Seq(Rows) /\ Len(<<>>) = 0
    OBVIOUS
<1>6. x = "completed" => c = "completed"
    BY <1>2, FoldTrue
<1>7. x = "denied" => c = "denied"
    BY <1>2, FoldTrue
<1>8. Good(x, <<>>, c)
    BY <1>1, <1>2, <1>3, <1>4, <1>5, <1>6, <1>7 DEF Good
<1> QED
    BY <1>2, <1>8

\* A row that tells of a change of the call leaves the Part good.
LEMMA GoodTold ==
    ASSUME NEW t, NEW o, NEW c, NEW row, NEW d, Good(t, o, c), t # "absent", Told(c, row, d)
    PROVE  Good(t, Append(o, row), d)
<1>1. /\ t \in Tools /\ o \in Seq(Rows) /\ c \in Calls
      /\ row \in Rows /\ d \in Calls
    BY DEF Good, Told, Row, Rows, Tools, Settled, Outcomes, Calls
<1>2. PICK p : p = Append(o, row)
    OBVIOUS
<1>3. /\ p \in Seq(Rows) /\ Len(p) = Len(o) + 1 /\ p # <<>>
      /\ p[Len(p)] = row /\ \A i \in 1..Len(p) : (i \in 1..Len(o) /\ p[i] = o[i]) \/ p[i] = row
    BY <1>1, <1>2
<1>4. Fold(t, p) = Projected(Fold(t, o), row)
    BY <1>1, <1>2, FoldAppend
<1>5. \A i \in 1..Len(p) : /\ p[i].to = "completed" => d = "completed"
                           /\ p[i].to = "denied" => d = "denied"
    <2>1. \A i \in 1..Len(o) : o[i].to # "completed" /\ o[i].to # "denied"
        BY DEF Good, Told
    <2>2. (row.to = "completed" => d = "completed") /\ (row.to = "denied" => d = "denied")
        BY DEF Told, Row
    <2> QED
        BY <1>3, <2>1, <2>2
<1>6. t # "completed" /\ t # "denied"
    BY DEF Good, Told
<1>7. Fold(t, p) = "running" => d = "running"
    BY <1>4 DEF Good, Told, Projected, Takes, Row, Settled, Outcomes
<1>8. Fold(t, p) = "outcome_unknown" => d \in {"running", "outcome_unknown"}
    BY <1>4 DEF Good, Told, Projected, Takes, Row, Settled, Outcomes
<1>9. t \in {"running", "outcome_unknown"} => d \in Outcomes /\ p[Len(p)] = Row("action", d)
    <2>1. SUFFICES ASSUME t \in {"running", "outcome_unknown"}
                   PROVE  d \in Outcomes /\ p[Len(p)] = Row("action", d)
        OBVIOUS
    <2>2. c \in {"running", "outcome_unknown"}
        <3>1. CASE o = <<>>
            BY <2>1, <3>1, FoldNothing DEF Good
        <3>2. CASE o # <<>>
            BY <2>1, <3>2 DEF Good, Told, Outcomes
        <3> QED
            BY <3>1, <3>2
    <2> QED
        BY <1>3, <2>2 DEF Told
<1>10. Good(t, p, d)
    BY <1>1, <1>3, <1>5, <1>6, <1>7, <1>8, <1>9 DEF Good
<1> QED
    BY <1>2, <1>10

\* So does a change of the call that no row tells of.
LEMMA GoodUntold ==
    ASSUME NEW t, NEW o, NEW c, NEW d, Good(t, o, c), t # "absent" \/ d = "abandoned", Untold(c, d)
    PROVE  Good(t, o, d)
BY DEF Good, Untold, Calls, Outcomes, OpenCalls

\* Ending a Part leaves it good.
LEMMA GoodEnd ==
    ASSUME NEW t, NEW o, NEW c, NEW reason, Good(t, o, c)
    PROVE  Good(ToolEnd(t, reason), o, c)
<1>1. t \in Tools /\ o \in Seq(Rows) /\ c \in Calls
    BY DEF Good
<1>2. CASE ToolEnd(t, reason) = t
    BY <1>2
<1>3. CASE ToolEnd(t, reason) = "cancelled"
    <2>1. Fold("cancelled", o) = "cancelled"
        BY <1>1, FoldSettled DEF Settled
    <2>2. t # "absent" /\ "cancelled" \in Tools
        BY <1>3 DEF ToolEnd, Tools, Settled
    <2>3. Good("cancelled", o, c)
        BY <2>1, <2>2 DEF Good
    <2> QED
        BY <1>3, <2>3
<1>4. CASE t = "running" /\ ToolEnd(t, reason) = "outcome_unknown"
    <2>1. CASE o = <<>>
        <3>1. Fold("running", o) = "running" /\ Fold("outcome_unknown", o) = "outcome_unknown"
            BY <2>1, FoldNothing
        <3>2. c = "running"
            BY <1>4, <3>1 DEF Good
        <3>3. Good("outcome_unknown", o, c)
            BY <1>1, <2>1, <3>1, <3>2 DEF Good, Tools, Settled
        <3> QED
            BY <1>4, <3>3
    <2>2. CASE o # <<>>
        <3>1. c \in Outcomes /\ o[Len(o)] = Row("action", c)
            BY <1>4, <2>2 DEF Good
        <3>2. PICK x : x = Fold("outcome_unknown", o) /\ x \in {c} \union (Settled \ {"outcome_unknown"})
            BY <1>1, <2>2, <3>1, FoldLast
        <3>3. /\ x = "running" => c = "running"
              /\ x = "outcome_unknown" => c \in {"running", "outcome_unknown"}
            BY <3>2 DEF Settled
        <3>4. Good("outcome_unknown", o, c)
            BY <1>1, <3>1, <3>2, <3>3 DEF Good, Tools, Settled
        <3> QED
            BY <1>4, <3>4
    <2> QED
        BY <2>1, <2>2
<1> QED
    BY <1>2, <1>3, <1>4 DEF ToolEnd

-----------------------------------------------------------------------------
(* All Parts, and the steps on them.                                       *)

GoodAll(tools, rows, calls) ==
    /\ tools \in [Runs -> Tools] /\ rows \in [Runs -> Seq(Rows)] /\ calls \in [Runs -> Calls]
    /\ \A q \in Runs : Good(tools[q], rows[q], calls[q])

PartInv == GoodAll(tool, outbox, call)

\* One Run's Part, rows and call change.
LEMMA GoodOne ==
    ASSUME NEW tools, NEW rows, NEW calls, GoodAll(tools, rows, calls),
           NEW r \in Runs, NEW x, NEW o, NEW c, Good(x, o, c)
    PROVE  GoodAll([tools EXCEPT ![r] = x], [rows EXCEPT ![r] = o], [calls EXCEPT ![r] = c])
<1>1. x \in Tools /\ o \in Seq(Rows) /\ c \in Calls
    BY DEF Good
<1>2. PICK t, p, d : /\ t = [tools EXCEPT ![r] = x]
                     /\ p = [rows EXCEPT ![r] = o]
                     /\ d = [calls EXCEPT ![r] = c]
    OBVIOUS
<1>3. t \in [Runs -> Tools] /\ p \in [Runs -> Seq(Rows)] /\ d \in [Runs -> Calls]
    BY <1>1, <1>2 DEF GoodAll
<1>4. \A q \in Runs : Good(t[q], p[q], d[q])
    BY <1>2 DEF GoodAll
<1> QED
    BY <1>2, <1>3, <1>4 DEF GoodAll

\* Only the Part changes.
LEMMA GoodPart ==
    ASSUME NEW tools, NEW rows, NEW calls, GoodAll(tools, rows, calls),
           NEW r \in Runs, NEW x, Good(x, rows[r], calls[r])
    PROVE  GoodAll([tools EXCEPT ![r] = x], rows, calls)
<1>1. rows = [rows EXCEPT ![r] = rows[r]] /\ calls = [calls EXCEPT ![r] = calls[r]]
    BY DEF GoodAll
<1> QED
    BY <1>1, GoodOne

\* Only the call changes.
LEMMA GoodCall ==
    ASSUME NEW tools, NEW rows, NEW calls, GoodAll(tools, rows, calls),
           NEW r \in Runs, NEW c, Good(tools[r], rows[r], c)
    PROVE  GoodAll(tools, rows, [calls EXCEPT ![r] = c])
<1>1. rows = [rows EXCEPT ![r] = rows[r]] /\ tools = [tools EXCEPT ![r] = tools[r]]
    BY DEF GoodAll
<1> QED
    BY <1>1, GoodOne

\* The call changes and a row tells of it.
LEMMA GoodRow ==
    ASSUME NEW tools, NEW rows, NEW calls, GoodAll(tools, rows, calls),
           NEW r \in Runs, NEW row, NEW c, tools[r] # "absent", Told(calls[r], row, c)
    PROVE  GoodAll(tools, [rows EXCEPT ![r] = Append(@, row)], [calls EXCEPT ![r] = c])
<1>1. Good(tools[r], Append(rows[r], row), c)
    BY GoodTold DEF GoodAll
<1>2. tools = [tools EXCEPT ![r] = tools[r]]
    BY DEF GoodAll
<1>3. GoodAll([tools EXCEPT ![r] = tools[r]], [rows EXCEPT ![r] = Append(rows[r], row)],
              [calls EXCEPT ![r] = c])
    BY <1>1, GoodOne
<1> QED
    BY <1>2, <1>3

\* A flush of all rows there are.
LEMMA GoodDrained ==
    ASSUME NEW rows, GoodAll(tool, rows, call')
    PROVE  GoodAll(Drained(rows), Empty, call')
<1>1. Drained(rows) = [q \in Runs |-> Fold(tool[q], rows[q])]
    BY DEF Drained, Fold
<1>2. \A q \in Runs : Good(Fold(tool[q], rows[q]), <<>>, call'[q])
    BY GoodFlush DEF GoodAll
<1>3. Empty \in [Runs -> Seq(Rows)]
    BY DEF Empty
<1>4. Drained(rows) \in [Runs -> Tools]
    BY <1>1, <1>2 DEF Good
<1> QED
    BY <1>1, <1>2, <1>3, <1>4 DEF GoodAll, Empty

\* Whether the flush succeeds or fails.
LEMMA GoodFlushed ==
    ASSUME NEW rows, GoodAll(tool, rows, call'), NEW f \in Flushed(rows)
    PROVE  GoodAll(f.tool, f.outbox, call')
<1>1. CASE f = [tool |-> Drained(rows), outbox |-> Empty, cost |-> 0]
    BY <1>1, GoodDrained
<1>2. CASE f = [tool |-> tool, outbox |-> rows, cost |-> 1]
    BY <1>2
<1> QED
    BY <1>1, <1>2 DEF Flushed

\* An authority's commit and its flush.
LEMMA GoodTells ==
    ASSUME NEW rows, GoodAll(tool, rows, call'), Tells(rows)
    PROVE  PartInv'
<1>1. PICK f \in Flushed(rows) : tool' = f.tool /\ outbox' = f.outbox
    BY DEF Tells
<1> QED
    BY <1>1, GoodFlushed DEF PartInv

\* Ending what is left of a Part, all of it or partly.
LEMMA GoodInterrupts ==
    ASSUME NEW tools, NEW rows, NEW calls, GoodAll(tools, rows, calls), NEW r \in Runs, NEW reason,
           Interrupts(r, tools, reason) \/ InterruptsPartly(r, tools, reason)
    PROVE  GoodAll(tool', rows, calls)
<1>1. PICK x \in {tools[r], ToolEnd(tools[r], reason)} : tool' = [tools EXCEPT ![r] = x]
    <2>1. CASE Interrupts(r, tools, reason)
        BY <2>1 DEF Interrupts, ToolPart
    <2>2. CASE InterruptsPartly(r, tools, reason)
        <3>1. PICK p \in Partly(r, tools[r], reason) : tool' = [tools EXCEPT ![r] = p[2]]
            BY <2>2 DEF InterruptsPartly, ToolPart
        <3>2. p[2] \in {tools[r], ToolEnd(tools[r], reason)}
            BY <3>1 DEF Partly
        <3> QED
            BY <3>1, <3>2
    <2> QED
        BY <2>1, <2>2
<1>2. Good(x, rows[r], calls[r])
    BY GoodEnd DEF GoodAll
<1> QED
    BY <1>1, <1>2, GoodPart

\* Ending the Parts of orphans.
LEMMA GoodFinal ==
    ASSUME PartInv, NEW O \in SUBSET Runs
    PROVE  GoodAll(FinalTool(O), outbox, call)
<1>1. \A q \in Runs : Good(FinalTool(O)[q], outbox[q], call[q])
    BY GoodEnd DEF PartInv, GoodAll, FinalTool
<1>2. FinalTool(O) \in [Runs -> Tools]
    BY <1>1 DEF Good, FinalTool
<1> QED
    BY <1>1, <1>2 DEF PartInv, GoodAll

\* The abort of a call that waits for its approval.
LEMMA GoodAbort ==
    ASSUME PartInv, NEW r \in Runs, call' = CallAborted(r), NEW a \in AfterAbort(r)
    PROVE  GoodAll(a.tool, a.outbox, call')
<1>1. CASE Abandoned(r)
    <2>1. a \in Flushed(With(r, Row("approval", "cancelled")))
        BY <1>1 DEF AfterAbort
    <2>2. call' = [call EXCEPT ![r] = "abandoned"]
        BY <1>1 DEF CallAborted
    <2>3. Told(call[r], Row("approval", "cancelled"), "abandoned") /\ tool[r] # "absent"
        BY <1>1 DEF Abandoned, Told, PartInv, GoodAll, Good, OpenCalls
    <2>4. GoodAll(tool, With(r, Row("approval", "cancelled")), call')
        <3>1. GoodAll(tool, [outbox EXCEPT ![r] = Append(@, Row("approval", "cancelled"))],
                      [call EXCEPT ![r] = "abandoned"])
            BY <2>3, GoodRow DEF PartInv
        <3> QED
            BY <2>2, <3>1 DEF With
    <2> QED
        BY <2>1, <2>4, GoodFlushed
<1>2. CASE ~Abandoned(r)
    BY <1>2 DEF AfterAbort, CallAborted, NotFlushed, PartInv
<1> QED
    BY <1>1, <1>2

-----------------------------------------------------------------------------
(* Every step leaves all Parts good.                                       *)

\* A step that changes no Part, no row and no call.
LEMMA UntouchedGood == ASSUME PartInv, UNCHANGED <<tool, outbox, call>> PROVE PartInv'
BY DEF PartInv

\* Starting a Run ends the Parts of orphans at most.
LEMMA StartsGood == ASSUME PartInv, NEW r \in Runs, Starts(r) PROVE PartInv'
<1>1. CASE Send(r) \/ StartReserved(r)
    <2>1. tool' = FinalTool(Orphans(SessionOf[r])) /\ UNCHANGED <<outbox, call>>
        BY <1>1 DEF Send, StartReserved, Start
    <2>2. Orphans(SessionOf[r]) \in SUBSET Runs
        BY DEF Orphans, Of
    <2> QED
        BY <2>1, <2>2, GoodFinal DEF PartInv
<1>2. CASE Reserve(r)
    BY <1>2, UntouchedGood DEF Reserve, parts
<1>3. CASE StartRefused(r)
    <2>1. PICK O \in {{}, Orphans(SessionOf[r])} : tool' = FinalTool(O)
        BY <1>3 DEF StartRefused, Finalize
    <2>2. O \in SUBSET Runs
        BY <2>1 DEF Orphans, Of
    <2> QED
        BY <1>3, <2>1, <2>2, GoodFinal DEF PartInv, StartRefused
<1>4. CASE StartFails(r)
    <2>1. PICK q \in Orphans(SessionOf[r]) : InterruptsPartly(q, tool, OrphanEnd(q))
        BY <1>4 DEF StartFails, FinalizeFails
    <2>2. q \in Runs
        BY <2>1 DEF Orphans, Of
    <2> QED
        BY <1>4, <2>1, <2>2, GoodInterrupts DEF PartInv, StartFails
<1> QED
    BY <1>1, <1>2, <1>3, <1>4 DEF Starts

\* Whoever meets an orphan ends its Part.
LEMMA FinalizeOrphanGood == ASSUME PartInv, NEW r \in Runs, FinalizeOrphan(r) PROVE PartInv'
<1>1. UNCHANGED <<outbox, call>>
    BY DEF FinalizeOrphan
<1>2. CASE Finalize({r})
    BY <1>1, <1>2, GoodFinal DEF Finalize, PartInv
<1>3. CASE FinalizeFails(r, OrphanEnd(r))
    BY <1>1, <1>3, GoodInterrupts DEF FinalizeFails, PartInv
<1> QED
    BY <1>2, <1>3 DEF FinalizeOrphan

\* The runtime's events: a Part is created, or settled by what the call says.
LEMMA EventsGood == ASSUME PartInv, NEW r \in Runs, Events(r) PROVE PartInv'
<1>1. CASE TextStarted(r) \/ TextCompleted(r) \/ TextOverflow(r)
    BY <1>1, UntouchedGood DEF TextStarted, TextCompleted, TextOverflow
<1>2. Good(tool[r], outbox[r], call[r])
    BY DEF PartInv, GoodAll
<1>3. CASE ToolCreated(r)
    <2>1. tool' = [tool EXCEPT ![r] = "queued"] /\ tool[r] = "absent" /\ UNCHANGED <<outbox, call>>
        BY <1>3 DEF ToolCreated, ToolPart
    <2>2. outbox[r] = <<>>
        BY <1>2, <2>1 DEF Good
    <2>3. Good("queued", outbox[r], call[r])
        BY <1>2, <2>2, FoldNothing DEF Good, Tools
    <2> QED
        BY <2>1, <2>3, GoodPart DEF PartInv
<1>4. CASE ToolEnded(r)
    <2>1. PICK x \in {"completed", "failed"} :
              /\ tool' = [tool EXCEPT ![r] = x]
              /\ x = "completed" => call[r] = "completed"
        BY <1>4 DEF ToolEnded, ToolPart
    <2>2. UNCHANGED <<outbox, call>> /\ tool[r] # "absent"
        BY <1>4 DEF ToolEnded
    <2>3. x \in Settled \ {"outcome_unknown"} /\ x \in Tools /\ x # "absent"
        BY DEF Settled, Tools
    <2>4. Fold(x, outbox[r]) = x
        BY <1>2, <2>3, FoldSettled DEF Good
    <2>5. Good(x, outbox[r], call[r])
        BY <1>2, <2>1, <2>2, <2>3, <2>4 DEF Good
    <2> QED
        BY <2>1, <2>2, <2>5, GoodPart DEF PartInv
<1> QED
    BY <1>1, <1>3, <1>4 DEF Events

\* The end of an execution: the abort of the call, and the end of the Part.
LEMMA ReturnsGood == ASSUME PartInv, NEW r \in Runs, Returns(r) PROVE PartInv'
<1>1. CASE Complete(r) \/ Release(r)
    BY <1>1, UntouchedGood DEF Complete, Release, parts
<1>2. CASE Fail(r)
    <2>1. PICK a \in AfterAbort(r) :
              /\ outbox' = a.outbox
              /\ Interrupts(r, a.tool, "failed") \/ InterruptsPartly(r, a.tool, "failed")
        BY <1>2 DEF Fail
    <2>2. GoodAll(a.tool, a.outbox, call')
        BY <1>2, GoodAbort DEF Fail
    <2> QED
        BY <2>1, <2>2, GoodInterrupts DEF PartInv
<1>3. CASE FencedEnd(r)
    <2>1. /\ UNCHANGED <<outbox, call>>
          /\ \E reason \in {"cancelled", "failed"} :
                 Interrupts(r, tool, reason) \/ InterruptsPartly(r, tool, reason)
        BY <1>3 DEF FencedEnd
    <2> QED
        BY <2>1, GoodInterrupts DEF PartInv
<1>4. CASE ReportsCancelled(r)
    <2>1. PICK a \in AfterAbort(r) :
              /\ outbox' = a.outbox
              /\ Interrupts(r, a.tool, "cancelled") \/ InterruptsPartly(r, a.tool, "cancelled")
        BY <1>4 DEF ReportsCancelled
    <2>2. GoodAll(a.tool, a.outbox, call')
        BY <1>4, GoodAbort DEF ReportsCancelled
    <2> QED
        BY <2>1, <2>2, GoodInterrupts DEF PartInv
<1> QED
    BY <1>1, <1>2, <1>3, <1>4 DEF Returns

\* The user's cancellation.
LEMMA CancelsGood == ASSUME PartInv, NEW r \in Runs, Cancels(r) PROVE PartInv'
<1>1. CASE Cancel(r) \/ CancelFails(r)
    <2>1. PICK a \in AfterAbort(r) :
              /\ outbox' = a.outbox
              /\ Interrupts(r, a.tool, "cancelled") \/ InterruptsPartly(r, a.tool, "cancelled")
        BY <1>1 DEF Cancel, CancelFails
    <2>2. GoodAll(a.tool, a.outbox, call')
        BY <1>1, GoodAbort DEF Cancel, CancelFails
    <2> QED
        BY <2>1, <2>2, GoodInterrupts DEF PartInv
<1>2. CASE CancelOrphan(r)
    <2>1. /\ UNCHANGED <<outbox, call>>
          /\ Interrupts(r, tool, "cancelled") \/ InterruptsPartly(r, tool, "cancelled")
        BY <1>2 DEF CancelOrphan
    <2> QED
        BY <2>1, GoodInterrupts DEF PartInv
<1> QED
    BY <1>1, <1>2 DEF Cancels

\* A call changes and a row tells of it.
LEMMA TellsGood ==
    ASSUME PartInv, NEW r \in Runs, NEW row, NEW c,
           call' = [call EXCEPT ![r] = c], tool[r] # "absent", Told(call[r], row, c),
           Tells(With(r, row))
    PROVE  PartInv'
<1>1. GoodAll(tool, With(r, row), call')
    BY GoodRow DEF With, PartInv
<1> QED
    BY <1>1, GoodTells

\* A call changes and no row tells of it.
LEMMA UntoldGood ==
    ASSUME PartInv, NEW r \in Runs, NEW c, call' = [call EXCEPT ![r] = c],
           tool[r] # "absent", Untold(call[r], c)
    PROVE  GoodAll(tool, outbox, call')
<1>1. Good(tool[r], outbox[r], c)
    BY GoodUntold DEF PartInv, GoodAll
<1> QED
    BY <1>1, GoodCall DEF PartInv

\* The authorities: each change of the call has its row, or needs none.
LEMMA AuthorityGood == ASSUME PartInv, NEW r \in Runs, Authority(r) PROVE PartInv'
<1>1. call[r] \in OpenCalls => tool[r] # "absent"
    BY DEF PartInv, GoodAll, Good
<1>2. CASE Ask(r)
    <2>1. tool[r] # "absent" /\ call[r] = "none"
        BY <1>2 DEF Ask
    <2>2. CASE /\ call' = [call EXCEPT ![r] = "waiting"]
               /\ Says(r, With(r, Row("approval", "waiting_approval")))
        BY <2>1, <2>2, TellsGood DEF Says, Told
    <2>3. CASE /\ call' = [call EXCEPT ![r] = "approved"]
               /\ Says(r, With(r, Row("approval", "queued")))
        BY <2>1, <2>3, TellsGood DEF Says, Told
    <2>4. CASE call' = [call EXCEPT ![r] = "approved"] /\ UNCHANGED <<tool, outbox, thrown, faults>>
        BY <2>1, <2>4, UntoldGood DEF Untold, PartInv
    <2> QED
        BY <1>2, <2>2, <2>3, <2>4 DEF Ask
<1>3. CASE Decide(r)
    <2>1. tool[r] # "absent" /\ call[r] = "waiting"
        BY <1>1, <1>3 DEF Decide, OpenCalls
    <2>2. CASE call' = [call EXCEPT ![r] = "approved"] /\ Tells(outbox)
        BY <2>1, <2>2, UntoldGood, GoodTells DEF Untold
    <2>3. CASE call' = [call EXCEPT ![r] = "denied"] /\ Tells(With(r, Row("approval", "denied")))
        BY <2>1, <2>3, TellsGood DEF Told
    <2> QED
        BY <1>3, <2>2, <2>3 DEF Decide
<1>4. CASE Dispatch(r)
    <2>1. tool[r] # "absent" /\ call[r] = "approved"
        BY <1>1, <1>4 DEF Dispatch, OpenCalls
    <2> QED
        BY <1>4, <2>1, TellsGood DEF Dispatch, Says, Told
<1>5. CASE DispatchAborted(r)
    <2>1. tool[r] # "absent" /\ call[r] = "approved"
        BY <1>1, <1>5 DEF DispatchAborted, OpenCalls
    <2>2. PICK p, d : p = With(r, Row("action", "running")) /\ d = [call EXCEPT ![r] = "running"]
        OBVIOUS
    <2>3. GoodAll(tool, p, d) /\ d[r] = "running"
        <3>1. d[r] = "running"
            BY <2>2 DEF PartInv, GoodAll
        <3>2. Told(call[r], Row("action", "running"), "running")
            BY <2>1 DEF Told
        <3> QED
            BY <2>1, <2>2, <3>1, <3>2, GoodRow DEF With, PartInv
    <2>4. CASE /\ call' = [call EXCEPT ![r] = "cancelled"]
               /\ Says(r, [outbox EXCEPT ![r] =
                      @ \o <<Row("action", "running"), Row("action", "cancelled")>>])
        <3>1. Told(d[r], Row("action", "cancelled"), "cancelled")
            BY <2>3 DEF Told, Outcomes
        <3>2. GoodAll(tool, [p EXCEPT ![r] = Append(@, Row("action", "cancelled"))],
                      [d EXCEPT ![r] = "cancelled"])
            BY <2>1, <2>3, <3>1, GoodRow
        <3>3. [d EXCEPT ![r] = "cancelled"] = call'
            BY <2>2, <2>4 DEF PartInv, GoodAll
        <3>4. /\ outbox \in [Runs -> Seq(Rows)]
              /\ Row("action", "running") \in Rows /\ Row("action", "cancelled") \in Rows
            BY DEF PartInv, GoodAll, Row, Rows, Tools, Settled
        <3>5. outbox[r] \o <<Row("action", "running"), Row("action", "cancelled")>>
                = Append(Append(outbox[r], Row("action", "running")), Row("action", "cancelled"))
            BY <3>4
        <3>6. [p EXCEPT ![r] = Append(@, Row("action", "cancelled"))]
                = [outbox EXCEPT ![r] = @ \o <<Row("action", "running"), Row("action", "cancelled")>>]
            BY <2>2, <3>4, <3>5 DEF With
        <3> QED
            BY <2>4, <3>2, <3>3, <3>6, GoodTells DEF Says
    <2>5. CASE /\ call' = [call EXCEPT ![r] = "running"]
               /\ outbox' = With(r, Row("action", "running"))
               /\ UNCHANGED tool
        BY <2>2, <2>3, <2>5 DEF PartInv
    <2> QED
        BY <1>5, <2>4, <2>5 DEF DispatchAborted
<1>6. CASE Refuse(r)
    <2>1. tool[r] # "absent" /\ call[r] = "approved"
        BY <1>1, <1>6 DEF Refuse, OpenCalls
    <2> QED
        BY <1>6, <2>1, UntoldGood DEF Refuse, Untold, PartInv, parts
<1>7. ASSUME NEW o \in Outcomes, Outcome(r, o) PROVE PartInv'
    <2>1. tool[r] # "absent" /\ call[r] = "running"
        BY <1>1, <1>7 DEF Outcome, OpenCalls
    <2> QED
        BY <1>7, <2>1, TellsGood DEF Outcome, Says, Told
<1>8. ASSUME NEW o \in Outcomes, Reconcile(r, o) PROVE PartInv'
    <2>1. tool[r] # "absent" /\ call[r] = "outcome_unknown"
        BY <1>1, <1>8 DEF Reconcile, OpenCalls
    <2> QED
        BY <1>8, <2>1, TellsGood DEF Reconcile, Told
<1> QED
    BY <1>2, <1>3, <1>4, <1>5, <1>6, <1>7, <1>8 DEF Authority

\* A deleted Session has no Part, no row and no open call.
LEMMA DeleteGood == ASSUME PartInv, NEW s \in Sessions, Delete(s) PROVE PartInv'
<1>1. /\ tool' \in [Runs -> Tools] /\ outbox' \in [Runs -> Seq(Rows)] /\ call' \in [Runs -> Calls]
    <2>1. <<>> \in Seq(Rows) /\ "absent" \in Tools /\ "abandoned" \in Calls
        BY DEF Tools, Calls
    <2> QED
        BY <2>1 DEF PartInv, GoodAll, Delete, Retires
<1>2. ASSUME NEW q \in Runs PROVE Good(tool'[q], outbox'[q], call'[q])
    <2>1. CASE q \in Of(s)
        <3>1. tool'[q] = "absent" /\ outbox'[q] = <<>> /\ call'[q] \notin OpenCalls
            BY <2>1 DEF Delete, Retires, Removable, OpenCalls
        <3> QED
            BY <1>1, <3>1, FoldNothing DEF Good
    <2>2. CASE q \notin Of(s)
        <3>1. tool'[q] = tool[q] /\ outbox'[q] = outbox[q] /\ call'[q] = call[q]
            BY <2>2 DEF Delete, Retires
        <3> QED
            BY <3>1 DEF PartInv, GoodAll
    <2> QED
        BY <2>1, <2>2
<1> QED
    BY <1>1, <1>2 DEF PartInv, GoodAll

\* The recovery tells of every call it settles and flushes.
LEMMA RestartGood == ASSUME PartInv, Restart PROVE PartInv'
<1>1. PICK G \in SUBSET {r \in Runs : call[r] = "approved"} :
          call' = Recovered(G) /\ tool' = Drained(RecoveryRows(G))
    BY DEF Restart
<1>2. ASSUME NEW q \in Runs PROVE Good(tool[q], RecoveryRows(G)[q], call'[q])
    <2>1. Good(tool[q], outbox[q], call[q])
        BY DEF PartInv, GoodAll
    <2>2. call[q] \in OpenCalls => tool[q] # "absent"
        BY <2>1 DEF Good
    <2>3. CASE call[q] = "running"
        <3>1. /\ call'[q] = "outcome_unknown"
              /\ RecoveryRows(G)[q] = Append(outbox[q], Row("action", "outcome_unknown"))
            BY <1>1, <2>3 DEF Recovered, RecoveryRows
        <3>2. Told(call[q], Row("action", "outcome_unknown"), "outcome_unknown")
            BY <2>3 DEF Told, Outcomes
        <3> QED
            BY <2>1, <2>2, <2>3, <3>1, <3>2, GoodTold DEF OpenCalls
    <2>4. CASE call[q] = "waiting"
        <3>1. /\ call'[q] = "denied"
              /\ RecoveryRows(G)[q] = Append(outbox[q], Row("approval", "denied"))
            BY <1>1, <2>4 DEF Recovered, RecoveryRows
        <3>2. Told(call[q], Row("approval", "denied"), "denied")
            BY <2>4 DEF Told
        <3> QED
            BY <2>1, <2>2, <2>4, <3>1, <3>2, GoodTold DEF OpenCalls
    <2>5. CASE call[q] = "approved" /\ q \in G
        <3>1. /\ call'[q] = "cancelled"
              /\ RecoveryRows(G)[q] = Append(outbox[q], Row("action", "cancelled"))
            BY <1>1, <2>5 DEF Recovered, RecoveryRows
        <3>2. Told(call[q], Row("action", "cancelled"), "cancelled")
            BY <2>5 DEF Told
        <3> QED
            BY <2>1, <2>2, <2>5, <3>1, <3>2, GoodTold DEF OpenCalls
    <2>6. CASE call[q] = "approved" /\ q \notin G
        <3>1. call'[q] = "abandoned" /\ RecoveryRows(G)[q] = outbox[q]
            BY <1>1, <2>6 DEF Recovered, RecoveryRows
        <3> QED
            BY <2>1, <2>6, <3>1, GoodUntold DEF Untold
    <2>7. CASE call[q] \notin {"running", "waiting", "approved"}
        <3>1. call'[q] = call[q] /\ RecoveryRows(G)[q] = outbox[q]
            BY <1>1, <2>7 DEF Recovered, RecoveryRows
        <3> QED
            BY <2>1, <3>1
    <2> QED
        BY <2>3, <2>4, <2>5, <2>6, <2>7
<1>3. tool \in [Runs -> Tools] /\ RecoveryRows(G) \in [Runs -> Seq(Rows)] /\ call' \in [Runs -> Calls]
    <2>1. \A q \in Runs : RecoveryRows(G)[q] \in Seq(Rows) /\ call'[q] \in Calls
        BY <1>2 DEF Good
    <2>2. DOMAIN RecoveryRows(G) = Runs /\ RecoveryRows(G) = [q \in Runs |-> RecoveryRows(G)[q]]
        BY DEF RecoveryRows
    <2>3. call' = [q \in Runs |-> call'[q]]
        BY <1>1 DEF Recovered
    <2> QED
        BY <2>1, <2>2, <2>3 DEF PartInv, GoodAll
<1>4. GoodAll(tool, RecoveryRows(G), call')
    BY <1>2, <1>3 DEF GoodAll
<1> QED
    BY <1>1, <1>4, GoodDrained DEF Restart, PartInv

\* Every step leaves all Parts good.
LEMMA NextGood == ASSUME PartInv, [Next]_vars PROVE PartInv'
<1>1. CASE UNCHANGED vars
    BY <1>1, UntouchedGood DEF vars
<1>2. ASSUME NEW r \in Runs, Begin(r) \/ Resolved(r) PROVE PartInv'
    BY <1>2, UntouchedGood DEF Begin, Resolved, parts
<1>3. CASE Next
    BY <1>2, <1>3, StartsGood, FinalizeOrphanGood, EventsGood, ReturnsGood, CancelsGood,
       AuthorityGood, DeleteGood, RestartGood DEF Next
<1> QED
    BY <1>1, <1>3

\* There is no Part yet.
LEMMA InitGood == ASSUME Init PROVE PartInv
<1>1. Good("absent", <<>>, "none")
    <2>1. <<>> \in Seq(Rows) /\ Len(<<>>) = 0
        OBVIOUS
    <2> QED
        BY <2>1, FoldNothing DEF Good, Tools, Calls, OpenCalls
<1>2. <<>> \in Seq(Rows) /\ "absent" \in Tools /\ "none" \in Calls
    BY <1>1 DEF Good
<1> QED
    BY <1>1, <1>2 DEF Init, PartInv, GoodAll

\* Good Parts tell the truth.
LEMMA GoodIsTrue == ASSUME PartInv PROVE PartTellsTruth
<1> SUFFICES ASSUME NEW r \in Runs
             PROVE  /\ tool[r] = "completed" => call[r] = "completed"
                    /\ tool[r] = "denied" => call[r] = "denied"
                    /\ tool[r] = "running" /\ outbox[r] = <<>> => call[r] = "running"
                    /\ tool[r] = "outcome_unknown" /\ outbox[r] = <<>>
                           => call[r] \in {"running", "outcome_unknown"}
                    /\ tool[r] = "absent" => outbox[r] = <<>>
    BY DEF PartTellsTruth
<1>1. Good(tool[r], outbox[r], call[r])
    BY DEF PartInv, GoodAll
<1>2. outbox[r] = <<>> => Fold(tool[r], outbox[r]) = tool[r]
    BY FoldNothing
<1> QED
    BY <1>1, <1>2 DEF Good

-----------------------------------------------------------------------------
(* The types of the other variables.                                       *)

DataOK ==
    /\ text \in [Runs -> Texts]
    /\ fence \in [Runs -> {"none", "cancel", "limit", "failure"}]
    /\ thrown \subseteq Runs
    /\ fatal \in BOOLEAN
    /\ faults \in 0 .. MaxFaults
    /\ restarts \in 0 .. MaxRestarts

\* The end of a text Part is one.
LEMMA TextEndOK ==
    ASSUME NEW t \in Texts
    PROVE  TextEnd(t) \in Texts /\ TextEnd(t) # "streaming"
BY DEF TextEnd, Texts

\* The text Parts of ended orphans.
LEMMA FinalTextOK == ASSUME DataOK, NEW O PROVE FinalText(O) \in [Runs -> Texts]
BY TextEndOK DEF FinalText, DataOK

\* The text Part that is interrupted, or left as it was.
LEMMA InterruptsOK ==
    ASSUME DataOK, NEW r \in Runs, NEW tools, NEW reason,
           Interrupts(r, tools, reason) \/ InterruptsPartly(r, tools, reason)
    PROVE  text' \in [Runs -> Texts]
<1>1. text[r] \in Texts /\ TextEnd(text[r]) \in Texts
    BY TextEndOK DEF DataOK
<1>2. CASE Interrupts(r, tools, reason)
    BY <1>1, <1>2 DEF Interrupts, TextPart, DataOK
<1>3. CASE InterruptsPartly(r, tools, reason)
    <2>1. PICK p \in Partly(r, tools[r], reason) : text' = [text EXCEPT ![r] = p[1]]
        BY <1>3 DEF InterruptsPartly, TextPart
    <2>2. p[1] \in {text[r], TextEnd(text[r])}
        BY <2>1 DEF Partly
    <2> QED
        BY <1>1, <2>1, <2>2 DEF DataOK
<1> QED
    BY <1>2, <1>3

\* Faults are counted up to their bound.
LEMMA CostsOK ==
    ASSUME DataOK, NEW n \in Nat, Costs(n)
    PROVE  /\ faults' \in 0 .. MaxFaults
           /\ faults' = 0 => faults = 0 /\ n = 0
BY ChatRunsAssumption DEF DataOK, Costs

\* What a flush costs.
LEMMA FlushCosts ==
    ASSUME NEW rows, NEW f \in Flushed(rows)
    PROVE  f.cost \in {0, 1} /\ (f.cost = 0 => f.tool = Drained(rows) /\ f.outbox = Empty)
BY DEF Flushed

\* What the abort of a call costs.
LEMMA AbortCosts ==
    ASSUME NEW r, NEW a \in AfterAbort(r)
    PROVE  a.cost \in {0, 1}
BY FlushCosts DEF AfterAbort, NotFlushed

\* Every step keeps the types and counts the faults.
Counts == DataOK' /\ (faults' = 0 => faults = 0)

\* A flush that costs nothing took all rows.
LEMMA TellsCounts ==
    ASSUME DataOK, NEW rows, Tells(rows)
    PROVE  /\ faults' \in 0 .. MaxFaults
           /\ faults' = 0 => faults = 0 /\ tool' = Drained(rows) /\ outbox' = Empty
<1>1. PICK f \in Flushed(rows) : Costs(f.cost) /\ tool' = f.tool /\ outbox' = f.outbox
    BY DEF Tells
<1>2. f.cost \in {0, 1} /\ (f.cost = 0 => f.tool = Drained(rows) /\ f.outbox = Empty)
    BY FlushCosts
<1>3. f.cost \in Nat
    BY <1>2
<1> QED
    BY <1>1, <1>2, <1>3, CostsOK

\* The same of a call's own flush.
LEMMA SaysCounts ==
    ASSUME DataOK, NEW r \in Runs, NEW rows, Says(r, rows)
    PROVE  /\ faults' \in 0 .. MaxFaults /\ thrown' \subseteq Runs
           /\ faults' = 0 => faults = 0 /\ tool' = Drained(rows) /\ outbox' = Empty
BY TellsCounts DEF Says, DataOK

\* Starting a Run.
LEMMA StartsCount == ASSUME DataOK, NEW r \in Runs, Starts(r) PROVE Counts
<1>1. CASE Send(r) \/ StartReserved(r)
    BY <1>1, FinalTextOK DEF Send, StartReserved, Start, DataOK, Counts
<1>2. CASE Reserve(r)
    BY <1>2 DEF Reserve, parts, DataOK, Counts
<1>3. CASE StartRefused(r)
    <2>1. PICK O \in {{}, Orphans(SessionOf[r])} : text' = FinalText(O)
        BY <1>3 DEF StartRefused, Finalize
    <2> QED
        BY <1>3, <2>1, FinalTextOK DEF StartRefused, DataOK, Counts
<1>4. CASE StartFails(r)
    <2>1. PICK q \in Orphans(SessionOf[r]) : FinalizeFails(q, OrphanEnd(q))
        BY <1>4 DEF StartFails
    <2>2. q \in Runs
        BY <2>1 DEF Orphans, Of
    <2>3. text' \in [Runs -> Texts] /\ fatal' \in BOOLEAN
        BY <2>1, <2>2, InterruptsOK DEF FinalizeFails
    <2>4. faults' \in 0 .. MaxFaults /\ faults' # 0
        BY <2>1, CostsOK DEF FinalizeFails
    <2> QED
        BY <1>4, <2>3, <2>4 DEF StartFails, DataOK, Counts
<1> QED
    BY <1>1, <1>2, <1>3, <1>4 DEF Starts

\* Ending an orphan.
LEMMA FinalizeOrphanCounts == ASSUME DataOK, NEW r \in Runs, FinalizeOrphan(r) PROVE Counts
<1>1. CASE Finalize({r}) /\ UNCHANGED <<fatal, faults>>
    BY <1>1, FinalTextOK DEF FinalizeOrphan, Finalize, DataOK, Counts
<1>2. CASE FinalizeFails(r, OrphanEnd(r))
    <2>1. text' \in [Runs -> Texts] /\ fatal' \in BOOLEAN
        BY <1>2, InterruptsOK DEF FinalizeFails
    <2>2. faults' \in 0 .. MaxFaults /\ faults' # 0
        BY <1>2, CostsOK DEF FinalizeFails
    <2> QED
        BY <2>1, <2>2 DEF FinalizeOrphan, DataOK, Counts
<1> QED
    BY <1>1, <1>2 DEF FinalizeOrphan

\* The runtime's events.
LEMMA EventsCount == ASSUME DataOK, NEW r \in Runs, Events(r) PROVE Counts
<1>1. CASE TextStarted(r) \/ TextCompleted(r)
    BY <1>1 DEF TextStarted, TextCompleted, TextPart, Texts, volatile, DataOK, Counts
<1>2. CASE TextOverflow(r)
    <2>1. text' \in [Runs -> Texts]
        BY <1>2 DEF TextOverflow, TextPart, Texts, DataOK
    <2>2. CASE UNCHANGED <<fence, fatal, faults>>
        BY <1>2, <2>1, <2>2 DEF TextOverflow, DataOK, Counts
    <2>3. CASE Costs(1) /\ GivesUp(r, "limit")
        <3>1. faults' \in 0 .. MaxFaults /\ faults' # 0
            BY <2>3, CostsOK
        <3> QED
            BY <1>2, <2>1, <2>3, <3>1 DEF TextOverflow, GivesUp, DataOK, Counts
    <2> QED
        BY <1>2, <2>2, <2>3 DEF TextOverflow
<1>3. CASE ToolCreated(r) \/ ToolEnded(r)
    BY <1>3 DEF ToolCreated, ToolEnded, volatile, DataOK, Counts
<1> QED
    BY <1>1, <1>2, <1>3 DEF Events

\* The end of an execution.
LEMMA ReturnsCount == ASSUME DataOK, NEW r \in Runs, Returns(r) PROVE Counts
<1>1. CASE Complete(r) \/ Release(r)
    BY <1>1 DEF Complete, Release, parts, DataOK, Counts
<1>2. CASE Fail(r)
    <2>1. PICK a \in AfterAbort(r), i \in {0, 1}, c \in {0, 1} :
              /\ Costs(a.cost + i + c)
              /\ Interrupts(r, a.tool, "failed") \/ InterruptsPartly(r, a.tool, "failed")
              /\ CommitsFailure(r, c)
        BY <1>2 DEF Fail
    <2>2. text' \in [Runs -> Texts]
        BY <2>1, InterruptsOK
    <2>3. a.cost \in {0, 1}
        BY AbortCosts
    <2>4. a.cost + i + c \in Nat
        BY <2>1, <2>3
    <2>5. faults' \in 0 .. MaxFaults /\ (faults' = 0 => faults = 0)
        BY <2>1, <2>4, CostsOK
    <2>6. fence' \in [Runs -> {"none", "cancel", "limit", "failure"}] /\ fatal' \in BOOLEAN
        BY <2>1 DEF CommitsFailure, GivesUp, DataOK
    <2> QED
        BY <1>2, <2>2, <2>5, <2>6 DEF Fail, DataOK, Counts
<1>3. CASE FencedEnd(r)
    <2>1. text' \in [Runs -> Texts]
        BY <1>3, InterruptsOK DEF FencedEnd
    <2>2. faults' = faults \/ Costs(1)
        BY <1>3 DEF FencedEnd
    <2>3. faults' \in 0 .. MaxFaults /\ (faults' = 0 => faults = 0)
        BY <2>2, CostsOK DEF DataOK
    <2> QED
        BY <1>3, <2>1, <2>3 DEF FencedEnd, DataOK, Counts
<1>4. CASE ReportsCancelled(r)
    <2>1. PICK a \in AfterAbort(r), c \in {0, 1} :
              /\ Costs(a.cost + c)
              /\ Interrupts(r, a.tool, "cancelled") \/ InterruptsPartly(r, a.tool, "cancelled")
        <3>1. PICK a \in AfterAbort(r) :
                  \/ Costs(a.cost) /\ Interrupts(r, a.tool, "cancelled")
                  \/ Costs(a.cost + 1) /\ InterruptsPartly(r, a.tool, "cancelled")
            BY <1>4 DEF ReportsCancelled
        <3>2. a.cost \in {0, 1}
            BY AbortCosts
        <3>3. a.cost + 0 = a.cost
            BY <3>2
        <3> QED
            BY <3>1, <3>3
    <2>2. text' \in [Runs -> Texts]
        BY <2>1, InterruptsOK
    <2>3. a.cost \in {0, 1}
        BY AbortCosts
    <2>4. a.cost + c \in Nat
        BY <2>1, <2>3
    <2>5. faults' \in 0 .. MaxFaults /\ (faults' = 0 => faults = 0)
        BY <2>1, <2>4, CostsOK
    <2>6. fence' \in [Runs -> {"none", "cancel", "limit", "failure"}] /\ fatal' \in BOOLEAN
        BY <1>4 DEF ReportsCancelled, GivesUp, DataOK
    <2> QED
        BY <1>4, <2>2, <2>5, <2>6 DEF ReportsCancelled, DataOK, Counts
<1> QED
    BY <1>1, <1>2, <1>3, <1>4 DEF Returns

\* The user's cancellation.
LEMMA CancelsCount == ASSUME DataOK, NEW r \in Runs, Cancels(r) PROVE Counts
<1>1. CASE Cancel(r)
    <2>1. PICK a \in AfterAbort(r) : Costs(a.cost) /\ Interrupts(r, a.tool, "cancelled")
        BY <1>1 DEF Cancel
    <2>2. text' \in [Runs -> Texts]
        BY <2>1, InterruptsOK
    <2>3. a.cost \in Nat
        BY AbortCosts
    <2>4. faults' \in 0 .. MaxFaults /\ (faults' = 0 => faults = 0)
        BY <2>1, <2>3, CostsOK
    <2> QED
        BY <1>1, <2>2, <2>4 DEF Cancel, DataOK, Counts
<1>2. CASE CancelFails(r)
    <2>1. PICK a \in AfterAbort(r) :
              Costs(a.cost + 1) /\ InterruptsPartly(r, a.tool, "cancelled")
        BY <1>2 DEF CancelFails
    <2>2. text' \in [Runs -> Texts]
        BY <2>1, InterruptsOK
    <2>3. a.cost \in {0, 1}
        BY AbortCosts
    <2>4. a.cost + 1 \in Nat
        BY <2>3
    <2>5. faults' \in 0 .. MaxFaults /\ (faults' = 0 => faults = 0)
        BY <2>1, <2>4, CostsOK
    <2> QED
        BY <1>2, <2>2, <2>5 DEF CancelFails, GivesUp, DataOK, Counts
<1>3. CASE CancelOrphan(r)
    <2>1. text' \in [Runs -> Texts]
        BY <1>3, InterruptsOK DEF CancelOrphan
    <2>2. fatal' \in BOOLEAN /\ (faults' = faults \/ Costs(1))
        BY <1>3 DEF CancelOrphan, DataOK
    <2>3. faults' \in 0 .. MaxFaults /\ (faults' = 0 => faults = 0)
        BY <2>2, CostsOK DEF DataOK
    <2> QED
        BY <1>3, <2>1, <2>2, <2>3 DEF CancelOrphan, DataOK, Counts
<1> QED
    BY <1>1, <1>2, <1>3 DEF Cancels

\* The authorities' commits.
LEMMA AuthorityCounts == ASSUME DataOK, NEW r \in Runs, Authority(r) PROVE Counts
<1>1. UNCHANGED <<text, fence, fatal, restarts>>
    BY DEF Authority, Ask, Decide, Dispatch, DispatchAborted, Refuse, Outcome, Reconcile,
           parts, volatile
<1>2. /\ faults' \in 0 .. MaxFaults /\ thrown' \subseteq Runs
      /\ faults' = 0 => faults = 0
    <2>1. CASE UNCHANGED <<faults, thrown>>
        BY <2>1 DEF DataOK
    <2>2. CASE \E rows : Tells(rows) /\ UNCHANGED thrown
        BY <2>2, TellsCounts DEF DataOK
    <2>3. CASE \E rows : Says(r, rows)
        BY <2>3, SaysCounts
    <2>4. CASE Costs(1) /\ thrown' = thrown \union {r}
        BY <2>4, CostsOK DEF DataOK
    <2> QED
        BY <2>1, <2>2, <2>3, <2>4
        DEF Authority, Ask, Decide, Dispatch, DispatchAborted, Refuse, Outcome, Reconcile, volatile
<1> QED
    BY <1>1, <1>2 DEF DataOK, Counts

\* Every step.
LEMMA NextCounts == ASSUME DataOK, [Next]_vars PROVE Counts
<1>1. CASE UNCHANGED vars
    BY <1>1 DEF vars, volatile, DataOK, Counts
<1>2. ASSUME NEW r \in Runs, Begin(r) \/ Resolved(r) PROVE Counts
    BY <1>2 DEF Begin, Resolved, parts, DataOK, Counts
<1>3. ASSUME NEW s \in Sessions, Delete(s) PROVE Counts
    BY <1>3 DEF Delete, Retires, volatile, Texts, DataOK, Counts
<1>4. CASE Restart
    <2>1. restarts' \in 0 .. MaxRestarts
        BY <1>4, ChatRunsAssumption DEF Restart, DataOK
    <2>2. fence' \in [Runs -> {"none", "cancel", "limit", "failure"}] /\ thrown' = {}
          /\ fatal' = FALSE /\ UNCHANGED <<text, faults>>
        BY <1>4 DEF Restart
    <2> QED
        BY <2>1, <2>2 DEF DataOK, Counts
<1>5. CASE Next
    BY <1>2, <1>3, <1>4, <1>5, StartsCount, FinalizeOrphanCounts, EventsCount, ReturnsCount,
       CancelsCount, AuthorityCounts DEF Next
<1> QED
    BY <1>1, <1>5

\* Nothing has failed yet.
LEMMA InitCounts == ASSUME Init PROVE DataOK
<1>1. faults \in 0 .. MaxFaults /\ restarts \in 0 .. MaxRestarts
    BY ChatRunsAssumption DEF Init
<1>2. text \in [Runs -> Texts] /\ fence \in [Runs -> {"none", "cancel", "limit", "failure"}]
    BY DEF Init, Texts
<1>3. thrown \subseteq Runs /\ fatal \in BOOLEAN
    BY DEF Init
<1> QED
    BY <1>1, <1>2, <1>3 DEF DataOK

\* The three parts of the invariant give all types.
LEMMA TypeFromParts == ASSUME ControlOK, PartInv, DataOK PROVE TypeOK
<1>1. ASSUME NEW r \in Runs PROVE outbox[r] \in Seq([by : {"approval", "action"}, to : Tools])
    <2>1. outbox[r] \in Seq(Rows)
        BY DEF PartInv, GoodAll
    <2>2. Rows \subseteq [by : {"approval", "action"}, to : Tools]
        BY DEF Rows
    <2> QED
        BY Zenon, <2>1, <2>2, SeqMonotonic
<1> QED
    BY <1>1 DEF ControlOK, PartInv, GoodAll, DataOK, TypeOK

-----------------------------------------------------------------------------
(* As long as nothing fails.                                               *)

\* Of a Run, its Parts, its rows and its call: what keeps a Run that is over
\* quiet.  The text streams only before the call is made or after it settled,
\* a Part waits or runs only for a call, and a call has a Part.
Quiet(s, x, t, o, c) ==
    /\ o = <<>>
    /\ x = "streaming" => t \in Settled \union {"absent"} \/ c = "none"
    /\ c = "none" => t \notin {"waiting_approval", "running"}
    /\ t = "absent" => c = "none" \/ s = "gone"
    /\ s \in Over => /\ x # "streaming"
                     /\ \/ t \in Settled \union {"absent"}
                        \/ t = "queued" /\ s = "failed" /\ x = "interrupted" /\ c = "none"

AllQuiet ==
    \A r \in Runs : fence[r] = "none" /\ Quiet(status[r], text[r], tool[r], outbox[r], call[r])
QuietInv == faults = 0 => AllQuiet

TypesOK == ControlOK /\ PartInv /\ DataOK

\* One Run changes.
Others(r) ==
    \A q \in Runs \ {r} : /\ status'[q] = status[q] /\ text'[q] = text[q] /\ tool'[q] = tool[q]
                          /\ outbox'[q] = <<>> /\ call'[q] = call[q]

\* If the one that changes is quiet, all are.
LEMMA OneIsQuiet ==
    ASSUME AllQuiet, NEW r \in Runs, UNCHANGED fence, Others(r),
           Quiet(status'[r], text'[r], tool'[r], outbox'[r], call'[r])
    PROVE  AllQuiet'
BY DEF AllQuiet, Quiet, Others

\* The flush of one row, and of two.
LEMMA FoldOne ==
    ASSUME NEW p, NEW row
    PROVE  Fold(p, Append(<<>>, row)) = Projected(p, row)
<1>1. PICK S : row \in S
    OBVIOUS
<1>2. <<>> \in Seq(S)
    OBVIOUS
<1>3. Fold(p, Append(<<>>, row)) = Projected(Fold(p, <<>>), row)
    BY <1>1, <1>2, FoldAppend
<1> QED
    BY <1>3, FoldNothing

\* The second of two rows is projected after the first.
LEMMA FoldTwo ==
    ASSUME NEW p, NEW row, NEW next
    PROVE  Fold(p, Append(Append(<<>>, row), next)) = Projected(Projected(p, row), next)
<1>1. PICK S : row \in S /\ next \in S
    <2>1. row \in {row, next} /\ next \in {row, next}
        OBVIOUS
    <2> QED
        BY <2>1
<1>2. PICK e : e = Append(<<>>, row) /\ e \in Seq(S)
    <2>1. <<>> \in Seq(S)
        OBVIOUS
    <2>2. Append(<<>>, row) \in Seq(S)
        BY <1>1, <2>1, AppendProperties
    <2> QED
        BY <2>2
<1>3. Fold(p, Append(e, next)) = Projected(Fold(p, e), next)
    BY <1>1, <1>2, FoldAppend
<1> QED
    BY <1>2, <1>3, FoldOne

\* A flush where no row waited.
LEMMA DrainedOne ==
    ASSUME TypesOK, AllQuiet, NEW r \in Runs, NEW row
    PROVE  /\ Drained(outbox) = tool
           /\ Drained(With(r, row)) = [tool EXCEPT ![r] = Projected(tool[r], row)]
<1>1. /\ tool \in [Runs -> Tools] /\ outbox \in [Runs -> Seq(Rows)]
      /\ \A q \in Runs : outbox[q] = <<>>
    BY DEF TypesOK, PartInv, GoodAll, AllQuiet, Quiet
<1>2. \A p : Fold(p, <<>>) = p
    BY FoldNothing
<1>3. Fold(tool[r], Append(<<>>, row)) = Projected(tool[r], row)
    BY FoldOne
<1>4. Drained(outbox) = tool
    BY <1>1, <1>2 DEF Drained, Fold
<1>5. With(r, row) = [q \in Runs |-> IF q = r THEN Append(<<>>, row) ELSE <<>>]
    BY <1>1 DEF With
<1>6. Drained(With(r, row))
        = [q \in Runs |-> IF q = r THEN Projected(tool[r], row) ELSE tool[q]]
    BY <1>2, <1>3, <1>5 DEF Drained, Fold
<1> QED
    BY <1>1, <1>4, <1>6

\* After a flush no row waits for any Run.
LEMMA EmptyOnes == \A q \in Runs : Empty[q] = <<>>
BY DEF Empty

\* The abort of a call, and the end of its Part.
LEMMA AbortOne ==
    ASSUME TypesOK, AllQuiet, NEW r \in Runs, NEW a \in AfterAbort(r), a.cost = 0,
           call' = CallAborted(r), outbox' = a.outbox, NEW reason, Interrupts(r, a.tool, reason)
    PROVE  /\ \A q \in Runs \ {r} : text'[q] = text[q] /\ tool'[q] = tool[q] /\ call'[q] = call[q]
           /\ \A q \in Runs : outbox'[q] = <<>>
           /\ text'[r] # "streaming"
           /\ tool'[r] \in Settled \/ (tool'[r] = "absent" /\ tool[r] = "absent")
           /\ call'[r] = "none" <=> call[r] = "none"
<1>1. /\ tool \in [Runs -> Tools] /\ text \in [Runs -> Texts] /\ call \in [Runs -> Calls]
      /\ \A q \in Runs : outbox[q] = <<>>
    BY DEF TypesOK, PartInv, GoodAll, DataOK, AllQuiet, Quiet
<1>2. \A q \in Runs : outbox'[q] = <<>>
    <2>1. CASE Abandoned(r)
        BY <2>1, FlushCosts, EmptyOnes DEF AfterAbort
    <2>2. CASE ~Abandoned(r)
        BY <1>1, <2>2 DEF AfterAbort, NotFlushed
    <2> QED
        BY <2>1, <2>2
<1>3. PICK x : /\ a.tool = [tool EXCEPT ![r] = x] /\ x \in Tools
               /\ x = "absent" => tool[r] = "absent"
    <2>1. CASE Abandoned(r)
        <3>1. a.tool = [tool EXCEPT ![r] = Projected(tool[r], Row("approval", "cancelled"))]
            BY <2>1, FlushCosts, DrainedOne DEF AfterAbort
        <3>2. PICK x : x = Projected(tool[r], Row("approval", "cancelled"))
            OBVIOUS
        <3>3. x \in Tools /\ (x = "absent" => tool[r] = "absent")
            BY <1>1, <3>2 DEF Projected, Takes, Row, Tools, Settled
        <3> QED
            BY <3>1, <3>2, <3>3
    <2>2. CASE ~Abandoned(r)
        <3>1. a.tool = [tool EXCEPT ![r] = tool[r]]
            BY <1>1, <2>2 DEF AfterAbort, NotFlushed
        <3> QED
            BY <1>1, <3>1
    <2> QED
        BY <2>1, <2>2
<1>4. a.tool[r] = x /\ \A q \in Runs \ {r} : a.tool[q] = tool[q]
    BY <1>1, <1>3
<1>5. tool' = [a.tool EXCEPT ![r] = ToolEnd(x, reason)]
    BY <1>4 DEF Interrupts, ToolPart
<1>6. tool'[r] = ToolEnd(x, reason) /\ \A q \in Runs \ {r} : tool'[q] = tool[q]
    BY <1>1, <1>3, <1>4, <1>5
<1>7. tool'[r] \in Settled \/ (tool'[r] = "absent" /\ tool[r] = "absent")
    BY <1>3, <1>6 DEF ToolEnd, Settled
<1>8. text'[r] = TextEnd(text[r]) /\ \A q \in Runs \ {r} : text'[q] = text[q]
    BY <1>1 DEF Interrupts, TextPart
<1>9. text'[r] # "streaming"
    BY <1>8 DEF TextEnd
<1>10. /\ call'[r] = "none" <=> call[r] = "none"
       /\ \A q \in Runs \ {r} : call'[q] = call[q]
    BY <1>1 DEF CallAborted, Abandoned
<1> QED
    BY <1>2, <1>6, <1>7, <1>8, <1>9, <1>10

\* A Part that is ended is quiet, whatever becomes of its Run.
LEMMA EndedIsQuiet ==
    ASSUME NEW s, NEW x, NEW t, NEW c, NEW s2, NEW x2, NEW t2, NEW c2,
           Quiet(s, x, t, <<>>, c), s # "gone", x2 # "streaming",
           t2 \in Settled \/ (t2 = "absent" /\ t = "absent"), c2 = "none" <=> c = "none"
    PROVE  Quiet(s2, x2, t2, <<>>, c2)
BY DEF Quiet, Settled

\* No row waits, so every Run is quiet as it stands.
LEMMA NoOthers ==
    ASSUME TypesOK, AllQuiet
    PROVE  \A q \in Runs : outbox[q] = <<>> /\ Quiet(status[q], text[q], tool[q], <<>>, call[q])
BY DEF AllQuiet, Quiet

\* Ending the orphans of a Session.
LEMMA FinalQuiet ==
    ASSUME TypesOK, AllQuiet, NEW O \in SUBSET {q \in Runs : Orphan(q)}, NEW q \in Runs
    PROVE  Quiet(FinalStatus(O)[q], FinalText(O)[q], FinalTool(O)[q], outbox[q], call[q])
<1>1. outbox[q] = <<>> /\ Quiet(status[q], text[q], tool[q], <<>>, call[q])
    BY NoOthers
<1>2. CASE q \in O
    <2>1. status[q] # "gone"
        BY <1>2 DEF Orphan, Live
    <2>2. FinalText(O)[q] # "streaming"
        BY <1>2 DEF FinalText, TextEnd
    <2>3. FinalTool(O)[q] \in Settled \/ (FinalTool(O)[q] = "absent" /\ tool[q] = "absent")
        BY <1>2 DEF FinalTool, ToolEnd, Settled
    <2> QED
        BY <1>1, <2>1, <2>2, <2>3, EndedIsQuiet
<1>3. CASE q \notin O
    BY <1>1, <1>3 DEF FinalStatus, FinalText, FinalTool
<1> QED
    BY <1>2, <1>3

-----------------------------------------------------------------------------
(* Every step keeps them quiet, one action at a time.                      *)

\* Starting a Run ends the orphans of its Session.
LEMMA StartsQuiet == ASSUME TypesOK, AllQuiet, NEW r \in Runs, Starts(r), faults' = 0 PROVE AllQuiet'
<1>1. CASE Send(r) \/ StartReserved(r)
    <2>1. PICK O : /\ O \in SUBSET {q \in Runs : Orphan(q)}
                   /\ Fresh(r)
                   /\ status' = [FinalStatus(O) EXCEPT ![r] = "queued"]
                   /\ text' = FinalText(O)
                   /\ tool' = FinalTool(O)
                   /\ UNCHANGED <<outbox, call, fence>>
        <3>1. Orphans(SessionOf[r]) \in SUBSET {q \in Runs : Orphan(q)}
            BY DEF Orphans, Of
        <3> QED
            BY <1>1, <3>1 DEF Send, StartReserved, Start, Created
    <2>2. ASSUME NEW q \in Runs
          PROVE  Quiet(status'[q], text'[q], tool'[q], outbox'[q], call'[q])
        <3>1. Quiet(FinalStatus(O)[q], FinalText(O)[q], FinalTool(O)[q], outbox[q], call[q])
            BY <2>1, FinalQuiet
        <3>2. CASE q # r
            <4>1. status'[q] = FinalStatus(O)[q]
                BY <2>1, <3>2 DEF FinalStatus
            <4> QED
                BY <2>1, <3>1, <4>1
        <3>3. CASE q = r
            <4>1. status'[q] = "queued"
                BY <2>1, <3>3 DEF FinalStatus
            <4>2. status[q] = "none" /\ q \notin O
                BY <2>1, <3>3 DEF Fresh, Orphan, Live
            <4>3. FinalStatus(O)[q] = "none"
                BY <4>2 DEF FinalStatus
            <4> QED
                BY <2>1, <3>1, <4>1, <4>3 DEF Quiet, Over
        <3> QED
            BY <3>2, <3>3
    <2> QED
        BY <2>1, <2>2 DEF AllQuiet
<1>2. CASE Reserve(r)
    BY <1>2 DEF Reserve, parts, AllQuiet
<1>3. CASE StartRefused(r)
    <2>1. PICK O \in {{}, Orphans(SessionOf[r])} : Finalize(O)
        BY <1>3 DEF StartRefused
    <2>2. O \in SUBSET {q \in Runs : Orphan(q)}
        BY <2>1 DEF Orphans, Of
    <2> QED
        BY <1>3, <2>1, <2>2, FinalQuiet DEF StartRefused, Finalize, AllQuiet
<1>4. CASE StartFails(r)
    <2>1. Costs(1)
        BY <1>4 DEF StartFails, FinalizeFails
    <2> QED
        BY <2>1, CostsOK DEF TypesOK
<1> QED
    BY <1>1, <1>2, <1>3, <1>4 DEF Starts

\* Whoever meets an orphan ends its Parts.
LEMMA FinalizeOrphanQuiet ==
    ASSUME TypesOK, AllQuiet, NEW r \in Runs, FinalizeOrphan(r), faults' = 0 PROVE AllQuiet'
<1>1. ~Costs(1)
    BY CostsOK DEF TypesOK
<1>2. Finalize({r}) /\ Orphan(r) /\ UNCHANGED <<outbox, call, fence>>
    BY <1>1 DEF FinalizeOrphan, FinalizeFails
<1>3. {r} \in SUBSET {q \in Runs : Orphan(q)}
    BY <1>2
<1> QED
    BY <1>2, <1>3, FinalQuiet DEF Finalize, AllQuiet

\* The runtime's events; the over-long answer leaves a queued Part at most.
LEMMA EventsQuiet == ASSUME TypesOK, AllQuiet, NEW r \in Runs, Events(r), faults' = 0 PROVE AllQuiet'
<1>1. /\ \A q \in Runs : outbox[q] = <<>> /\ Quiet(status[q], text[q], tool[q], <<>>, call[q])
      /\ status \in [Runs -> {"none", "gone"} \union Live \union Over]
      /\ text \in [Runs -> Texts] /\ tool \in [Runs -> Tools]
    BY NoOthers DEF TypesOK, ControlOK, PartInv, GoodAll, DataOK
<1>2. ~Costs(1)
    BY CostsOK DEF TypesOK
<1>3. status[r] = "running" /\ UNCHANGED <<outbox, call, fence>>
    BY <1>2 DEF Events, TextStarted, TextCompleted, TextOverflow, ToolCreated, ToolEnded,
                Streaming, volatile
<1>4. CASE TextStarted(r)
    <2>1. /\ text'[r] = "streaming" /\ UNCHANGED <<status, tool>>
          /\ call[r] = "none" \/ tool[r] \in Settled
          /\ \A q \in Runs \ {r} : text'[q] = text[q]
        BY <1>1, <1>4 DEF TextStarted, TextPart
    <2>2. Quiet(status'[r], text'[r], tool'[r], outbox'[r], call'[r])
        BY <1>1, <1>3, <2>1 DEF Quiet, Over
    <2> QED
        BY <1>1, <1>3, <2>1, <2>2, OneIsQuiet DEF Others
<1>5. CASE TextCompleted(r)
    <2>1. /\ text'[r] = "completed" /\ UNCHANGED <<status, tool>>
          /\ \A q \in Runs \ {r} : text'[q] = text[q]
        BY <1>1, <1>5 DEF TextCompleted, TextPart
    <2>2. Quiet(status'[r], text'[r], tool'[r], outbox'[r], call'[r])
        BY <1>1, <1>3, <2>1 DEF Quiet, Over
    <2> QED
        BY <1>1, <1>3, <2>1, <2>2, OneIsQuiet DEF Others
<1>6. CASE TextOverflow(r)
    <2>1. /\ text[r] = "streaming" /\ text'[r] = "interrupted" /\ UNCHANGED tool
          /\ status'[r] = "failed"
          /\ \A q \in Runs \ {r} : text'[q] = text[q] /\ status'[q] = status[q]
        BY <1>1, <1>2, <1>6 DEF TextOverflow, TextPart, Terminal
    <2>2. tool[r] \in Tools
        BY <1>1
    <2>3. Quiet(status'[r], text'[r], tool'[r], outbox'[r], call'[r])
        BY <1>1, <1>3, <2>1, <2>2 DEF Quiet, Over, Tools
    <2> QED
        BY <1>1, <1>3, <2>1, <2>3, OneIsQuiet DEF Others
<1>7. CASE ToolCreated(r)
    <2>1. /\ tool[r] = "absent" /\ tool'[r] = "queued" /\ UNCHANGED <<status, text>>
          /\ \A q \in Runs \ {r} : tool'[q] = tool[q]
        BY <1>1, <1>7 DEF ToolCreated, ToolPart
    <2>2. Quiet(status'[r], text'[r], tool'[r], outbox'[r], call'[r])
        BY <1>1, <1>3, <2>1 DEF Quiet, Over
    <2> QED
        BY <1>1, <1>3, <2>1, <2>2, OneIsQuiet DEF Others
<1>8. CASE ToolEnded(r)
    <2>1. /\ tool'[r] \in {"completed", "failed"} /\ UNCHANGED <<status, text>>
          /\ \A q \in Runs \ {r} : tool'[q] = tool[q]
        BY <1>1, <1>8 DEF ToolEnded, ToolPart
    <2>2. Quiet(status'[r], text'[r], tool'[r], outbox'[r], call'[r])
        BY <1>1, <1>3, <2>1 DEF Quiet, Over, Settled
    <2> QED
        BY <1>1, <1>3, <2>1, <2>2, OneIsQuiet DEF Others
<1> QED
    BY <1>4, <1>5, <1>6, <1>7, <1>8 DEF Events

\* The end of an execution ends the Parts that are left.
LEMMA ReturnsQuiet ==
    ASSUME TypesOK, AllQuiet, NEW r \in Runs, Returns(r), faults' = 0 PROVE AllQuiet'
<1>1. /\ \A q \in Runs : outbox[q] = <<>> /\ Quiet(status[q], text[q], tool[q], <<>>, call[q])
      /\ status \in [Runs -> {"none", "gone"} \union Live \union Over]
    BY NoOthers DEF TypesOK, ControlOK
<1>2. CASE Complete(r)
    <2>1. /\ status'[r] = "completed" /\ UNCHANGED <<text, tool, outbox, call, fence>>
          /\ text[r] = "completed" /\ tool[r] \in Settled \union {"absent"} /\ status[r] = "running"
          /\ \A q \in Runs \ {r} : status'[q] = status[q]
        BY <1>1, <1>2 DEF Complete, Terminal, Streaming, parts
    <2>2. Quiet(status'[r], text'[r], tool'[r], outbox'[r], call'[r])
        BY <1>1, <2>1 DEF Quiet, Over
    <2> QED
        BY <1>1, <2>1, <2>2, OneIsQuiet DEF Others
<1>3. CASE Release(r)
    BY <1>3 DEF Release, parts, AllQuiet
<1>4. CASE Fail(r)
    <2>1. PICK a \in AfterAbort(r), i \in {0, 1}, c \in {0, 1} :
              /\ Costs(a.cost + i + c)
              /\ outbox' = a.outbox
              /\ \/ i = 0 /\ Interrupts(r, a.tool, "failed")
                 \/ i = 1 /\ InterruptsPartly(r, a.tool, "failed")
              /\ CommitsFailure(r, c)
        BY <1>4 DEF Fail
    <2>2. a.cost \in {0, 1} /\ a.cost + i + c \in Nat
        <3>1. a.cost \in {0, 1}
            BY AbortCosts
        <3> QED
            BY <2>1, <3>1
    <2>3. a.cost + i + c = 0
        BY <2>1, <2>2, CostsOK DEF TypesOK
    <2>4. a.cost = 0 /\ i = 0 /\ c = 0
        BY <2>1, <2>2, <2>3
    <2>5. call' = CallAborted(r) /\ Interrupts(r, a.tool, "failed") /\ status[r] # "gone"
        BY <1>4, <2>1, <2>4 DEF Fail, Live
    <2>6. status' = [status EXCEPT ![r] = "failed"] /\ UNCHANGED fence
        BY <2>1, <2>4 DEF CommitsFailure, Terminal
    <2>7. /\ \A q \in Runs \ {r} : text'[q] = text[q] /\ tool'[q] = tool[q] /\ call'[q] = call[q]
          /\ \A q \in Runs : outbox'[q] = <<>>
          /\ text'[r] # "streaming"
          /\ tool'[r] \in Settled \/ (tool'[r] = "absent" /\ tool[r] = "absent")
          /\ call'[r] = "none" <=> call[r] = "none"
        BY <2>1, <2>4, <2>5, AbortOne
    <2>8. Quiet(status'[r], text'[r], tool'[r], outbox'[r], call'[r])
        BY <1>1, <2>5, <2>7, EndedIsQuiet
    <2>9. Others(r)
        BY <1>1, <2>6, <2>7 DEF Others
    <2> QED
        BY <2>6, <2>8, <2>9, OneIsQuiet
<1>5. ~FencedEnd(r)
    BY DEF FencedEnd, AllQuiet
<1>6. CASE ReportsCancelled(r)
    <2>1. PICK a \in AfterAbort(r) :
              /\ outbox' = a.outbox
              /\ \/ /\ Costs(a.cost)
                    /\ Interrupts(r, a.tool, "cancelled")
                    /\ status' = Terminal(r, "cancelled")
                    /\ UNCHANGED fence
                 \/ Costs(a.cost + 1)
        BY <1>6 DEF ReportsCancelled
    <2>2. a.cost \in {0, 1}
        BY AbortCosts
    <2>3. a.cost \in Nat /\ a.cost + 1 \in Nat /\ a.cost + 1 # 0
        BY <2>2
    <2>4. ~Costs(a.cost + 1) /\ (Costs(a.cost) => a.cost = 0)
        BY <2>3, CostsOK DEF TypesOK
    <2>5. /\ a.cost = 0 /\ Interrupts(r, a.tool, "cancelled")
          /\ status' = [status EXCEPT ![r] = "cancelled"] /\ UNCHANGED fence
          /\ call' = CallAborted(r) /\ status[r] # "gone"
        BY <1>6, <2>1, <2>4 DEF ReportsCancelled, Streaming, Terminal
    <2>6. /\ \A q \in Runs \ {r} : text'[q] = text[q] /\ tool'[q] = tool[q] /\ call'[q] = call[q]
          /\ \A q \in Runs : outbox'[q] = <<>>
          /\ text'[r] # "streaming"
          /\ tool'[r] \in Settled \/ (tool'[r] = "absent" /\ tool[r] = "absent")
          /\ call'[r] = "none" <=> call[r] = "none"
        BY <2>1, <2>5, AbortOne
    <2>7. Quiet(status'[r], text'[r], tool'[r], outbox'[r], call'[r])
        BY <1>1, <2>5, <2>6, EndedIsQuiet
    <2>8. Others(r)
        BY <1>1, <2>5, <2>6 DEF Others
    <2> QED
        BY <2>5, <2>7, <2>8, OneIsQuiet
<1> QED
    BY <1>2, <1>3, <1>4, <1>5, <1>6 DEF Returns

\* So does the user's cancellation.
LEMMA CancelsQuiet ==
    ASSUME TypesOK, AllQuiet, NEW r \in Runs, Cancels(r), faults' = 0 PROVE AllQuiet'
<1>1. /\ \A q \in Runs : outbox[q] = <<>> /\ Quiet(status[q], text[q], tool[q], <<>>, call[q])
      /\ status \in [Runs -> {"none", "gone"} \union Live \union Over]
      /\ text \in [Runs -> Texts] /\ tool \in [Runs -> Tools]
    BY NoOthers DEF TypesOK, ControlOK, PartInv, GoodAll, DataOK
<1>2. CASE Cancel(r)
    <2>1. PICK a \in AfterAbort(r) :
              Costs(a.cost) /\ outbox' = a.outbox /\ Interrupts(r, a.tool, "cancelled")
        BY <1>2 DEF Cancel
    <2>2. a.cost \in Nat
        BY AbortCosts
    <2>3. a.cost = 0
        BY <2>1, <2>2, CostsOK DEF TypesOK
    <2>4. /\ call' = CallAborted(r) /\ status[r] # "gone"
          /\ status' = [status EXCEPT ![r] = "cancelled"] /\ UNCHANGED fence
        BY <1>2 DEF Cancel, Live, Terminal
    <2>5. /\ \A q \in Runs \ {r} : text'[q] = text[q] /\ tool'[q] = tool[q] /\ call'[q] = call[q]
          /\ \A q \in Runs : outbox'[q] = <<>>
          /\ text'[r] # "streaming"
          /\ tool'[r] \in Settled \/ (tool'[r] = "absent" /\ tool[r] = "absent")
          /\ call'[r] = "none" <=> call[r] = "none"
        BY <2>1, <2>3, <2>4, AbortOne
    <2>6. Quiet(status'[r], text'[r], tool'[r], outbox'[r], call'[r])
        BY <1>1, <2>4, <2>5, EndedIsQuiet
    <2>7. Others(r)
        BY <1>1, <2>4, <2>5 DEF Others
    <2> QED
        BY <2>4, <2>6, <2>7, OneIsQuiet
<1>3. ~CancelFails(r)
    <2>1. SUFFICES ASSUME CancelFails(r) PROVE FALSE
        OBVIOUS
    <2>2. PICK a \in AfterAbort(r) : Costs(a.cost + 1)
        BY <2>1 DEF CancelFails
    <2>3. a.cost \in {0, 1}
        BY AbortCosts
    <2>4. a.cost + 1 \in Nat /\ a.cost + 1 # 0
        BY <2>3
    <2> QED
        BY <2>2, <2>4, CostsOK DEF TypesOK
<1>4. CASE CancelOrphan(r)
    <2>1. ~Costs(1)
        BY CostsOK DEF TypesOK
    <2>2. /\ status' = [status EXCEPT ![r] = "cancelled"] /\ status[r] # "gone"
          /\ text' = [text EXCEPT ![r] = TextEnd(text[r])]
          /\ tool' = [tool EXCEPT ![r] = ToolEnd(tool[r], "cancelled")]
          /\ UNCHANGED <<outbox, call, fence>>
        BY <1>4, <2>1 DEF CancelOrphan, Orphan, Live, Terminal, Interrupts, TextPart, ToolPart
    <2>3. text'[r] # "streaming"
        BY <1>1, <2>2 DEF TextEnd
    <2>4. tool'[r] \in Settled \/ (tool'[r] = "absent" /\ tool[r] = "absent")
        BY <1>1, <2>2 DEF ToolEnd, Settled
    <2>5. Quiet(status'[r], text'[r], tool'[r], outbox'[r], call'[r])
        BY <1>1, <2>2, <2>3, <2>4, EndedIsQuiet
    <2>6. Others(r)
        BY <1>1, <2>2 DEF Others
    <2> QED
        BY <2>2, <2>5, <2>6, OneIsQuiet
<1> QED
    BY <1>2, <1>3, <1>4 DEF Cancels

\* A call changes and a row tells of it at once.
LEMMA ToldIsQuiet ==
    ASSUME TypesOK, AllQuiet, NEW r \in Runs, NEW row, NEW c,
           call' = [call EXCEPT ![r] = c], Tells(With(r, row)), faults' = 0,
           UNCHANGED <<status, text, fence>>,
           Quiet(status[r], text[r], Projected(tool[r], row), <<>>, c)
    PROVE  AllQuiet'
<1>1. tool \in [Runs -> Tools] /\ call \in [Runs -> Calls]
    BY DEF TypesOK, PartInv, GoodAll
<1>2. tool' = Drained(With(r, row)) /\ outbox' = Empty
    BY TellsCounts DEF TypesOK
<1>3. tool' = [tool EXCEPT ![r] = Projected(tool[r], row)]
    BY <1>2, DrainedOne
<1>4. \A q \in Runs : outbox'[q] = <<>>
    BY <1>2, EmptyOnes
<1>5. tool'[r] = Projected(tool[r], row) /\ call'[r] = c
    BY <1>1, <1>3
<1>6. Others(r)
    BY <1>1, <1>3, <1>4 DEF Others
<1> QED
    BY <1>4, <1>5, <1>6, OneIsQuiet

\* A call changes and no row tells of it.
LEMMA UntoldIsQuiet ==
    ASSUME TypesOK, AllQuiet, NEW r \in Runs, NEW c,
           call' = [call EXCEPT ![r] = c],
           UNCHANGED <<status, text, tool, fence>>, \A q \in Runs : outbox'[q] = <<>>,
           Quiet(status[r], text[r], tool[r], <<>>, c)
    PROVE  AllQuiet'
<1>1. call \in [Runs -> Calls]
    BY DEF TypesOK, PartInv, GoodAll
<1>2. call'[r] = c /\ Others(r)
    BY <1>1 DEF Others
<1> QED
    BY <1>2, OneIsQuiet

\* A Part waits or runs only while its call does.
LEMMA AuthorityQuiet ==
    ASSUME TypesOK, AllQuiet, NEW r \in Runs, Authority(r), faults' = 0 PROVE AllQuiet'
<1>1. /\ \A q \in Runs : outbox[q] = <<>>
      /\ Quiet(status[r], text[r], tool[r], <<>>, call[r])
      /\ tool[r] \in Tools /\ call[r] \in Calls
      /\ tool[r] = "absent" => call[r] \notin OpenCalls
    BY NoOthers DEF TypesOK, PartInv, GoodAll, Good
<1>2. UNCHANGED <<status, text, fence>>
    BY DEF Authority, Ask, Decide, Dispatch, DispatchAborted, Refuse, Outcome, Reconcile,
           parts, volatile
<1>3. CASE Ask(r)
    <2>1. status[r] = "running" /\ tool[r] = "queued" /\ text[r] # "streaming" /\ call[r] = "none"
        BY <1>3 DEF Ask, Streaming
    <2>2. CASE /\ call' = [call EXCEPT ![r] = "waiting"]
               /\ Says(r, With(r, Row("approval", "waiting_approval")))
        <3>1. Quiet(status[r], text[r], Projected(tool[r], Row("approval", "waiting_approval")),
                    <<>>, "waiting")
            BY <2>1 DEF Quiet, Projected, Takes, Row, Over, Settled
        <3> QED
            BY <1>2, <2>2, <3>1, ToldIsQuiet DEF Says
    <2>3. CASE /\ call' = [call EXCEPT ![r] = "approved"]
               /\ Says(r, With(r, Row("approval", "queued")))
        <3>1. Quiet(status[r], text[r], Projected(tool[r], Row("approval", "queued")),
                    <<>>, "approved")
            BY <2>1 DEF Quiet, Projected, Takes, Row, Over, Settled
        <3> QED
            BY <1>2, <2>3, <3>1, ToldIsQuiet DEF Says
    <2>4. CASE call' = [call EXCEPT ![r] = "approved"] /\ UNCHANGED <<tool, outbox, thrown, faults>>
        <3>1. Quiet(status[r], text[r], tool[r], <<>>, "approved")
            BY <2>1 DEF Quiet, Over
        <3> QED
            BY <1>1, <1>2, <2>4, <3>1, UntoldIsQuiet
    <2> QED
        BY <1>3, <2>2, <2>3, <2>4 DEF Ask
<1>4. CASE Decide(r)
    <2>1. call[r] = "waiting"
        BY <1>4 DEF Decide
    <2>2. CASE call' = [call EXCEPT ![r] = "approved"] /\ Tells(outbox)
        <3>1. tool' = tool /\ outbox' = Empty
            BY <2>2, TellsCounts, DrainedOne DEF TypesOK
        <3>2. Quiet(status[r], text[r], tool[r], <<>>, "approved")
            BY <1>1, <2>1 DEF Quiet, OpenCalls
        <3> QED
            BY <1>2, <2>2, <3>1, <3>2, EmptyOnes, UntoldIsQuiet
    <2>3. CASE call' = [call EXCEPT ![r] = "denied"] /\ Tells(With(r, Row("approval", "denied")))
        <3>1. Quiet(status[r], text[r], Projected(tool[r], Row("approval", "denied")),
                    <<>>, "denied")
            BY <1>1, <2>1 DEF Quiet, Projected, Takes, Row, Settled, OpenCalls
        <3> QED
            BY <1>2, <2>3, <3>1, ToldIsQuiet
    <2> QED
        BY <1>4, <2>2, <2>3 DEF Decide
<1>5. CASE Dispatch(r)
    <2>1. call[r] = "approved" /\ status[r] = "running"
        BY <1>5 DEF Dispatch, Streaming
    <2>2. Quiet(status[r], text[r], Projected(tool[r], Row("action", "running")), <<>>, "running")
        BY <1>1, <2>1 DEF Quiet, Projected, Takes, Row, Settled, Over, OpenCalls
    <2> QED
        BY <1>2, <1>5, <2>2, ToldIsQuiet DEF Dispatch, Says
<1>6. CASE DispatchAborted(r)
    <2>1. ~Costs(1)
        BY CostsOK DEF TypesOK
    <2>2. /\ call' = [call EXCEPT ![r] = "cancelled"]
          /\ Tells([outbox EXCEPT ![r] =
                 @ \o <<Row("action", "running"), Row("action", "cancelled")>>])
        BY <1>6, <2>1 DEF DispatchAborted, Says
    <2>3. /\ tool \in [Runs -> Tools] /\ outbox \in [Runs -> Seq(Rows)] /\ call \in [Runs -> Calls]
        BY DEF TypesOK, PartInv, GoodAll
    <2>4. PICK rows : rows = [outbox EXCEPT ![r] =
                          @ \o <<Row("action", "running"), Row("action", "cancelled")>>]
        OBVIOUS
    <2>5. tool' = Drained(rows) /\ outbox' = Empty
        BY <2>2, <2>4, TellsCounts DEF TypesOK
    <2>6. rows[r] = Append(Append(<<>>, Row("action", "running")), Row("action", "cancelled"))
        BY <1>1, <2>3, <2>4
    <2>7. \A q \in Runs \ {r} : rows[q] = <<>>
        BY <1>1, <2>3, <2>4
    <2>8. tool'[r] = Projected(Projected(tool[r], Row("action", "running")), Row("action", "cancelled"))
        <3>1. Fold(tool[r], rows[r])
                = Projected(Projected(tool[r], Row("action", "running")), Row("action", "cancelled"))
            BY <2>6, FoldTwo
        <3> QED
            BY <2>5, <3>1 DEF Drained, Fold
    <2>9. \A q \in Runs \ {r} : tool'[q] = tool[q]
        BY <2>5, <2>7, FoldNothing DEF Drained, Fold
    <2>10. tool'[r] \in Settled
        BY <1>1, <2>8 DEF Projected, Takes, Row, Settled, Tools
    <2>11. call'[r] = "cancelled" /\ call[r] = "approved"
        BY <1>6, <2>2, <2>3 DEF DispatchAborted
    <2>12. Quiet(status'[r], text'[r], tool'[r], outbox'[r], call'[r])
        <3>1. status[r] \in Over => text[r] # "streaming"
            BY <1>1 DEF Quiet
        <3> QED
            BY <1>2, <2>5, <2>10, <2>11, <3>1, EmptyOnes DEF Quiet, Settled
    <2>13. Others(r)
        BY <1>2, <2>2, <2>3, <2>5, <2>9, EmptyOnes DEF Others
    <2> QED
        BY <1>2, <2>12, <2>13, OneIsQuiet
<1>7. CASE Refuse(r)
    <2>1. call[r] = "approved" /\ call' = [call EXCEPT ![r] = "abandoned"] /\ UNCHANGED <<tool, outbox>>
        BY <1>7 DEF Refuse, parts
    <2>2. Quiet(status[r], text[r], tool[r], <<>>, "abandoned")
        BY <1>1, <2>1 DEF Quiet, OpenCalls
    <2> QED
        BY <1>1, <1>2, <2>1, <2>2, UntoldIsQuiet
<1>8. ASSUME NEW o \in Outcomes, Outcome(r, o) \/ Reconcile(r, o) PROVE AllQuiet'
    <2>1. /\ call[r] \in {"running", "outcome_unknown"}
          /\ call' = [call EXCEPT ![r] = o] /\ Tells(With(r, Row("action", o)))
        BY <1>8 DEF Outcome, Reconcile, Says
    <2>2. Quiet(status[r], text[r], Projected(tool[r], Row("action", o)), <<>>, o)
        BY <1>1, <2>1 DEF Quiet, Projected, Takes, Row, Settled, Outcomes, OpenCalls
    <2> QED
        BY <1>2, <2>1, <2>2, ToldIsQuiet
<1> QED
    BY <1>3, <1>4, <1>5, <1>6, <1>7, <1>8 DEF Authority

\* A deleted Session has no Parts.
LEMMA DeleteQuiet ==
    ASSUME TypesOK, AllQuiet, NEW s \in Sessions, Delete(s) PROVE AllQuiet'
<1>1. ASSUME NEW q \in Runs PROVE Quiet(status'[q], text'[q], tool'[q], outbox'[q], call'[q])
    <2>1. CASE q \in Of(s)
        <3>1. /\ status'[q] = "gone" /\ text'[q] = "absent"
              /\ tool'[q] = "absent" /\ outbox'[q] = <<>>
            BY <2>1 DEF Delete, Retires
        <3> QED
            BY <3>1 DEF Quiet, Over
    <2>2. CASE q \notin Of(s)
        <3>1. /\ status'[q] = status[q] /\ text'[q] = text[q]
              /\ tool'[q] = tool[q] /\ outbox'[q] = outbox[q] /\ call'[q] = call[q]
            BY <2>2 DEF Delete, Retires
        <3> QED
            BY <3>1 DEF AllQuiet
    <2> QED
        BY <2>1, <2>2
<1> QED
    BY <1>1 DEF Delete, volatile, AllQuiet

\* The recovery settles the Parts of the calls it settles.
LEMMA RestartQuiet == ASSUME TypesOK, AllQuiet, Restart PROVE AllQuiet'
<1>1. PICK G \in SUBSET {r \in Runs : call[r] = "approved"} :
          call' = Recovered(G) /\ tool' = Drained(RecoveryRows(G))
    BY DEF Restart
<1>2. /\ UNCHANGED <<status, text>> /\ outbox' = Empty
      /\ fence' = [r \in Runs |-> "none"]
    BY DEF Restart
<1>3. ASSUME NEW q \in Runs PROVE Quiet(status[q], text[q], tool'[q], <<>>, call'[q])
    <2>1. /\ outbox[q] = <<>> /\ Quiet(status[q], text[q], tool[q], <<>>, call[q])
          /\ tool[q] \in Tools /\ (tool[q] = "absent" => call[q] \notin OpenCalls)
        BY NoOthers DEF TypesOK, PartInv, GoodAll, Good
    <2>2. tool'[q] = Fold(tool[q], RecoveryRows(G)[q])
        BY <1>1 DEF Drained, Fold
    <2>3. \A row : Fold(tool[q], Append(<<>>, row)) = Projected(tool[q], row)
        BY FoldOne
    <2>4. CASE call[q] = "running"
        <3>1. /\ call'[q] = "outcome_unknown"
              /\ tool'[q] = Projected(tool[q], Row("action", "outcome_unknown"))
            BY <1>1, <2>1, <2>2, <2>3, <2>4 DEF Recovered, RecoveryRows
        <3> QED
            BY <2>1, <2>4, <3>1 DEF Quiet, Projected, Takes, Row, Settled, OpenCalls
    <2>5. CASE call[q] = "waiting"
        <3>1. /\ call'[q] = "denied"
              /\ tool'[q] = Projected(tool[q], Row("approval", "denied"))
            BY <1>1, <2>1, <2>2, <2>3, <2>5 DEF Recovered, RecoveryRows
        <3> QED
            BY <2>1, <2>5, <3>1 DEF Quiet, Projected, Takes, Row, Settled, OpenCalls
    <2>6. CASE call[q] = "approved" /\ q \in G
        <3>1. /\ call'[q] = "cancelled"
              /\ tool'[q] = Projected(tool[q], Row("action", "cancelled"))
            BY <1>1, <2>1, <2>2, <2>3, <2>6 DEF Recovered, RecoveryRows
        <3> QED
            BY <2>1, <2>6, <3>1 DEF Quiet, Projected, Takes, Row, Settled, OpenCalls
    <2>7. CASE call[q] = "approved" /\ q \notin G
        <3>1. call'[q] = "abandoned" /\ tool'[q] = tool[q]
            BY <1>1, <2>1, <2>2, <2>7, FoldNothing DEF Recovered, RecoveryRows
        <3> QED
            BY <2>1, <2>7, <3>1 DEF Quiet, OpenCalls
    <2>8. CASE call[q] \notin {"running", "waiting", "approved"}
        <3>1. call'[q] = call[q] /\ tool'[q] = tool[q]
            BY <1>1, <2>1, <2>2, <2>8, FoldNothing DEF Recovered, RecoveryRows
        <3> QED
            BY <2>1, <3>1
    <2> QED
        BY <2>4, <2>5, <2>6, <2>7, <2>8
<1> QED
    BY <1>2, <1>3, EmptyOnes DEF AllQuiet

\* Every step that does not fail keeps all Runs quiet.
LEMMA NextQuiet == ASSUME TypesOK, QuietInv, [Next]_vars PROVE QuietInv'
<1> SUFFICES ASSUME faults' = 0 PROVE AllQuiet'
    BY DEF QuietInv
<1>1. AllQuiet
    BY NextCounts DEF TypesOK, QuietInv, Counts
<1>2. CASE UNCHANGED vars
    BY <1>1, <1>2 DEF vars, volatile, AllQuiet
<1>3. ASSUME NEW r \in Runs, Begin(r) PROVE AllQuiet'
    BY <1>1, <1>3 DEF Begin, parts, AllQuiet
<1>4. ASSUME NEW r \in Runs, Resolved(r) PROVE AllQuiet'
    <2>1. /\ status[r] = "queued" /\ status' = [status EXCEPT ![r] = "running"]
          /\ UNCHANGED <<text, tool, outbox, call, fence>>
        BY <1>4 DEF Resolved, Running, parts
    <2>2. Quiet("queued", text[r], tool[r], outbox[r], call[r]) /\ \A q \in Runs : outbox[q] = <<>>
        BY <1>1, <2>1 DEF AllQuiet, Quiet
    <2>3. Quiet("running", text[r], tool[r], outbox[r], call[r])
        BY <2>2 DEF Quiet, Over
    <2>4. status'[r] = "running" /\ Others(r)
        BY <2>1, <2>2 DEF Others, TypesOK, ControlOK
    <2> QED
        BY <1>1, <2>1, <2>3, <2>4, OneIsQuiet
<1>5. CASE Next
    BY <1>1, <1>3, <1>4, <1>5, StartsQuiet, FinalizeOrphanQuiet, EventsQuiet, ReturnsQuiet,
       CancelsQuiet, AuthorityQuiet, DeleteQuiet, RestartQuiet DEF Next
<1> QED
    BY <1>2, <1>5

\* There is no Run yet.
LEMMA InitQuiet == ASSUME Init PROVE QuietInv
BY DEF Init, QuietInv, AllQuiet, Quiet, Over

\* A quiet Run that is over looks over.
LEMMA QuietIsQuiet == ASSUME QuietInv PROVE OverRunsAreQuiet
BY DEF QuietInv, AllQuiet, Quiet, Settled, OverRunsAreQuiet

-----------------------------------------------------------------------------
(* The theorems.                                                           *)

\* The invariant holds throughout.
THEOREM SpecIInv == Spec => []IInv
BY InitOK, StepOK, PTL DEF Spec

\* The Parts, the rows that wait for them and what the authorities know fit
\* together throughout.
THEOREM SpecPartInv == Spec => []PartInv
BY InitGood, NextGood, PTL DEF Spec

\* The variables that are neither control nor Parts have their types, and the
\* failures are counted.
THEOREM SpecDataOK == Spec => []DataOK
<1>1. DataOK /\ [Next]_vars => DataOK'
    BY NextCounts DEF Counts
<1> QED
    BY <1>1, InitCounts, PTL DEF Spec

\* The types of all variables, the rows that wait for a flush among them.
THEOREM ChatTypeCorrect == Spec => []TypeOK
BY SpecIInv, SpecPartInv, SpecDataOK, TypeFromParts, PTL DEF IInv

\* The tool Part never claims what the authorities do not, and no row waits for
\* a Part that does not exist, however rows, failing flushes, cancellations,
\* late evidence, restarts and deletions interleave.
THEOREM PartsTellTheTruth == Spec => []PartTellsTruth
BY SpecPartInv, GoodIsTrue, PTL

\* As long as no transaction fails, a Run that is over leaves no Part that looks
\* as if something were still going on.
THEOREM OverRunsAreQuietAlways == Spec => []OverRunsAreQuiet
<1>1. Spec => []TypesOK
    BY SpecIInv, SpecPartInv, SpecDataOK, PTL DEF IInv, TypesOK
<1>2. TypesOK /\ QuietInv /\ [Next]_vars => QuietInv'
    BY NextQuiet
<1>3. Spec => []QuietInv
    BY <1>1, <1>2, InitQuiet, PTL DEF Spec
<1> QED
    BY <1>3, QuietIsQuiet, PTL

\* However sends, preflights, reads, cancellations, failures and restarts
\* interleave, a Session never has two Runs that are queued or running.
THEOREM OneLiveRunAlways == Spec => []OneLiveRun
BY SpecIInv, PTL DEF IInv

\* In a deleted Session nothing is executed, starting or left open.
THEOREM DeletedSessionsAreQuiet == Spec => []DeletedIsQuiet
BY SpecIInv, PTL DEF IInv

\* As long as the process lives, a Run is released only with its end committed.
THEOREM ReleasesComeLast == Spec => ReleasedRunsAreOver
<1>1. IInv /\ [Next]_vars
          => [\A r \in Runs : exec[r] # "none" /\ exec'[r] = "none" /\ restarts' = restarts
                                 => status'[r] \in Over]_vars
    <2> SUFFICES ASSUME IInv, [Next]_vars, NEW r \in Runs,
                        exec[r] # "none", exec'[r] = "none", restarts' = restarts
                 PROVE  status'[r] \in Over
        OBVIOUS
    <2>1. RunMoves(r)
        BY StepMoves DEF IInv, Moves
    <2> QED
        BY <2>1 DEF RunMoves, Starting
<1> QED
    BY <1>1, SpecIInv, PTL DEF Spec, ReleasedRunsAreOver

\* A Run that is over keeps its end until its Session is deleted.
RunsStayOver ==
    [][\A r \in Runs : status[r] \in Over => status'[r] \in {status[r], "gone"}]_vars

\* No Run that is over is ever given another end.
THEOREM RunsAreOverForGood == Spec => RunsStayOver
<1>1. IInv /\ [Next]_vars
          => [\A r \in Runs : status[r] \in Over => status'[r] \in {status[r], "gone"}]_vars
    <2> SUFFICES ASSUME IInv, [Next]_vars, NEW r \in Runs, status[r] \in Over
                 PROVE  status'[r] \in {status[r], "gone"}
        OBVIOUS
    <2>1. RunMoves(r)
        BY StepMoves DEF IInv, Moves
    <2> QED
        BY <2>1 DEF RunMoves, Starting, Fresh, Live, Over
<1> QED
    BY <1>1, SpecIInv, PTL DEF Spec, RunsStayOver
=============================================================================
