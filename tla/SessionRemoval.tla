--------------------------- MODULE SessionRemoval ---------------------------
(***************************************************************************)
(* What is left of a Session after it was deleted, alone or with its       *)
(* Project, and who clears it away.                                        *)
(*                                                                         *)
(*   - The operations of a Project take turns (#serialize): to create a    *)
(*     Session or to start a Run awaits the Box, to request the deletion   *)
(*     of the Project does not.                                            *)
(*   - The drain of project-application-service.ts retires the Sessions of *)
(*     a Project being deleted in batches, then drops the Project; its job *)
(*     row survives a crash, its retry timer does not.                     *)
(*   - A retired Session leaves its thread with the agent runtime and a    *)
(*     row in the outbox of cleanups.  The attempt of deleteSession, a     *)
(*     sweep and a worker (chat-application-service.ts) share the attempts *)
(*     to delete the thread, and a limited number of provider operations.  *)
(*                                                                         *)
(* A row or a job is "due" when its next attempt may be made, "deferred"   *)
(* before.  What promises do before the next callback is one step.         *)
(***************************************************************************)
EXTENDS Naturals, Sequences, FiniteSets

CONSTANTS
    Sessions, Projects, Nobody,
    ProjectOf,    \* the Project of a Session, or Nobody
    Old,          \* the Sessions there are from the beginning
    Used,         \* those in which Runs are started
    Stuck,        \* those whose provider operation may never return
    Slots,        \* agentSessionCleanupMaxInFlightAttempts
    MaxJobs,      \* maxAgentSessionCleanupJobs
    Batch,        \* deletionBatchSize
    MaxFaults     \* failed writes, failed or late provider calls, restarts

Removal == "removal"     \* requestDeletion, among the Sessions in a tail

ASSUME RemovalAssumption ==
    /\ IsFiniteSet(Sessions)
    /\ ProjectOf \in [Sessions -> Projects \union {Nobody}]
    /\ Nobody \notin Sessions \union Projects /\ Removal \notin Sessions
    /\ Old \subseteq Sessions /\ Used \subseteq Sessions /\ Stuck \subseteq Sessions
    /\ Slots \in Nat /\ MaxJobs \in Nat /\ Batch \in Nat \ {0} /\ MaxFaults \in Nat
    /\ Cardinality(Stuck) < Slots /\ Cardinality(Stuck) < MaxJobs

VARIABLES
    sess,      \* a Session: "none" yet, "live", or "gone"
    run,       \* its latest Run; "ending": over, but its execution goes on
    thread,    \* the Sessions whose thread the agent runtime keeps
    row,       \* agent_session_cleanup_outbox
    project,   \* a Project is "active", "gone", or its deletion job is "due", "deferred"
    tail,      \* mutationTails: the operations that wait, the running one first
    checking,  \* the Projects whose running operation awaits the Box
    drain,     \* deletionDrain: "on", "off", or "failed" (rejected)
    timer,     \* deletionTimer
    op,        \* agentSessionCleanupOperations: what the provider is doing
    attempt,   \* agentSessionCleanupAttempts
    direct,    \* the Sessions whose deleteSession awaits its attempt
    worker,    \* agentSessionWorkerExecution
    sweep,     \* agentSessionRecoveryExecution
    backoff,   \* agentSessionRetryStatePersistenceBackoffUntilMs lies ahead
    faults

chats   == <<sess, run, thread>>
jobs    == <<project, drain, timer>>
turns   == <<tail, checking>>
cleanup == <<op, attempt, direct, worker, sweep, backoff>>
vars == <<chats, row, jobs, turns, cleanup, faults>>

Of(p)    == {s \in Sessions : ProjectOf[s] = p}
Rows     == {s \in Sessions : row[s] # "none"}
Open     == {s \in Sessions : op[s] # "none"}
Deleting == {p \in Projects : project[p] \in {"due", "deferred"}}
Removed(s) == sess[s] = "gone" \/ ProjectOf[s] \in Deleting

\* The worker and the sweep: the jobs listed and not taken, the attempt awaited.
Off == [pc |-> "off", todo |-> {}, at |-> Nobody]
Has(jobset) == [pc |-> "on", todo |-> jobset, at |-> Nobody]
Sleeping == [Off EXCEPT !.pc = "waiting"]
Idle(w) == w.pc = "on" /\ w.at = Nobody /\ w.todo = {}

Init ==
    /\ sess = [s \in Sessions |-> IF s \in Old THEN "live" ELSE "none"]
    /\ run = [s \in Sessions |-> "none"] /\ thread = Old
    /\ row = [s \in Sessions |-> "none"]
    /\ project = [p \in Projects |-> "active"]
    /\ tail = [p \in Projects |-> <<>>] /\ checking = {}
    /\ drain = "off" /\ timer = FALSE
    /\ op = [s \in Sessions |-> "none"] /\ attempt = {} /\ direct = {}
    /\ worker = Off /\ sweep = Off /\ backoff = FALSE /\ faults = 0

Fault == faults < MaxFaults /\ faults' = faults + 1
Unless(free) == IF free THEN UNCHANGED faults ELSE Fault

-----------------------------------------------------------------------------
(* Attempts to remove a thread.                                            *)

\* ensureAgentSessionCleanupWorker, with the rows and the backoff there are by then.
Ensured(w) ==
    IF w.pc = "off" /\ (backoff' \/ \E s \in Sessions : row'[s] # "none") THEN Has({}) ELSE w

\* wakeAgentSessionCleanupRetry: no wait of a backoff, which "on" stands for.
Woken(w) == IF w.pc = "waiting" THEN Has({}) ELSE w

\* How an attempt may end once the provider is done with s, or has no slot for
\* it: acknowledged, recorded as a failure, or not even that (the catch of
\* #recordAgentSessionCleanupFailure).
Recorded(s, outcome) ==
    /\ row' = [row EXCEPT ![s] = CASE @ = "none" \/ outcome = "unrecorded" -> @
                                   [] outcome = "succeeded"                -> "none"
                                   [] OTHER                                -> "deferred"]
    /\ backoff' = (outcome = "unrecorded")

\* Who awaits the attempt at s goes on, or breaks its loop off.
After(w, outcome, broken) ==
    IF outcome = "unrecorded" THEN broken ELSE [w EXCEPT !.at = Nobody]

\* The attempt at s ends: worker, sweep and deleteSession hear of it.
Settles(s, outcome) ==
    /\ Recorded(s, outcome)
    /\ attempt' = attempt \ {s} /\ direct' = direct \ {s}
    /\ sweep' = IF sweep.at = s THEN After(sweep, outcome, Off) ELSE sweep
    /\ LET w == IF worker.at = s THEN After(worker, outcome, Has({})) ELSE Woken(worker)
       IN  worker' = IF s \in direct \/ sweep'.pc # sweep.pc THEN Ensured(w) ELSE w

\* #getOrStartAgentSessionCleanup: the attempt at s is joined or begun.
Joins(s) == s \in attempt \/ (s \notin Open /\ Cardinality(Open) < Slots)
Begins(s) ==
    IF s \in attempt THEN UNCHANGED <<op, attempt>>
    ELSE /\ op' = [op EXCEPT ![s] = IF run[s] = "ending" THEN "busy" ELSE "open"]
         /\ attempt' = attempt \union {s}

\* With every slot taken it fails at once; an older operation at s makes it ineligible.
NoSlot(s) == s \notin attempt /\ s \notin Open /\ Cardinality(Open) >= Slots
Ineligible(s) == s \notin attempt /\ s \in Open

\* The worker takes its next job.
WorkerTakes(s) ==
    /\ worker.at = Nobody /\ s \in worker.todo
    /\ LET w == [worker EXCEPT !.todo = @ \ {s}] IN
       \/ Joins(s) /\ Begins(s) /\ worker' = [w EXCEPT !.at = s]
                   /\ UNCHANGED <<row, backoff, faults>>
       \/ Ineligible(s) /\ worker' = w /\ UNCHANGED <<op, attempt, row, backoff, faults>>
       \/ /\ NoSlot(s)
          /\ \E outcome \in {"failed", "unrecorded"} :
                /\ Recorded(s, outcome) /\ Unless(outcome = "failed")
                /\ worker' = After(w, outcome, Has({}))
          /\ UNCHANGED <<op, attempt>>
    /\ UNCHANGED <<chats, jobs, turns, direct, sweep>>

\* The worker lists the jobs that are due, waits, or ends; a timer that finds
\* nothing to do sends it back to sleep.
WorkerLooks ==
    /\ (Idle(worker) /\ ~backoff) \/ worker.pc = "waiting"
    /\ LET due  == {s \in Sessions : row[s] = "due"}
           free == due \ (attempt \union Open)
       IN  worker' = IF free # {} THEN Has(free) ELSE IF Rows # {} THEN Sleeping ELSE Off
    /\ UNCHANGED <<chats, row, jobs, turns, op, attempt, direct, sweep, backoff, faults>>

\* The sweep takes its next job, whether it is due or not.
SweepTakes(s) ==
    /\ sweep.at = Nobody /\ s \in sweep.todo
    /\ LET w == [sweep EXCEPT !.todo = @ \ {s}] IN
       \/ Joins(s) /\ Begins(s) /\ sweep' = [w EXCEPT !.at = s]
                   /\ UNCHANGED <<row, backoff, worker, faults>>
       \/ Ineligible(s) /\ sweep' = w /\ UNCHANGED <<op, attempt, row, backoff, worker, faults>>
       \/ /\ NoSlot(s)
          /\ \E outcome \in {"failed", "unrecorded"} :
                /\ Recorded(s, outcome) /\ Unless(outcome = "failed")
                /\ sweep' = After(w, outcome, Off)
                /\ worker' = IF sweep'.pc = "off" THEN Ensured(Woken(worker)) ELSE Woken(worker)
          /\ UNCHANGED <<op, attempt>>
    /\ UNCHANGED <<chats, jobs, turns, direct>>

\* The sweep is through with its jobs, or its time is up.
SweepEnds ==
    /\ Idle(sweep) \/ sweep.at # Nobody
    /\ sweep' = Off /\ UNCHANGED <<row, backoff>> /\ worker' = Ensured(worker)
    /\ UNCHANGED <<chats, jobs, turns, op, attempt, direct, faults>>

\* drainPendingAgentSessionCleanups, with the rows there are by then.
Swept == IF sweep.pc = "on" THEN sweep
         ELSE Has({s \in Sessions : row'[s] # "none"} \ (attempt \union Open))

\* The provider answers: deleteThread removed the thread, failed, or refused it
\* because an execution uses it.  An attempt that timed out is over already.
OpSettles(s) ==
    /\ op[s] # "none" /\ op' = [op EXCEPT ![s] = "none"]
    /\ \/ /\ op[s] = "aborted" /\ worker' = Woken(worker)
          /\ UNCHANGED <<thread, row, attempt, direct, sweep, backoff, faults>>
       \/ \E outcome \in {"succeeded", "failed", "unrecorded"}, removed \in BOOLEAN :
             /\ op[s] # "aborted"
             /\ op[s] = "busy" => ~removed
             /\ outcome = "succeeded" => removed
             /\ thread' = IF removed THEN thread \ {s} ELSE thread
             /\ Settles(s, outcome)
             /\ Unless(outcome = "succeeded" \/ (op[s] = "busy" /\ outcome = "failed"))
    /\ UNCHANGED <<sess, run, jobs, turns>>

\* The attempt runs out of time and aborts the operation, which keeps its slot.
TimesOut(s) ==
    /\ op[s] = "open" /\ op' = [op EXCEPT ![s] = "aborted"]
    /\ \E outcome \in {"failed", "unrecorded"} :
          /\ Settles(s, outcome)
          /\ Unless(s \in Stuck /\ outcome = "failed")
    /\ UNCHANGED <<chats, jobs, turns>>

\* Time passes: an attempt is due, a backoff is over.
RowDue(s) ==
    /\ row[s] = "deferred" /\ row' = [row EXCEPT ![s] = "due"]
    /\ UNCHANGED <<chats, jobs, turns, cleanup, faults>>

BackoffEnds ==
    /\ backoff /\ backoff' = FALSE
    /\ UNCHANGED <<chats, row, jobs, turns, op, attempt, direct, worker, sweep, faults>>

-----------------------------------------------------------------------------
(* Runs and Sessions.                                                      *)

\* A Session of a Project whose turn has come starts a Run.
Starts(s) ==
    /\ run' = [run EXCEPT ![s] = "running"] /\ thread' = thread \union {s} /\ UNCHANGED sess

\* A Run ends with its execution, or before it, or by whoever looks at an orphan.
RunEnds(s) ==
    /\ \/ run[s] \in {"running", "ending", "orphan"} /\ run' = [run EXCEPT ![s] = "none"]
       \/ run[s] = "running" /\ run' = [run EXCEPT ![s] = "ending"]
    /\ UNCHANGED <<sess, thread, row, jobs, turns, cleanup, faults>>

\* deleteSessionAndRetireRuns: all of them, in one transaction each.
Retires(gone) ==
    /\ sess' = [s \in Sessions |-> IF s \in gone THEN "gone" ELSE sess[s]]
    /\ row' = [s \in Sessions |-> IF s \in gone THEN "due" ELSE row[s]]

\* deleteSession, with its own attempt: it is awaited, or has failed for want of a slot.
Delete(s) ==
    /\ sess[s] = "live" /\ ~Removed(s) /\ run[s] \in {"none", "orphan"}
    /\ Cardinality(Rows) < MaxJobs
    /\ sess' = [sess EXCEPT ![s] = "gone"] /\ run' = [run EXCEPT ![s] = "none"]
    /\ \/ /\ Joins(s) /\ Begins(s) /\ row' = [row EXCEPT ![s] = "due"]
          /\ direct' = direct \union {s} /\ UNCHANGED <<worker, backoff, faults>>
       \/ /\ NoSlot(s)
          /\ \E outcome \in {"failed", "unrecorded"} :
                /\ row' = [row EXCEPT ![s] = IF outcome = "failed" THEN "deferred" ELSE "due"]
                /\ backoff' = (outcome = "unrecorded") /\ Unless(outcome = "failed")
          /\ worker' = Ensured(Woken(worker)) /\ UNCHANGED <<op, attempt, direct>>
    /\ UNCHANGED <<thread, jobs, turns, sweep>>

-----------------------------------------------------------------------------
(* Turns in a Project.                                                     *)

\* withSessionCreation for a new Session, withRunPreflight for one there is.
Waits(s, p) ==
    /\ tail' = [tail EXCEPT ![p] = Append(@, s)]
    /\ UNCHANGED <<sess, thread, row, jobs, checking, cleanup, faults>>

CreateAsked(s, p) ==
    /\ ProjectOf[s] = p /\ sess[s] = "none" /\ s \notin {tail[p][i] : i \in DOMAIN tail[p]}
    /\ Waits(s, p) /\ UNCHANGED run

StartAsked(s, p) ==
    /\ ProjectOf[s] = p /\ s \in Used /\ sess[s] = "live" /\ ~Removed(s) /\ run[s] = "none"
    /\ Waits(s, p) /\ run' = [run EXCEPT ![s] = "reserved"]

\* Wrong variant: the deletion does not wait for the operations before it.
RemovalAtOnce(p) ==
    /\ project[p] = "active" /\ \A s \in Of(p) : run[s] \notin {"running", "orphan"}
    /\ project' = [project EXCEPT ![p] = "due"] /\ drain' = "on"
    /\ UNCHANGED <<chats, row, turns, cleanup, timer, faults>>

RemovalAsked(p) ==
    /\ project[p] = "active" /\ Removal \notin {tail[p][i] : i \in DOMAIN tail[p]}
    /\ tail' = [tail EXCEPT ![p] = Append(@, Removal)]
    /\ UNCHANGED <<chats, row, jobs, checking, cleanup, faults>>

Turn(p, x) == tail[p] # <<>> /\ Head(tail[p]) = x

\* The operation whose turn it was is over.
Leaves(p) == tail' = [tail EXCEPT ![p] = Tail(@)]

\* The reservation of a start that comes to nothing is released.
Freed(s) == run' = [run EXCEPT ![s] = IF @ = "reserved" THEN "none" ELSE @]

\* The turn of s: it asks the Box, unless the Project is being deleted.
CheckBegins(s, p) ==
    /\ Turn(p, s) /\ p \notin checking
    /\ \/ project[p] = "active" /\ checking' = checking \union {p} /\ UNCHANGED <<tail, run>>
       \/ project[p] # "active" /\ Leaves(p) /\ Freed(s) /\ UNCHANGED checking
    /\ UNCHANGED <<sess, thread, row, jobs, cleanup, faults>>

\* The Box answers: the Session is created, the Run started, or neither.
CheckEnds(s, p) ==
    /\ Turn(p, s) /\ p \in checking /\ checking' = checking \ {p} /\ Leaves(p)
    /\ \/ Freed(s) /\ UNCHANGED <<sess, thread>>
       \/ sess[s] = "none" /\ sess' = [sess EXCEPT ![s] = "live"] /\ UNCHANGED <<run, thread>>
       \/ sess[s] = "live" /\ Starts(s)
    /\ UNCHANGED <<row, jobs, cleanup, faults>>

\* The turn of requestDeletion: refused with a Run under way, else a job, and a drain.
RemovalRuns(p) ==
    /\ Turn(p, Removal) /\ Leaves(p)
    /\ \/ /\ project[p] = "active" /\ \A s \in Of(p) : run[s] \notin {"running", "orphan"}
          /\ project' = [project EXCEPT ![p] = "due"] /\ drain' = "on" /\ UNCHANGED timer
       \/ /\ project[p] # "active" \/ \E s \in Of(p) : run[s] \in {"running", "orphan"}
          /\ UNCHANGED jobs
    /\ UNCHANGED <<chats, row, checking, cleanup, faults>>

-----------------------------------------------------------------------------
(* The drain of deletions: one iteration after its yield is one step.      *)

\* Wrong variant: the retry is left to the next request or restart.
BlockedUntimed(p) ==
    project' = [project EXCEPT ![p] = "deferred"] /\ drain' = "off" /\ UNCHANGED timer

\* #recordDeletionRetry, unless that fails too and the drain with it.
Blocked(p) ==
    \/ project' = [project EXCEPT ![p] = "deferred"] /\ drain' = "off" /\ timer' = TRUE
    \/ drain' = "failed" /\ UNCHANGED <<project, timer>>

\* Nothing is due: the drain ends, and comes back for what is deferred.
DrainEnds ==
    /\ drain = "on" /\ \A p \in Projects : project[p] # "due"
    /\ drain' = "off" /\ timer' = (timer \/ Deleting # {}) /\ UNCHANGED project
    /\ UNCHANGED <<chats, row, turns, cleanup, faults>>

\* recordDeletionJobAttempt(processing) throws.
DrainFails(p) ==
    /\ drain = "on" /\ project[p] = "due" /\ Fault
    /\ drain' = "failed" /\ UNCHANGED <<project, timer>>
    /\ UNCHANGED <<chats, row, turns, cleanup>>

\* No Session is left: the Project goes, or its last transaction fails.
Completes(p) ==
    /\ drain = "on" /\ project[p] = "due" /\ \A s \in Of(p) : sess[s] # "live"
    /\ \/ project' = [project EXCEPT ![p] = "gone"] /\ UNCHANGED <<drain, timer, faults>>
       \/ Fault /\ Blocked(p)
    /\ UNCHANGED <<chats, row, turns, cleanup>>

\* A batch of Sessions is retired as far as the outbox has room and nothing
\* fails, and their threads are swept.
DrainRetires(p) ==
    LET left == {s \in Of(p) : sess[s] = "live"}
        room == MaxJobs - Cardinality(Rows)
    IN  /\ drain = "on" /\ project[p] = "due" /\ left # {}
        /\ \E batch \in SUBSET left, gone \in SUBSET left :
              /\ Cardinality(batch) = IF Cardinality(left) < Batch THEN Cardinality(left) ELSE Batch
              /\ gone \subseteq batch /\ Cardinality(gone) <= room /\ Retires(gone)
              /\ \/ gone = batch /\ UNCHANGED <<jobs, faults>>
                 \/ /\ gone # batch /\ Blocked(p)
                    /\ Unless(Cardinality(gone) = room /\ drain' # "failed")
              /\ sweep' = IF gone = {} THEN sweep ELSE Swept
        /\ UNCHANGED <<run, thread, turns, op, attempt, direct, worker, backoff>>

\* The retry timer fires; a deferred job is due.
TimerFires ==
    /\ timer /\ timer' = FALSE /\ drain' = "on" /\ UNCHANGED project
    /\ UNCHANGED <<chats, row, turns, cleanup, faults>>

JobDue(p) ==
    /\ project[p] = "deferred" /\ project' = [project EXCEPT ![p] = "due"]
    /\ UNCHANGED <<chats, row, drain, timer, turns, cleanup, faults>>

\* The server dies and starts: the sweep and the drain begin with what is left.
Restart ==
    /\ Fault
    /\ \E cut \in SUBSET {s \in Sessions : op[s] = "open"} : thread' = thread \ cut
    /\ run' = [s \in Sessions |-> IF run[s] \in {"running", "orphan"} THEN "orphan" ELSE "none"]
    /\ tail' = [p \in Projects |-> <<>>] /\ checking' = {}
    /\ drain' = "on" /\ timer' = FALSE
    /\ op' = [s \in Sessions |-> "none"] /\ attempt' = {} /\ direct' = {}
    /\ worker' = Off /\ sweep' = Has(Rows) /\ backoff' = FALSE
    /\ UNCHANGED <<sess, row, project>>

-----------------------------------------------------------------------------
Works   == WorkerLooks \/ \E s \in Sessions : WorkerTakes(s)
Sweeps  == SweepEnds \/ \E s \in Sessions : SweepTakes(s)
Drains  == DrainEnds \/ \E p \in Projects : DrainFails(p) \/ Completes(p) \/ DrainRetires(p)
TakesTurn(p) == RemovalRuns(p) \/ \E s \in Sessions : CheckBegins(s, p) \/ CheckEnds(s, p)

\* No loop has something to do before the next callback.
Quiet ==
    /\ Idle(worker) => backoff
    /\ sweep.pc = "on" => sweep.at # Nobody
    /\ worker.pc = "on" /\ worker.at = Nobody => worker.todo = {}

\* What the clients ask and what takes its turn comes between callbacks; the
\* rest may come anywhere, which is more than the event loop allows.
Next ==
    \/ Works \/ Sweeps \/ Drains \/ BackoffEnds \/ TimerFires \/ Restart
    \/ \E s \in Sessions : OpSettles(s) \/ TimesOut(s) \/ RowDue(s) \/ RunEnds(s)
    \/ \E p \in Projects : JobDue(p)
    \/ Quiet /\ (\/ \E s \in Sessions : Delete(s)
                 \/ \E p \in Projects : TakesTurn(p) \/ RemovalAsked(p)
                        \/ \E s \in Sessions : CreateAsked(s, p) \/ StartAsked(s, p))

Spec == Init /\ [][Next]_vars

\* The loops go on, timers fire, executions end, and the provider answers, but
\* for the operations that are stuck, which time out.
FairSpec ==
    /\ Spec
    /\ WF_vars(Works) /\ WF_vars(Sweeps) /\ WF_vars(Drains)
    /\ WF_vars(TimerFires) /\ WF_vars(\E p \in Projects : JobDue(p))
    /\ WF_vars(BackoffEnds \/ \E s \in Sessions \ Stuck : RowDue(s))
    /\ WF_vars(\E s \in Sessions \ Stuck : OpSettles(s))
    /\ WF_vars(\E s \in Stuck : TimesOut(s))
    /\ WF_vars(\E s \in Sessions : run[s] = "ending" /\ RunEnds(s))

-----------------------------------------------------------------------------
Loops == [pc : {"off", "on", "waiting"}, todo : SUBSET Sessions, at : Sessions \union {Nobody}]

\* The type invariant.
TypeOK ==
    /\ sess \in [Sessions -> {"none", "live", "gone"}]
    /\ run \in [Sessions -> {"none", "reserved", "running", "ending", "orphan"}]
    /\ thread \subseteq Sessions
    /\ row \in [Sessions -> {"none", "due", "deferred"}]
    /\ project \in [Projects -> {"active", "due", "deferred", "gone"}]
    /\ tail \in [Projects -> Seq(Sessions \union {Removal})] /\ checking \subseteq Projects
    /\ drain \in {"on", "off", "failed"} /\ timer \in BOOLEAN
    /\ op \in [Sessions -> {"none", "open", "busy", "aborted"}]
    /\ attempt \subseteq Sessions /\ direct \subseteq attempt
    /\ worker \in Loops /\ sweep \in Loops /\ backoff \in BOOLEAN
    /\ faults \in 0..MaxFaults

\* No Run is queued or running in a Session that is being removed.
RemovedAreOver == \A s \in Sessions : Removed(s) => run[s] \notin {"running", "orphan"}

\* A thread is there as long as its Session or an execution needs it, and the
\* outbox knows every other one (ack after delete, thread_busy).
ThreadsAreKnown ==
    \A s \in Sessions :
        /\ run[s] \in {"running", "ending"} => s \in thread
        /\ s \in Old /\ sess[s] = "live" => s \in thread
        /\ sess[s] = "gone" /\ s \in thread => row[s] # "none"

\* No provider operation is begun beyond the slots, however many time out and
\* keep theirs, and the outbox never holds more rows than it may.
LimitsHold == Cardinality(Open) <= Slots /\ Cardinality(Rows) <= MaxJobs

\* To remove a Session, alone or with its Project, never meets a Run that is
\* started meanwhile, never takes a thread that is in use, never forgets one,
\* and never exceeds a limit, whatever times out, fails or is restarted.
RemovalIsSafe == RemovedAreOver /\ ThreadsAreKnown /\ LimitsHold

\* What the server has still to clear away, and can.
Pending == \/ \E s \in Sessions \ Stuck : row[s] # "none"
           \/ Deleting # {} /\ drain # "failed"

\* Every cleanup comes to its end although operations that never return keep
\* their slots; every deletion of a Project does, unless a failed write has
\* rejected its drain, which schedules nothing then (#ensureDeletionWorker).
RemovalsEnd == Pending ~> ~Pending

\* docs/implementation/project-management.md: the retry of a deletion does not
\* depend on a restart of the server.
DeletionsNeedNoRestart ==
    \A p \in Projects : p \in Deleting ~> project[p] = "gone"
=============================================================================
