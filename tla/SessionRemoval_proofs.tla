----------------------- MODULE SessionRemoval_proofs -----------------------
(***************************************************************************)
(* Removal is safe for any Sessions and Projects, any number of slots and  *)
(* rows, any batches and any number of faults.                             *)
(***************************************************************************)
EXTENDS SessionRemoval, FiniteSetTheorems, TLAPS

-----------------------------------------------------------------------------
(* The worker and the sweep.                                               *)

\* A loop that starts has the jobs it is given.
LEMMA Starting ==
    /\ Off \in Loops /\ Off.todo = {} /\ Sleeping \in Loops /\ Sleeping.todo = {}
    /\ \A jobset \in SUBSET Sessions : Has(jobset) \in Loops /\ Has(jobset).todo = jobset
BY DEF Off, Sleeping, Has, Loops

\* What a loop is told leaves it no job it did not have.
LEMMA Going ==
    ASSUME NEW w \in Loops
    PROVE  /\ w.todo \subseteq Sessions
           /\ Woken(w) \in Loops /\ Woken(w).todo \subseteq w.todo
           /\ Ensured(w) \in Loops /\ Ensured(w).todo \subseteq w.todo
           /\ \A s \in Sessions : LET v == [w EXCEPT !.todo = @ \ {s}] IN
                 /\ v \in Loops /\ v.todo \subseteq w.todo
                 /\ [v EXCEPT !.at = s] \in Loops
                 /\ [v EXCEPT !.at = s].todo \subseteq w.todo
           /\ \A outcome, broken : broken \in Loops /\ broken.todo = {} =>
                 After(w, outcome, broken) \in Loops /\ After(w, outcome, broken).todo \subseteq w.todo
<1>1. w.todo \subseteq Sessions
    BY DEF Loops
<1>2. Woken(w) \in Loops /\ Woken(w).todo \subseteq w.todo
    BY Starting DEF Woken
<1>3. Ensured(w) \in Loops /\ Ensured(w).todo \subseteq w.todo
    BY Starting DEF Ensured
<1>4. ASSUME NEW s \in Sessions
      PROVE  LET v == [w EXCEPT !.todo = @ \ {s}] IN
                 /\ v \in Loops /\ v.todo \subseteq w.todo
                 /\ [v EXCEPT !.at = s] \in Loops
                 /\ [v EXCEPT !.at = s].todo \subseteq w.todo
    BY DEF Loops
<1>5. ASSUME NEW outcome, NEW broken, broken \in Loops, broken.todo = {}
      PROVE  After(w, outcome, broken) \in Loops /\ After(w, outcome, broken).todo \subseteq w.todo
    BY <1>5 DEF After, Loops
<1> QED
    BY <1>1, <1>2, <1>3, <1>4, <1>5

-----------------------------------------------------------------------------
(* The inductive invariant.                                                *)

\* Jobs, rows and operations are about Sessions that are gone: no attempt is
\* ever made at the thread of a Session that could start a Run.
Concerns(s) == \/ op[s] # "none" \/ row[s] # "none"
               \/ s \in worker.todo \/ s \in sweep.todo
GoneInv == \A s \in Sessions : Concerns(s) => sess[s] = "gone"

\* An operation that may take the thread was not begun on one in use.
OpenInv == \A s \in Sessions : op[s] = "open" => run[s] # "ending"

\* A Session of the beginning never was to come.
OldInv == \A s \in Old : sess[s] # "none"

\* Who waits in a Project belongs to it.
TailInv == \A p \in Projects : tail[p] \in Seq(Of(p) \union {Removal})

\* While the Box is asked for a Session, no deletion is begun.
TurnInv == \A p \in checking :
               /\ tail[p] # <<>> /\ Head(tail[p]) \in Sessions
               /\ project[p] = "active"

IInv == /\ TypeOK /\ GoneInv /\ OpenInv /\ OldInv /\ TailInv /\ TurnInv
        /\ RemovedAreOver /\ ThreadsAreKnown

-----------------------------------------------------------------------------
(* Steps of the cleanup.                                                   *)

\* What a step of the cleanup may do to the thread, the row and the jobs of s.
Cleans(s) ==
    /\ op'[s] # "none" => Concerns(s)
    /\ op'[s] = "open" => op[s] = "open" \/ run[s] # "ending"
    /\ row'[s] # "none" => row[s] # "none"
    /\ s \in worker'.todo \/ s \in sweep'.todo => Concerns(s)
    /\ s \in thread \ thread' => op[s] = "open"
    /\ s \in thread' /\ row[s] # "none" => row'[s] # "none"

\* The types of what such a step changes.
CleanupOK ==
    /\ row' \in [Sessions -> {"none", "due", "deferred"}]
    /\ op' \in [Sessions -> {"none", "open", "busy", "aborted"}]
    /\ attempt' \subseteq Sessions /\ direct' \subseteq attempt'
    /\ worker' \in Loops /\ sweep' \in Loops /\ backoff' \in BOOLEAN
    /\ faults' \in 0..MaxFaults

\* A step that does no more than that keeps the invariant.
LEMMA CleaningInv ==
    ASSUME IInv, CleanupOK, thread' \subseteq thread,
           UNCHANGED <<sess, run, jobs, turns>>,
           \A s \in Sessions : Cleans(s)
    PROVE  IInv'
<1>1. TypeOK'
    BY DEF IInv, TypeOK, CleanupOK, jobs, turns
<1>2. GoneInv' /\ OpenInv' /\ OldInv'
    BY DEF IInv, GoneInv, OpenInv, OldInv, Cleans, Concerns, TypeOK
<1>3. TailInv' /\ TurnInv'
    BY DEF IInv, TailInv, TurnInv, Of, jobs, turns
<1>4. RemovedAreOver'
    BY DEF IInv, RemovedAreOver, Removed, Deleting, jobs
<1>5. ThreadsAreKnown'
    BY DEF IInv, ThreadsAreKnown, Cleans, GoneInv, OpenInv, Concerns, RemovedAreOver, Removed
<1> QED
    BY <1>1, <1>2, <1>3, <1>4, <1>5 DEF IInv

LEMMA FaultStep ==
    ASSUME faults \in 0..MaxFaults
    PROVE  /\ Fault => faults' \in 0..MaxFaults
           /\ \A free \in BOOLEAN : Unless(free) => faults' \in 0..MaxFaults
BY RemovalAssumption DEF Fault, Unless

\* How an attempt that ends changes rows, jobs and attempts.
LEMMA SettlesDoes ==
    ASSUME TypeOK, NEW s \in Sessions,
           NEW outcome \in {"succeeded", "failed", "unrecorded"}, Settles(s, outcome)
    PROVE  /\ row' \in [Sessions -> {"none", "due", "deferred"}]
           /\ backoff' \in BOOLEAN
           /\ attempt' \subseteq Sessions /\ direct' \subseteq attempt'
           /\ worker' \in Loops /\ worker'.todo \subseteq worker.todo
           /\ sweep' \in Loops /\ sweep'.todo \subseteq sweep.todo
           /\ \A q \in Sessions : row'[q] # "none" => row[q] # "none"
           /\ \A q \in Sessions : row[q] # "none" /\ row'[q] = "none"
                                     => q = s /\ outcome = "succeeded"
<1>1. worker \in Loops /\ sweep \in Loops
    BY DEF TypeOK
<1>2. Recorded(s, outcome)
    BY DEF Settles
<1>3. /\ row' \in [Sessions -> {"none", "due", "deferred"}] /\ backoff' \in BOOLEAN
      /\ \A q \in Sessions : row'[q] # "none" => row[q] # "none"
      /\ \A q \in Sessions : row[q] # "none" /\ row'[q] = "none" => q = s /\ outcome = "succeeded"
    BY <1>2 DEF Recorded, TypeOK
<1>4. attempt' \subseteq Sessions /\ direct' \subseteq attempt'
    BY DEF Settles, TypeOK
<1>5. sweep' \in Loops /\ sweep'.todo \subseteq sweep.todo
    BY <1>1, Going, Starting DEF Settles
<1>6. worker' \in Loops /\ worker'.todo \subseteq worker.todo
    <2>1. PICK w : /\ w = IF worker.at = s THEN After(worker, outcome, Has({})) ELSE Woken(worker)
                   /\ worker' = w \/ worker' = Ensured(w)
        BY DEF Settles
    <2>2. w \in Loops /\ w.todo \subseteq worker.todo
        BY <1>1, <2>1, Going, Starting
    <2> QED
        BY <2>1, <2>2, Going
<1> QED
    BY <1>3, <1>4, <1>5, <1>6

LEMMA OpSettlesInv ==
    ASSUME IInv, NEW s \in Sessions, OpSettles(s) PROVE IInv'
<1> USE DEF IInv, TypeOK
<1>1. /\ op' = [op EXCEPT ![s] = "none"] /\ op[s] # "none"
      /\ UNCHANGED <<sess, run, jobs, turns>>
    BY DEF OpSettles
<1>2. CASE op[s] = "aborted" /\ worker' = Woken(worker)
           /\ UNCHANGED <<thread, row, attempt, direct, sweep, backoff, faults>>
    <2>1. CleanupOK
        BY <1>1, <1>2, Going DEF CleanupOK
    <2>2. \A q \in Sessions : Cleans(q)
        BY <1>1, <1>2, Going DEF Cleans, Concerns
    <2> QED
        BY <1>1, <1>2, <2>1, <2>2, CleaningInv
<1>3. ASSUME NEW outcome \in {"succeeded", "failed", "unrecorded"}, NEW removed \in BOOLEAN,
             op[s] # "aborted", op[s] = "busy" => ~removed, outcome = "succeeded" => removed,
             thread' = IF removed THEN thread \ {s} ELSE thread,
             Settles(s, outcome), faults' \in 0..MaxFaults
      PROVE  IInv'
    <2>1. CleanupOK
        BY <1>1, <1>3, SettlesDoes DEF CleanupOK
    <2>2. op[s] \in {"open", "busy"}
        BY <1>1, <1>3
    <2>3. \A q \in Sessions : Cleans(q)
        BY <1>1, <1>3, <2>2, SettlesDoes DEF Cleans, Concerns
    <2> QED
        BY <1>1, <1>3, <2>1, <2>3, CleaningInv
<1> QED
    BY <1>1, <1>2, <1>3, FaultStep DEF OpSettles

LEMMA TimesOutInv ==
    ASSUME IInv, NEW s \in Sessions, TimesOut(s) PROVE IInv'
<1> USE DEF IInv, TypeOK
<1>1. /\ op' = [op EXCEPT ![s] = "aborted"] /\ op[s] = "open"
      /\ UNCHANGED <<sess, run, thread, jobs, turns>>
    BY DEF TimesOut, chats
<1>2. PICK outcome \in {"failed", "unrecorded"} :
          Settles(s, outcome) /\ faults' \in 0..MaxFaults
    BY FaultStep DEF TimesOut
<1>3. CleanupOK
    BY <1>1, <1>2, SettlesDoes DEF CleanupOK
<1>4. \A q \in Sessions : Cleans(q)
    BY <1>1, <1>2, SettlesDoes DEF Cleans, Concerns
<1> QED
    BY <1>1, <1>3, <1>4, CleaningInv

\* To take a job begins or joins an attempt, passes it over, or records that
\* there is no slot for it.
LEMMA Takes ==
    ASSUME TypeOK, NEW s \in Sessions
    PROVE  /\ Joins(s) /\ Begins(s) =>
                 /\ op' \in [Sessions -> {"none", "open", "busy", "aborted"}]
                 /\ attempt' \subseteq Sessions /\ direct \subseteq attempt'
                 /\ \A q \in Sessions : q # s => op'[q] = op[q]
                 /\ op'[s] = "open" => op[s] = "open" \/ run[s] # "ending"
           /\ \A outcome \in {"failed", "unrecorded"} : Recorded(s, outcome) =>
                 /\ row' \in [Sessions -> {"none", "due", "deferred"}] /\ backoff' \in BOOLEAN
                 /\ \A q \in Sessions : row'[q] = "none" <=> row[q] = "none"
<1>1. ASSUME Joins(s), Begins(s)
      PROVE  /\ op' \in [Sessions -> {"none", "open", "busy", "aborted"}]
             /\ attempt' \subseteq Sessions /\ direct \subseteq attempt'
             /\ \A q \in Sessions : q # s => op'[q] = op[q]
             /\ op'[s] = "open" => op[s] = "open" \/ run[s] # "ending"
    BY <1>1 DEF Begins, TypeOK
<1>2. ASSUME NEW outcome \in {"failed", "unrecorded"}, Recorded(s, outcome)
      PROVE  /\ row' \in [Sessions -> {"none", "due", "deferred"}] /\ backoff' \in BOOLEAN
             /\ \A q \in Sessions : row'[q] = "none" <=> row[q] = "none"
    BY <1>2 DEF Recorded, TypeOK
<1> QED
    BY <1>1, <1>2

LEMMA WorkerTakesInv ==
    ASSUME IInv, NEW s \in Sessions, WorkerTakes(s) PROVE IInv'
<1> USE DEF IInv, TypeOK
<1>1. UNCHANGED <<sess, run, thread, jobs, turns, direct, sweep>> /\ s \in worker.todo
    BY DEF WorkerTakes, chats
<1>2. PICK w, v : w = [worker EXCEPT !.todo = @ \ {s}] /\ v = [w EXCEPT !.at = s]
    OBVIOUS
<1>3. w \in Loops /\ w.todo \subseteq worker.todo /\ v \in Loops /\ v.todo \subseteq worker.todo
    BY <1>2, Going
<1>4. \/ Joins(s) /\ Begins(s) /\ worker' = v /\ UNCHANGED <<row, backoff, faults>>
      \/ worker' = w /\ UNCHANGED <<op, attempt, row, backoff, faults>>
      \/ /\ \E outcome \in {"failed", "unrecorded"} :
               /\ Recorded(s, outcome) /\ Unless(outcome = "failed")
               /\ worker' = After(w, outcome, Has({}))
         /\ UNCHANGED <<op, attempt>>
    BY <1>2 DEF WorkerTakes
<1>5. Has({}) \in Loops /\ Has({}).todo = {}
    BY Starting
<1>6. \A outcome : /\ After(w, outcome, Has({})) \in Loops
                   /\ After(w, outcome, Has({})).todo \subseteq worker.todo
    BY <1>3, <1>5, Going
<1>7. worker' \in Loops /\ worker'.todo \subseteq worker.todo
    <2>1. \/ worker' = v \/ worker' = w
          \/ \E outcome : worker' = After(w, outcome, Has({}))
        BY <1>4
    <2> QED
        BY <1>3, <1>6, <2>1
<1>8. CleanupOK
    BY <1>1, <1>4, <1>7, Takes, FaultStep DEF CleanupOK
<1>9. \A q \in Sessions : Cleans(q)
    BY <1>1, <1>4, <1>7, Takes DEF Cleans, Concerns
<1> QED
    BY <1>1, <1>8, <1>9, CleaningInv

LEMMA SweepTakesInv ==
    ASSUME IInv, NEW s \in Sessions, SweepTakes(s) PROVE IInv'
<1> USE DEF IInv, TypeOK
<1>1. UNCHANGED <<sess, run, thread, jobs, turns, direct>> /\ s \in sweep.todo
    BY DEF SweepTakes, chats
<1>2. PICK w, v : w = [sweep EXCEPT !.todo = @ \ {s}] /\ v = [w EXCEPT !.at = s]
    OBVIOUS
<1>3. w \in Loops /\ w.todo \subseteq sweep.todo /\ v \in Loops /\ v.todo \subseteq sweep.todo
    BY <1>2, Going
<1>4. \/ Joins(s) /\ Begins(s) /\ sweep' = v
                  /\ UNCHANGED <<row, backoff, worker, faults>>
      \/ sweep' = w /\ UNCHANGED <<op, attempt, row, backoff, worker, faults>>
      \/ /\ \E outcome \in {"failed", "unrecorded"} :
               /\ Recorded(s, outcome) /\ Unless(outcome = "failed")
               /\ sweep' = After(w, outcome, Off)
         /\ worker' = Ensured(Woken(worker)) \/ worker' = Woken(worker)
         /\ UNCHANGED <<op, attempt>>
    BY <1>2 DEF SweepTakes
<1>5. /\ sweep' \in Loops /\ sweep'.todo \subseteq sweep.todo
      /\ worker' \in Loops /\ worker'.todo \subseteq worker.todo
    <2>1. Woken(worker) \in Loops /\ Woken(worker).todo \subseteq worker.todo
        BY Going
    <2>2. Ensured(Woken(worker)) \in Loops /\ Ensured(Woken(worker)).todo \subseteq worker.todo
        BY <2>1, Going
    <2>3. \A outcome : /\ After(w, outcome, Off) \in Loops
                       /\ After(w, outcome, Off).todo \subseteq sweep.todo
        BY <1>3, Going, Starting
    <2>4. \/ sweep' = v \/ sweep' = w
          \/ \E outcome : sweep' = After(w, outcome, Off)
        BY <1>4
    <2>5. worker' \in {worker, Woken(worker), Ensured(Woken(worker))}
        BY <1>4
    <2> QED
        BY <1>3, <2>1, <2>2, <2>3, <2>4, <2>5
<1>6. CleanupOK
    BY <1>1, <1>4, <1>5, Takes, FaultStep DEF CleanupOK
<1>7. \A q \in Sessions : Cleans(q)
    BY <1>1, <1>4, <1>5, Takes DEF Cleans, Concerns
<1> QED
    BY <1>1, <1>6, <1>7, CleaningInv

LEMMA WorkerLooksInv ==
    ASSUME IInv, WorkerLooks PROVE IInv'
<1> USE DEF IInv, TypeOK
<1>1. UNCHANGED <<sess, run, thread, jobs, turns, row, op, attempt, direct, sweep, backoff, faults>>
    BY DEF WorkerLooks, chats
<1>2. \/ worker' = Off \/ worker' = Sleeping
      \/ \E free \in SUBSET {q \in Sessions : row[q] = "due"} : worker' = Has(free)
    BY DEF WorkerLooks
<1>3. worker' \in Loops /\ \A q \in worker'.todo : q \in Sessions /\ row[q] # "none"
    BY <1>2, Starting
<1>4. CleanupOK
    BY <1>1, <1>3 DEF CleanupOK
<1>5. \A q \in Sessions : Cleans(q)
    BY <1>1, <1>3 DEF Cleans, Concerns
<1> QED
    BY <1>1, <1>4, <1>5, CleaningInv

LEMMA SweepEndsInv ==
    ASSUME IInv, SweepEnds PROVE IInv'
<1> USE DEF IInv, TypeOK
<1>1. UNCHANGED <<sess, run, thread, jobs, turns, row, op, attempt, direct, backoff, faults>>
    BY DEF SweepEnds, chats
<1>2. /\ sweep' \in Loops /\ sweep'.todo \subseteq sweep.todo
      /\ worker' \in Loops /\ worker'.todo \subseteq worker.todo
    BY Going, Starting DEF SweepEnds
<1>3. CleanupOK
    BY <1>1, <1>2 DEF CleanupOK
<1>4. \A q \in Sessions : Cleans(q)
    BY <1>1, <1>2 DEF Cleans, Concerns
<1> QED
    BY <1>1, <1>3, <1>4, CleaningInv

\* Time passes for a row, or for the backoff.
LEMMA TimePassesInv ==
    ASSUME IInv, BackoffEnds \/ \E s \in Sessions : RowDue(s) PROVE IInv'
<1> USE DEF IInv, TypeOK
<1>1. UNCHANGED <<sess, run, thread, jobs, turns, op, attempt, direct, worker, sweep, faults>>
    BY DEF BackoffEnds, RowDue, chats, cleanup
<1>2. /\ row' \in [Sessions -> {"none", "due", "deferred"}] /\ backoff' \in BOOLEAN
      /\ \A q \in Sessions : row'[q] = "none" <=> row[q] = "none"
    BY DEF BackoffEnds, RowDue, cleanup
<1>3. CleanupOK
    BY <1>1, <1>2 DEF CleanupOK
<1>4. \A q \in Sessions : Cleans(q)
    BY <1>1, <1>2 DEF Cleans, Concerns
<1> QED
    BY <1>1, <1>3, <1>4, CleaningInv

-----------------------------------------------------------------------------
(* Steps of Runs, Sessions and turns.                                      *)

\* A Run that ends can be in nobody's way any more.
LEMMA RunEndsInv ==
    ASSUME IInv, NEW s \in Sessions, RunEnds(s) PROVE IInv'
<1>1. /\ UNCHANGED <<sess, thread, row, jobs, turns, cleanup, faults>>
      /\ \/ run[s] \in {"running", "ending", "orphan"} /\ run' = [run EXCEPT ![s] = "none"]
         \/ run[s] = "running" /\ run' = [run EXCEPT ![s] = "ending"]
    BY DEF RunEnds
<1>2. TypeOK' /\ GoneInv' /\ OldInv'
    BY <1>1 DEF IInv, TypeOK, GoneInv, Concerns, OldInv, jobs, turns, cleanup
<1>3. TailInv' /\ TurnInv'
    BY <1>1 DEF IInv, TailInv, TurnInv, Of, jobs, turns
<1>4. RemovedAreOver' /\ ThreadsAreKnown'
    BY <1>1 DEF IInv, TypeOK, RemovedAreOver, Removed, Deleting, ThreadsAreKnown, jobs
<1>5. OpenInv'
    BY <1>1 DEF IInv, TypeOK, OpenInv, GoneInv, Concerns, RemovedAreOver, Removed, cleanup
<1> QED
    BY <1>2, <1>4, <1>5, <1>3 DEF IInv

LEMMA DeleteInv ==
    ASSUME IInv, NEW s \in Sessions, Delete(s) PROVE IInv'
<1>1. /\ sess[s] = "live" /\ ~Removed(s) /\ run[s] \in {"none", "orphan"}
      /\ sess' = [sess EXCEPT ![s] = "gone"] /\ run' = [run EXCEPT ![s] = "none"]
      /\ UNCHANGED <<thread, jobs, turns, sweep>>
    BY DEF Delete
<1>2. op[s] = "none"
    BY <1>1 DEF IInv, GoneInv, Concerns
<1>3. /\ row' \in [Sessions -> {"none", "due", "deferred"}] /\ backoff' \in BOOLEAN
      /\ row'[s] # "none" /\ \A q \in Sessions : q # s => row'[q] = row[q]
      /\ faults' \in 0..MaxFaults
    BY FaultStep DEF Delete, IInv, TypeOK
<1>4. /\ op' \in [Sessions -> {"none", "open", "busy", "aborted"}]
      /\ attempt' \subseteq Sessions /\ direct' \subseteq attempt'
      /\ \A q \in Sessions : q # s => op'[q] = op[q]
    <2>1. CASE Joins(s) /\ Begins(s) /\ direct' = direct \union {s}
        BY <2>1, Takes DEF IInv, TypeOK, Begins
    <2>2. CASE UNCHANGED <<op, attempt, direct>>
        BY <2>2 DEF IInv, TypeOK
    <2> QED
        BY <2>1, <2>2 DEF Delete
<1>5. worker' \in Loops /\ worker'.todo \subseteq worker.todo
    <2>1. worker \in Loops
        BY DEF IInv, TypeOK
    <2>2. worker' = worker \/ worker' = Ensured(Woken(worker))
        BY DEF Delete
    <2>3. Woken(worker) \in Loops /\ Woken(worker).todo \subseteq worker.todo
        BY <2>1, Going
    <2> QED
        BY <2>1, <2>2, <2>3, Going
<1>6. TypeOK'
    BY <1>1, <1>3, <1>4, <1>5 DEF IInv, TypeOK, jobs, turns
<1>7. GoneInv' /\ OldInv'
    BY <1>1, <1>3, <1>4, <1>5 DEF IInv, TypeOK, GoneInv, Concerns, OldInv
<1>8. OpenInv'
    BY <1>1, <1>4 DEF IInv, TypeOK, OpenInv
<1>9. TailInv' /\ TurnInv'
    BY <1>1 DEF IInv, TailInv, TurnInv, Of, jobs, turns
<1>10. RemovedAreOver' /\ ThreadsAreKnown'
    BY <1>1, <1>3 DEF IInv, TypeOK, RemovedAreOver, Removed, Deleting, ThreadsAreKnown, jobs
<1> QED
    BY <1>6, <1>7, <1>8, <1>9, <1>10 DEF IInv

\* To ask for a turn puts what waits at the end of the queue.
LEMMA AsksInv ==
    ASSUME IInv, NEW p \in Projects, NEW x \in Of(p) \union {Removal},
           tail' = [tail EXCEPT ![p] = Append(@, x)],
           UNCHANGED <<sess, thread, row, jobs, checking, cleanup, faults>>,
           \/ UNCHANGED run
           \/ \E s \in Sessions : run[s] = "none" /\ run' = [run EXCEPT ![s] = "reserved"]
    PROVE  IInv'
<1>1. tail[p] \in Seq(Of(p) \union {Removal}) /\ tail[p] \in Seq(Sessions \union {Removal})
    BY DEF IInv, TypeOK, TailInv
<1>2. x \in Sessions \union {Removal}
    BY DEF Of
<1>3. /\ Append(tail[p], x) \in Seq(Of(p) \union {Removal})
      /\ Append(tail[p], x) \in Seq(Sessions \union {Removal})
      /\ Append(tail[p], x) # <<>>
      /\ tail[p] # <<>> => Head(Append(tail[p], x)) = Head(tail[p])
    BY <1>1, <1>2
<1>4. /\ tail'[p] = Append(tail[p], x) /\ \A q \in Projects : q # p => tail'[q] = tail[q]
      /\ tail' \in [Projects -> Seq(Sessions \union {Removal})]
    BY <1>3 DEF IInv, TypeOK
<1>5. TypeOK' /\ GoneInv' /\ OldInv'
    BY <1>4 DEF IInv, TypeOK, GoneInv, Concerns, OldInv, jobs, cleanup
<1>6. TailInv'
    BY <1>3, <1>4 DEF IInv, TailInv, Of
<1>7. TurnInv'
    BY <1>3, <1>4 DEF IInv, TypeOK, TurnInv, jobs
<1>8. RemovedAreOver' /\ ThreadsAreKnown' /\ OpenInv'
    BY DEF IInv, TypeOK, RemovedAreOver, Removed, Deleting, ThreadsAreKnown, OpenInv, jobs, cleanup
<1> QED
    BY <1>5, <1>6, <1>7, <1>8 DEF IInv

LEMMA AskingInv ==
    ASSUME IInv, NEW p \in Projects,
           \/ RemovalAsked(p)
           \/ \E s \in Sessions : CreateAsked(s, p) \/ StartAsked(s, p)
    PROVE  IInv'
<1>1. CASE RemovalAsked(p)
    BY <1>1, AsksInv DEF RemovalAsked, chats
<1>2. ASSUME NEW s \in Sessions, CreateAsked(s, p) \/ StartAsked(s, p) PROVE IInv'
    <2>1. s \in Of(p)
        BY <1>2 DEF CreateAsked, StartAsked, Of
    <2> QED
        BY <1>2, <2>1, AsksInv DEF CreateAsked, StartAsked, Waits
<1> QED
    BY <1>1, <1>2

\* A reservation given back touches no Run.
LEMMA FreedDoes ==
    ASSUME TypeOK, NEW s \in Sessions, Freed(s)
    PROVE  /\ run' \in [Sessions -> {"none", "reserved", "running", "ending", "orphan"}]
           /\ \A q \in Sessions : run'[q] \in {"running", "ending", "orphan"} => run'[q] = run[q]
BY DEF TypeOK, Freed

\* Whoever has its turn belongs to the Project, and the queue without it is one.
LEMMA LeavesDoes ==
    ASSUME IInv, NEW p \in Projects, tail[p] # <<>>, Leaves(p)
    PROVE  /\ tail' \in [Projects -> Seq(Sessions \union {Removal})]
           /\ \A q \in Projects : q # p => tail'[q] = tail[q]
           /\ TailInv'
<1>1. tail[p] \in Seq(Of(p) \union {Removal}) /\ tail[p] \in Seq(Sessions \union {Removal})
    BY DEF IInv, TypeOK, TailInv
<1>2. Tail(tail[p]) \in Seq(Of(p) \union {Removal}) /\ Tail(tail[p]) \in Seq(Sessions \union {Removal})
    BY <1>1
<1>3. tail' = [tail EXCEPT ![p] = Tail(tail[p])]
    BY DEF Leaves
<1>4. /\ tail' \in [Projects -> Seq(Sessions \union {Removal})]
      /\ tail'[p] = Tail(tail[p]) /\ \A q \in Projects : q # p => tail'[q] = tail[q]
    BY <1>2, <1>3 DEF IInv, TypeOK
<1> QED
    BY <1>2, <1>4 DEF IInv, TailInv, Of

LEMMA CheckBeginsInv ==
    ASSUME IInv, NEW s \in Sessions, NEW p \in Projects, CheckBegins(s, p) PROVE IInv'
<1>1. /\ tail[p] # <<>> /\ Head(tail[p]) = s /\ p \notin checking
      /\ UNCHANGED <<sess, thread, row, jobs, cleanup, faults>>
    BY DEF CheckBegins, Turn
<1>2. /\ run' \in [Sessions -> {"none", "reserved", "running", "ending", "orphan"}]
      /\ \A q \in Sessions : run'[q] \in {"running", "ending", "orphan"} => run'[q] = run[q]
    BY FreedDoes DEF CheckBegins, IInv, TypeOK
<1>3. /\ tail' \in [Projects -> Seq(Sessions \union {Removal})] /\ checking' \subseteq Projects
      /\ TailInv' /\ TurnInv'
    <2>1. CASE project[p] = "active" /\ checking' = checking \union {p} /\ UNCHANGED <<tail, run>>
        BY <1>1, <2>1 DEF IInv, TypeOK, TailInv, TurnInv, Of, jobs
    <2>2. CASE Leaves(p) /\ UNCHANGED checking
        BY <1>1, <2>2, LeavesDoes DEF IInv, TypeOK, TurnInv, jobs
    <2> QED
        BY <2>1, <2>2 DEF CheckBegins
<1>4. TypeOK' /\ GoneInv' /\ OldInv'
    BY <1>1, <1>2, <1>3 DEF IInv, TypeOK, GoneInv, Concerns, OldInv, jobs, cleanup
<1>5. RemovedAreOver' /\ ThreadsAreKnown' /\ OpenInv'
    BY <1>1, <1>2 DEF IInv, TypeOK, RemovedAreOver, Removed, Deleting, ThreadsAreKnown, OpenInv, jobs, cleanup
<1> QED
    BY <1>3, <1>4, <1>5 DEF IInv

\* What was found before the Box was asked holds when it answers: the Project
\* is active, since its deletion waits.
LEMMA CheckEndsInv ==
    ASSUME IInv, NEW s \in Sessions, NEW p \in Projects, CheckEnds(s, p) PROVE IInv'
<1>1. /\ tail[p] # <<>> /\ Head(tail[p]) = s /\ p \in checking /\ checking' = checking \ {p}
      /\ Leaves(p) /\ UNCHANGED <<row, jobs, cleanup, faults>>
    BY DEF CheckEnds, Turn
<1>2. project[p] = "active"
    BY <1>1 DEF IInv, TurnInv
<1>3. ProjectOf[s] = p
    <2>1. tail[p] \in Seq(Of(p) \union {Removal})
        BY DEF IInv, TailInv
    <2>2. Head(tail[p]) \in Of(p) \union {Removal}
        BY <1>1, <2>1
    <2> QED
        BY <1>1, <2>2, RemovalAssumption DEF Of
<1>4. TailInv' /\ TurnInv' /\ tail' \in [Projects -> Seq(Sessions \union {Removal})]
    BY <1>1, LeavesDoes DEF IInv, TypeOK, TurnInv, jobs
<1>5. \/ /\ run' \in [Sessions -> {"none", "reserved", "running", "ending", "orphan"}]
         /\ \A q \in Sessions : run'[q] \in {"running", "ending", "orphan"} => run'[q] = run[q]
         /\ UNCHANGED <<sess, thread>>
      \/ sess[s] = "none" /\ sess' = [sess EXCEPT ![s] = "live"] /\ UNCHANGED <<run, thread>>
      \/ /\ sess[s] = "live" /\ run' = [run EXCEPT ![s] = "running"]
         /\ thread' = thread \union {s} /\ UNCHANGED sess
    BY FreedDoes DEF CheckEnds, Starts, IInv
<1>6. TypeOK'
    BY <1>1, <1>4, <1>5 DEF IInv, TypeOK, jobs, cleanup
<1>7. GoneInv' /\ OldInv'
    <2>1. \A q \in Sessions : sess'[q] = sess[q] \/ (sess[q] = "none" /\ sess'[q] = "live")
        BY <1>5 DEF IInv, TypeOK
    <2>2. UNCHANGED <<op, row, worker, sweep>>
        BY <1>1 DEF cleanup
    <2> QED
        BY <2>1, <2>2, RemovalAssumption DEF IInv, GoneInv, Concerns, OldInv
<1>8. OpenInv'
    BY <1>1, <1>5 DEF IInv, TypeOK, OpenInv, jobs, cleanup
<1>9. ~Removed(s)' \/ sess[s] = "gone"
    BY <1>1, <1>2, <1>3, <1>5 DEF IInv, TypeOK, Removed, Deleting, jobs
<1>10. RemovedAreOver'
    BY <1>1, <1>5, <1>9 DEF IInv, TypeOK, RemovedAreOver, Removed, Deleting, jobs
<1>11. ThreadsAreKnown'
    BY <1>1, <1>5 DEF IInv, TypeOK, ThreadsAreKnown, OldInv
<1> QED
    BY <1>4, <1>6, <1>8, <1>10, <1>11, <1>7 DEF IInv

\* A deletion begins where no Run is under way and nobody awaits the Box.
LEMMA RemovalRunsInv ==
    ASSUME IInv, NEW p \in Projects, RemovalRuns(p) PROVE IInv'
<1>1. /\ tail[p] # <<>> /\ Head(tail[p]) = Removal /\ Leaves(p)
      /\ UNCHANGED <<sess, run, thread, row, checking, cleanup, faults>>
    BY DEF RemovalRuns, Turn, chats
<1>2. p \notin checking
    BY <1>1, RemovalAssumption DEF IInv, TurnInv
<1>3. \/ UNCHANGED <<project, drain, timer>>
      \/ /\ \A s \in Of(p) : run[s] \notin {"running", "orphan"}
         /\ project' = [project EXCEPT ![p] = "due"] /\ drain' = "on" /\ UNCHANGED timer
    BY DEF RemovalRuns, jobs
<1>4. TailInv' /\ TurnInv' /\ tail' \in [Projects -> Seq(Sessions \union {Removal})]
    BY <1>1, <1>2, <1>3, LeavesDoes DEF IInv, TypeOK, TurnInv
<1>5. TypeOK' /\ GoneInv' /\ OldInv' /\ OpenInv' /\ ThreadsAreKnown'
    BY <1>1, <1>3, <1>4 DEF IInv, TypeOK, GoneInv, Concerns, OldInv, OpenInv, ThreadsAreKnown, cleanup
<1>6. RemovedAreOver'
    BY <1>1, <1>3 DEF IInv, TypeOK, RemovedAreOver, Removed, Deleting, Of
<1> QED
    BY <1>4, <1>5, <1>6 DEF IInv

-----------------------------------------------------------------------------
(* Steps of the drain.                                                     *)

\* The drain moves jobs of Projects that are being deleted, and nothing else.
LEMMA DrainingInv ==
    ASSUME IInv, UNCHANGED <<sess, run, thread, row, tail, checking, cleanup>>,
           project' \in [Projects -> {"active", "due", "deferred", "gone"}],
           drain' \in {"on", "off", "failed"}, timer' \in BOOLEAN, faults' \in 0..MaxFaults,
           \A p \in Projects : project'[p] # project[p] =>
               project[p] \in {"due", "deferred"}
    PROVE  IInv'
<1>1. TypeOK' /\ GoneInv' /\ OldInv' /\ OpenInv' /\ ThreadsAreKnown'
    BY DEF IInv, TypeOK, GoneInv, Concerns, OldInv, OpenInv, ThreadsAreKnown, cleanup
<1>2. TailInv' /\ TurnInv'
    BY DEF IInv, TypeOK, TailInv, TurnInv, Of
<1>3. RemovedAreOver'
    BY DEF IInv, TypeOK, RemovedAreOver, Removed, Deleting
<1> QED
    BY <1>1, <1>2, <1>3 DEF IInv

\* The steps of the drain and its timers that retire no Session.
LEMMA DrainsInv ==
    ASSUME IInv,
           \/ DrainEnds \/ TimerFires
           \/ \E p \in Projects : DrainFails(p) \/ Completes(p) \/ JobDue(p)
    PROVE  IInv'
<1>1. UNCHANGED <<sess, run, thread, row, tail, checking, cleanup>>
    BY DEF DrainEnds, TimerFires, DrainFails, Completes, JobDue, chats, turns
<1>2. faults' \in 0..MaxFaults
    BY FaultStep DEF DrainEnds, TimerFires, DrainFails, Completes, JobDue, IInv, TypeOK
<1>3. /\ drain' \in {"on", "off", "failed"} /\ timer' \in BOOLEAN
    BY DEF DrainEnds, TimerFires, DrainFails, Completes, JobDue, Blocked, IInv, TypeOK
<1>4. /\ project' \in [Projects -> {"active", "due", "deferred", "gone"}]
      /\ \A p \in Projects : project'[p] # project[p] => project[p] \in {"due", "deferred"}
    BY DEF DrainEnds, TimerFires, DrainFails, Completes, JobDue, Blocked, IInv, TypeOK
<1> QED
    BY <1>1, <1>2, <1>3, <1>4, DrainingInv

\* A batch leaves Sessions that are gone, each with a row; none of them has a Run.
LEMMA DrainRetiresInv ==
    ASSUME IInv, NEW p \in Projects, DrainRetires(p) PROVE IInv'
<1>1. /\ project[p] = "due"
      /\ UNCHANGED <<run, thread, tail, checking, op, attempt, direct, worker, backoff>>
    BY DEF DrainRetires, turns
<1>2. PICK gone \in SUBSET {s \in Of(p) : sess[s] = "live"} :
          /\ Retires(gone)
          /\ sweep' = IF gone = {} THEN sweep ELSE Swept
          /\ UNCHANGED <<jobs, faults>> \/ (Blocked(p) /\ \E free \in BOOLEAN : Unless(free))
    <2>1. PICK batch \in SUBSET {s \in Of(p) : sess[s] = "live"},
               gone \in SUBSET {s \in Of(p) : sess[s] = "live"} :
              /\ Retires(gone)
              /\ \/ gone = batch /\ UNCHANGED <<jobs, faults>>
                 \/ /\ gone # batch /\ Blocked(p)
                    /\ Unless(Cardinality(gone) = MaxJobs - Cardinality(Rows) /\ drain' # "failed")
              /\ sweep' = IF gone = {} THEN sweep ELSE Swept
        BY DEF DrainRetires
    <2>2. (Cardinality(gone) = MaxJobs - Cardinality(Rows) /\ drain' # "failed") \in BOOLEAN
        OBVIOUS
    <2> QED
        BY <2>1, <2>2
<1>3. faults' \in 0..MaxFaults
    BY <1>2, FaultStep DEF IInv, TypeOK
<1>4. /\ drain' \in {"on", "off", "failed"} /\ timer' \in BOOLEAN
      /\ project' \in [Projects -> {"active", "due", "deferred", "gone"}]
      /\ \A q \in Projects : project'[q] # project[q] => q = p /\ project'[q] = "deferred"
    BY <1>2 DEF Blocked, jobs, IInv, TypeOK
<1>5. /\ sess' \in [Sessions -> {"none", "live", "gone"}]
      /\ row' \in [Sessions -> {"none", "due", "deferred"}]
      /\ \A s \in Sessions : IF s \in gone THEN sess'[s] = "gone" /\ row'[s] = "due"
                            ELSE sess'[s] = sess[s] /\ row'[s] = row[s]
    BY <1>2 DEF Retires, IInv, TypeOK
<1>6. sweep' \in Loops /\ \A s \in sweep'.todo : s \in sweep.todo \/ row'[s] # "none"
    <2>1. Swept \in Loops /\ \A s \in Swept.todo : s \in sweep.todo \/ row'[s] # "none"
        <3>1. PICK jobset \in SUBSET Sessions :
                  /\ jobset = {s \in Sessions : row'[s] # "none"} \ (attempt \union Open)
                  /\ Swept = sweep \/ Swept = Has(jobset)
            BY DEF Swept
        <3> QED
            BY <3>1, Starting DEF IInv, TypeOK
    <2> QED
        BY <1>2, <2>1 DEF IInv, TypeOK
<1>7. TypeOK'
    BY <1>1, <1>3, <1>4, <1>5, <1>6 DEF IInv, TypeOK
<1>8. GoneInv'
    BY <1>1, <1>5, <1>6, Going DEF IInv, TypeOK, GoneInv, Concerns
<1>9. OpenInv' /\ OldInv'
    BY <1>1, <1>5, RemovalAssumption DEF IInv, OpenInv, OldInv
<1>10. ThreadsAreKnown'
    BY <1>1, <1>5 DEF IInv, ThreadsAreKnown
<1>11. TailInv' /\ TurnInv'
    BY <1>1, <1>4 DEF IInv, TypeOK, TailInv, TurnInv, Of
<1>12. RemovedAreOver'
    BY <1>1, <1>2, <1>4, <1>5 DEF IInv, TypeOK, RemovedAreOver, Removed, Deleting, Of
<1> QED
    BY <1>7, <1>8, <1>9, <1>11, <1>12, <1>10 DEF IInv

\* After a restart the sweep has the rows there are, and no operation is left.
LEMMA RestartInv ==
    ASSUME IInv, Restart PROVE IInv'
<1>1. PICK cut \in SUBSET {s \in Sessions : op[s] = "open"} : thread' = thread \ cut
    BY DEF Restart
<1>2. /\ run' = [s \in Sessions |-> IF run[s] \in {"running", "orphan"} THEN "orphan" ELSE "none"]
      /\ tail' = [p \in Projects |-> <<>>] /\ checking' = {}
      /\ drain' = "on" /\ timer' = FALSE
      /\ op' = [s \in Sessions |-> "none"] /\ attempt' = {} /\ direct' = {}
      /\ worker' = Off /\ sweep' = Has(Rows) /\ backoff' = FALSE
      /\ UNCHANGED <<sess, row, project>> /\ faults' \in 0..MaxFaults
    BY FaultStep DEF Restart, IInv, TypeOK
<1>3. /\ worker' \in Loops /\ worker'.todo = {} /\ sweep' \in Loops
      /\ \A s \in sweep'.todo : row[s] # "none"
    BY <1>2, Starting DEF Rows
<1>4. tail' \in [Projects -> Seq(Sessions \union {Removal})] /\ TailInv' /\ TurnInv'
    BY <1>2 DEF TailInv, TurnInv
<1>5. TypeOK'
    BY <1>1, <1>2, <1>3, <1>4 DEF IInv, TypeOK
<1>6. GoneInv' /\ OpenInv' /\ OldInv'
    BY <1>2, <1>3 DEF IInv, GoneInv, Concerns, OpenInv, OldInv
<1>7. RemovedAreOver'
    BY <1>2 DEF IInv, TypeOK, RemovedAreOver, Removed, Deleting
<1>8. ThreadsAreKnown'
    BY <1>1, <1>2, RemovalAssumption DEF IInv, TypeOK, ThreadsAreKnown, GoneInv, Concerns
<1> QED
    BY <1>4, <1>5, <1>6, <1>7, <1>8 DEF IInv

-----------------------------------------------------------------------------
(* Together.                                                               *)

LEMMA IInvInit == Init => IInv
<1> SUFFICES ASSUME Init PROVE IInv
    OBVIOUS
<1>1. TypeOK
    <2>1. faults \in 0..MaxFaults /\ thread \subseteq Sessions
        BY RemovalAssumption DEF Init
    <2>2. tail \in [Projects -> Seq(Sessions \union {Removal})]
        BY DEF Init
    <2> QED
        BY <2>1, <2>2, Starting DEF Init, TypeOK
<1>2. GoneInv /\ OpenInv /\ OldInv
    BY Starting, RemovalAssumption DEF Init, GoneInv, Concerns, OpenInv, OldInv
<1>3. TailInv /\ TurnInv
    BY DEF Init, TailInv, TurnInv
<1>4. RemovedAreOver /\ ThreadsAreKnown
    BY DEF Init, RemovedAreOver, ThreadsAreKnown
<1> QED
    BY <1>1, <1>2, <1>3, <1>4 DEF IInv

LEMMA IInvStep == IInv /\ [Next]_vars => IInv'
<1> SUFFICES ASSUME IInv, [Next]_vars PROVE IInv'
    OBVIOUS
<1>1. CASE Works
    BY <1>1, WorkerLooksInv, WorkerTakesInv DEF Works
<1>2. CASE Sweeps
    BY <1>2, SweepEndsInv, SweepTakesInv DEF Sweeps
<1>3. CASE Drains
    BY <1>3, DrainsInv, DrainRetiresInv DEF Drains
<1>4. CASE BackoffEnds \/ \E s \in Sessions : RowDue(s)
    BY <1>4, TimePassesInv
<1>5. CASE TimerFires \/ \E p \in Projects : JobDue(p)
    BY <1>5, DrainsInv
<1>6. CASE Restart
    BY <1>6, RestartInv
<1>7. CASE \E s \in Sessions : OpSettles(s) \/ TimesOut(s) \/ RunEnds(s) \/ Delete(s)
    BY <1>7, OpSettlesInv, TimesOutInv, RunEndsInv, DeleteInv
<1>8. CASE \E p \in Projects : TakesTurn(p)
    BY <1>8, RemovalRunsInv, CheckBeginsInv, CheckEndsInv DEF TakesTurn
<1>9. CASE \E p \in Projects : \/ RemovalAsked(p)
                              \/ \E s \in Sessions : CreateAsked(s, p) \/ StartAsked(s, p)
    BY <1>9, AskingInv
<1>10. CASE UNCHANGED vars
    <2>1. CleanupOK /\ \A s \in Sessions : Cleans(s)
        BY <1>10 DEF IInv, TypeOK, CleanupOK, Cleans, Concerns, vars, cleanup, chats
    <2> QED
        BY <1>10, <2>1, CleaningInv DEF vars, chats
<1> QED
    BY <1>1, <1>2, <1>3, <1>4, <1>5, <1>6, <1>7, <1>8, <1>9, <1>10 DEF Next

-----------------------------------------------------------------------------
(* The limits.                                                             *)

\* Only an attempt that finds a slot free adds an operation.
LEMMA OpenMoves ==
    ASSUME IInv, [Next]_vars
    PROVE  \/ Open' \subseteq Open
           \/ Cardinality(Open) < Slots /\ \E s \in Sessions : Open' \subseteq Open \union {s}
<1> USE DEF IInv, TypeOK, Open
<1>1. ASSUME NEW s \in Sessions, Joins(s), Begins(s)
      PROVE  \/ Open' \subseteq Open
             \/ Cardinality(Open) < Slots /\ Open' \subseteq Open \union {s}
    BY <1>1 DEF Joins, Begins
<1>2. ASSUME NEW s \in Sessions, WorkerTakes(s) \/ SweepTakes(s) \/ Delete(s)
      PROVE  (Joins(s) /\ Begins(s)) \/ UNCHANGED op
    BY <1>2 DEF WorkerTakes, SweepTakes, Delete
<1>3. ASSUME NEW s \in Sessions, OpSettles(s) \/ TimesOut(s) PROVE Open' \subseteq Open
    BY <1>3 DEF OpSettles, TimesOut
<1>4. CASE Restart
    BY <1>4 DEF Restart
<1>5. CASE \/ WorkerLooks \/ SweepEnds \/ BackoffEnds \/ TimerFires \/ DrainEnds
           \/ \E s \in Sessions : RowDue(s) \/ RunEnds(s)
           \/ \E p \in Projects : \/ JobDue(p) \/ DrainFails(p) \/ Completes(p) \/ DrainRetires(p)
                                 \/ RemovalAsked(p) \/ RemovalRuns(p)
           \/ \E p \in Projects, s \in Sessions :
                  CheckBegins(s, p) \/ CheckEnds(s, p) \/ CreateAsked(s, p) \/ StartAsked(s, p)
           \/ UNCHANGED vars
    <2>1. UNCHANGED op
        BY <1>5 DEF WorkerLooks, SweepEnds, BackoffEnds, TimerFires, DrainEnds, RowDue, RunEnds,
            JobDue, DrainFails, Completes, DrainRetires, RemovalAsked, RemovalRuns, CheckBegins,
            CheckEnds, CreateAsked, StartAsked, Waits, cleanup, vars
    <2> QED
        BY <2>1
<1> QED
    BY <1>1, <1>2, <1>3, <1>4, <1>5 DEF Next, Works, Sweeps, Drains, TakesTurn

\* Only a deletion that finds room adds a row, and a batch as many as there is room for.
LEMMA RowsMove ==
    ASSUME IInv, [Next]_vars
    PROVE  \E more \in SUBSET Sessions :
               /\ Rows' \subseteq Rows \union more
               /\ more = {} \/ Cardinality(more) <= MaxJobs - Cardinality(Rows)
<1> USE DEF IInv, TypeOK, Rows
<1>1. ASSUME Rows' \subseteq Rows
      PROVE  \E more \in SUBSET Sessions :
               /\ Rows' \subseteq Rows \union more
               /\ more = {} \/ Cardinality(more) <= MaxJobs - Cardinality(Rows)
    BY <1>1
<1>2. ASSUME NEW s \in Sessions, NEW outcome, Recorded(s, outcome) PROVE Rows' \subseteq Rows
    BY <1>2 DEF Recorded
<1>3. ASSUME NEW s \in Sessions, WorkerTakes(s) \/ SweepTakes(s) \/ OpSettles(s) \/ TimesOut(s)
      PROVE  UNCHANGED row \/ \E outcome : Recorded(s, outcome)
    BY <1>3 DEF WorkerTakes, SweepTakes, OpSettles, TimesOut, Settles
<1>4. ASSUME NEW s \in Sessions, Delete(s)
      PROVE  \E more \in SUBSET Sessions :
               /\ Rows' \subseteq Rows \union more
               /\ more = {} \/ Cardinality(more) <= MaxJobs - Cardinality(Rows)
    <2>1. /\ Cardinality(Rows) < MaxJobs /\ row' \in [Sessions -> {"none", "due", "deferred"}]
          /\ \A q \in Sessions : q # s => row'[q] = row[q]
        BY <1>4 DEF Delete
    <2>2. Cardinality({s}) = 1 /\ Cardinality(Rows) \in Nat
        <3>1. IsFiniteSet(Rows)
            BY RemovalAssumption, FS_Subset
        <3> QED
            BY <3>1, FS_Singleton, FS_CardinalityType
    <2> WITNESS {s} \in SUBSET Sessions
    <2>3. Cardinality({s}) <= MaxJobs - Cardinality(Rows)
        BY <2>1, <2>2, RemovalAssumption
    <2> QED
        BY <2>1, <2>3
<1>5. ASSUME NEW p \in Projects, DrainRetires(p)
      PROVE  \E more \in SUBSET Sessions :
               /\ Rows' \subseteq Rows \union more
               /\ more = {} \/ Cardinality(more) <= MaxJobs - Cardinality(Rows)
    <2>1. PICK gone \in SUBSET {s \in Of(p) : sess[s] = "live"} :
              Retires(gone) /\ Cardinality(gone) <= MaxJobs - Cardinality(Rows)
        BY <1>5 DEF DrainRetires
    <2>2. gone \in SUBSET Sessions
        BY DEF Of
    <2>3. Rows' \subseteq Rows \union gone
        BY <2>1 DEF Retires
    <2> QED
        BY <2>1, <2>2, <2>3
<1>6. ASSUME NEW s \in Sessions, RowDue(s) PROVE Rows' \subseteq Rows
    BY <1>6 DEF RowDue
<1>7. CASE \/ WorkerLooks \/ SweepEnds \/ BackoffEnds \/ TimerFires \/ DrainEnds \/ Restart
           \/ \E s \in Sessions : RunEnds(s)
           \/ \E p \in Projects : \/ JobDue(p) \/ DrainFails(p) \/ Completes(p)
                                 \/ RemovalAsked(p) \/ RemovalRuns(p)
           \/ \E p \in Projects, s \in Sessions :
                  CheckBegins(s, p) \/ CheckEnds(s, p) \/ CreateAsked(s, p) \/ StartAsked(s, p)
           \/ UNCHANGED vars
    <2>1. UNCHANGED row
        BY <1>7 DEF WorkerLooks, SweepEnds, BackoffEnds, TimerFires, DrainEnds, Restart, RunEnds,
            JobDue, DrainFails, Completes, RemovalAsked, RemovalRuns, CheckBegins,
            CheckEnds, CreateAsked, StartAsked, Waits, vars
    <2> QED
        BY <2>1, <1>1
<1>8. ASSUME NEW s \in Sessions, WorkerTakes(s) \/ SweepTakes(s) \/ OpSettles(s) \/ TimesOut(s)
      PROVE  Rows' \subseteq Rows
    <2>1. CASE UNCHANGED row
        BY <2>1
    <2>2. CASE \E outcome : Recorded(s, outcome)
        BY <2>2, <1>2
    <2> QED
        BY <1>3, <1>8, <2>1, <2>2
<1> HIDE DEF IInv, TypeOK, Rows
<1> QED
    BY <1>1, <1>4, <1>5, <1>6, <1>7, <1>8 DEF Next, Works, Sweeps, Drains, TakesTurn

LEMMA LimitsInit == Init => LimitsHold
<1> SUFFICES ASSUME Init PROVE LimitsHold
    OBVIOUS
<1>1. Open = {} /\ Rows = {}
    BY DEF Init, Open, Rows
<1> QED
    BY <1>1, FS_EmptySet, RemovalAssumption DEF LimitsHold

LEMMA LimitsStep == LimitsHold /\ IInv /\ [Next]_vars => LimitsHold'
<1> SUFFICES ASSUME LimitsHold, IInv, [Next]_vars PROVE LimitsHold'
    OBVIOUS
<1>1. \A A : A \subseteq Sessions => IsFiniteSet(A) /\ Cardinality(A) \in Nat
    BY RemovalAssumption, FS_Subset, FS_CardinalityType
<1>2. /\ Open \subseteq Sessions /\ Open' \subseteq Sessions
      /\ Rows \subseteq Sessions /\ Rows' \subseteq Sessions
    BY DEF Open, Rows
<1>3. \A A, B : A \subseteq Sessions /\ B \subseteq A => Cardinality(B) <= Cardinality(A)
    BY <1>1, FS_Subset
<1>4. \A A, B : A \subseteq Sessions /\ B \subseteq Sessions
                 => Cardinality(A \union B) <= Cardinality(A) + Cardinality(B)
    <2> SUFFICES ASSUME NEW A, NEW B, A \subseteq Sessions, B \subseteq Sessions
                 PROVE  Cardinality(A \union B) <= Cardinality(A) + Cardinality(B)
        OBVIOUS
    <2>1. /\ IsFiniteSet(A) /\ IsFiniteSet(B) /\ A \intersect B \subseteq Sessions
        BY <1>1
    <2>2. Cardinality(A \union B) = Cardinality(A) + Cardinality(B) - Cardinality(A \intersect B)
        BY <2>1, FS_Union
    <2> QED
        BY <1>1, <2>1, <2>2
<1>5. Cardinality(Open') <= Slots
    <2>1. CASE Open' \subseteq Open
        BY <2>1, <1>1, <1>2, <1>3, RemovalAssumption DEF LimitsHold
    <2>2. ASSUME Cardinality(Open) < Slots, NEW s \in Sessions, Open' \subseteq Open \union {s}
          PROVE  Cardinality(Open') <= Slots
        <3>1. Cardinality({s}) = 1
            BY FS_Singleton
        <3>2. Cardinality(Open') <= Cardinality(Open \union {s})
            BY <2>2, <1>2, <1>3
        <3>3. Cardinality(Open \union {s}) <= Cardinality(Open) + 1
            BY <3>1, <1>2, <1>4
        <3>4. /\ Cardinality(Open') \in Nat /\ Cardinality(Open \union {s}) \in Nat
              /\ Cardinality(Open) \in Nat
            BY <1>1, <1>2
        <3> QED
            BY <2>2, <3>2, <3>3, <3>4, RemovalAssumption
    <2> QED
        BY <2>1, <2>2, OpenMoves
<1>6. Cardinality(Rows') <= MaxJobs
    <2>1. PICK more \in SUBSET Sessions :
              /\ Rows' \subseteq Rows \union more
              /\ more = {} \/ Cardinality(more) <= MaxJobs - Cardinality(Rows)
        BY RowsMove
    <2>2. /\ Cardinality(Rows') \in Nat /\ Cardinality(Rows) \in Nat /\ Cardinality(more) \in Nat
          /\ Cardinality(Rows \union more) \in Nat
        BY <1>1, <1>2
    <2>3. /\ Cardinality(Rows') <= Cardinality(Rows \union more)
          /\ Cardinality(Rows \union more) <= Cardinality(Rows) + Cardinality(more)
        BY <1>2, <1>3, <1>4, <2>1
    <2>4. more = {} => Cardinality(more) = 0
        BY FS_EmptySet
    <2> QED
        BY <2>1, <2>2, <2>3, <2>4, RemovalAssumption DEF LimitsHold
<1> QED
    BY <1>5, <1>6 DEF LimitsHold

-----------------------------------------------------------------------------
(* The theorems.                                                           *)

\* The invariant holds throughout.
THEOREM RemovalInvariant == Spec => []IInv
BY IInvInit, IInvStep, PTL DEF Spec

\* The variables have their types.
THEOREM RemovalTypeCorrect == Spec => []TypeOK
<1>1. IInv => TypeOK
    BY DEF IInv
<1> QED
    BY <1>1, RemovalInvariant, PTL

\* For any Sessions and Projects: a deletion, alone or with its Project, never
\* meets a Run that was started meanwhile, never takes a thread in use, forgets
\* none, and exceeds no limit, whatever times out, fails or is restarted.
THEOREM RemovalAlwaysSafe == Spec => []RemovalIsSafe
<1>1. IInv /\ LimitsHold => RemovalIsSafe
    BY DEF IInv, RemovalIsSafe
<1>2. Spec => []LimitsHold
    BY LimitsInit, LimitsStep, RemovalInvariant, PTL DEF Spec
<1> QED
    BY <1>1, <1>2, RemovalInvariant, PTL
=============================================================================
