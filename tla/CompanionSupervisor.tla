------------------------ MODULE CompanionSupervisor ------------------------
(***************************************************************************)
(* The Desktop's supervisor of its two companion processes, the agents     *)
(* server and the Local Runtime Box (companion-process-supervisor.ts).     *)
(*                                                                         *)
(* A pair is started in order: the server, the connection to it, the Box.  *)
(* Whatever goes wrong has the whole pair stopped and started again, by    *)
(* one owner of the restart at a time, as long as the budget lasts.        *)
(* Stopping a process closes its standard input and escalates to SIGTERM   *)
(* and SIGKILL; a process that survives even that stays tracked, and       *)
(* nothing is started in its place.  The user may quit at any moment.      *)
(*                                                                         *)
(* What the promises of one callback do before the next callback of the    *)
(* event loop is one step: a wait on a child, a timer or the connection is *)
(* where other steps come in between.                                      *)
(***************************************************************************)
EXTENDS Naturals, FiniteSets

CONSTANTS
    MaxAttempts,  \* restartPolicy.maxAttempts
    MaxFaults     \* crashes, failed launches, lost connections, immortal children

ASSUME SupervisorAssumption == MaxAttempts \in Nat /\ MaxFaults \in Nat

VARIABLES
    status,    \* what the snapshot shows
    proc,      \* processes: the tracked child of each role
    alive,     \* the children that really run, as <<role, generation>>
    conn,      \* clientConnection, by the generation of its pair
    open,      \* the connections that are open
    late,      \* attempts to connect that nobody waits for any more
    start,     \* where performStart() is
    work,      \* where startPair() or the restart's owner is
    reported,  \* the owner's failure is reported by beginRestart()
    queued,    \* queuedRestartCause
    down,      \* where shutdown() is
    attempts,  \* the restarts taken from the budget
    pair,      \* the generation of the latest pair
    faults

children == <<proc, alive>>
links    == <<conn, open, late>>
flow     == <<start, work, reported, queued>>
vars == <<status, children, links, flow, down, attempts, pair, faults>>

Roles    == {"server", "box"}
NoCause  == [role |-> "none", gen |-> 0]
Closed   == [role |-> "connection", gen |-> 0]
Cause(r) == [role |-> r, gen |-> proc[r].gen]

NoProcess   == [gen |-> 0, ready |-> FALSE, watching |-> FALSE, seen |-> FALSE, stop |-> "no"]
Launched(g) == [NoProcess EXCEPT !.gen = g]
At(a)       == [at |-> a, broken |-> FALSE]

Init ==
    /\ status = "idle"
    /\ proc = [r \in Roles |-> NoProcess] /\ alive = {}
    /\ conn = 0 /\ open = {} /\ late = {}
    /\ start = "none" /\ work = At("idle") /\ reported = FALSE /\ queued = NoCause
    /\ down = At("none") /\ attempts = 0 /\ pair = 0 /\ faults = 0

Fault == faults < MaxFaults /\ faults' = faults + 1
Unless(free) == IF free THEN UNCHANGED faults ELSE Fault

Requested == down.at # "none"      \* shutdownRequested
Owned     == work.at # "idle" /\ start # "pairing"
Lives(r)  == <<r, proc[r].gen>> \in alive

-----------------------------------------------------------------------------
(* Stopping.                                                               *)

\* stopProcess: one attempt per child, which a child that is seen dead needs none of.
Stopping(p) ==
    IF p.gen = 0 \/ p.stop # "no" THEN p
    ELSE IF p.seen THEN NoProcess
    ELSE [p EXCEPT !.stop = "eof"]

\* The promise of stopProcess is settled.
Stopped(r) == proc[r].gen = 0 \/ proc[r].stop = "failed"

\* stopPair, up to its first wait.
StopsPair(p, a) ==
    /\ conn' = 0 /\ open' = open \ {conn}
    /\ proc' = [p EXCEPT !.box = Stopping(p.box)]
    /\ work' = [at |-> a, broken |-> p.box.stop = "failed"]

\* Wrong variant: SIGTERM for ever.
EscalatedNever(stop) == "term"

\* What stopManagedProcess does next to a child that does not exit in time.
Escalated(stop) == CASE stop = "eof" -> "term" [] stop = "term" -> "kill"

StopEscalates(r) ==
    /\ proc[r].stop \in {"eof", "term"}
    /\ proc' = [proc EXCEPT ![r].stop = Escalated(@)]
    /\ UNCHANGED <<status, alive, links, flow, down, attempts, pair, faults>>

WaitsFor(a) ==
    CASE a \in {"stopBox", "cleanBox", "abandonBox", "box1", "box2"} -> "box"
      [] a \in {"stopServer", "cleanServer", "abandonServer", "server1", "server2"} -> "server"
      [] OTHER -> "none"

\* Wrong variant: it is forgotten, and nobody is told of it any more.
SurvivesForgotten(p) == NoProcess

\* The process stays tracked, and whoever waits for its end is told.
Survives(p) == [p EXCEPT !.stop = "failed"]

StopFails(r) ==
    /\ proc[r].stop = "kill" /\ Fault
    /\ proc' = [proc EXCEPT ![r] = Survives(@)]
    /\ work' = [work EXCEPT !.broken = @ \/ WaitsFor(work.at) = r]
    /\ down' = [down EXCEPT !.broken = @ \/ WaitsFor(down.at) = r]
    /\ UNCHANGED <<status, alive, links, start, reported, queued, attempts, pair>>

-----------------------------------------------------------------------------
(* The owner of a restart.                                                 *)

\* restartAfterCrash, up to its first wait; p is what is tracked by then.
Restarts(p) == status' = "restarting" /\ StopsPair(p, "stopBox")

\* takeQueuedRestartCause: a cause that a newer pair has not made obsolete.
Takes(q, p) ==
    \/ conn # 0 /\ conn \notin open
    \/ q = Closed
    \/ q.role \in Roles /\ q.gen = pair /\ p[q.role].gen = 0

\* The owner's work is done: performStart() goes on, if it waits for it.
OwnerDone ==
    /\ work' = At("idle")
    /\ start' = IF start = "none" THEN "none" ELSE "done"

\* The owner's promise is rejected, by the end of the application or by a child
\* that survives; only beginRestart() makes that a status.
OwnerFails(cancelled) ==
    /\ OwnerDone
    /\ status' = IF reported /\ ~(cancelled /\ Requested) THEN "failed" ELSE status

\* settleRestartOwner and driveRestartOwner: again, if something is queued.
OwnerSettles(s, q, p) ==
    /\ queued' = NoCause
    /\ IF Takes(q, p)
       THEN Restarts(p) /\ UNCHANGED start
       ELSE /\ OwnerDone
            /\ status' = s /\ proc' = p
            /\ UNCHANGED <<conn, open>>

\* startPair is rejected: to performStart()'s catch, or to restartAfterCrash()'s.
PairFails ==
    IF start = "pairing"
    THEN IF Requested
         THEN OwnerDone /\ UNCHANGED <<status, proc, conn, open, reported>>
         ELSE /\ start' = "recovering" /\ reported' = FALSE
              /\ Restarts(proc)
    ELSE /\ StopsPair(proc, "cleanBox")
         /\ UNCHANGED <<status, start, reported>>

\* startPair, up to its first wait, when no child is tracked any more.
PairBegins ==
    /\ pair' = pair + 1
    /\ proc' = [proc EXCEPT !.server = Launched(pair + 1)]
    /\ alive' = alive \union {<<"server", pair + 1>>}
    /\ work' = At("server")
    /\ UNCHANGED <<conn, open, reported>>

Free == \A r \in Roles : proc[r].gen = 0

Start ==
    /\ status = "idle" /\ start = "none"
    /\ start' = "pairing" /\ status' = "starting"
    /\ PairBegins
    /\ UNCHANGED <<late, queued, down, attempts, faults>>

\* The Box's generation cannot be written, or the executable not be spawned.
StartFails ==
    /\ status = "idle" /\ start = "none" /\ Fault
    /\ start' = "recovering" /\ reported' = FALSE
    /\ Restarts(proc)
    /\ pair' = pair + 1
    /\ UNCHANGED <<alive, late, queued, down, attempts>>

SleepOver ==
    /\ work.at = "sleep" /\ Free
    /\ PairBegins
    /\ UNCHANGED <<status, start, late, queued, down, attempts, faults>>

RestartFails ==
    /\ work.at = "sleep" /\ Unless(~Free)
    /\ PairFails
    /\ pair' = IF Free THEN pair + 1 ELSE pair
    /\ UNCHANGED <<alive, late, queued, down, attempts>>

\* The box was awaited: on to the server.
OwnerStopsServer ==
    /\ work.at \in {"stopBox", "cleanBox"} /\ Stopped("box")
    /\ proc' = [proc EXCEPT !.server = Stopping(@)]
    /\ work' = [at |-> IF work.at = "stopBox" THEN "stopServer" ELSE "cleanServer",
                broken |-> work.broken \/ proc.server.stop = "failed"]
    /\ UNCHANGED <<status, alive, links, start, reported, queued, down, attempts, pair, faults>>

\* The pair is stopped: a permit and its delay, or the end of the budget.
OwnerStopped ==
    /\ work.at = "stopServer" /\ Stopped("server")
    /\ IF work.broken \/ Requested
       THEN OwnerFails(~work.broken) /\ UNCHANGED <<proc, conn, open, queued, attempts>>
       ELSE IF attempts < MaxAttempts
       THEN /\ attempts' = attempts + 1
            /\ work' = At("sleep")
            /\ UNCHANGED <<status, proc, conn, open, start, queued>>
       ELSE OwnerSettles("failed", queued, proc) /\ UNCHANGED attempts
    /\ UNCHANGED <<alive, late, reported, down, pair, faults>>

\* The owner gives up for the end of the application.  Its promise is rejected if that
\* is why there is no pair, and resolved if the pair had failed by itself (it is not
\* kept which): performStart() then writes "failed" over "stopping".
OwnerGivesUp ==
    /\ OwnerDone
    /\ status' \in IF start = "recovering" THEN {status, "failed"} ELSE {status}

\* A pair that could not be started is stopped: the next attempt.
OwnerCleaned ==
    /\ work.at = "cleanServer" /\ Stopped("server")
    /\ IF work.broken
       THEN OwnerFails(FALSE) /\ UNCHANGED <<proc, conn, open>>
       ELSE IF Requested
       THEN OwnerGivesUp /\ UNCHANGED <<proc, conn, open>>
       ELSE Restarts(proc) /\ UNCHANGED start
    /\ UNCHANGED <<alive, late, reported, queued, down, attempts, pair, faults>>

-----------------------------------------------------------------------------
(* Starting a pair.                                                        *)

ServerReady ==
    /\ work.at = "server"
    /\ proc' = [proc EXCEPT !.server.ready = TRUE]
    /\ work' = At("connect") /\ status' = "connecting-client"
    /\ UNCHANGED <<alive, links, start, reported, queued, down, attempts, pair, faults>>

Connects ==
    /\ work.at = "connect" /\ Lives("server")
    /\ conn' = pair /\ open' = open \union {pair}
    /\ proc' = [proc EXCEPT !.box = Launched(pair)]
    /\ alive' = alive \union {<<"box", pair>>}
    /\ work' = At("box") /\ status' = "waiting-runtime-box"
    /\ UNCHANGED <<late, start, reported, queued, down, attempts, pair, faults>>

ConnectFails ==
    /\ work.at = "connect" /\ Unless(~Lives("server"))
    /\ PairFails
    /\ UNCHANGED <<alive, late, queued, down, attempts, pair>>

\* An attempt that outlived its pair is closed when it succeeds.
Unwanted(g) == open \ {g}

LateConnects(g) ==
    /\ g \in late
    /\ late' = late \ {g}
    /\ open' = Unwanted(g)
    /\ UNCHANGED <<status, children, conn, flow, down, attempts, pair, faults>>

\* No READY record: the child is gone, silent for too long, or says something else.
LaunchFails(r) ==
    /\ work.at = r /\ Unless(~Lives(r))
    /\ proc' = [proc EXCEPT ![r] = Stopping(@)]
    /\ work' = At(IF r = "server" THEN "abandonServer" ELSE "abandonBox")
    /\ UNCHANGED <<status, alive, links, start, reported, queued, down, attempts, pair>>

Abandoned ==
    /\ \/ work.at = "abandonServer" /\ Stopped("server")
       \/ work.at = "abandonBox" /\ Stopped("box")
    /\ PairFails
    /\ UNCHANGED <<alive, late, queued, down, attempts, pair, faults>>

\* Wrong variant: an exit before the watch is missed.
CrashedUnseen(p) == {}

\* activateCrashDetection: the children that died before they were watched.
Crashed(p) == {r \in Roles : p[r].seen}

Watched(p) ==
    [r \in Roles |-> IF r \in Crashed(p) THEN NoProcess ELSE [p[r] EXCEPT !.watching = TRUE]]

\* The box is ready and with it the pair.
BoxReady ==
    /\ work.at = "box"
    /\ LET up == [proc EXCEPT !.box.ready = TRUE]
           last == IF "box" \in Crashed(up) THEN "box" ELSE "server"
       IN IF start = "pairing"
          THEN IF Crashed(up) = {}
               THEN /\ OwnerDone /\ status' = "running" /\ proc' = Watched(up)
                    /\ UNCHANGED <<conn, open, reported, queued>>
               ELSE /\ start' = "stabilising" /\ reported' = TRUE
                    /\ Restarts(Watched(up)) /\ UNCHANGED queued
          ELSE /\ OwnerSettles("running", IF Crashed(up) = {} THEN queued ELSE Cause(last), Watched(up))
               /\ UNCHANGED reported
    /\ UNCHANGED <<alive, late, down, attempts, pair, faults>>

-----------------------------------------------------------------------------
(* What happens to the children and the connection.                        *)

Dies(r) ==
    /\ Lives(r) /\ Unless(proc[r].stop # "no")
    /\ alive' = alive \ {<<r, proc[r].gen>>}
    /\ UNCHANGED <<status, proc, links, flow, down, attempts, pair>>

\* A restart for cause c, by a new owner or left to the one there is.
RestartFor(c, p) ==
    IF Owned
    THEN /\ queued' = c /\ proc' = p
         /\ UNCHANGED <<status, conn, open, work, reported>>
    ELSE IF Requested
    THEN proc' = p /\ UNCHANGED <<status, conn, open, work, reported, queued>>
    ELSE reported' = TRUE /\ Restarts(p) /\ UNCHANGED queued

SeesExit(r) ==
    /\ proc[r].gen # 0 /\ ~Lives(r) /\ ~proc[r].seen
    /\ LET gone == [proc EXCEPT ![r] = NoProcess]
       IN IF proc[r].stop # "no"
          THEN proc' = gone /\ UNCHANGED <<status, conn, open, work, reported, queued>>
          ELSE IF proc[r].watching /\ status \notin {"stopping", "stopped"}
          THEN RestartFor(Cause(r), gone)
          ELSE /\ proc' = [proc EXCEPT ![r].seen = TRUE]
               /\ UNCHANGED <<status, conn, open, work, reported, queued>>
    /\ UNCHANGED <<alive, late, start, down, attempts, pair, faults>>

\* While the Box is launched this ends the pair at once.  The launch is left waiting
\* (the race in startPair): the stop that begins here ends its child, and all the
\* launch does then is to join that stop.
ConnectionCloses ==
    /\ conn \in open /\ Unless(~Lives("server"))
    /\ IF work.at = "box"
       THEN PairFails /\ UNCHANGED queued
       ELSE IF status = "running" /\ ~Requested
       THEN RestartFor(Closed, proc) /\ UNCHANGED start
       ELSE open' = open \ {conn} /\ UNCHANGED <<status, proc, conn, flow>>
    /\ UNCHANGED <<alive, late, down, attempts, pair>>

-----------------------------------------------------------------------------
(* The end of the application.                                             *)

\* What the end of the application does to whoever waits: launches are given
\* up, an attempt to connect is left behind, a delay is over.
Cancels(p) ==
    CASE work.at \in {"server", "box"} ->
             /\ proc' = [p EXCEPT ![work.at] = Stopping(@)]
             /\ work' = At(IF work.at = "server" THEN "abandonServer" ELSE "abandonBox")
             /\ UNCHANGED <<late, start>>
      [] work.at = "connect" ->
             /\ proc' = p
             /\ late' = late \union {pair}
             /\ IF start = "pairing" THEN OwnerDone
                ELSE work' = At("cleanBox") /\ UNCHANGED start
      [] work.at = "sleep" -> OwnerDone /\ proc' = p /\ UNCHANGED late
      [] OTHER -> proc' = p /\ UNCHANGED <<work, late, start>>

Shutdown ==
    /\ down.at = "none"
    /\ status' = "stopping" /\ queued' = NoCause
    /\ conn' = 0 /\ open' = open \ {conn}
    /\ Cancels([proc EXCEPT !.box = Stopping(@)])
    /\ down' = [at |-> "box1", broken |-> proc.box.stop = "failed"]
    /\ UNCHANGED <<alive, reported, attempts, pair, faults>>

DownStopsServer ==
    /\ down.at \in {"box1", "box2"} /\ Stopped("box")
    /\ proc' = [proc EXCEPT !.server = Stopping(@)]
    /\ down' = [at |-> IF down.at = "box1" THEN "server1" ELSE "server2",
                broken |-> down.broken \/ proc.server.stop = "failed"]
    /\ UNCHANGED <<status, alive, links, flow, attempts, pair, faults>>

\* Then whoever was at work is awaited ...
DownWaits ==
    /\ down.at = "server1" /\ Stopped("server")
    /\ IF down.broken
       THEN status' = "failed" /\ down' = At("done")
       ELSE down' = At("others") /\ UNCHANGED status
    /\ UNCHANGED <<children, links, flow, attempts, pair, faults>>

\* ... and what they may have left is stopped as well.
DownAgain ==
    /\ down.at = "others" /\ work.at = "idle" /\ start \in {"none", "done"}
    /\ proc' = [proc EXCEPT !.box = Stopping(@)]
    /\ conn' = 0 /\ open' = open \ {conn}
    /\ down' = [at |-> "box2", broken |-> proc.box.stop = "failed"]
    /\ UNCHANGED <<status, alive, late, flow, attempts, pair, faults>>

DownEnds ==
    /\ down.at = "server2" /\ Stopped("server")
    /\ status' = IF down.broken THEN "failed" ELSE "stopped"
    /\ down' = At("done")
    /\ UNCHANGED <<children, links, flow, attempts, pair, faults>>

-----------------------------------------------------------------------------
GoesOn ==
    \/ OwnerStopsServer \/ OwnerStopped \/ OwnerCleaned \/ SleepOver \/ RestartFails \/ Abandoned
    \/ DownStopsServer \/ DownWaits \/ DownAgain \/ DownEnds

Launches ==
    \/ ServerReady \/ Connects \/ ConnectFails \/ BoxReady
    \/ \E r \in Roles : LaunchFails(r)

Ends(r) == StopEscalates(r) \/ StopFails(r) \/ (proc[r].stop = "kill" /\ Dies(r))

Next ==
    \/ Start \/ StartFails \/ Shutdown \/ GoesOn \/ Launches \/ ConnectionCloses
    \/ \E r \in Roles : StopEscalates(r) \/ StopFails(r) \/ Dies(r) \/ SeesExit(r)
    \/ \E g \in late : LateConnects(g)

Spec == Init /\ [][Next]_vars

\* Timers fire, exits are reported, a launch ends one way or the other, and
\* SIGKILL works, or is given up after its time.
Fairness ==
    /\ WF_vars(GoesOn) /\ WF_vars(Launches)
    /\ \A r \in Roles : WF_vars(Ends(r)) /\ WF_vars(SeesExit(r))

FairSpec == Spec /\ Fairness

-----------------------------------------------------------------------------
\* The type invariant.
TypeOK ==
    /\ status \in {"idle", "starting", "connecting-client", "waiting-runtime-box",
                   "running", "restarting", "stopping", "stopped", "failed"}
    /\ proc \in [Roles -> [gen : Nat, ready : BOOLEAN, watching : BOOLEAN, seen : BOOLEAN,
                           stop : {"no", "eof", "term", "kill", "failed"}]]
    /\ alive \subseteq Roles \X Nat
    /\ conn \in Nat /\ open \subseteq Nat /\ late \subseteq Nat
    /\ start \in {"none", "pairing", "recovering", "stabilising", "done"}
    /\ work \in [at : {"idle", "server", "connect", "box", "abandonServer", "abandonBox",
                       "stopBox", "stopServer", "sleep", "cleanBox", "cleanServer"},
                 broken : BOOLEAN]
    /\ reported \in BOOLEAN
    /\ queued \in [role : Roles \union {"none", "connection"}, gen : Nat]
    /\ down \in [at : {"none", "box1", "server1", "others", "box2", "server2", "done"},
                 broken : BOOLEAN]
    /\ attempts \in 0..MaxAttempts /\ pair \in Nat /\ faults \in 0..MaxFaults

\* Whatever crashes, hangs or comes late, a process that runs is the tracked one
\* of its role: never two servers on one database, never two Boxes on one
\* journal, and nobody forgets a process it could not stop (startPair, stopProcess).
NothingEscapes == \A c \in alive : proc[c[1]].gen = c[2]

AtWork == work.at # "idle" \/ start \in {"pairing", "recovering", "stabilising"}
             \/ down.at \notin {"none", "done"}

\* What the status promises: "running" is a pair of one generation that is
\* watched, with nothing seen and not acted upon, and its open connection;
\* "stopped" leaves nothing behind, and "failed", once everybody is done,
\* nothing but a process that survived SIGKILL.  Somebody is at work behind any
\* other status, unless a process survived in a restart that performStart() began:
\* its catch leaves behind whatever status there was.
StatusIsTrue ==
    /\ status = "running" =>
          /\ \A r \in Roles : /\ proc[r].gen = pair /\ proc[r].ready
                              /\ proc[r].watching /\ ~proc[r].seen
          /\ conn = pair /\ open = {pair}
    /\ status = "stopped" => alive = {} /\ open = {}
    /\ status = "failed" /\ ~AtWork =>
          open = {} /\ \A c \in alive : proc[c[1]].stop = "failed"
    /\ \/ AtWork
       \/ status \in {"idle", "running", "stopped", "failed"}
       \/ ~reported

\* Whatever happens, work comes to an end, and what runs then is whole: every
\* start, restart and shutdown ends, and every crash is answered.
WorkEnds ==
    []<>(~AtWork /\ (status = "running" => \A r \in Roles : Lives(r)))
=============================================================================
