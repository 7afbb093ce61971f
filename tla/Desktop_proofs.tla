---------------------------- MODULE Desktop_proofs ----------------------------
(***************************************************************************)
(* What holds of the desktop host for any budget of restarts and any       *)
(* number of faults, Runs, Sessions and events.                            *)
(*                                                                         *)
(* CompanionSupervisor: no process that runs is ever forgotten, and the    *)
(* status says what is the case.                                           *)
(*                                                                         *)
(* DesktopFeed, from "Types of the feed" on: what was deleted reaches the  *)
(* renderer, whenever the companion server or the connection is lost, and  *)
(* the renderer is shown every event of a Run, in order and once.          *)
(***************************************************************************)
EXTENDS CompanionSupervisor, DesktopFeed, SequenceTheorems, FiniteSetTheorems,
        WellFoundedInduction, TLAPS

-----------------------------------------------------------------------------
(* The inductive invariant.                                                *)

\* A child that runs is the tracked one; one that was seen dead is dead; and only a
\* tracked child is being stopped.
Tracked ==
    /\ \A c \in alive : c[2] # 0 /\ proc[c[1]].gen = c[2]
    /\ \A r \in Roles : /\ proc[r].seen => ~Lives(r)
                        /\ proc[r].gen = 0 => proc[r].stop = "no"

\* The child of a launch: of the latest pair, and not watched yet.
Fresh(r) == proc[r].gen = pair /\ proc[r].stop = "no" /\ ~proc[r].watching

\* Where a launch stands.
LaunchInv ==
    /\ work.at \in {"server", "connect", "box"} => pair # 0 /\ Fresh("server")
    /\ work.at \in {"connect", "box"} => proc.server.ready
    /\ work.at \in {"server", "connect", "abandonServer"} => proc.box.gen = 0
    /\ work.at = "box" => Fresh("box") /\ conn = pair /\ conn \in open
    /\ work.at \in {"server", "connect", "box", "sleep"} => ~Requested

\* What is open is the connection there is, and there is none where a pair is
\* stopped or started.
LinkInv ==
    /\ open \subseteq {conn} \ {0}
    /\ work.at \notin {"idle", "box", "abandonBox"} => conn = 0
    /\ Requested => conn = 0
    /\ late # {} => Requested

\* What was awaited stays stopped, or given up.
StopInv ==
    /\ work.at \in {"stopServer", "cleanServer", "sleep"} => Stopped("box")
    /\ work.at = "sleep" => Stopped("server")
    /\ down.at \in {"server1", "others", "box2", "server2", "done"} => Stopped("box")
    /\ down.at \in {"others", "box2", "server2", "done"} => Stopped("server")
    /\ down.at \in {"box2", "server2"} /\ ~down.broken => proc.box.stop # "failed"
    /\ down.at = "server2" /\ ~down.broken => proc.server.stop # "failed"

\* What each status stands for.
StatusInv ==
    /\ status = "idle" => Free /\ conn = 0 /\ work.at = "idle" /\ ~Requested
    /\ status = "running" =>
          /\ \A r \in Roles : /\ proc[r].gen = pair /\ proc[r].ready /\ proc[r].watching
                              /\ ~proc[r].seen /\ proc[r].stop = "no"
          /\ conn = pair /\ conn \in open /\ work.at = "idle" /\ ~Requested
    /\ status = "stopped" => Requested /\ Free
    /\ status = "failed" /\ ~Requested =>
          conn = 0 /\ work.at = "idle" /\ \A r \in Roles : Stopped(r)
    /\ down.at = "done" => status \in {"stopped", "failed"}
    /\ AtWork \/ status \in {"idle", "running", "stopped", "failed"} \/ ~reported

SupervisorInv == TypeOK /\ Tracked /\ LaunchInv /\ LinkInv /\ StopInv /\ StatusInv

-----------------------------------------------------------------------------
(* The types of the variables.                                             *)

AProc == [gen : Nat, ready : BOOLEAN, watching : BOOLEAN, seen : BOOLEAN,
          stop : {"no", "eof", "term", "kill", "failed"}]
AWork == [at : {"idle", "server", "connect", "box", "abandonServer", "abandonBox",
                "stopBox", "stopServer", "sleep", "cleanBox", "cleanServer"},
          broken : BOOLEAN]
ADown == [at : {"none", "box1", "server1", "others", "box2", "server2", "done"},
          broken : BOOLEAN]
ACause == [role : Roles \union {"none", "connection"}, gen : Nat]

\* What is done to a tracked process leaves it one.
LEMMA ProcessTypes ==
    /\ NoProcess \in AProc /\ \A g \in Nat : Launched(g) \in AProc
    /\ \A p \in AProc :
          /\ Stopping(p) \in AProc /\ Survives(p) \in AProc
          /\ \A b \in BOOLEAN : /\ [p EXCEPT !.ready = b] \in AProc
                                /\ [p EXCEPT !.seen = b] \in AProc
                                /\ [p EXCEPT !.watching = b] \in AProc
          /\ p.stop \in {"eof", "term"} => [p EXCEPT !.stop = Escalated(@)] \in AProc
BY DEF NoProcess, Launched, Stopping, Survives, Escalated, AProc

\* What becomes of a child that is to be stopped.
LEMMA StoppingIs ==
    ASSUME NEW p \in AProc, p.gen = 0 => p.stop = "no"
    PROVE  /\ Stopping(p).gen = p.gen \/ (p.seen /\ Stopping(p).gen = 0)
           /\ Stopping(p).seen => p.seen /\ Stopping(p).gen = p.gen
           /\ Stopping(p).gen = 0 => Stopping(p).stop = "no"
           /\ p.gen = 0 \/ p.stop = "failed" => Stopping(p) = p
           /\ Stopping(p).stop = "failed" <=> p.stop = "failed"
BY DEF Stopping, NoProcess, AProc

\* Replacing the process of one role leaves the other alone.
LEMMA PairTypes ==
    ASSUME NEW p \in [Roles -> AProc], NEW x \in AProc, NEW r \in Roles
    PROVE  /\ [p EXCEPT ![r] = x] \in [Roles -> AProc]
           /\ [p EXCEPT ![r] = x][r] = x
           /\ \A s \in Roles : s # r => [p EXCEPT ![r] = x][s] = p[s]
OBVIOUS

\* The type invariant in terms of the named types.
LEMMA TypeIs ==
    TypeOK <=>
      /\ status \in {"idle", "starting", "connecting-client", "waiting-runtime-box",
                     "running", "restarting", "stopping", "stopped", "failed"}
      /\ proc \in [Roles -> AProc]
      /\ alive \subseteq Roles \X Nat
      /\ conn \in Nat /\ open \subseteq Nat /\ late \subseteq Nat
      /\ start \in {"none", "pairing", "recovering", "stabilising", "done"}
      /\ work \in AWork /\ reported \in BOOLEAN /\ queued \in ACause /\ down \in ADown
      /\ attempts \in 0..MaxAttempts /\ pair \in Nat /\ faults \in 0..MaxFaults
BY DEF TypeOK, AProc, AWork, ADown, ACause

Statuses == {"idle", "starting", "connecting-client", "waiting-runtime-box",
             "running", "restarting", "stopping", "stopped", "failed"}
Starts == {"none", "pairing", "recovering", "stabilising", "done"}
Places == {"idle", "server", "connect", "box", "abandonServer", "abandonBox",
                "stopBox", "stopServer", "sleep", "cleanBox", "cleanServer"}

\* Every place is one where the owner may be, broken or not.
LEMMA WorkTypes ==
    /\ \A a \in Places : At(a) \in AWork
    /\ \A a \in Places : \A b \in BOOLEAN : [at |-> a, broken |-> b] \in AWork
BY DEF At, AWork, Places

\* Stopping a pair keeps the types of what it changes.
LEMMA StopsPairTypes ==
    ASSUME TypeOK, NEW p \in [Roles -> AProc], NEW a \in Places, StopsPair(p, a)
    PROVE  /\ proc' \in [Roles -> AProc] /\ work' \in AWork
           /\ conn' \in Nat /\ open' \subseteq Nat
<1>1. p["box"] \in AProc
  BY DEF Roles
<1>2. Stopping(p["box"]) \in AProc
  BY <1>1, ProcessTypes
<1>3. proc' \in [Roles -> AProc]
  BY <1>2 DEF StopsPair
<1>4. (p["box"].stop = "failed") \in BOOLEAN
  OBVIOUS
<1>5. work' \in AWork
  BY <1>4, WorkTypes DEF StopsPair
<1>6. conn' \in Nat /\ open' \subseteq Nat
  BY DEF StopsPair, TypeOK
<1> QED
  BY <1>3, <1>5, <1>6

\* So does the restart that begins with it ...
LEMMA RestartsTypes ==
    ASSUME TypeOK, NEW p \in [Roles -> AProc], Restarts(p)
    PROVE  /\ proc' \in [Roles -> AProc] /\ work' \in AWork
           /\ conn' \in Nat /\ open' \subseteq Nat /\ status' \in Statuses
<1>1. StopsPair(p, "stopBox") /\ "stopBox" \in Places /\ status' = "restarting"
  BY DEF Restarts, Places
<1> QED
  BY <1>1, StopsPairTypes DEF Statuses

\* ... the end of the owner's work ...
LEMMA OwnerDoneTypes ==
    ASSUME TypeOK, OwnerDone
    PROVE  work' \in AWork /\ start' \in Starts
<1>1. work' = At("idle") /\ "idle" \in Places
  BY DEF OwnerDone, Places
<1> QED
  BY <1>1, WorkTypes DEF OwnerDone, TypeOK, Starts

\* ... a pair that could not be started ...
LEMMA PairFailsTypes ==
    ASSUME TypeOK, PairFails
    PROVE  /\ proc' \in [Roles -> AProc] /\ work' \in AWork
           /\ conn' \in Nat /\ open' \subseteq Nat /\ status' \in Statuses
           /\ start' \in Starts /\ reported' \in BOOLEAN
<1>1. /\ proc \in [Roles -> AProc] /\ work \in AWork /\ conn \in Nat /\ open \subseteq Nat
      /\ status \in Statuses /\ start \in Starts /\ reported \in BOOLEAN
  BY TypeIs DEF Statuses, Starts
<1>2. CASE OwnerDone /\ UNCHANGED <<status, proc, conn, open, reported>>
  BY <1>1, <1>2, OwnerDoneTypes
<1>3. CASE start' = "recovering" /\ reported' = FALSE /\ Restarts(proc)
  BY <1>1, <1>3, RestartsTypes DEF Starts
<1>4. CASE StopsPair(proc, "cleanBox") /\ UNCHANGED <<status, start, reported>>
  <2>1. "cleanBox" \in Places
    BY DEF Places
  <2> QED
    BY <1>1, <1>4, <2>1, StopsPairTypes
<1> QED
  BY <1>2, <1>3, <1>4 DEF PairFails

\* ... the owner's settling ...
LEMMA OwnerSettlesTypes ==
    ASSUME TypeOK, NEW s \in Statuses, NEW q, NEW p \in [Roles -> AProc], OwnerSettles(s, q, p)
    PROVE  /\ proc' \in [Roles -> AProc] /\ work' \in AWork
           /\ conn' \in Nat /\ open' \subseteq Nat /\ status' \in Statuses
           /\ start' \in Starts /\ queued' \in ACause
<1>1. /\ conn \in Nat /\ open \subseteq Nat /\ start \in Starts
  BY DEF TypeOK, Starts
<1>2. queued' \in ACause
  BY DEF OwnerSettles, NoCause, ACause
<1>3. CASE Restarts(p) /\ UNCHANGED start
  BY <1>1, <1>2, <1>3, RestartsTypes
<1>4. CASE OwnerDone /\ status' = s /\ proc' = p /\ UNCHANGED <<conn, open>>
  BY <1>1, <1>2, <1>4, OwnerDoneTypes
<1> QED
  BY <1>3, <1>4 DEF OwnerSettles

\* ... and a restart for a cause, by whichever owner.
LEMMA RestartForTypes ==
    ASSUME TypeOK, NEW c \in ACause, NEW p \in [Roles -> AProc], RestartFor(c, p)
    PROVE  /\ proc' \in [Roles -> AProc] /\ work' \in AWork
           /\ conn' \in Nat /\ open' \subseteq Nat /\ status' \in Statuses
           /\ queued' \in ACause /\ reported' \in BOOLEAN
<1>1. /\ work \in AWork /\ conn \in Nat /\ open \subseteq Nat
      /\ status \in Statuses /\ queued \in ACause /\ reported \in BOOLEAN
  BY TypeIs DEF Statuses
<1>2. CASE reported' = TRUE /\ Restarts(p) /\ UNCHANGED queued
  BY <1>1, <1>2, RestartsTypes
<1>3. CASE proc' = p /\ UNCHANGED <<status, conn, open, work, reported>> /\ queued' \in {c, queued}
  BY <1>1, <1>3
<1> QED
  BY <1>2, <1>3 DEF RestartFor

\* The type invariant holds of the next state if each variable has its type there.
LEMMA TypeFollows ==
    ASSUME status' \in Statuses, proc' \in [Roles -> AProc], alive' \subseteq Roles \X Nat,
           conn' \in Nat, open' \subseteq Nat, late' \subseteq Nat, start' \in Starts,
           work' \in AWork, reported' \in BOOLEAN, queued' \in ACause, down' \in ADown,
           attempts' \in 0..MaxAttempts, pair' \in Nat, faults' \in 0..MaxFaults
    PROVE  TypeOK'
BY DEF TypeOK, AProc, AWork, ADown, ACause, Statuses, Starts

\* What the type invariant says of the variables.
LEMMA VariableTypes ==
    ASSUME TypeOK
    PROVE  /\ status \in Statuses /\ proc \in [Roles -> AProc] /\ alive \subseteq Roles \X Nat
           /\ conn \in Nat /\ open \subseteq Nat /\ late \subseteq Nat /\ start \in Starts
           /\ work \in AWork /\ reported \in BOOLEAN /\ queued \in ACause /\ down \in ADown
           /\ attempts \in 0..MaxAttempts /\ pair \in Nat /\ faults \in 0..MaxFaults
           /\ proc["box"] \in AProc /\ proc["server"] \in AProc
BY DEF TypeOK, AProc, AWork, ADown, ACause, Statuses, Starts, Roles

\* Faults are counted up to their bound.
LEMMA FaultTypes ==
    /\ TypeOK /\ Fault => faults' \in 0..MaxFaults
    /\ \A free \in BOOLEAN : TypeOK /\ Unless(free) => faults' \in 0..MaxFaults
BY SupervisorAssumption DEF TypeOK, Fault, Unless

\* Every stage of the shutdown is one, broken or not.
LEMMA DownTypes ==
    \A a \in {"none", "box1", "server1", "others", "box2", "server2", "done"} :
        At(a) \in ADown /\ \A b \in BOOLEAN : [at |-> a, broken |-> b] \in ADown
BY DEF At, ADown

\* A new pair keeps the types of what it changes.
LEMMA PairBeginsTypes ==
    ASSUME TypeOK, PairBegins
    PROVE  /\ pair' \in Nat /\ proc' \in [Roles -> AProc] /\ alive' \subseteq Roles \X Nat
           /\ work' \in AWork /\ conn' \in Nat /\ open' \subseteq Nat /\ reported' \in BOOLEAN
<1>1. pair + 1 \in Nat /\ Launched(pair + 1) \in AProc
  BY VariableTypes, ProcessTypes
<1>2. work' \in AWork
  BY WorkTypes DEF PairBegins, Places
<1>3. proc' \in [Roles -> AProc]
  BY <1>1, VariableTypes DEF PairBegins
<1>4. alive' \subseteq Roles \X Nat
  BY <1>1, VariableTypes DEF PairBegins, Roles
<1> QED
  BY <1>1, <1>2, <1>3, <1>4, VariableTypes DEF PairBegins

\* So does watching a pair ...
LEMMA WatchedTypes ==
    ASSUME NEW p \in [Roles -> AProc]
    PROVE  Watched(p) \in [Roles -> AProc]
<1> SUFFICES ASSUME NEW r \in Roles
             PROVE  Watched(p)[r] \in AProc
  BY DEF Watched
<1>1. Watched(p)[r] \in {NoProcess, [p[r] EXCEPT !.watching = TRUE]}
  BY DEF Watched
<1> QED
  BY <1>1, ProcessTypes

\* ... and giving up what the end of the application cancels.
LEMMA CancelsTypes ==
    ASSUME TypeOK, NEW p \in [Roles -> AProc], Cancels(p)
    PROVE  /\ proc' \in [Roles -> AProc] /\ work' \in AWork
           /\ late' \subseteq Nat /\ start' \in Starts
<1>1. CASE work.at \in {"server", "box"}
  <2>1. Stopping(p[work.at]) \in AProc
    BY <1>1, ProcessTypes DEF Roles
  <2>2. {"abandonServer", "abandonBox"} \subseteq Places
    BY DEF Places
  <2>3. work' = At("abandonServer") \/ work' = At("abandonBox")
    BY <1>1 DEF Cancels
  <2>4. proc' = [p EXCEPT ![work.at] = Stopping(p[work.at])] /\ UNCHANGED <<late, start>>
    BY <1>1 DEF Cancels
  <2> QED
    BY <2>1, <2>2, <2>3, <2>4, WorkTypes, VariableTypes
<1>2. CASE work.at = "connect"
  <2>1. proc' = p /\ late' = late \union {pair}
    BY <1>2 DEF Cancels
  <2>2. OwnerDone \/ (work' = At("cleanBox") /\ UNCHANGED start)
    BY <1>2 DEF Cancels
  <2> QED
    BY <2>1, <2>2, OwnerDoneTypes, WorkTypes, VariableTypes DEF Places
<1>3. CASE work.at = "sleep"
  BY <1>3, OwnerDoneTypes, VariableTypes DEF Cancels
<1>4. CASE work.at \notin {"server", "box", "connect", "sleep"}
  BY <1>4, VariableTypes DEF Cancels
<1> QED
  BY <1>1, <1>2, <1>3, <1>4

\* The types are kept by the first start.
LEMMA StartTypes == ASSUME TypeOK, Start PROVE TypeOK'
BY PairBeginsTypes, VariableTypes, TypeFollows DEF Start, Statuses, Starts

\* The types are kept by a start that fails at once.
LEMMA StartFailsTypes == ASSUME TypeOK, StartFails PROVE TypeOK'
<1>1. pair' \in Nat
  BY VariableTypes DEF StartFails
<1> QED
  BY <1>1, RestartsTypes, VariableTypes, FaultTypes, TypeFollows DEF StartFails, Starts

\* The types are kept by the pair begun after the delay.
LEMMA SleepOverTypes == ASSUME TypeOK, SleepOver PROVE TypeOK'
BY PairBeginsTypes, VariableTypes, TypeFollows DEF SleepOver

\* The types are kept by a restart that fails at once.
LEMMA RestartFailsTypes == ASSUME TypeOK, RestartFails PROVE TypeOK'
<1>1. pair' \in Nat
  BY VariableTypes DEF RestartFails
<1>2. (~Free) \in BOOLEAN
  OBVIOUS
<1> QED
  BY <1>1, <1>2, PairFailsTypes, VariableTypes, FaultTypes, TypeFollows DEF RestartFails

\* The types are kept by the next signal.
LEMMA StopEscalatesTypes == ASSUME TypeOK, NEW r \in Roles, StopEscalates(r) PROVE TypeOK'
<1>1. [proc[r] EXCEPT !.stop = Escalated(@)] \in AProc
  BY VariableTypes, ProcessTypes DEF StopEscalates
<1>2. proc' \in [Roles -> AProc]
  BY <1>1, VariableTypes DEF StopEscalates
<1> QED
  BY <1>2, VariableTypes, TypeFollows DEF StopEscalates, links, flow

\* The types are kept by a child that survives SIGKILL.
LEMMA StopFailsTypes == ASSUME TypeOK, NEW r \in Roles, StopFails(r) PROVE TypeOK'
<1>1. Survives(proc[r]) \in AProc
  BY VariableTypes, ProcessTypes
<1>2. proc' \in [Roles -> AProc]
  BY <1>1, VariableTypes DEF StopFails
<1>3. work' \in AWork
  <2>1. (work.broken \/ WaitsFor(work.at) = r) \in BOOLEAN
    OBVIOUS
  <2>2. work' = [work EXCEPT !.broken = work.broken \/ WaitsFor(work.at) = r]
    BY DEF StopFails
  <2> QED
    BY <2>1, <2>2, VariableTypes DEF AWork
<1>4. down' \in ADown
  <2>1. (down.broken \/ WaitsFor(down.at) = r) \in BOOLEAN
    OBVIOUS
  <2>2. down' = [down EXCEPT !.broken = down.broken \/ WaitsFor(down.at) = r]
    BY DEF StopFails
  <2> QED
    BY <2>1, <2>2, VariableTypes DEF ADown
<1> QED
  BY <1>2, <1>3, <1>4, VariableTypes, FaultTypes, TypeFollows DEF StopFails, links

\* The types are kept by the owner's going on to the server.
LEMMA OwnerStopsServerTypes == ASSUME TypeOK, OwnerStopsServer PROVE TypeOK'
<1>1. Stopping(proc["server"]) \in AProc
  BY VariableTypes, ProcessTypes
<1>2. proc' \in [Roles -> AProc]
  BY <1>1, VariableTypes DEF OwnerStopsServer
<1>3. (work.broken \/ proc["server"].stop = "failed") \in BOOLEAN
  OBVIOUS
<1>4. work' \in AWork
  BY <1>3, WorkTypes DEF OwnerStopsServer, Places
<1> QED
  BY <1>2, <1>4, VariableTypes, TypeFollows DEF OwnerStopsServer, links

\* The types are kept by the end of the owner's stop.
LEMMA OwnerStoppedTypes == ASSUME TypeOK, OwnerStopped PROVE TypeOK'
<1>1. CASE OwnerFails(~work.broken) /\ UNCHANGED <<proc, conn, open, queued, attempts>>
  BY <1>1, OwnerDoneTypes, VariableTypes, TypeFollows DEF OwnerStopped, OwnerFails, Statuses
<1>2. CASE /\ attempts < MaxAttempts
           /\ attempts' = attempts + 1
           /\ work' = At("sleep")
           /\ UNCHANGED <<status, proc, conn, open, start, queued>>
  <2>1. attempts' \in 0..MaxAttempts
    BY <1>2, VariableTypes, SupervisorAssumption
  <2> QED
    BY <1>2, <2>1, WorkTypes, VariableTypes, TypeFollows DEF OwnerStopped, Places
<1>3. CASE OwnerSettles("failed", queued, proc) /\ UNCHANGED attempts
  BY <1>3, OwnerSettlesTypes, VariableTypes, TypeFollows DEF OwnerStopped, Statuses
<1> QED
  BY <1>1, <1>2, <1>3 DEF OwnerStopped

\* The types are kept by the end of the owner's second stop.
LEMMA OwnerCleanedTypes == ASSUME TypeOK, OwnerCleaned PROVE TypeOK'
<1>1. CASE (OwnerFails(FALSE) \/ OwnerGivesUp) /\ UNCHANGED <<proc, conn, open>>
  BY <1>1, OwnerDoneTypes, VariableTypes, TypeFollows
  DEF OwnerCleaned, OwnerFails, OwnerGivesUp, Statuses
<1>2. CASE Restarts(proc) /\ UNCHANGED start
  BY <1>2, RestartsTypes, VariableTypes, TypeFollows DEF OwnerCleaned
<1> QED
  BY <1>1, <1>2 DEF OwnerCleaned

\* The types are kept by the server's READY.
LEMMA ServerReadyTypes == ASSUME TypeOK, ServerReady PROVE TypeOK'
<1>1. [proc["server"] EXCEPT !.ready = TRUE] \in AProc
  BY VariableTypes, ProcessTypes
<1>2. proc' \in [Roles -> AProc]
  BY <1>1, VariableTypes DEF ServerReady
<1>3. work' \in AWork /\ status' \in Statuses
  BY WorkTypes DEF ServerReady, Places, Statuses
<1> QED
  BY <1>2, <1>3, VariableTypes, TypeFollows DEF ServerReady, links

\* The types are kept by the connection.
LEMMA ConnectsTypes == ASSUME TypeOK, Connects PROVE TypeOK'
<1>1. Launched(pair) \in AProc
  BY VariableTypes, ProcessTypes
<1>2. proc' \in [Roles -> AProc]
  BY <1>1, VariableTypes DEF Connects
<1>3. work' \in AWork /\ status' \in Statuses
  BY WorkTypes DEF Connects, Places, Statuses
<1>4. alive' \subseteq Roles \X Nat /\ conn' \in Nat /\ open' \subseteq Nat
  BY VariableTypes DEF Connects, Roles
<1> QED
  BY <1>2, <1>3, <1>4, VariableTypes, TypeFollows DEF Connects

\* The types are kept by a connection that fails.
LEMMA ConnectFailsTypes == ASSUME TypeOK, ConnectFails PROVE TypeOK'
<1>1. (~Lives("server")) \in BOOLEAN
  OBVIOUS
<1> QED
  BY <1>1, PairFailsTypes, VariableTypes, FaultTypes, TypeFollows DEF ConnectFails

\* The types are kept by a connection that comes late.
LEMMA LateConnectsTypes == ASSUME TypeOK, NEW g \in late, LateConnects(g) PROVE TypeOK'
<1>1. late' \subseteq Nat /\ open' \subseteq Nat
  BY VariableTypes DEF LateConnects, Unwanted
<1> QED
  BY <1>1, VariableTypes, TypeFollows DEF LateConnects, children, flow

\* The types are kept by a launch that fails.
LEMMA LaunchFailsTypes == ASSUME TypeOK, NEW r \in Roles, LaunchFails(r) PROVE TypeOK'
<1>1. Stopping(proc[r]) \in AProc
  BY VariableTypes, ProcessTypes
<1>2. proc' \in [Roles -> AProc]
  BY <1>1, VariableTypes DEF LaunchFails
<1>3. work' \in AWork
  BY WorkTypes DEF LaunchFails, Places
<1>4. (~Lives(r)) \in BOOLEAN
  OBVIOUS
<1> QED
  BY <1>2, <1>3, <1>4, VariableTypes, FaultTypes, TypeFollows DEF LaunchFails, links

\* The types are kept by the end of an abandoned launch.
LEMMA AbandonedTypes == ASSUME TypeOK, Abandoned PROVE TypeOK'
BY PairFailsTypes, VariableTypes, TypeFollows DEF Abandoned

\* The types are kept by the Box's READY.
LEMMA BoxReadyTypes == ASSUME TypeOK, BoxReady PROVE TypeOK'
<1> DEFINE up == [proc EXCEPT !["box"].ready = TRUE]
<1>1. up \in [Roles -> AProc]
  BY VariableTypes, ProcessTypes
<1>2. Watched(up) \in [Roles -> AProc]
  BY <1>1, WatchedTypes
<1>3. CASE /\ OwnerDone /\ status' = "running" /\ proc' = Watched(up)
           /\ UNCHANGED <<conn, open, reported, queued>>
  BY <1>2, <1>3, OwnerDoneTypes, VariableTypes, TypeFollows DEF BoxReady, Statuses
<1>4. CASE start' = "stabilising" /\ reported' = TRUE /\ Restarts(Watched(up)) /\ UNCHANGED queued
  BY <1>2, <1>4, RestartsTypes, VariableTypes, TypeFollows DEF BoxReady, Starts
<1>5. CASE \E q : OwnerSettles("running", q, Watched(up)) /\ UNCHANGED reported
  BY <1>2, <1>5, OwnerSettlesTypes, VariableTypes, TypeFollows DEF BoxReady, Statuses
<1> QED
  BY <1>3, <1>4, <1>5 DEF BoxReady

\* The types are kept by the death of a child.
LEMMA DiesTypes == ASSUME TypeOK, NEW r \in Roles, Dies(r) PROVE TypeOK'
<1>1. (proc[r].stop # "no") \in BOOLEAN
  OBVIOUS
<1>2. alive' \subseteq Roles \X Nat
  BY VariableTypes DEF Dies
<1> QED
  BY <1>1, <1>2, VariableTypes, FaultTypes, TypeFollows DEF Dies, links, flow

\* The types are kept by an exit that is seen.
LEMMA SeesExitTypes == ASSUME TypeOK, NEW r \in Roles, SeesExit(r) PROVE TypeOK'
<1>1. Cause(r) \in ACause
  BY VariableTypes DEF Cause, ACause, AProc
<1>2. [proc EXCEPT ![r] = NoProcess] \in [Roles -> AProc]
  BY VariableTypes, ProcessTypes
<1>3. [proc EXCEPT ![r].seen = TRUE] \in [Roles -> AProc]
  BY VariableTypes, ProcessTypes
<1>4. CASE RestartFor(Cause(r), [proc EXCEPT ![r] = NoProcess])
  BY <1>1, <1>2, <1>4, RestartForTypes, VariableTypes, TypeFollows DEF SeesExit
<1>5. CASE /\ proc' \in {[proc EXCEPT ![r] = NoProcess], [proc EXCEPT ![r].seen = TRUE]}
           /\ UNCHANGED <<status, conn, open, work, reported, queued>>
  BY <1>2, <1>3, <1>5, VariableTypes, TypeFollows DEF SeesExit
<1> QED
  BY <1>4, <1>5 DEF SeesExit

\* The types are kept by the end of the connection.
LEMMA ConnectionClosesTypes == ASSUME TypeOK, ConnectionCloses PROVE TypeOK'
<1>1. faults' \in 0..MaxFaults
  <2>1. (~Lives("server")) \in BOOLEAN
    OBVIOUS
  <2> QED
    BY <2>1, FaultTypes DEF ConnectionCloses
<1>2. CASE PairFails /\ UNCHANGED queued
  BY <1>1, <1>2, PairFailsTypes, VariableTypes, TypeFollows DEF ConnectionCloses
<1>3. CASE RestartFor(Closed, proc) /\ UNCHANGED start
  <2>1. Closed \in ACause
    BY DEF Closed, ACause
  <2> QED
    BY <1>1, <1>3, <2>1, RestartForTypes, VariableTypes, TypeFollows DEF ConnectionCloses
<1>4. CASE open' = open \ {conn} /\ UNCHANGED <<status, proc, conn, flow>>
  <2>1. open' \subseteq Nat
    BY <1>4, VariableTypes
  <2> QED
    BY <1>1, <1>4, <2>1, VariableTypes, TypeFollows DEF ConnectionCloses, flow
<1> QED
  BY <1>2, <1>3, <1>4 DEF ConnectionCloses

\* The types are kept by the request to end the application.
LEMMA ShutdownTypes == ASSUME TypeOK, Shutdown PROVE TypeOK'
<1>1. [proc EXCEPT !["box"] = Stopping(proc["box"])] \in [Roles -> AProc]
  BY VariableTypes, ProcessTypes
<1>2. /\ proc' \in [Roles -> AProc] /\ work' \in AWork
      /\ late' \subseteq Nat /\ start' \in Starts
  BY <1>1, CancelsTypes DEF Shutdown
<1>3. down' \in ADown
  <2>1. (proc["box"].stop = "failed") \in BOOLEAN
    OBVIOUS
  <2> QED
    BY <2>1, DownTypes DEF Shutdown
<1>4. queued' \in ACause /\ status' \in Statuses
  BY DEF Shutdown, NoCause, ACause, Statuses
<1>5. conn' \in Nat /\ open' \subseteq Nat
  BY VariableTypes DEF Shutdown
<1> QED
  BY <1>2, <1>3, <1>4, <1>5, VariableTypes, TypeFollows DEF Shutdown

\* The types are kept by the shutdown's going on to the server.
LEMMA DownStopsServerTypes == ASSUME TypeOK, DownStopsServer PROVE TypeOK'
<1>1. Stopping(proc["server"]) \in AProc
  BY VariableTypes, ProcessTypes
<1>2. proc' \in [Roles -> AProc]
  BY <1>1, VariableTypes DEF DownStopsServer
<1>3. (down.broken \/ proc["server"].stop = "failed") \in BOOLEAN
  OBVIOUS
<1>4. down' \in ADown
  BY <1>3, DownTypes DEF DownStopsServer
<1> QED
  BY <1>2, <1>4, VariableTypes, TypeFollows DEF DownStopsServer, links, flow

\* The types are kept by its wait for whoever was at work.
LEMMA DownWaitsTypes == ASSUME TypeOK, DownWaits PROVE TypeOK'
<1>1. down' \in ADown /\ status' \in Statuses
  BY DownTypes, VariableTypes DEF DownWaits, Statuses
<1> QED
  BY <1>1, VariableTypes, TypeFollows DEF DownWaits, children, links, flow

\* The types are kept by its second stop.
LEMMA DownAgainTypes == ASSUME TypeOK, DownAgain PROVE TypeOK'
<1>1. Stopping(proc["box"]) \in AProc
  BY VariableTypes, ProcessTypes
<1>2. proc' \in [Roles -> AProc]
  BY <1>1, VariableTypes DEF DownAgain
<1>3. (proc["box"].stop = "failed") \in BOOLEAN
  OBVIOUS
<1>4. down' \in ADown
  BY <1>3, DownTypes DEF DownAgain
<1>5. conn' \in Nat /\ open' \subseteq Nat
  BY VariableTypes DEF DownAgain
<1> QED
  BY <1>2, <1>4, <1>5, VariableTypes, TypeFollows DEF DownAgain, flow

\* The types are kept by its end.
LEMMA DownEndsTypes == ASSUME TypeOK, DownEnds PROVE TypeOK'
<1>1. down' \in ADown /\ status' \in Statuses
  BY DownTypes DEF DownEnds, Statuses
<1> QED
  BY <1>1, VariableTypes, TypeFollows DEF DownEnds, children, links, flow

-----------------------------------------------------------------------------
(* What is tracked.                                                        *)

\* What is tracked, of p: the part of Tracked that a wait does not change.
Tracks(p) ==
    /\ \A c \in alive : c[2] # 0 /\ p[c[1]].gen = c[2]
    /\ \A r \in Roles : /\ p[r].seen => <<r, p[r].gen>> \notin alive
                        /\ p[r].gen = 0 => p[r].stop = "no"

\* A child that is dead need not be tracked any more.
LEMMA GoneTracks ==
    ASSUME TypeOK, Tracked, NEW r \in Roles, ~Lives(r)
    PROVE  Tracks([proc EXCEPT ![r] = NoProcess])
<1>1. \A c \in alive : c[1] # r /\ c[1] \in Roles
  BY VariableTypes DEF Tracked, Lives
<1> QED
  BY <1>1, VariableTypes DEF Tracked, Tracks, Lives, NoProcess

\* Stopping a process forgets it only if it was seen dead.
LEMMA StoppingTracks ==
    ASSUME TypeOK, NEW p \in [Roles -> AProc], Tracks(p), NEW r \in Roles
    PROVE  Tracks([p EXCEPT ![r] = Stopping(p[r])])
<1> DEFINE q == [p EXCEPT ![r] = Stopping(p[r])]
<1>1. p[r] \in AProc /\ (p[r].gen = 0 => p[r].stop = "no")
  BY DEF Tracks
<1>2. q[r] = Stopping(p[r]) /\ \A s \in Roles : s # r => q[s] = p[s]
  OBVIOUS
<1>3. p[r].seen => <<r, p[r].gen>> \notin alive
  BY DEF Tracks
<1>4. ASSUME NEW c \in alive
      PROVE  c[2] # 0 /\ q[c[1]].gen = c[2]
  <2>1. c[1] \in Roles /\ c = <<c[1], c[2]>> /\ c[2] # 0 /\ p[c[1]].gen = c[2]
    BY VariableTypes DEF Tracks
  <2>2. CASE c[1] = r
    BY <1>1, <1>2, <1>3, <2>1, <2>2, StoppingIs
  <2> QED
    BY <1>2, <2>1, <2>2
<1>5. ASSUME NEW s \in Roles
      PROVE  /\ q[s].seen => <<s, q[s].gen>> \notin alive
             /\ q[s].gen = 0 => q[s].stop = "no"
  <2>1. CASE s = r
    BY <1>1, <1>2, <1>3, <2>1, StoppingIs
  <2>2. CASE s # r
    BY <1>2, <2>2 DEF Tracks
  <2> QED
    BY <2>1, <2>2
<1> HIDE DEF q
<1>6. Tracks(q)
  BY <1>4, <1>5 DEF Tracks
<1> QED
  BY <1>6 DEF q

\* Tracked in the next state, if no child was started or died.
LEMMA TracksFollows ==
    ASSUME alive' = alive, Tracks(proc')
    PROVE  Tracked'
BY DEF Tracks, Tracked, Lives

\* Tracked is Tracks of the processes there are.
LEMMA TrackedTracks == Tracked <=> Tracks(proc)
BY DEF Tracks, Tracked, Lives

\* A restart forgets no process.
LEMMA RestartsTracks ==
    ASSUME TypeOK, NEW p \in [Roles -> AProc], Tracks(p), alive' = alive, Restarts(p)
    PROVE  Tracked'
<1>1. proc' = [p EXCEPT !["box"] = Stopping(p["box"])]
  BY DEF Restarts, StopsPair
<1> QED
  BY <1>1, StoppingTracks, TracksFollows DEF Roles

\* Watching forgets only the children that were seen dead.
LEMMA WatchedTracks ==
    ASSUME TypeOK, NEW p \in [Roles -> AProc], Tracks(p)
    PROVE  Tracks(Watched(p))
<1>1. \A r \in Roles :
          Watched(p)[r] = IF p[r].seen THEN NoProcess ELSE [p[r] EXCEPT !.watching = TRUE]
  BY DEF Watched, Crashed
<1>2. \A c \in alive : /\ c[1] \in Roles /\ c = <<c[1], c[2]>> /\ c[2] # 0
                      /\ p[c[1]].gen = c[2] /\ ~p[c[1]].seen
  BY VariableTypes DEF Tracks
<1>0. ASSUME NEW r \in Roles
      PROVE  /\ ~Watched(p)[r].seen
             /\ p[r].seen => Watched(p)[r].gen = 0 /\ Watched(p)[r].stop = "no"
             /\ ~p[r].seen => Watched(p)[r].gen = p[r].gen /\ Watched(p)[r].stop = p[r].stop
  <2>1. p[r] \in AProc
    OBVIOUS
  <2>2. CASE p[r].seen
    <3>1. Watched(p)[r] = NoProcess
      BY <1>1, <2>2
    <3> QED
      BY <2>2, <3>1 DEF NoProcess
  <2>3. CASE ~p[r].seen
    <3>1. Watched(p)[r] = [p[r] EXCEPT !.watching = TRUE]
      BY <1>1, <2>3
    <3>2. /\ [p[r] EXCEPT !.watching = TRUE].gen = p[r].gen
          /\ [p[r] EXCEPT !.watching = TRUE].seen = p[r].seen
          /\ [p[r] EXCEPT !.watching = TRUE].stop = p[r].stop
      BY <2>1 DEF AProc
    <3> QED
      BY <2>3, <3>1, <3>2
  <2> QED
    BY <2>2, <2>3
<1>3. ASSUME NEW c \in alive
      PROVE  c[2] # 0 /\ Watched(p)[c[1]].gen = c[2]
  BY <1>0, <1>2
<1>4. ASSUME NEW r \in Roles
      PROVE  /\ Watched(p)[r].seen => <<r, Watched(p)[r].gen>> \notin alive
             /\ Watched(p)[r].gen = 0 => Watched(p)[r].stop = "no"
  BY <1>0 DEF Tracks
<1> QED
  BY <1>3, <1>4 DEF Tracks

\* Nor does the end of a launch ...
LEMMA BoxReadyTracked == ASSUME TypeOK, Tracked, BoxReady PROVE Tracked'
<1> DEFINE up == [proc EXCEPT !["box"].ready = TRUE]
<1>1. up \in [Roles -> AProc]
  BY VariableTypes, ProcessTypes
<1>2. \A r \in Roles : /\ up[r].gen = proc[r].gen /\ up[r].seen = proc[r].seen
                      /\ up[r].stop = proc[r].stop
  BY VariableTypes DEF AProc
<1>3. Tracks(up)
  <2>1. \A c \in alive : c[1] \in Roles
    BY VariableTypes
  <2> HIDE DEF up
  <2> QED
    BY <1>2, <2>1, TrackedTracks DEF Tracks
<1>4. Watched(up) \in [Roles -> AProc] /\ Tracks(Watched(up)) /\ alive' = alive
  BY <1>1, <1>3, WatchedTypes, WatchedTracks DEF BoxReady
<1>5. CASE proc' = Watched(up)
  BY <1>4, <1>5, TracksFollows
<1>6. CASE Restarts(Watched(up))
  BY <1>4, <1>6, RestartsTracks
<1> QED
  BY <1>5, <1>6 DEF BoxReady, OwnerSettles

\* ... the shutdown, whatever launch it gives up ...
LEMMA ShutdownTracked == ASSUME TypeOK, Tracked, Shutdown PROVE Tracked'
<1> DEFINE p == [proc EXCEPT !["box"] = Stopping(proc["box"])]
<1>1. p \in [Roles -> AProc] /\ Tracks(p) /\ alive' = alive
  BY VariableTypes, ProcessTypes, StoppingTracks, TrackedTracks DEF Shutdown, Roles
<1>2. Cancels(p)
  BY DEF Shutdown
<1> HIDE DEF p
<1>3. CASE proc' = p
  BY <1>1, <1>3, TracksFollows
<1>4. CASE work.at \in Roles /\ proc' = [p EXCEPT ![work.at] = Stopping(p[work.at])]
  BY <1>1, <1>4, StoppingTracks, TracksFollows
<1> QED
  BY <1>2, <1>3, <1>4 DEF Cancels, Roles

\* ... or the exit that is seen.
LEMMA SeesExitTracked == ASSUME TypeOK, Tracked, NEW r \in Roles, SeesExit(r) PROVE Tracked'
<1> DEFINE gone == [proc EXCEPT ![r] = NoProcess]
<1>1. gone \in [Roles -> AProc] /\ Tracks(gone) /\ alive' = alive
  BY VariableTypes, ProcessTypes, GoneTracks DEF SeesExit
<1>2. CASE proc' = gone
  BY <1>1, <1>2, TracksFollows
<1>3. CASE Restarts(gone)
  BY <1>1, <1>3, RestartsTracks
<1>4. CASE proc' = [proc EXCEPT ![r].seen = TRUE]
  <2>1. ~Lives(r)
    BY DEF SeesExit
  <2>2. /\ proc'[r].gen = proc[r].gen /\ proc'[r].stop = proc[r].stop
        /\ \A s \in Roles : s # r => proc'[s] = proc[s]
    BY <1>4, VariableTypes
  <2>3. \A c \in alive : c[1] \in Roles
    BY VariableTypes
  <2>4. Tracks(proc')
    BY <2>1, <2>2, <2>3, TrackedTracks DEF Tracks, Lives
  <2> QED
    BY <1>1, <2>4, TracksFollows
<1> QED
  BY <1>2, <1>3, <1>4 DEF SeesExit, RestartFor

-----------------------------------------------------------------------------
(* The steps that need an argument of their own.                           *)

\* An exit that is seen: of a child being stopped, or left to the owner there is; for
\* a new owner; or before the child is watched.
LEMMA SeesExitKeeps ==
    ASSUME SupervisorInv, NEW r \in Roles, SeesExit(r)
    PROVE  SupervisorInv'
<1>0. TypeOK' /\ Tracked'
  BY SeesExitTypes, SeesExitTracked DEF SupervisorInv
<1> DEFINE gone == [proc EXCEPT ![r] = NoProcess]
           seen == [proc EXCEPT ![r].seen = TRUE]
<1>1. /\ TypeOK /\ LaunchInv /\ LinkInv /\ StopInv /\ StatusInv
      /\ proc[r].gen # 0 /\ UNCHANGED <<alive, late, start, down, attempts, pair, faults>>
  BY DEF SupervisorInv, SeesExit
<1>2. gone[r] = NoProcess /\ \A s \in Roles : s # r => gone[s] = proc[s]
  BY <1>1, VariableTypes
<1>3. /\ seen[r].gen = proc[r].gen /\ seen[r].stop = proc[r].stop
      /\ seen[r].ready = proc[r].ready /\ seen[r].watching = proc[r].watching
      /\ \A s \in Roles : s # r => seen[s] = proc[s]
  BY <1>1, VariableTypes DEF AProc
<1>4. status \notin {"idle", "stopped"}
  BY <1>1 DEF StatusInv, Free
<1>5. CASE /\ proc' = gone /\ UNCHANGED <<status, conn, open, work, reported>>
           /\ proc[r].stop # "no" \/ proc[r].watching
           /\ proc[r].stop = "no" => Owned \/ Requested
  <2> HIDE DEF gone, seen
  <2>1. status # "running"
    BY <1>1, <1>5 DEF StatusInv, Owned
  <2>2. LaunchInv'
    BY <1>1, <1>2, <1>5 DEF LaunchInv, Fresh, Requested, NoProcess, Roles
  <2>3. LinkInv'
    BY <1>1, <1>5 DEF LinkInv, Requested
  <2>4. StopInv'
    BY <1>1, <1>2, <1>5 DEF StopInv, Stopped, NoProcess, Roles
  <2>5. StatusInv'
    BY <1>1, <1>2, <1>4, <1>5, <2>1 DEF StatusInv, Stopped, Requested, AtWork, NoProcess, Roles
  <2> QED
    BY <1>0, <2>2, <2>3, <2>4, <2>5 DEF SupervisorInv
<1>6. CASE reported' = TRUE /\ Restarts(gone) /\ ~Requested
  <2>1. LaunchInv'
    BY <1>1, <1>6 DEF LaunchInv, Fresh, Requested, Restarts, StopsPair
  <2>2. LinkInv'
    BY <1>1, <1>6 DEF LinkInv, Requested, Restarts, StopsPair
  <2>3. StopInv'
    BY <1>1, <1>6 DEF StopInv, Requested, Restarts, StopsPair
  <2>4. StatusInv'
    BY <1>1, <1>6 DEF StatusInv, Requested, AtWork, Restarts, StopsPair
  <2> QED
    BY <1>0, <2>1, <2>2, <2>3, <2>4 DEF SupervisorInv
<1>7. CASE /\ proc' = seen /\ UNCHANGED <<status, conn, open, work, reported>>
           /\ proc[r].stop = "no" /\ (~proc[r].watching \/ status \in {"stopping", "stopped"})
  <2> HIDE DEF gone, seen
  <2>1. status # "running"
    BY <1>1, <1>7 DEF StatusInv
  <2>2. LaunchInv'
    BY <1>1, <1>3, <1>7 DEF LaunchInv, Fresh, Requested, Roles
  <2>3. LinkInv'
    BY <1>1, <1>7 DEF LinkInv, Requested
  <2>4. StopInv'
    BY <1>1, <1>3, <1>7 DEF StopInv, Stopped, Roles
  <2>5. StatusInv'
    BY <1>1, <1>3, <1>4, <1>7, <2>1 DEF StatusInv, Stopped, Requested, AtWork, Roles
  <2> QED
    BY <1>0, <2>2, <2>3, <2>4, <2>5 DEF SupervisorInv
<1> QED
  BY <1>5, <1>6, <1>7 DEF SeesExit, RestartFor

\* The Box stays stopped while the shutdown goes on to the server.
LEMMA DownStopsServerStop == ASSUME SupervisorInv, DownStopsServer PROVE StopInv'
<1>1. /\ proc["server"] \in AProc /\ (proc["server"].gen = 0 => proc["server"].stop = "no")
      /\ proc["box"] \in AProc /\ down \in ADown /\ work \in AWork
  BY VariableTypes DEF SupervisorInv, Tracked, Roles
<1>2. /\ proc'["server"] = Stopping(proc["server"]) /\ proc'["box"] = proc["box"]
      /\ UNCHANGED work
  BY VariableTypes DEF SupervisorInv, DownStopsServer, Roles, flow
<1>3. /\ down.at \in {"box1", "box2"} /\ Stopped("box")
      /\ down'.at = IF down.at = "box1" THEN "server1" ELSE "server2"
      /\ down'.broken = (down.broken \/ proc["server"].stop = "failed")
  BY <1>1 DEF DownStopsServer
<1>4. proc["server"].gen = 0 \/ proc["server"].stop = "failed" =>
          Stopping(proc["server"]) = proc["server"]
  BY <1>1, StoppingIs
<1>5. Stopping(proc["server"]).stop = "failed" <=> proc["server"].stop = "failed"
  BY <1>1, StoppingIs
<1>6. StopInv
  BY DEF SupervisorInv
<1> QED
  BY <1>2, <1>3, <1>4, <1>5, <1>6 DEF StopInv, Stopped

\* The server stays stopped while the shutdown stops the Box once more.
LEMMA DownAgainStop == ASSUME SupervisorInv, DownAgain PROVE StopInv'
<1>1. /\ proc["box"] \in AProc /\ (proc["box"].gen = 0 => proc["box"].stop = "no")
      /\ proc["server"] \in AProc /\ down \in ADown /\ work \in AWork
  BY VariableTypes DEF SupervisorInv, Tracked, Roles
<1>2. /\ proc'["box"] = Stopping(proc["box"]) /\ proc'["server"] = proc["server"]
      /\ UNCHANGED work
  BY VariableTypes DEF SupervisorInv, DownAgain, Roles, flow
<1>3. /\ down.at = "others" /\ down'.at = "box2"
      /\ down'.broken = (proc["box"].stop = "failed")
  BY <1>1 DEF DownAgain
<1>4. proc["box"].gen = 0 \/ proc["box"].stop = "failed" => Stopping(proc["box"]) = proc["box"]
  BY <1>1, StoppingIs
<1>5. Stopping(proc["box"]).stop = "failed" <=> proc["box"].stop = "failed"
  BY <1>1, StoppingIs
<1>6. StopInv
  BY DEF SupervisorInv
<1> QED
  BY <1>2, <1>3, <1>4, <1>5, <1>6 DEF StopInv, Stopped

\* The shutdown leaves no launch behind: each is given up or abandoned.
LEMMA ShutdownLaunch == ASSUME SupervisorInv, Shutdown PROVE LaunchInv'
<1> DEFINE p == [proc EXCEPT !["box"] = Stopping(proc["box"])]
<1>1. Cancels(p) /\ LaunchInv /\ TypeOK
  BY DEF Shutdown, SupervisorInv
<1>2. work.at \in {"abandonServer", "server"} => proc["box"].gen = 0
  BY <1>1 DEF LaunchInv
<1>3. proc["box"].gen = 0 => Stopping(proc["box"]) = proc["box"]
  BY DEF Stopping
<1>4. p["box"] = Stopping(proc["box"]) /\ p["server"] = proc["server"] /\ p \in [Roles -> AProc]
  BY <1>1, VariableTypes, ProcessTypes DEF Roles
<1> HIDE DEF p
<1>5. work'.at \notin {"server", "connect", "box", "sleep"}
  BY <1>1 DEF Cancels, At, OwnerDone
<1>6. work'.at = "abandonServer" => proc'["box"].gen = 0
  BY <1>1, <1>2, <1>3, <1>4 DEF Cancels, At, OwnerDone, Roles
<1> QED
  BY <1>5, <1>6 DEF LaunchInv

\* A pair is shown as running only if none of its children crashed on the way.
LEMMA BoxReadyStatus == ASSUME SupervisorInv, BoxReady PROVE StatusInv'
<1> DEFINE up == [proc EXCEPT !["box"].ready = TRUE]
<1>1. /\ work.at = "box" /\ TypeOK /\ LaunchInv /\ LinkInv
      /\ UNCHANGED <<alive, late, down, attempts, pair, faults>>
  BY DEF BoxReady, SupervisorInv
<1>2. /\ pair # 0 /\ Fresh("server") /\ Fresh("box") /\ proc["server"].ready
      /\ conn = pair /\ conn \in open /\ ~Requested
  BY <1>1 DEF LaunchInv
<1>3. /\ up["server"] = proc["server"] /\ up["box"].ready
      /\ up["box"].gen = proc["box"].gen /\ up["box"].stop = proc["box"].stop
      /\ up["box"].seen = proc["box"].seen
      /\ \A r \in Roles : up[r] \in AProc
  BY <1>1, VariableTypes, ProcessTypes DEF Roles, AProc
<1> HIDE DEF up
<1>4. ASSUME Crashed(up) = {}, NEW r \in Roles
      PROVE  /\ Watched(up)[r].gen = pair /\ Watched(up)[r].ready /\ Watched(up)[r].watching
             /\ ~Watched(up)[r].seen /\ Watched(up)[r].stop = "no"
  <2>1. Watched(up)[r] = [up[r] EXCEPT !.watching = TRUE] /\ ~up[r].seen
    BY <1>4 DEF Watched, Crashed
  <2>2. up[r] \in AProc /\ up[r].gen = pair /\ up[r].ready /\ up[r].stop = "no"
    BY <1>2, <1>3 DEF Fresh, Roles
  <2> QED
    BY <2>1, <2>2 DEF AProc
<1>5. CASE /\ Crashed(up) = {} /\ OwnerDone /\ status' = "running" /\ proc' = Watched(up)
           /\ UNCHANGED <<conn, open, reported>>
  BY <1>1, <1>2, <1>4, <1>5 DEF StatusInv, OwnerDone, At, Requested, AtWork
<1>6. CASE Restarts(Watched(up))
  BY <1>1, <1>2, <1>6 DEF StatusInv, Restarts, StopsPair, AtWork, Requested
<1>7. Crashed(up) # {} => LET last == IF "box" \in Crashed(up) THEN "box" ELSE "server"
                          IN  Takes(Cause(last), Watched(up))
  <2>1. SUFFICES ASSUME Crashed(up) # {}, NEW r \in Crashed(up),
                        r = IF "box" \in Crashed(up) THEN "box" ELSE "server"
                 PROVE  Takes(Cause(r), Watched(up))
    BY DEF Crashed, Roles
  <2>2. Watched(up)[r] = NoProcess /\ r \in Roles
    BY DEF Watched, Crashed
  <2>3. Cause(r).role = r /\ Cause(r).gen = pair
    BY <1>2, <2>2 DEF Cause, Fresh, Roles
  <2> QED
    BY <2>2, <2>3 DEF Takes, NoProcess
<1> QED
  BY <1>5, <1>6, <1>7 DEF BoxReady, OwnerSettles, up

-----------------------------------------------------------------------------
(* Every step keeps the invariant.                                         *)

\* The invariant is kept by the first start.
LEMMA StartKeeps ==
    ASSUME SupervisorInv, Start
    PROVE  SupervisorInv'
<1>1. TypeOK'
  BY StartTypes DEF SupervisorInv
<1>2. Tracked'
  BY DEF SupervisorInv, TypeOK, Tracked, StatusInv, Start, Roles, PairBegins, Lives, Free,
         Launched, NoProcess
<1>3. LaunchInv'
  BY DEF SupervisorInv, TypeOK, LaunchInv, StatusInv, Start, Roles, PairBegins, Fresh,
         Requested, Free, Launched, At, NoProcess
<1>4. LinkInv'
  BY DEF SupervisorInv, LinkInv, StatusInv, Start, PairBegins
<1>5. StopInv'
  BY DEF SupervisorInv, StopInv, StatusInv, Start, PairBegins, Requested, At
<1>6. StatusInv'
  BY DEF SupervisorInv, StatusInv, Start, AtWork
<1> QED
  BY <1>1, <1>2, <1>3, <1>4, <1>5, <1>6 DEF SupervisorInv

\* The invariant is kept by a start that fails at once.
LEMMA StartFailsKeeps ==
    ASSUME SupervisorInv, StartFails
    PROVE  SupervisorInv'
<1>1. TypeOK'
  BY StartFailsTypes DEF SupervisorInv
<1>2. Tracked'
  BY DEF SupervisorInv, TypeOK, Tracked, StartFails, Roles, Restarts, Lives, StopsPair,
         Stopping, NoProcess
<1>3. LaunchInv'
  BY DEF SupervisorInv, LaunchInv, StartFails, Restarts, StopsPair
<1>4. LinkInv'
  BY DEF SupervisorInv, LinkInv, StartFails, Restarts, Requested, StopsPair
<1>5. StopInv'
  BY DEF SupervisorInv, StopInv, StartFails, Restarts, Stopped, StopsPair, Stopping
<1>6. StatusInv'
  BY DEF SupervisorInv, StatusInv, StartFails, Restarts
<1> QED
  BY <1>1, <1>2, <1>3, <1>4, <1>5, <1>6 DEF SupervisorInv

\* The invariant is kept by the pair begun after the delay.
LEMMA SleepOverKeeps ==
    ASSUME SupervisorInv, SleepOver
    PROVE  SupervisorInv'
<1>1. TypeOK'
  BY SleepOverTypes DEF SupervisorInv
<1>2. Tracked'
  BY DEF SupervisorInv, TypeOK, Tracked, SleepOver, Roles, Free, PairBegins, Lives, Launched,
         NoProcess
<1>3. LaunchInv'
  BY DEF SupervisorInv, TypeOK, LaunchInv, SleepOver, Roles, Free, PairBegins, Fresh,
         Requested, Launched, At, NoProcess
<1>4. LinkInv'
  BY DEF SupervisorInv, LinkInv, SleepOver, PairBegins, Requested
<1>5. StopInv'
  BY DEF SupervisorInv, LaunchInv, StopInv, SleepOver, PairBegins, Requested, At
<1>6. StatusInv'
  BY DEF SupervisorInv, LaunchInv, StatusInv, SleepOver, PairBegins, AtWork, At
<1> QED
  BY <1>1, <1>2, <1>3, <1>4, <1>5, <1>6 DEF SupervisorInv

\* The invariant is kept by a restart that fails at once.
LEMMA RestartFailsKeeps ==
    ASSUME SupervisorInv, RestartFails
    PROVE  SupervisorInv'
<1>1. TypeOK'
  BY RestartFailsTypes DEF SupervisorInv
<1>2. Tracked'
  BY DEF SupervisorInv, TypeOK, Tracked, RestartFails, PairFails, Lives, Restarts, StopsPair,
         Stopping, NoProcess
<1>3. LaunchInv'
  BY DEF SupervisorInv, LaunchInv, RestartFails, PairFails, Restarts, StopsPair
<1>4. LinkInv'
  BY DEF SupervisorInv, LinkInv, RestartFails, PairFails, Requested, Restarts, StopsPair
<1>5. StopInv'
  BY DEF SupervisorInv, TypeOK, StopInv, RestartFails, PairFails, Stopped, Restarts,
         StopsPair, Stopping
<1>6. StatusInv'
  BY DEF SupervisorInv, TypeOK, StatusInv, RestartFails, Free, PairFails, Requested, AtWork,
         Restarts, StopsPair, Stopping
<1> QED
  BY <1>1, <1>2, <1>3, <1>4, <1>5, <1>6 DEF SupervisorInv

\* The invariant is kept by the next signal.
LEMMA StopEscalatesKeeps ==
    ASSUME SupervisorInv, NEW r \in Roles, StopEscalates(r)
    PROVE  SupervisorInv'
<1>1. TypeOK'
  BY StopEscalatesTypes DEF SupervisorInv
<1>2. Tracked'
  BY DEF SupervisorInv, Tracked, StopEscalates, Lives
<1>3. LaunchInv'
  BY DEF SupervisorInv, LaunchInv, StopEscalates, Roles, flow, Fresh, Requested
<1>4. LinkInv'
  BY DEF SupervisorInv, LinkInv, StopEscalates, links, flow, Requested
<1>5. StopInv'
  BY DEF SupervisorInv, StopInv, StopEscalates, Escalated, flow, Stopped
<1>6. StatusInv'
  BY DEF SupervisorInv, StatusInv, StopEscalates, links, flow, Free, Requested, Stopped,
         AtWork
<1> QED
  BY <1>1, <1>2, <1>3, <1>4, <1>5, <1>6 DEF SupervisorInv

\* The invariant is kept by a child that survives SIGKILL.
LEMMA StopFailsKeeps ==
    ASSUME SupervisorInv, NEW r \in Roles, StopFails(r)
    PROVE  SupervisorInv'
<1>1. TypeOK'
  BY StopFailsTypes DEF SupervisorInv
<1>2. Tracked'
  BY DEF SupervisorInv, Tracked, StopFails, Survives, Lives
<1>3. LaunchInv'
  BY DEF SupervisorInv, LaunchInv, StopFails, Roles, Survives, Fresh, Requested
<1>4. LinkInv'
  BY DEF SupervisorInv, LinkInv, StopFails, links, Requested
<1>5. StopInv'
  BY DEF SupervisorInv, Tracked, StopInv, StopFails, Roles, Stopped
<1>6. StatusInv'
  BY DEF SupervisorInv, StatusInv, StopFails, Survives, links, Free, Requested, Stopped,
         AtWork
<1> QED
  BY <1>1, <1>2, <1>3, <1>4, <1>5, <1>6 DEF SupervisorInv

\* The invariant is kept by the owner's going on to the server.
LEMMA OwnerStopsServerKeeps ==
    ASSUME SupervisorInv, OwnerStopsServer
    PROVE  SupervisorInv'
<1>1. TypeOK'
  BY OwnerStopsServerTypes DEF SupervisorInv
<1>2. Tracked'
  BY DEF SupervisorInv, TypeOK, Tracked, OwnerStopsServer, Stopping, Lives, NoProcess
<1>3. LaunchInv'
  BY DEF SupervisorInv, LaunchInv, OwnerStopsServer
<1>4. LinkInv'
  BY DEF SupervisorInv, LinkInv, OwnerStopsServer, links, Requested
<1>5. StopInv'
  BY DEF SupervisorInv, StopInv, OwnerStopsServer, Stopped, Stopping
<1>6. StatusInv'
  BY DEF SupervisorInv, StatusInv, OwnerStopsServer, Roles, Stopping, Free, Requested, AtWork
<1> QED
  BY <1>1, <1>2, <1>3, <1>4, <1>5, <1>6 DEF SupervisorInv

\* The invariant is kept by the end of the owner's stop.
LEMMA OwnerStoppedKeeps ==
    ASSUME SupervisorInv, OwnerStopped
    PROVE  SupervisorInv'
<1>1. TypeOK'
  BY OwnerStoppedTypes DEF SupervisorInv
<1>2. Tracked'
  BY DEF SupervisorInv, TypeOK, Tracked, OwnerStopped, OwnerSettles, Lives, Restarts,
         StopsPair, Stopping, NoProcess
<1>3. LaunchInv'
  BY DEF SupervisorInv, LaunchInv, OwnerStopped, Requested, OwnerFails, At, OwnerSettles,
         OwnerDone, Restarts, StopsPair
<1>4. LinkInv'
  BY DEF SupervisorInv, LinkInv, OwnerStopped, Requested, OwnerSettles, Restarts, StopsPair
<1>5. StopInv'
  BY DEF SupervisorInv, StopInv, OwnerStopped, Stopped, Requested, OwnerSettles, Restarts,
         StopsPair
<1>6. StatusInv'
  BY DEF SupervisorInv, LinkInv, StopInv, StatusInv, OwnerStopped, Roles, Stopped, Requested,
         OwnerFails, At, OwnerSettles, Free, AtWork, OwnerDone, Restarts, StopsPair
<1> QED
  BY <1>1, <1>2, <1>3, <1>4, <1>5, <1>6 DEF SupervisorInv

\* The invariant is kept by the end of the owner's second stop.
LEMMA OwnerCleanedKeeps ==
    ASSUME SupervisorInv, OwnerCleaned
    PROVE  SupervisorInv'
<1>1. TypeOK'
  BY OwnerCleanedTypes DEF SupervisorInv
<1>2. /\ work.at = "cleanServer" /\ Stopped("server") /\ UNCHANGED down
      /\ UNCHANGED <<proc, conn, open>> \/ (Restarts(proc) /\ ~Requested)
  BY DEF OwnerCleaned
<1>3. Tracked'
  <2>1. UNCHANGED <<proc, alive>> \/ (proc' = [proc EXCEPT !.box = Stopping(@)] /\ UNCHANGED alive)
    BY <1>2 DEF OwnerCleaned, Restarts, StopsPair
  <2> QED
    BY <2>1 DEF SupervisorInv, TypeOK, Tracked, Lives, Stopping, NoProcess
<1>4. LaunchInv'
  BY DEF SupervisorInv, LaunchInv, OwnerCleaned, OwnerGivesUp, OwnerFails, Restarts,
         OwnerDone, StopsPair, At
<1>5. LinkInv'
  BY <1>2 DEF SupervisorInv, LinkInv, OwnerCleaned, Requested, Restarts, StopsPair
<1>6. StopInv'
  BY <1>2 DEF SupervisorInv, StopInv, Stopped, Requested, Restarts, StopsPair
<1>7. StatusInv'
  <2>1. CASE ~work.broken /\ Requested
    <3>1. /\ UNCHANGED <<proc, conn, down>> /\ status' \in {status, "failed"}
          /\ work.at = "cleanServer" /\ down.at # "none"
      BY <2>1 DEF OwnerCleaned, OwnerGivesUp, Requested
    <3> QED
      BY <3>1 DEF SupervisorInv, StatusInv, Requested, AtWork, Free
  <2>2. CASE work.broken \/ ~Requested
    BY <2>2 DEF SupervisorInv, LinkInv, StopInv, StatusInv, OwnerCleaned, Roles, Stopped,
                Requested, OwnerFails, Restarts, Free, AtWork, OwnerDone, StopsPair, At
  <2> QED
    BY <2>1, <2>2
<1> QED
  BY <1>1, <1>3, <1>4, <1>5, <1>6, <1>7 DEF SupervisorInv

\* The invariant is kept by the server's READY.
LEMMA ServerReadyKeeps ==
    ASSUME SupervisorInv, ServerReady
    PROVE  SupervisorInv'
<1>1. TypeOK'
  BY ServerReadyTypes DEF SupervisorInv
<1>2. Tracked'
  BY DEF SupervisorInv, TypeOK, Tracked, ServerReady, Lives
<1>3. LaunchInv'
  BY DEF SupervisorInv, TypeOK, LaunchInv, ServerReady, Roles, At, Fresh, Requested
<1>4. LinkInv'
  BY DEF SupervisorInv, LinkInv, ServerReady, links, Requested
<1>5. StopInv'
  BY DEF SupervisorInv, TypeOK, StopInv, ServerReady, Roles, At, Stopped
<1>6. StatusInv'
  BY DEF SupervisorInv, LaunchInv, StatusInv, ServerReady, At, AtWork
<1> QED
  BY <1>1, <1>2, <1>3, <1>4, <1>5, <1>6 DEF SupervisorInv

\* The invariant is kept by the connection.
LEMMA ConnectsKeeps ==
    ASSUME SupervisorInv, Connects
    PROVE  SupervisorInv'
<1>1. TypeOK'
  BY ConnectsTypes DEF SupervisorInv
<1>2. Tracked'
  BY DEF SupervisorInv, TypeOK, Tracked, LaunchInv, Connects, Roles, Launched, NoProcess
<1>3. LaunchInv'
  BY DEF SupervisorInv, LaunchInv, Connects, Launched, At, Fresh, Requested, NoProcess
<1>4. LinkInv'
  BY DEF SupervisorInv, LaunchInv, LinkInv, Connects, At, Requested
<1>5. StopInv'
  BY DEF SupervisorInv, LaunchInv, StopInv, Connects, At, Requested
<1>6. StatusInv'
  BY DEF SupervisorInv, LaunchInv, StatusInv, Connects, At, AtWork
<1> QED
  BY <1>1, <1>2, <1>3, <1>4, <1>5, <1>6 DEF SupervisorInv

\* The invariant is kept by a connection that fails.
LEMMA ConnectFailsKeeps ==
    ASSUME SupervisorInv, ConnectFails
    PROVE  SupervisorInv'
<1>1. TypeOK'
  BY ConnectFailsTypes DEF SupervisorInv
<1>2. Tracked'
  BY DEF SupervisorInv, TypeOK, Tracked, ConnectFails, Lives, PairFails, Restarts, StopsPair,
         Stopping, NoProcess
<1>3. LaunchInv'
  BY DEF SupervisorInv, LaunchInv, ConnectFails, PairFails, Restarts, StopsPair
<1>4. LinkInv'
  BY DEF SupervisorInv, LinkInv, ConnectFails, PairFails, Requested, Restarts, StopsPair
<1>5. StopInv'
  BY DEF SupervisorInv, TypeOK, StopInv, ConnectFails, PairFails, Stopped, OwnerDone,
         Restarts, StopsPair, At, Stopping
<1>6. StatusInv'
  BY DEF SupervisorInv, TypeOK, StatusInv, ConnectFails, PairFails, Free, Requested, AtWork,
         Restarts, StopsPair, Stopping
<1> QED
  BY <1>1, <1>2, <1>3, <1>4, <1>5, <1>6 DEF SupervisorInv

\* The invariant is kept by a connection that comes late.
LEMMA LateConnectsKeeps ==
    ASSUME SupervisorInv, NEW g \in late, LateConnects(g)
    PROVE  SupervisorInv'
<1>1. TypeOK'
  BY LateConnectsTypes DEF SupervisorInv
<1>2. Tracked'
  BY DEF SupervisorInv, Tracked, LateConnects, children, Lives
<1>3. LaunchInv'
  BY DEF SupervisorInv, LaunchInv, LinkInv, LateConnects, children, flow
<1>4. LinkInv'
  BY DEF SupervisorInv, LinkInv, LateConnects, Unwanted, Requested
<1>5. StopInv'
  BY DEF SupervisorInv, StopInv, LateConnects, children, flow, Stopped
<1>6. StatusInv'
  BY DEF SupervisorInv, LinkInv, StatusInv, LateConnects, children, Free, Requested, AtWork
<1> QED
  BY <1>1, <1>2, <1>3, <1>4, <1>5, <1>6 DEF SupervisorInv

\* The invariant is kept by a launch that fails.
LEMMA LaunchFailsKeeps ==
    ASSUME SupervisorInv, NEW r \in Roles, LaunchFails(r)
    PROVE  SupervisorInv'
<1>1. TypeOK'
  BY LaunchFailsTypes DEF SupervisorInv
<1>2. Tracked'
  BY DEF SupervisorInv, TypeOK, Tracked, LaunchFails, Lives, Stopping, NoProcess
<1>3. LaunchInv'
  BY DEF SupervisorInv, LaunchInv, LaunchFails, At
<1>4. LinkInv'
  BY DEF SupervisorInv, LinkInv, LaunchFails, At, links, Requested
<1>5. StopInv'
  BY DEF SupervisorInv, StopInv, LaunchFails, Stopping, At, Stopped
<1>6. StatusInv'
  BY DEF SupervisorInv, StatusInv, LaunchFails, Roles, Stopping, At, Free, Requested, AtWork
<1> QED
  BY <1>1, <1>2, <1>3, <1>4, <1>5, <1>6 DEF SupervisorInv

\* The invariant is kept by the end of an abandoned launch.
LEMMA AbandonedKeeps ==
    ASSUME SupervisorInv, Abandoned
    PROVE  SupervisorInv'
<1>1. TypeOK'
  BY AbandonedTypes DEF SupervisorInv
<1>2. Tracked'
  BY DEF SupervisorInv, TypeOK, Tracked, Abandoned, PairFails, Lives, Restarts, StopsPair,
         Stopping, NoProcess
<1>3. LaunchInv'
  BY DEF SupervisorInv, LaunchInv, Abandoned, PairFails, OwnerDone, Restarts, StopsPair, At
<1>4. LinkInv'
  BY DEF SupervisorInv, LinkInv, Abandoned, PairFails, Requested, Restarts, StopsPair
<1>5. StopInv'
  BY DEF SupervisorInv, TypeOK, StopInv, Abandoned, Stopped, PairFails, OwnerDone, Restarts,
         StopsPair, At, Stopping
<1>6. StatusInv'
  BY DEF SupervisorInv, TypeOK, StatusInv, Abandoned, PairFails, Free, Requested, AtWork,
         Restarts, StopsPair, Stopping
<1> QED
  BY <1>1, <1>2, <1>3, <1>4, <1>5, <1>6 DEF SupervisorInv

\* The invariant is kept by the Box's READY.
LEMMA BoxReadyKeeps ==
    ASSUME SupervisorInv, BoxReady
    PROVE  SupervisorInv'
<1>1. TypeOK'
  BY BoxReadyTypes DEF SupervisorInv
<1>2. Tracked'
  BY BoxReadyTracked DEF SupervisorInv
<1>3. LaunchInv'
  BY DEF SupervisorInv, LaunchInv, BoxReady, OwnerDone, Restarts, OwnerSettles, At, StopsPair,
         Stopping, Closed
<1>4. LinkInv'
  BY DEF SupervisorInv, LinkInv, BoxReady, OwnerDone, Restarts, OwnerSettles, Requested, At,
         StopsPair
<1>5. StopInv'
  BY DEF SupervisorInv, LaunchInv, StopInv, BoxReady, OwnerDone, Restarts, OwnerSettles,
         Stopped, Fresh, At, StopsPair
<1>6. StatusInv'
  BY BoxReadyStatus DEF SupervisorInv
<1> QED
  BY <1>1, <1>2, <1>3, <1>4, <1>5, <1>6 DEF SupervisorInv

\* The invariant is kept by the death of a child.
LEMMA DiesKeeps ==
    ASSUME SupervisorInv, NEW r \in Roles, Dies(r)
    PROVE  SupervisorInv'
<1>1. TypeOK'
  BY DiesTypes DEF SupervisorInv
<1>2. Tracked'
  BY DEF SupervisorInv, Tracked, Dies, Lives
<1>3. LaunchInv'
  BY DEF SupervisorInv, LaunchInv, Dies, links, flow, Fresh, Requested
<1>4. LinkInv'
  BY DEF SupervisorInv, LinkInv, Dies, links, flow, Requested
<1>5. StopInv'
  BY DEF SupervisorInv, StopInv, Dies, flow, Stopped
<1>6. StatusInv'
  BY DEF SupervisorInv, StatusInv, Dies, links, flow, Free, Requested, Stopped, AtWork
<1> QED
  BY <1>1, <1>2, <1>3, <1>4, <1>5, <1>6 DEF SupervisorInv

\* The invariant is kept by the end of the connection.
LEMMA ConnectionClosesKeeps ==
    ASSUME SupervisorInv, ConnectionCloses
    PROVE  SupervisorInv'
<1>1. TypeOK'
  BY ConnectionClosesTypes DEF SupervisorInv
<1>2. Tracked'
  BY DEF SupervisorInv, TypeOK, Tracked, ConnectionCloses, Lives, PairFails, RestartFor,
         Restarts, StopsPair, Stopping, NoProcess
<1>3. LaunchInv'
  BY DEF SupervisorInv, LaunchInv, ConnectionCloses, PairFails, Requested, RestartFor, flow,
         Fresh, Restarts, StopsPair
<1>4. LinkInv'
  BY DEF SupervisorInv, LinkInv, ConnectionCloses, PairFails, Requested, RestartFor, flow,
         Restarts, StopsPair
<1>5. StopInv'
  BY DEF SupervisorInv, TypeOK, StopInv, ConnectionCloses, PairFails, RestartFor, flow,
         Stopped, OwnerDone, Restarts, StopsPair, At, Stopping
<1>6. StatusInv'
  BY DEF SupervisorInv, TypeOK, StatusInv, ConnectionCloses, PairFails, Requested, RestartFor,
         flow, Free, Stopped, AtWork, Restarts, StopsPair, Stopping
<1> QED
  BY <1>1, <1>2, <1>3, <1>4, <1>5, <1>6 DEF SupervisorInv

\* The invariant is kept by the request to end the application.
LEMMA ShutdownKeeps ==
    ASSUME SupervisorInv, Shutdown
    PROVE  SupervisorInv'
<1>1. TypeOK'
  BY ShutdownTypes DEF SupervisorInv
<1>2. Tracked'
  BY ShutdownTracked DEF SupervisorInv
<1>3. LaunchInv'
  BY ShutdownLaunch DEF SupervisorInv
<1>4. LinkInv'
  BY DEF SupervisorInv, LinkInv, Shutdown, Requested
<1>5. StopInv'
  BY DEF SupervisorInv, TypeOK, StopInv, Shutdown, Cancels, Stopping, Stopped, At, OwnerDone
<1>6. StatusInv'
  BY DEF SupervisorInv, StatusInv, Shutdown, AtWork
<1> QED
  BY <1>1, <1>2, <1>3, <1>4, <1>5, <1>6 DEF SupervisorInv

\* The invariant is kept by the shutdown's going on to the server.
LEMMA DownStopsServerKeeps ==
    ASSUME SupervisorInv, DownStopsServer
    PROVE  SupervisorInv'
<1>1. TypeOK'
  BY DownStopsServerTypes DEF SupervisorInv
<1>2. Tracked'
  BY DEF SupervisorInv, TypeOK, Tracked, DownStopsServer, Roles, Stopping, Lives, NoProcess
<1>3. LaunchInv'
  BY DEF SupervisorInv, LaunchInv, DownStopsServer, flow, Requested
<1>4. LinkInv'
  BY DEF SupervisorInv, LinkInv, DownStopsServer, links, Requested
<1>5. StopInv'
  BY DownStopsServerStop DEF SupervisorInv
<1>6. StatusInv'
  BY DEF SupervisorInv, StatusInv, DownStopsServer, Roles, Stopping, Free, Requested, AtWork
<1> QED
  BY <1>1, <1>2, <1>3, <1>4, <1>5, <1>6 DEF SupervisorInv

\* The invariant is kept by its wait for whoever was at work.
LEMMA DownWaitsKeeps ==
    ASSUME SupervisorInv, DownWaits
    PROVE  SupervisorInv'
<1>1. TypeOK'
  BY DownWaitsTypes DEF SupervisorInv
<1>2. Tracked'
  BY DEF SupervisorInv, Tracked, DownWaits, children, Lives
<1>3. LaunchInv'
  BY DEF SupervisorInv, LaunchInv, DownWaits, children, flow, Requested
<1>4. LinkInv'
  BY DEF SupervisorInv, LinkInv, DownWaits, At, links, Requested
<1>5. StopInv'
  BY DEF SupervisorInv, StopInv, DownWaits, Stopped, At, children
<1>6. StatusInv'
  BY DEF SupervisorInv, StatusInv, DownWaits, At, children, Free, Requested, AtWork
<1> QED
  BY <1>1, <1>2, <1>3, <1>4, <1>5, <1>6 DEF SupervisorInv

\* The invariant is kept by its second stop.
LEMMA DownAgainKeeps ==
    ASSUME SupervisorInv, DownAgain
    PROVE  SupervisorInv'
<1>1. TypeOK'
  BY DownAgainTypes DEF SupervisorInv
<1>2. Tracked'
  BY DEF SupervisorInv, TypeOK, Tracked, DownAgain, Stopping, Lives, NoProcess
<1>3. LaunchInv'
  BY DEF SupervisorInv, LaunchInv, DownAgain, flow
<1>4. LinkInv'
  BY DEF SupervisorInv, LinkInv, DownAgain, Requested
<1>5. StopInv'
  BY DownAgainStop DEF SupervisorInv
<1>6. StatusInv'
  BY DEF SupervisorInv, StatusInv, DownAgain, Roles, Stopping, Free, Requested, AtWork
<1> QED
  BY <1>1, <1>2, <1>3, <1>4, <1>5, <1>6 DEF SupervisorInv

\* The invariant is kept by its end.
LEMMA DownEndsKeeps ==
    ASSUME SupervisorInv, DownEnds
    PROVE  SupervisorInv'
<1>1. TypeOK'
  BY DownEndsTypes DEF SupervisorInv
<1>2. Tracked'
  BY DEF SupervisorInv, Tracked, DownEnds, children, Lives
<1>3. LaunchInv'
  BY DEF SupervisorInv, LaunchInv, DownEnds, children, flow, Requested
<1>4. LinkInv'
  BY DEF SupervisorInv, LinkInv, DownEnds, At, links, Requested
<1>5. StopInv'
  BY DEF SupervisorInv, StopInv, DownEnds, Stopped, At, children
<1>6. StatusInv'
  BY DEF SupervisorInv, StopInv, StatusInv, DownEnds, Roles, Stopped, At, children, Free,
         Requested
<1> QED
  BY <1>1, <1>2, <1>3, <1>4, <1>5, <1>6 DEF SupervisorInv

\* A stuttering step keeps the invariant.
LEMMA StutterKeeps ==
    ASSUME SupervisorInv, UNCHANGED vars
    PROVE  SupervisorInv'
<1>1. TypeOK'
  BY DEF SupervisorInv, TypeOK, vars, children, links, flow
<1>2. Tracked'
  BY DEF SupervisorInv, Tracked, vars, children, Lives
<1>3. LaunchInv'
  BY DEF SupervisorInv, LaunchInv, vars, children, links, flow, Fresh, Requested
<1>4. LinkInv'
  BY DEF SupervisorInv, LinkInv, vars, links, flow, Requested
<1>5. StopInv'
  BY DEF SupervisorInv, StopInv, vars, children, flow, Stopped
<1>6. StatusInv'
  BY DEF SupervisorInv, StatusInv, vars, children, links, flow, Free, Requested, Stopped,
         AtWork
<1> QED
  BY <1>1, <1>2, <1>3, <1>4, <1>5, <1>6 DEF SupervisorInv

\* Every step of the supervisor keeps the invariant.
LEMMA StepKeeps == SupervisorInv /\ [Next]_vars => SupervisorInv'
<1> SUFFICES ASSUME SupervisorInv, [Next]_vars
             PROVE  SupervisorInv'
  OBVIOUS
<1>1. CASE Start \/ StartFails \/ Shutdown \/ ConnectionCloses
  BY <1>1, StartKeeps, StartFailsKeeps, ShutdownKeeps, ConnectionClosesKeeps
<1>2. CASE GoesOn
  BY <1>2, OwnerStopsServerKeeps, OwnerStoppedKeeps, OwnerCleanedKeeps, SleepOverKeeps,
     RestartFailsKeeps, AbandonedKeeps, DownStopsServerKeeps, DownWaitsKeeps, DownAgainKeeps,
     DownEndsKeeps DEF GoesOn
<1>3. CASE Launches
  BY <1>3, ServerReadyKeeps, ConnectsKeeps, ConnectFailsKeeps, BoxReadyKeeps, LaunchFailsKeeps
     DEF Launches
<1>4. ASSUME NEW r \in Roles, StopEscalates(r) \/ StopFails(r) \/ Dies(r) \/ SeesExit(r)
      PROVE  SupervisorInv'
  BY <1>4, StopEscalatesKeeps, StopFailsKeeps, DiesKeeps, SeesExitKeeps
<1>5. ASSUME NEW g \in late, LateConnects(g)
      PROVE  SupervisorInv'
  BY <1>5, LateConnectsKeeps
<1>6. CASE UNCHANGED vars
  BY <1>6, StutterKeeps
<1> QED
  BY <1>1, <1>2, <1>3, <1>4, <1>5, <1>6 DEF Next

\* Nothing runs before the start.
LEMMA InitKeeps == Init => SupervisorInv
<1> SUFFICES ASSUME Init
             PROVE  SupervisorInv
  OBVIOUS
<1>1. TypeOK
  <2>1. At("idle") \in AWork /\ At("none") \in ADown /\ NoProcess \in AProc
    BY WorkTypes, DownTypes, ProcessTypes DEF Places
  <2>2. 0 \in 0..MaxAttempts /\ 0 \in 0..MaxFaults
    BY SupervisorAssumption
  <2> QED
    BY <2>1, <2>2, TypeIs DEF Init, NoCause, ACause
<1>2. Tracked
  BY DEF Init, Tracked, NoProcess
<1>3. LaunchInv
  BY DEF Init, LaunchInv, At
<1>4. LinkInv
  BY DEF Init, LinkInv, At, Requested
<1>5. StopInv
  BY DEF Init, StopInv, At
<1>6. StatusInv
  BY DEF Init, StatusInv, At, Free, Requested, NoProcess
<1> QED
  BY <1>1, <1>2, <1>3, <1>4, <1>5, <1>6 DEF SupervisorInv

\* The invariant holds of every reachable state, whatever crashes, hangs or comes
\* late, and whenever the user quits.
THEOREM SupervisorInvariant == Spec => []SupervisorInv
BY InitKeeps, StepKeeps, PTL DEF Spec

\* Every variable keeps its type.
THEOREM SupervisorTypeCorrect == Spec => []TypeOK
<1>1. SupervisorInv => TypeOK
  BY DEF SupervisorInv
<1> QED
  BY <1>1, SupervisorInvariant, PTL

\* A process that runs is always the tracked one of its role: there are never two
\* servers on one database or two Boxes on one journal, and none that the shutdown
\* would not know of.
THEOREM NothingEverEscapes == Spec => []NothingEscapes
<1>1. SupervisorInv => NothingEscapes
  BY DEF SupervisorInv, Tracked, NothingEscapes
<1> QED
  BY <1>1, SupervisorInvariant, PTL

\* What the invariant says of the status is what the status promises.
LEMMA StatusFollows == SupervisorInv => StatusIsTrue
<1> SUFFICES ASSUME SupervisorInv
             PROVE  StatusIsTrue
  OBVIOUS
<1>1. TypeOK /\ Tracked /\ LinkInv /\ StopInv /\ StatusInv
  BY DEF SupervisorInv
<1>2. \A c \in alive : c[1] \in Roles /\ proc[c[1]].gen # 0
  BY <1>1, VariableTypes DEF Tracked
<1>3. status = "running" =>
          /\ \A r \in Roles : /\ proc[r].gen = pair /\ proc[r].ready
                              /\ proc[r].watching /\ ~proc[r].seen
          /\ conn = pair /\ open = {pair}
  BY <1>1 DEF StatusInv, LinkInv
<1>4. status = "stopped" => alive = {} /\ open = {}
  BY <1>1, <1>2 DEF StatusInv, LinkInv, Free
<1>5. status = "failed" /\ ~AtWork =>
          open = {} /\ \A c \in alive : proc[c[1]].stop = "failed"
  <2> SUFFICES ASSUME status = "failed", ~AtWork
               PROVE  open = {} /\ \A c \in alive : proc[c[1]].stop = "failed"
    OBVIOUS
  <2>1. conn = 0 /\ \A r \in Roles : Stopped(r)
    <3>1. CASE ~Requested
      BY <1>1, <3>1 DEF StatusInv
    <3>2. CASE Requested
      BY <1>1, <3>2 DEF LinkInv, StopInv, AtWork, Requested, Roles
    <3> QED
      BY <3>1, <3>2
  <2> QED
    BY <1>1, <1>2, <2>1 DEF LinkInv, Stopped
<1>6. \/ AtWork
      \/ status \in {"idle", "running", "stopped", "failed"}
      \/ ~reported
  BY <1>1 DEF StatusInv
<1> QED
  BY <1>3, <1>4, <1>5, <1>6 DEF StatusIsTrue

\* "running" is always a whole and watched pair, "stopped" leaves nothing behind,
\* "failed" nothing but what survived SIGKILL, and somebody works on the rest.
THEOREM StatusAlwaysTrue == Spec => []StatusIsTrue
BY StatusFollows, SupervisorInvariant, PTL

-----------------------------------------------------------------------------
(* Types of the feed.                                                      *)

FeedEvents == {Event(r, n, b) : r \in Runs, n \in Nat, b \in BOOLEAN}
\* The numbers of the events of a Run.
Seqs(events, r) == {e.seq : e \in {f \in events : f.run = r}}
PageEvents(r, from, upto, end) == {Event(r, n, n = end) : n \in (from + 1)..upto}
FeedPages  == {m \in {Page(r, PageEvents(r, from, upto, end), b) :
                       r \in Runs, from \in Nat, upto \in Nat, end \in Nat, b \in BOOLEAN} :
                  m.more => m.events # {}}
FeedLists  == {m \in {Listed(found, b) : found \in {{}} \union {{s} : s \in Sessions}, b \in BOOLEAN} :
                  m.more => m.found # {}}
FeedFrames ==
    FeedEvents \union FeedPages \union FeedLists \union {Subscribed}
    \union {Retired(s) : s \in Sessions} \union {Missing(s) : s \in Sessions}
    \union {Accepted(r, n, b) : r \in Runs, n \in Nat, b \in BOOLEAN}
    \union {Refused(r) : r \in Runs} \union {Failed(r) : r \in Runs}
    \union {Denied(r) : r \in Runs}

LEMMA FeedEventKinds ==
    /\ \A e \in FeedEvents : /\ e.kind = "event" /\ e.run \in Runs /\ e.seq \in Nat /\ e.last \in BOOLEAN
                             /\ e = Event(e.run, e.seq, e.last)
    /\ \A r \in Runs, n \in Nat, b \in BOOLEAN : Event(r, n, b) \in FeedEvents
    /\ \A r, n, b : /\ Event(r, n, b).kind = "event" /\ Event(r, n, b).run = r
                    /\ Event(r, n, b).seq = n /\ Event(r, n, b).last = b
<1>1. \A r, n, b : /\ Event(r, n, b).kind = "event" /\ Event(r, n, b).run = r
                   /\ Event(r, n, b).seq = n /\ Event(r, n, b).last = b
    BY DEF Event
<1>2. ASSUME NEW e \in FeedEvents
      PROVE  \E r \in Runs, n \in Nat, b \in BOOLEAN : e = Event(r, n, b)
    BY DEF FeedEvents
<1>3. \A r \in Runs, n \in Nat, b \in BOOLEAN : Event(r, n, b) \in FeedEvents
    BY DEF FeedEvents
<1> QED
    BY <1>1, <1>2, <1>3

LEMMA EventMade ==
    \A r \in Runs, n \in Nat :
        /\ Event(r, n, TRUE) \in FeedEvents /\ Event(r, n, FALSE) \in FeedEvents
        /\ Event(r, n, TRUE).run = r /\ Event(r, n, TRUE).seq = n
        /\ Event(r, n, FALSE).run = r /\ Event(r, n, FALSE).seq = n
<1>1. \A r \in Runs, n \in Nat, b \in BOOLEAN :
          Event(r, n, b) \in FeedEvents /\ Event(r, n, b).run = r /\ Event(r, n, b).seq = n
    BY FeedEventKinds
<1>2. PICK t \in BOOLEAN, f \in BOOLEAN : t = TRUE /\ f = FALSE
    OBVIOUS
<1> QED
    BY <1>1, <1>2

LEMMA PageEventsAre ==
    ASSUME NEW r \in Runs, NEW from \in Nat, NEW upto \in Nat, NEW end \in Nat
    PROVE  /\ PageEvents(r, from, upto, end) \in SUBSET FeedEvents
           /\ \A e \in PageEvents(r, from, upto, end) : e.run = r /\ e.seq \in (from + 1)..upto
           /\ \A n \in (from + 1)..upto : Event(r, n, n = end) \in PageEvents(r, from, upto, end)
           /\ Seqs(PageEvents(r, from, upto, end), r) = (from + 1)..upto
<1>1. ASSUME NEW e \in PageEvents(r, from, upto, end)
      PROVE  \E n \in (from + 1)..upto : e = Event(r, n, n = end)
    BY DEF PageEvents
<1>2. \A n \in (from + 1)..upto : Event(r, n, n = end) \in PageEvents(r, from, upto, end)
    BY DEF PageEvents
<1>3. \A n \in (from + 1)..upto : n \in Nat
    OBVIOUS
<1>4. ASSUME NEW e \in PageEvents(r, from, upto, end)
      PROVE  e \in FeedEvents /\ e.run = r /\ e.seq \in (from + 1)..upto
  <2>1. PICK n \in (from + 1)..upto : e = Event(r, n, n = end)
    BY <1>1
  <2>2. PICK b \in BOOLEAN : b = (n = end)
    OBVIOUS
  <2>3. e = Event(r, n, b)
    BY <2>1, <2>2
  <2>4. n \in Nat
    BY <1>3
  <2>5. Event(r, n, b) \in FeedEvents
    BY <2>4, FeedEventKinds
  <2>6. e.run = r /\ e.seq = n
    BY <2>3, FeedEventKinds
  <2> QED
    BY <2>3, <2>5, <2>6
<1>5. \A n \in (from + 1)..upto : Event(r, n, n = end).run = r /\ Event(r, n, n = end).seq = n
    BY FeedEventKinds
<1>6. Seqs(PageEvents(r, from, upto, end), r) = (from + 1)..upto
  <2>1. ASSUME NEW n \in Seqs(PageEvents(r, from, upto, end), r) PROVE n \in (from + 1)..upto
    BY <1>4 DEF Seqs
  <2>2. ASSUME NEW n \in (from + 1)..upto PROVE n \in Seqs(PageEvents(r, from, upto, end), r)
    BY <1>2, <1>5 DEF Seqs
  <2> QED
    BY <2>1, <2>2
<1> QED
    BY <1>2, <1>4, <1>6

LEMMA PageKindsAre ==
    ASSUME NEW m \in FeedPages
    PROVE  /\ m.kind = "page" /\ m.run \in Runs /\ m.more \in BOOLEAN /\ m.events \in SUBSET FeedEvents
           /\ \A e \in m.events : e.run = m.run
           /\ \E from, upto \in Nat : /\ Seqs(m.events, m.run) = (from + 1)..upto
                                      /\ m.more => upto > from
<1>1. PICK r \in Runs, from \in Nat, upto \in Nat, end \in Nat, b \in BOOLEAN :
          m = Page(r, PageEvents(r, from, upto, end), b)
    BY DEF FeedPages
<1>2. /\ m.kind = "page" /\ m.run = r /\ m.events = PageEvents(r, from, upto, end)
      /\ m.more = b /\ (m.more => m.events # {})
    BY <1>1 DEF Page, FeedPages
<1>3. \A e \in PageEvents(r, from, upto, end) : e.run = r /\ e.seq \in (from + 1)..upto
    BY PageEventsAre
<1>4. ASSUME m.more PROVE upto > from
  <2>1. PICK e \in m.events : TRUE
    BY <1>2, <1>4
  <2>2. e.seq \in (from + 1)..upto
    BY <1>2, <1>3, <2>1
  <2> QED
    BY <2>2
<1>5. /\ PageEvents(r, from, upto, end) \in SUBSET FeedEvents
      /\ Seqs(PageEvents(r, from, upto, end), r) = (from + 1)..upto
    BY PageEventsAre
<1>6. Seqs(m.events, m.run) = (from + 1)..upto /\ m.events \in SUBSET FeedEvents
    BY <1>2, <1>5, Zenon
<1> QED
    BY <1>2, <1>3, <1>4, <1>6

LEMMA ListKindsAre ==
    ASSUME NEW m \in FeedLists
    PROVE  /\ m.kind = "listed" /\ m.found \in SUBSET Sessions /\ m.more \in BOOLEAN
           /\ (m.found = {} /\ ~m.more) \/ \E s \in Sessions : m.found = {s}
<1>1. PICK found \in {{}} \union {{s} : s \in Sessions}, b \in BOOLEAN : m = Listed(found, b)
    BY DEF FeedLists
<1>2. m.kind = "listed" /\ m.found = found /\ m.more = b /\ (m.more => m.found # {})
    BY <1>1 DEF Listed, FeedLists
<1>3. found = {} \/ \E s \in Sessions : found = {s}
    OBVIOUS
<1> QED
    BY <1>2, <1>3

LEMMA FeedKinds ==
    /\ \A m \in FeedFrames :
          /\ m.kind \in {"event", "retired", "listed", "subscribed", "page", "accepted", "refused",
                         "failed", "denied", "missing"}
          /\ m.kind = "event" <=> m \in FeedEvents
          /\ m.kind = "listed" => m \in FeedLists
          /\ m.kind = "page" => m \in FeedPages
          /\ m.kind \in {"retired", "missing"} => m.session \in Sessions
          /\ m.kind = "retired" => m = Retired(m.session)
          /\ m.kind = "accepted" => /\ m.run \in Runs /\ m.seq \in Nat /\ m.over \in BOOLEAN
          /\ m.kind \in {"refused", "failed", "denied"} => m.run \in Runs
    /\ FeedEvents \subseteq FeedFrames /\ FeedLists \subseteq FeedFrames /\ FeedPages \subseteq FeedFrames
    /\ Subscribed \in FeedFrames
    /\ \A s \in Sessions : Retired(s) \in FeedFrames /\ Missing(s) \in FeedFrames
    /\ \A r \in Runs : Refused(r) \in FeedFrames /\ Failed(r) \in FeedFrames /\ Denied(r) \in FeedFrames
    /\ \A r \in Runs, n \in Nat, b \in BOOLEAN : Accepted(r, n, b) \in FeedFrames
<1>1. ASSUME NEW m \in FeedFrames
      PROVE  \/ m \in FeedEvents \/ m \in FeedPages \/ m \in FeedLists \/ m = Subscribed
             \/ \E s \in Sessions : m = Retired(s) \/ m = Missing(s)
             \/ \E r \in Runs, n \in Nat, b \in BOOLEAN : m = Accepted(r, n, b)
             \/ \E r \in Runs : m = Refused(r) \/ m = Failed(r) \/ m = Denied(r)
    BY DEF FeedFrames
<1>2. /\ FeedEvents \subseteq FeedFrames /\ FeedLists \subseteq FeedFrames /\ FeedPages \subseteq FeedFrames
      /\ Subscribed \in FeedFrames
      /\ \A s \in Sessions : Retired(s) \in FeedFrames /\ Missing(s) \in FeedFrames
      /\ \A r \in Runs : Refused(r) \in FeedFrames /\ Failed(r) \in FeedFrames /\ Denied(r) \in FeedFrames
      /\ \A r \in Runs, n \in Nat, b \in BOOLEAN : Accepted(r, n, b) \in FeedFrames
    BY DEF FeedFrames
<1>3. /\ Subscribed.kind = "subscribed"
      /\ \A s : /\ Retired(s).kind = "retired" /\ Retired(s).session = s
                /\ Missing(s).kind = "missing" /\ Missing(s).session = s
      /\ \A r, n, b : /\ Accepted(r, n, b).kind = "accepted" /\ Accepted(r, n, b).run = r
                      /\ Accepted(r, n, b).seq = n /\ Accepted(r, n, b).over = b
      /\ \A r : /\ Refused(r).kind = "refused" /\ Refused(r).run = r
                /\ Failed(r).kind = "failed" /\ Failed(r).run = r
                /\ Denied(r).kind = "denied" /\ Denied(r).run = r
    BY DEF Subscribed, Retired, Missing, Accepted, Refused, Failed, Denied
<1>4. /\ \A m \in FeedEvents : m.kind = "event"
      /\ \A m \in FeedPages : m.kind = "page"
      /\ \A m \in FeedLists : m.kind = "listed"
    BY FeedEventKinds, PageKindsAre, ListKindsAre
<1> HIDE DEF FeedFrames, FeedEvents, FeedPages, FeedLists
<1>5. ASSUME NEW m \in FeedFrames
      PROVE  /\ m.kind \in {"event", "retired", "listed", "subscribed", "page", "accepted", "refused",
                            "failed", "denied", "missing"}
             /\ m.kind = "event" <=> m \in FeedEvents
             /\ m.kind = "listed" => m \in FeedLists
             /\ m.kind = "page" => m \in FeedPages
             /\ m.kind \in {"retired", "missing"} => m.session \in Sessions
             /\ m.kind = "retired" => m = Retired(m.session)
             /\ m.kind = "accepted" => m.run \in Runs /\ m.seq \in Nat /\ m.over \in BOOLEAN
             /\ m.kind \in {"refused", "failed", "denied"} => m.run \in Runs
  <2>1. CASE m \in FeedEvents \/ m \in FeedPages \/ m \in FeedLists
    BY <1>4, <2>1
  <2>2. CASE ~(m \in FeedEvents \/ m \in FeedPages \/ m \in FeedLists)
    BY <1>1, <1>3, <2>2
  <2> QED
    BY <2>1, <2>2
<1> QED
    BY <1>2, <1>5

FeedCursors == UNION {[S -> [seq : Nat, over : BOOLEAN]] : S \in SUBSET Runs}

LEMMA CursorKinds ==
    /\ <<>> \in FeedCursors /\ DOMAIN <<>> = {}
    /\ \A c \in FeedCursors :
          /\ DOMAIN c \subseteq Runs /\ c = [r \in DOMAIN c |-> c[r]]
          /\ \A r \in DOMAIN c : /\ c[r] \in [seq : Nat, over : BOOLEAN]
                                 /\ c[r].seq \in Nat /\ c[r].over \in BOOLEAN
    /\ \A S \in SUBSET Runs : \A c \in [S -> [seq : Nat, over : BOOLEAN]] : c \in FeedCursors
<1>1. <<>> \in [{} -> [seq : Nat, over : BOOLEAN]] /\ DOMAIN <<>> = {}
    OBVIOUS
<1>2. <<>> \in FeedCursors
    BY <1>1 DEF FeedCursors
<1>3. ASSUME NEW c \in FeedCursors
      PROVE  /\ DOMAIN c \subseteq Runs /\ c = [r \in DOMAIN c |-> c[r]]
             /\ \A r \in DOMAIN c : c[r] \in [seq : Nat, over : BOOLEAN]
  <2>1. PICK S \in SUBSET Runs : c \in [S -> [seq : Nat, over : BOOLEAN]]
    BY DEF FeedCursors
  <2> QED
    BY <2>1
<1>4. \A x \in [seq : Nat, over : BOOLEAN] : x.seq \in Nat /\ x.over \in BOOLEAN
    OBVIOUS
<1>5. \A S \in SUBSET Runs : \A c \in [S -> [seq : Nat, over : BOOLEAN]] : c \in FeedCursors
    BY DEF FeedCursors
<1> QED
    BY <1>1, <1>2, <1>3, <1>4, <1>5

FeedData ==
    /\ log \in [Runs -> [seq : Nat, end : Nat]]
    /\ executing \in SUBSET Runs /\ retired \in SUBSET Sessions
    /\ route \in SUBSET Runs /\ subs \in SUBSET Sessions
    /\ toServer \in SUBSET Runs /\ toClient \in Seq(FeedFrames)
    /\ phase \in Phases /\ listed \in Nat /\ replayed \in SUBSET Runs
    /\ paging \in [run : Runs \union {0}, from : Nat]
    /\ provisional \in SUBSET FeedEvents /\ unbound \in SUBSET Runs
    /\ retirement \in [Sessions -> {"none", "pending", "final"}]
    /\ asking \in Sessions \union {Nobody} /\ announced \in Seq(Sessions)
    /\ sent \in SUBSET Runs
\* How far the Desktop is with each Run.
ShownData == cursor \in FeedCursors /\ shown \in [Runs -> Seq(Nat)]

-----------------------------------------------------------------------------
(* Queues, and what the server publishes.                                  *)

\* The queues.
IsConcat(q, p, t) ==
    /\ \A i \in DOMAIN q : i \in DOMAIN t /\ t[i] = q[i]
    /\ \A i \in DOMAIN t : \/ i \in DOMAIN q /\ t[i] = q[i]
                           \/ \E j \in DOMAIN p : i = Len(q) + j /\ t[i] = p[j]
    /\ \A j \in DOMAIN p : Len(q) + j \in DOMAIN t /\ t[Len(q) + j] = p[j]
    /\ DOMAIN t = 1..(Len(q) + Len(p)) /\ DOMAIN q = 1..Len(q) /\ DOMAIN p = 1..Len(p)
    /\ Len(q) \in Nat /\ Len(p) \in Nat

LEMMA Queued ==
    ASSUME NEW S, NEW q \in Seq(S), NEW p \in Seq(S)
    PROVE  q \o p \in Seq(S) /\ IsConcat(q, p, q \o p)
<1> DEFINE t == q \o p
<1>1. /\ t \in Seq(S) /\ Len(t) = Len(q) + Len(p) /\ Len(q) \in Nat /\ Len(p) \in Nat
      /\ DOMAIN t = 1..(Len(q) + Len(p)) /\ DOMAIN q = 1..Len(q) /\ DOMAIN p = 1..Len(p)
      /\ \A i \in 1..(Len(q) + Len(p)) : t[i] = IF i <= Len(q) THEN q[i] ELSE p[i - Len(q)]
    BY ConcatProperties, LenProperties
<1> HIDE DEF t
<1>2. ASSUME NEW i \in DOMAIN t
      PROVE  \/ i \in DOMAIN q /\ t[i] = q[i]
             \/ \E j \in DOMAIN p : i = Len(q) + j /\ t[i] = p[j]
  <2>1. CASE i <= Len(q)
    BY <1>1, <2>1
  <2>2. CASE i > Len(q)
    <3>1. i - Len(q) \in DOMAIN p /\ i = Len(q) + (i - Len(q)) /\ t[i] = p[i - Len(q)]
      BY <1>1, <2>2
    <3> QED
      BY <3>1
  <2> QED
    BY <1>1, <2>1, <2>2
<1>3. \A j \in DOMAIN p : Len(q) + j \in DOMAIN t /\ t[Len(q) + j] = p[j]
  BY <1>1
<1>4. \A i \in DOMAIN q : i \in DOMAIN t /\ t[i] = q[i]
  BY <1>1
<1> QED
  BY <1>1, <1>2, <1>3, <1>4 DEF IsConcat, t

LEMMA QueuedOne ==
    ASSUME NEW S, NEW q \in Seq(S), NEW m \in S, NEW t, t = Append(q, m)
    PROVE  /\ t \in Seq(S) /\ t = q \o <<m>>
           /\ \A i \in DOMAIN q : i \in DOMAIN t /\ t[i] = q[i]
           /\ \A i \in DOMAIN t : i \in DOMAIN q \/ i = Len(q) + 1
           /\ Len(q) + 1 \in DOMAIN t /\ t[Len(q) + 1] = m
           /\ DOMAIN t = 1..(Len(q) + 1) /\ DOMAIN q = 1..Len(q) /\ Len(q) \in Nat
OBVIOUS

LEMMA HeadOff ==
    ASSUME NEW S, NEW q \in Seq(S), q # <<>>, NEW t, t = Tail(q)
    PROVE  /\ t \in Seq(S) /\ Head(q) \in S /\ Head(q) = q[1] /\ 1 \in DOMAIN q
           /\ \A i \in DOMAIN t : i \in Nat /\ i >= 1 /\ i + 1 \in DOMAIN q /\ t[i] = q[i + 1]
           /\ \A i \in DOMAIN q : i \in Nat /\ (i = 1 \/ (i > 1 /\ i - 1 \in DOMAIN t /\ t[i - 1] = q[i]))
<1>1. /\ t \in Seq(S) /\ Head(q) \in S /\ Len(t) = Len(q) - 1 /\ Len(q) \in Nat /\ Len(q) > 0
      /\ \A i \in 1..Len(t) : t[i] = q[i + 1]
    BY HeadTailProperties, EmptySeq, LenProperties
<1>2. DOMAIN t = 1..Len(t) /\ DOMAIN q = 1..Len(q) /\ Head(q) = q[1]
    BY <1>1
<1> QED
    BY <1>1, <1>2

\* A finite set in a sequence, each element once.
LEMMA InSequence ==
    ASSUME NEW S, IsFiniteSet(S), NEW f, f = SetToSeq(S)
    PROVE  /\ f \in Seq(S) /\ Cardinality(S) \in Nat /\ f \in [1..Cardinality(S) -> S]
           /\ \A i, j \in DOMAIN f : f[i] = f[j] => i = j
           /\ \A x \in S : \E i \in DOMAIN f : f[i] = x
<1> DEFINE n == Cardinality(S)
<1>1. n \in Nat /\ \E g : g \in Bijection(1..n, S)
    BY FS_CardinalityType DEF ExistsBijection
<1>2. \E g : g \in [1..n -> S] /\ IsInjective(g)
    BY <1>1 DEF Bijection, Injection
<1>3. f \in [1..n -> S] /\ IsInjective(f)
    BY <1>2 DEF SetToSeq
<1>4. f \in Injection(1..n, S) /\ IsFiniteSet(1..n) /\ Cardinality(1..n) = n
    BY <1>1, <1>3, FS_Interval DEF Injection
<1>5. f \in Surjection(1..n, S)
    BY <1>4, FS_Injection
<1> QED
    BY <1>1, <1>3, <1>5 DEF IsInjective, Surjection


\* Which Sessions are there, and what holds of the log whatever the Desktop does.
Present(r) == SessionOf[r] \notin retired
LogInv ==
    /\ \A r \in Runs : log[r].end # 0 => log[r].seq = log[r].end \/ log[r].seq = log[r].end + 1
    /\ \A r \in executing : Present(r) /\ log[r].end = 0 /\ log[r].seq > 0
    /\ \A r \in Runs : Present(r) \/ (log[r].seq = 0 /\ log[r].end = 0)

\* A Run whose next events will reach the Desktop.
Tuned(r) == log[r].end # 0 \/ (r \in executing /\ Heard(r))

LEMMA LogIs ==
    ASSUME FeedData
    PROVE  \A r \in Runs : /\ log[r].seq \in Nat /\ log[r].end \in Nat /\ log[r].seq + 1 \in Nat
                           /\ log[r] \in [seq : Nat, end : Nat] /\ SessionOf[r] \in Sessions
                           /\ Grown(log[r]) = [seq |-> log[r].seq + 1, end |-> log[r].end]
                           /\ Ended(log[r]) = [seq |-> log[r].seq + 1, end |-> log[r].seq + 1]
                           /\ Grown(log[r]) \in [seq : Nat, end : Nat]
                           /\ Ended(log[r]) \in [seq : Nat, end : Nat]
<1>1. log \in [Runs -> [seq : Nat, end : Nat]] /\ SessionOf \in [Runs -> Sessions]
    BY FeedAssumption DEF FeedData
<1>2. \A r \in Runs : /\ log[r].seq \in Nat /\ log[r].end \in Nat /\ log[r].seq + 1 \in Nat
                      /\ log[r] \in [seq : Nat, end : Nat] /\ SessionOf[r] \in Sessions
    BY <1>1
<1>3. \A r \in Runs : /\ Grown(log[r]) = [seq |-> log[r].seq + 1, end |-> log[r].end]
                      /\ Ended(log[r]) = [seq |-> log[r].seq + 1, end |-> log[r].seq + 1]
    BY <1>1, <1>2 DEF Grown, Ended
<1> QED
    BY <1>2, <1>3

\* The last events of a Session's Runs that a restart left: one of each.
LEMMA FinalEventsAre ==
    ASSUME FeedData, NEW s \in Sessions
    PROVE  /\ FinalEvents(s) \in Seq(FeedEvents)
           /\ \A i \in DOMAIN FinalEvents(s) :
                 \E r \in Of(s) : /\ Orphan(r) /\ Heard(r)
                                  /\ FinalEvents(s)[i] = Event(r, log[r].seq + 1, TRUE)
           /\ \A r \in Of(s) : Orphan(r) /\ Heard(r) =>
                 \E i \in DOMAIN FinalEvents(s) : FinalEvents(s)[i].run = r
           /\ \A i, j \in DOMAIN FinalEvents(s) :
                 FinalEvents(s)[i].run = FinalEvents(s)[j].run => i = j
<1> DEFINE S == {r \in Of(s) : Orphan(r) /\ Heard(r)}
           f == SetToSeq(S)
<1>1. S \subseteq Runs /\ IsFiniteSet(S)
    BY FeedAssumption, FS_Subset DEF Of
<1>2. /\ f \in Seq(S) /\ Cardinality(S) \in Nat /\ f \in [1..Cardinality(S) -> S]
      /\ \A i, j \in DOMAIN f : f[i] = f[j] => i = j
      /\ \A r \in S : \E i \in DOMAIN f : f[i] = r
    BY <1>1, InSequence
<1>3. FinalEvents(s) = [i \in DOMAIN f |-> Event(f[i], log[f[i]].seq + 1, TRUE)]
    BY DEF FinalEvents
<1> HIDE DEF f
<1>4. \A i \in DOMAIN f : f[i] \in S /\ FinalEvents(s)[i] = Event(f[i], log[f[i]].seq + 1, TRUE)
    BY <1>2, <1>3
<1>5. \A r \in S : r \in Runs /\ log[r].seq + 1 \in Nat
    BY <1>1, LogIs
<1>6. \A i \in DOMAIN f : FinalEvents(s)[i] \in FeedEvents /\ FinalEvents(s)[i].run = f[i]
  <2>1. PICK b \in BOOLEAN : b = TRUE
    OBVIOUS
  <2>2. \A r \in Runs, n \in Nat : Event(r, n, b) \in FeedEvents /\ Event(r, n, b).run = r
    BY FeedEventKinds
  <2>3. ASSUME NEW i \in DOMAIN f
        PROVE  FinalEvents(s)[i] \in FeedEvents /\ FinalEvents(s)[i].run = f[i]
    <3>1. f[i] \in Runs /\ log[f[i]].seq + 1 \in Nat
      BY <1>4, <1>5
    <3>2. FinalEvents(s)[i] = Event(f[i], log[f[i]].seq + 1, b)
      BY <1>4, <2>1, Zenon
    <3> QED
      BY <2>2, <3>1, <3>2
  <2> QED
    BY <2>3
<1>7. DOMAIN f = 1..Cardinality(S) /\ DOMAIN FinalEvents(s) = DOMAIN f
    BY <1>2, <1>3
<1>8. FinalEvents(s) \in [1..Cardinality(S) -> FeedEvents]
    BY <1>3, <1>6, <1>7
<1>9. FinalEvents(s) \in Seq(FeedEvents)
    BY <1>2, <1>7, <1>8
<1>10. ASSUME NEW r \in S PROVE \E i \in DOMAIN FinalEvents(s) : FinalEvents(s)[i].run = r
    BY <1>2, <1>6, <1>7
<1>11. \A i, j \in DOMAIN FinalEvents(s) :
          FinalEvents(s)[i].run = FinalEvents(s)[j].run => i = j
    BY <1>2, <1>6, <1>7
<1> QED
    BY <1>4, <1>7, <1>9, <1>10, <1>11

LEMMA PublishIs ==
    ASSUME NEW r \in Runs, NEW n \in Nat, NEW b \in BOOLEAN
    PROVE  /\ <<Event(r, n, b)>> \in Seq(FeedEvents)
           /\ Publish(r, n, b) = IF Heard(r) THEN <<Event(r, n, b)>> ELSE <<>>
           /\ Publish(r, n, b) \in Seq(FeedEvents)
BY FeedEventKinds DEF Publish

\* What is finalized of a Session.
LEMMA FinalizedIs ==
    ASSUME FeedData, NEW s \in Sessions
    PROVE  /\ Finalized(s) \in [Runs -> [seq : Nat, end : Nat]]
           /\ \A r \in Runs :
                 /\ r \in Of(s) /\ Orphan(r) =>
                        Finalized(s)[r].seq = log[r].seq + 1 /\ Finalized(s)[r].end = log[r].seq + 1
                 /\ ~(r \in Of(s) /\ Orphan(r)) => Finalized(s)[r] = log[r]
<1>1. \A r \in Runs : Finalized(s)[r] = IF r \in Of(s) /\ Orphan(r) THEN Ended(log[r]) ELSE log[r]
    BY DEF Finalized
<1>2. Finalized(s) = [r \in Runs |-> Finalized(s)[r]]
    BY DEF Finalized
<1>3. \A r \in Runs : Finalized(s)[r] \in [seq : Nat, end : Nat]
    BY <1>1, LogIs
<1>4. Finalized(s) \in [Runs -> [seq : Nat, end : Nat]]
    BY <1>2, <1>3
<1>5. \A r \in Runs : Ended(log[r]).seq = log[r].seq + 1 /\ Ended(log[r]).end = log[r].seq + 1
    BY DEF Ended
<1> QED
    BY <1>1, <1>4, <1>5

-----------------------------------------------------------------------------
(* The steps that add to the log or to the queue, and leave the Desktop's  *)
(* own state alone.                                                        *)

Early == {"listing", "retiring", "subscribing", "replaying"}

\* The next event of some Runs, one of each, to who is there.
Published(evs) ==
    /\ evs \in Seq(FeedEvents)
    /\ \A i \in DOMAIN evs : /\ Present(evs[i].run) /\ evs[i].seq = log[evs[i].run].seq + 1
                             /\ phase # "down"
                             /\ phase \in Early => SessionOf[evs[i].run] \in subs
                             /\ \A r \in Runs : evs[i].run = r =>
                                   /\ Present(r)' => Tuned(r)'
                                   /\ Orphan(r) \/ Present(r)'
    /\ \A i, j \in DOMAIN evs : evs[i].run = evs[j].run => i = j

\* The page of deleted Sessions that comes next.
ListsNext(m) ==
    /\ m.found = {s \in retired : s > listed /\ \A t \in retired : t > listed => s <= t}
    /\ m.more <=> {s \in retired : s > listed} # m.found

\* A page of the replay of a Run, and where it goes on.
IsPage(m, r, from, l) ==
    /\ m.run = r /\ \A e \in m.events : e.run = r /\ e.seq <= l.seq
    /\ \E upto \in Nat :
          /\ Seqs(m.events, r) = (from + 1)..upto
          /\ upto <= l.seq /\ (m.more => upto > from) /\ (~m.more => upto = l.seq)
Continues(r, from) ==
    \/ paging = NoPage /\ r \in DOMAIN cursor \ replayed /\ from = cursor[r].seq
    \/ paging = [run |-> r, from |-> from]
Replies(m, r, from) ==
    m.run = r /\ Present(r) /\ retired' = retired /\ r \in replayed' /\ IsPage(m, r, from, log'[r])
    /\ Continues(r, from)

\* An answer, or the news that a Session was deleted.
Reply(m) ==
    /\ m \in FeedFrames /\ m.kind # "event" /\ phase # "down"
    /\ m.kind \in Answers => phase = "active" \/ Idle
    /\ m.kind = "listed" => phase = "listing" /\ ListsNext(m)
    /\ m.kind = "page" => /\ phase = "replaying" /\ paging' = NoPage
                          /\ \E r \in Runs, from \in Nat : Replies(m, r, from)
    /\ m.kind = "accepted" => /\ phase \in {"resending", "active"}
                              /\ phase = "resending" => m.run \in unbound
                              /\ m.seq = log'[m.run].seq /\ m.seq > 0 /\ Present(m.run)
                              /\ \A r \in Runs : r = m.run => Present(r)'
                              /\ ~m.over => /\ log'[m.run].end = 0
                                              /\ \A r \in Runs : r = m.run => Tuned(r)'
Replied(rep) == rep = <<>> \/ \E m \in FeedFrames : rep = <<m>> /\ Reply(m)

\* What becomes of the log of a Run.
SameLog(r) == log'[r] = log[r]
MoreLog(r) ==
    /\ log'[r].seq = log[r].seq + 1
    /\ \/ log[r].end # 0 /\ log'[r].end = log[r].end /\ log[r].seq = log[r].end
       \/ log[r].end = 0 /\ log'[r].end = 0
       \/ log[r].end = 0 /\ log'[r].end = log'[r].seq

Growth(evs, rep) ==
    /\ Published(evs) /\ Replied(rep)
    /\ toClient' = toClient \o (evs \o rep)
    /\ \A r \in Runs : Present(r)' =>
          /\ Tuned(r) => Tuned(r)'
          /\ \/ SameLog(r) /\ \A i \in DOMAIN evs : evs[i].run # r
             \/ MoreLog(r) /\ (log[r].end = 0 /\ Tuned(r) => \E i \in DOMAIN evs : evs[i].run = r)

\* What these steps leave alone, and what may change beside the log and the queue.
StaysPut ==
    /\ UNCHANGED <<phase, provisional, cursor, unbound, retirement, asking, announced, shown, listed,
                   sent>>
    /\ retired \subseteq retired' /\ toServer' \subseteq toServer /\ todo' \subseteq todo
    /\ subs' \subseteq subs \/ phase = "subscribing"
    /\ subs \subseteq subs' \union retired'
    /\ route' \subseteq route \/ phase \in {"resending", "active"}
    /\ replayed' = replayed \/ (phase = "replaying" /\ replayed \subseteq replayed')
    /\ paging' = paging \/ paging' = NoPage

Grows == StaysPut /\ \E evs, rep : Growth(evs, rep)
NewList == \E m \in FeedFrames : toClient' = Append(toClient, m) /\ m.kind = "listed"

\* What an outsider reads of a Run.
LEMMA PresentStays == ASSUME NEW r, retired' = retired PROVE Present(r)' <=> Present(r)
BY DEF Present

LEMMA RunGrows ==
    ASSUME FeedData, LogInv, NEW r \in Runs, Present(r), retired' = retired,
           \/ /\ log' = [log EXCEPT ![r] = Grown(log[r])] /\ executing' = executing
              /\ r \in executing \/ (log[r].end # 0 /\ log[r].seq = log[r].end)
           \/ /\ log' = [log EXCEPT ![r] = Ended(log[r])] /\ log[r].end = 0 /\ log[r].seq > 0
              /\ executing' = executing \ {r}
    PROVE  /\ log' \in [Runs -> [seq : Nat, end : Nat]] /\ LogInv'
           /\ \A q \in Runs \ {r} : SameLog(q)
           /\ MoreLog(r) /\ log'[r].seq = log[r].seq + 1
           /\ log' = [log EXCEPT ![r] = Ended(log[r])] => log'[r].end # 0
<1>1. /\ log \in [Runs -> [seq : Nat, end : Nat]] /\ log[r].seq \in Nat /\ log[r].end \in Nat
      /\ executing \subseteq Runs
    BY LogIs DEF FeedData
<1>2. PICK v \in [seq : Nat, end : Nat] :
          /\ log' = [log EXCEPT ![r] = v] /\ v.seq = log[r].seq + 1
          /\ \/ /\ v.end = log[r].end /\ executing' = executing
                /\ r \in executing \/ (log[r].end # 0 /\ log[r].seq = log[r].end)
             \/ /\ v.end = log[r].seq + 1 /\ log[r].end = 0 /\ log[r].seq > 0
                /\ executing' = executing \ {r}
  <2>1. CASE log' = [log EXCEPT ![r] = Grown(log[r])] /\ executing' = executing
             /\ (r \in executing \/ (log[r].end # 0 /\ log[r].seq = log[r].end))
    <3> DEFINE v == Grown(log[r])
    <3>1. v \in [seq : Nat, end : Nat] /\ v.seq = log[r].seq + 1 /\ v.end = log[r].end
        BY <1>1, LogIs
    <3> HIDE DEF v
    <3> QED
        BY <2>1, <3>1 DEF v
  <2>2. CASE /\ log' = [log EXCEPT ![r] = Ended(log[r])] /\ log[r].end = 0 /\ log[r].seq > 0
             /\ executing' = executing \ {r}
    <3> DEFINE v == Ended(log[r])
    <3>1. v \in [seq : Nat, end : Nat] /\ v.seq = log[r].seq + 1 /\ v.end = log[r].seq + 1
        BY <1>1, LogIs
    <3> HIDE DEF v
    <3> QED
        BY <2>2, <3>1 DEF v
  <2> QED
    BY <2>1, <2>2
<1>3. log' \in [Runs -> [seq : Nat, end : Nat]] /\ log'[r] = v /\ \A q \in Runs \ {r} : log'[q] = log[q]
    BY <1>1, <1>2
<1>4. r \in executing => log[r].end = 0 /\ log[r].seq > 0
    BY DEF LogInv
<1>5. MoreLog(r)
    BY <1>1, <1>2, <1>3, <1>4 DEF MoreLog
<1>6. LogInv'
  <2>1. ASSUME NEW q \in Runs, log'[q].end # 0
        PROVE  log'[q].seq = log'[q].end \/ log'[q].seq = log'[q].end + 1
    <3>1. CASE q = r
        BY <1>1, <1>2, <1>3, <1>4, <2>1, <3>1
    <3>2. CASE q # r
        BY <1>3, <2>1, <3>2 DEF LogInv
    <3> QED
        BY <3>1, <3>2
  <2>2. ASSUME NEW q \in executing' PROVE Present(q)' /\ log'[q].end = 0 /\ log'[q].seq > 0
    <3>1. q \in executing /\ q \in Runs /\ Present(q) /\ log[q].end = 0 /\ log[q].seq > 0
        BY <1>1, <1>2, <2>2 DEF LogInv
    <3>2. Present(q)'
        BY <3>1 DEF Present
    <3>3. CASE q = r
        BY <1>1, <1>2, <1>3, <2>2, <3>1, <3>2, <3>3
    <3>4. CASE q # r
        BY <1>3, <3>1, <3>2, <3>4
    <3> QED
        BY <3>3, <3>4
  <2>3. ASSUME NEW q \in Runs, ~Present(q)' PROVE log'[q].seq = 0 /\ log'[q].end = 0
    <3>1. ~Present(q) /\ q # r
        BY <2>3 DEF Present
    <3> QED
        BY <1>3, <3>1 DEF LogInv
  <2> QED
    BY <2>1, <2>2, <2>3 DEF LogInv
<1>7. \A q \in Runs \ {r} : SameLog(q)
    BY <1>3 DEF SameLog
<1>8. log' = [log EXCEPT ![r] = Ended(log[r])] => log'[r].end # 0
  <2>1. ASSUME log' = [log EXCEPT ![r] = Ended(log[r])] PROVE log'[r].end # 0
    <3>1. Ended(log[r]).end = log[r].seq + 1 /\ log'[r] = Ended(log[r])
        BY <1>1, <2>1, LogIs
    <3> QED
        BY <1>1, <3>1
  <2> QED
    BY <2>1
<1> QED
    BY <1>2, <1>3, <1>5, <1>6, <1>7, <1>8

\* The types after such a step.
ServerData ==
    /\ log \in [Runs -> [seq : Nat, end : Nat]]
    /\ executing \in SUBSET Runs /\ retired \in SUBSET Sessions
    /\ route \in SUBSET Runs /\ subs \in SUBSET Sessions
    /\ replayed \in SUBSET Runs

LEMMA GrowthQueue ==
    ASSUME FeedData, NEW evs, NEW rep, Growth(evs, rep)
    PROVE  /\ evs \o rep \in Seq(FeedFrames) /\ rep \in Seq(FeedFrames)
           /\ evs \in Seq(FeedFrames) /\ evs \in Seq(FeedEvents) /\ toClient' \in Seq(FeedFrames)
           /\ DOMAIN rep \subseteq {1} /\ \A i \in DOMAIN rep : rep[i] \in FeedFrames /\ Reply(rep[i])
<1>1. evs \in Seq(FeedEvents) /\ FeedEvents \subseteq FeedFrames
    BY FeedKinds DEF Growth, Published
<1>2. evs \in Seq(FeedFrames)
    BY <1>1
<1>3. /\ rep \in Seq(FeedFrames)
      /\ DOMAIN rep \subseteq {1} /\ \A i \in DOMAIN rep : rep[i] \in FeedFrames /\ Reply(rep[i])
  <2>1. CASE rep = <<>>
    BY <2>1
  <2>2. CASE \E m \in FeedFrames : rep = <<m>> /\ Reply(m)
    <3>1. PICK m \in FeedFrames : rep = <<m>> /\ Reply(m)
        BY <2>2
    <3>2. <<m>> \in Seq(FeedFrames) /\ DOMAIN <<m>> = {1} /\ <<m>>[1] = m
        OBVIOUS
    <3> QED
        BY <3>1, <3>2
  <2> QED
    BY <2>1, <2>2 DEF Growth, Replied
<1>4. evs \o rep \in Seq(FeedFrames)
    BY <1>2, <1>3, ConcatProperties
<1>5. toClient \in Seq(FeedFrames) /\ toClient' = toClient \o (evs \o rep)
    BY DEF FeedData, Growth
<1>6. toClient' \in Seq(FeedFrames)
    BY <1>4, <1>5, ConcatProperties
<1> QED
    BY <1>1, <1>2, <1>3, <1>4, <1>6

LEMMA GrowsData ==
    ASSUME FeedData, Grows, ServerData'
    PROVE  FeedData'
<1>1. PICK evs, rep : Growth(evs, rep)
    BY DEF Grows
<1>2. toClient' \in Seq(FeedFrames)
    BY <1>1, GrowthQueue
<1>3. StaysPut
    BY DEF Grows
<1>4. toServer' \in SUBSET Runs /\ paging' \in [run : Runs \union {0}, from : Nat]
  <2>1. NoPage \in [run : Runs \union {0}, from : Nat]
    BY DEF NoPage
  <2>2. toServer' \subseteq toServer /\ paging' \in {paging, NoPage}
    BY <1>3 DEF StaysPut
  <2>3. toServer \in SUBSET Runs /\ paging \in [run : Runs \union {0}, from : Nat]
    BY DEF FeedData
  <2> QED
    BY <2>1, <2>2, <2>3
<1>5. UNCHANGED <<phase, provisional, unbound, retirement, asking, announced, listed, sent>>
    BY <1>3 DEF StaysPut
<1>6. /\ phase' = phase /\ provisional' = provisional /\ unbound' = unbound /\ sent' = sent
      /\ retirement' = retirement /\ asking' = asking /\ announced' = announced /\ listed' = listed
    BY <1>5
<1>7. /\ phase' \in Phases /\ provisional' \in SUBSET FeedEvents /\ unbound' \in SUBSET Runs
      /\ sent' \in SUBSET Runs /\ listed' \in Nat
    BY <1>6 DEF FeedData
<1>8. /\ retirement' \in [Sessions -> {"none", "pending", "final"}]
      /\ asking' \in Sessions \union {Nobody} /\ announced' \in Seq(Sessions)
    BY <1>6 DEF FeedData
<1> QED
    BY <1>2, <1>4, <1>7, <1>8 DEF FeedData, ServerData

LEMMA DataServer == FeedData => ServerData
BY DEF FeedData, ServerData

\* What is published to nobody else, and what is not published.
LEMMA NoEvents ==
    ASSUME FeedData
    PROVE  Published(<<>>) /\ DOMAIN <<>> = {} /\ toClient \o (<<>> \o <<>>) = toClient
BY ConcatEmptySeq DEF Published, FeedData

\* Nobody hears of a Run while the Desktop is down.
Deaf == phase = "down" => route = {} /\ subs = {}
Unbound == phase \in Early => route = {}

LEMMA HeardThen ==
    ASSUME Deaf, Unbound, NEW r \in Runs, Heard(r)
    PROVE  phase # "down" /\ (phase \in Early => SessionOf[r] \in subs)
BY DEF Deaf, Unbound, Heard

LEMMA OneEvent ==
    ASSUME FeedData, NEW r \in Runs, NEW b \in BOOLEAN, Present(r),
           phase # "down", phase \in Early => SessionOf[r] \in subs, Present(r)' /\ Tuned(r)'
    PROVE  /\ Published(<<Event(r, log[r].seq + 1, b)>>)
           /\ DOMAIN <<Event(r, log[r].seq + 1, b)>> = {1}
           /\ <<Event(r, log[r].seq + 1, b)>>[1].run = r
<1> DEFINE e == Event(r, log[r].seq + 1, b)
<1>0. PICK n \in Nat : n = log[r].seq + 1
    BY LogIs
<1>1. e \in FeedEvents /\ e.run = r /\ e.seq = log[r].seq + 1
    BY <1>0, FeedEventKinds
<1> HIDE DEF e
<1>2. <<e>> \in Seq(FeedEvents) /\ DOMAIN <<e>> = {1} /\ <<e>>[1] = e
    BY <1>1
<1>3. Published(<<e>>)
  <2> DEFINE evs == <<e>>
  <2>1. /\ evs \in Seq(FeedEvents)
        /\ \A i \in DOMAIN evs : i = 1 /\ evs[i].run = r /\ evs[i].seq = log[r].seq + 1
    BY <1>1, <1>2
  <2> HIDE DEF evs
  <2>2. Published(evs)
    BY <2>1 DEF Published
  <2> QED
    BY <2>2 DEF evs
<1> QED
    BY <1>1, <1>2, <1>3 DEF e

-----------------------------------------------------------------------------
(* The steps of the server.                                                *)

\* What is empty in which phase.
Quiet ==
    /\ phase = "down" => /\ toClient = <<>> /\ subs = {} /\ asking = Nobody /\ listed = 0 /\ todo = {}
    /\ phase \in {"listing", "retiring"} => subs = {}
    /\ phase \in Early \union {"down"} => route = {}
    /\ phase # "active" => toServer = {} /\ announced = <<>>
    /\ phase \in {"active", "down"} => provisional = {}
    /\ replayed # {} \/ paging # NoPage => phase = "replaying"
    /\ announced # <<>> => asking # Nobody

LEMMA QuietIs == Quiet => Deaf /\ Unbound
BY DEF Quiet, Deaf, Unbound

LEMMA StaysPutIs ==
    ASSUME UNCHANGED <<recovery, client, renderer, sent>>
    PROVE  /\ UNCHANGED <<phase, provisional, cursor, unbound, retirement, asking, announced, shown,
                          listed, sent>>
           /\ todo' = todo /\ replayed' = replayed /\ paging' = paging
BY DEF recovery, client, renderer

\* The steps about one Run.
LEMMA GrowingRun ==
    ASSUME FeedData, LogInv, Quiet, NEW r \in Runs,
           RunGoesOn(r) \/ RunEnds(r) \/ OutcomeComesLate(r) \/ ForeignCancel(r)
    PROVE  ServerData' /\ LogInv' /\ Grows
<1>0. ServerData /\ Deaf /\ Unbound /\ toClient \in Seq(FeedFrames)
    BY DataServer, QuietIs DEF FeedData
<1>1. /\ log \in [Runs -> [seq : Nat, end : Nat]] /\ log[r].seq \in Nat /\ log[r].end \in Nat
      /\ executing \subseteq Runs
    BY LogIs DEF FeedData
<1>2. /\ UNCHANGED <<retired, subs, toServer, phase, provisional, cursor, unbound, retirement,
                     asking, announced, shown, listed, sent, todo, replayed, paging>>
      /\ route' \in {route, route \ {r}}
      /\ \E b \in BOOLEAN : toClient' = toClient \o Publish(r, log[r].seq + 1, b)
      /\ executing' = executing \/ (executing' = executing \ {r} /\ RunEnds(r))
    <2>1. UNCHANGED <<recovery, client, renderer, sent, retired, subs, toServer>>
        BY DEF RunGoesOn, RunEnds, OutcomeComesLate, ForeignCancel, hub, budget
    <2>2. /\ route' \in {route, route \ {r}}
          /\ \/ toClient' = toClient \o Publish(r, log[r].seq + 1, TRUE)
             \/ toClient' = toClient \o Publish(r, log[r].seq + 1, FALSE)
          /\ executing' = executing \/ (executing' = executing \ {r} /\ RunEnds(r))
        BY DEF RunGoesOn, RunEnds, OutcomeComesLate, ForeignCancel, hub
    <2> QED
        BY <2>1, <2>2, StaysPutIs
<1>3. /\ Present(r)
      /\ \/ /\ log' = [log EXCEPT ![r] = Grown(log[r])] /\ executing' = executing
            /\ r \in executing \/ (log[r].end # 0 /\ log[r].seq = log[r].end)
            /\ route' = route
         \/ /\ log' = [log EXCEPT ![r] = Ended(log[r])] /\ log[r].end = 0 /\ log[r].seq > 0
            /\ executing' = executing \ {r}
  <2>1. CASE RunGoesOn(r)
    BY <2>1, <1>1 DEF RunGoesOn, LogInv, hub
  <2>2. CASE RunEnds(r)
    BY <2>2, <1>1 DEF RunEnds, LogInv
  <2>3. CASE OutcomeComesLate(r)
    BY <2>3, <1>1 DEF OutcomeComesLate, Present, hub
  <2>4. CASE ForeignCancel(r)
    <3>1. log' = [log EXCEPT ![r] = Ended(log[r])] /\ executing' = executing /\ Orphan(r)
        BY <2>4, <1>1 DEF ForeignCancel
    <3>2. Present(r) /\ log[r].end = 0 /\ log[r].seq > 0 /\ executing \ {r} = executing
        BY <1>1, <3>1 DEF Orphan, LogInv
    <3> QED
        BY <3>1, <3>2
  <2> QED
    BY <2>1, <2>2, <2>3, <2>4
<1>4. /\ log' \in [Runs -> [seq : Nat, end : Nat]] /\ LogInv'
      /\ \A q \in Runs \ {r} : SameLog(q)
      /\ MoreLog(r) /\ log'[r].seq = log[r].seq + 1
      /\ log' = [log EXCEPT ![r] = Ended(log[r])] => log'[r].end # 0
    BY <1>2, <1>3, RunGrows
<1>5. ServerData'
  <2>1. executing' \in SUBSET Runs /\ route' \in SUBSET Runs
    BY <1>0, <1>2 DEF ServerData
  <2> QED
    BY <1>0, <1>2, <1>4, <2>1 DEF ServerData
<1>6. Tuned(r) \/ Heard(r) => Tuned(r)'
  <2>1. CASE log' = [log EXCEPT ![r] = Ended(log[r])]
    BY <1>4, <2>1 DEF Tuned
  <2>2. CASE log[r].end # 0
    BY <1>1, <1>4, <2>2 DEF Tuned, MoreLog
  <2>3. CASE log[r].end = 0 /\ r \in executing /\ executing' = executing /\ route' = route
    BY <1>2, <2>3 DEF Tuned, Heard
  <2> QED
    BY <1>3, <2>1, <2>2, <2>3
<1>7. \A q \in Runs \ {r} : Tuned(q) => Tuned(q)'
  <2>1. ASSUME NEW q \in Runs \ {r}, Tuned(q) PROVE Tuned(q)'
    <3>1. log'[q] = log[q] /\ (q \in executing => q \in executing') /\ (Heard(q) => Heard(q)')
        BY <1>2, <1>4 DEF SameLog, Heard
    <3> QED
        BY <2>1, <3>1 DEF Tuned
  <2> QED
    BY <2>1
<1>8. PICK evs : /\ Published(evs) /\ toClient' = toClient \o evs
                 /\ \A i \in DOMAIN evs : evs[i].run = r
                 /\ Heard(r) => \E i \in DOMAIN evs : evs[i].run = r
  <2>1. PICK b \in BOOLEAN : toClient' = toClient \o Publish(r, log[r].seq + 1, b)
    BY <1>2
  <2>2. CASE Heard(r)
    <3>1. toClient' = toClient \o <<Event(r, log[r].seq + 1, b)>>
        BY <2>1, <2>2 DEF Publish
    <3>2. /\ Published(<<Event(r, log[r].seq + 1, b)>>)
          /\ DOMAIN <<Event(r, log[r].seq + 1, b)>> = {1}
          /\ <<Event(r, log[r].seq + 1, b)>>[1].run = r
        BY <1>0, <1>2, <1>3, <1>6, <2>2, HeardThen, OneEvent, PresentStays
    <3> HIDE DEF Published
    <3> QED
        BY <3>1, <3>2
  <2>3. CASE ~Heard(r)
    <3>1. toClient' = toClient \o <<>>
        BY <2>1, <2>3 DEF Publish
    <3> QED
        BY <2>3, <3>1, NoEvents
  <2> QED
    BY <2>2, <2>3
<1>9. toClient' = toClient \o (evs \o <<>>)
  <2>1. evs \in Seq(FeedEvents)
    BY <1>8 DEF Published
  <2> QED
    BY <1>8, <2>1, ConcatEmptySeq
<1>10. Growth(evs, <<>>)
  <2>1. ASSUME NEW q \in Runs, Present(q)'
        PROVE  /\ Tuned(q) => Tuned(q)'
               /\ \/ SameLog(q) /\ \A i \in DOMAIN evs : evs[i].run # q
                  \/ MoreLog(q) /\ (log[q].end = 0 /\ Tuned(q) => \E i \in DOMAIN evs : evs[i].run = q)
    <3>1. CASE q # r
        BY <1>4, <1>7, <1>8, <3>1
    <3>2. CASE q = r
      <4>1. ASSUME Tuned(r), log[r].end = 0, ~Heard(r) PROVE FALSE
        BY <4>1 DEF Tuned
      <4> QED
        BY <1>4, <1>6, <1>8, <3>2, <4>1
    <3> QED
        BY <3>1, <3>2
  <2> QED
    BY <1>8, <1>9, <2>1 DEF Growth, Replied
<1>11. StaysPut
    BY <1>2 DEF StaysPut
<1> QED
    BY <1>4, <1>5, <1>10, <1>11 DEF Grows

\* A new Run, and the end of what a restart left of its Session.
LEMMA StartedIs ==
    ASSUME FeedData, LogInv, NEW r \in Runs, log[r].seq = 0, Present(r), retired' = retired,
           log' = [Finalized(SessionOf[r]) EXCEPT ![r] = Grown(@)], executing' = executing \union {r}
    PROVE  /\ log' \in [Runs -> [seq : Nat, end : Nat]] /\ LogInv'
           /\ log'[r].seq = 1 /\ log[r].end = 0 /\ log'[r].end = 0 /\ MoreLog(r) /\ ~Orphan(r)
           /\ \A q \in Runs \ {r} : SameLog(q) \/ (MoreLog(q) /\ Orphan(q))
           /\ \A q \in Of(SessionOf[r]) : Orphan(q) => log'[q].end # 0 /\ MoreLog(q)
<1> DEFINE F == Finalized(SessionOf[r])
<1>1. /\ log[r].seq \in Nat /\ log[r].end \in Nat /\ SessionOf[r] \in Sessions
      /\ executing \subseteq Runs
    BY LogIs DEF FeedData
<1>2. log[r].end = 0 /\ ~Orphan(r)
    BY <1>1 DEF LogInv, Orphan
<1>3. /\ F \in [Runs -> [seq : Nat, end : Nat]]
      /\ \A q \in Runs :
            /\ q \in Of(SessionOf[r]) /\ Orphan(q) =>
                   F[q].seq = log[q].seq + 1 /\ F[q].end = log[q].seq + 1
            /\ ~(q \in Of(SessionOf[r]) /\ Orphan(q)) => F[q] = log[q]
    BY <1>1, FinalizedIs
<1>4. log' = [F EXCEPT ![r] = Grown(F[r])]
    BY <1>3
<1> HIDE DEF F
<1>5. F[r] = log[r] /\ Grown(F[r]) = [seq |-> 1, end |-> 0]
  <2>1. F[r] = log[r]
    BY <1>2, <1>3
  <2>2. Grown(log[r]) = [seq |-> log[r].seq + 1, end |-> log[r].end]
    BY LogIs
  <2>3. log[r].seq + 1 = 1
    OBVIOUS
  <2> QED
    BY <1>2, <2>1, <2>2, <2>3
<1>6. /\ log' \in [Runs -> [seq : Nat, end : Nat]] /\ log'[r] = [seq |-> 1, end |-> 0]
      /\ \A q \in Runs \ {r} : log'[q] = F[q]
  <2>1. [seq |-> 1, end |-> 0] \in [seq : Nat, end : Nat]
    OBVIOUS
  <2> QED
    BY <1>3, <1>4, <1>5, <2>1
<1>7. log'[r].seq = 1 /\ log'[r].end = 0
    BY <1>6
<1>8. MoreLog(r)
    BY <1>2, <1>7 DEF MoreLog
<1>9. ASSUME NEW q \in Runs, q \in Of(SessionOf[r]), Orphan(q)
      PROVE  /\ log'[q].end # 0 /\ log'[q].seq = log'[q].end /\ MoreLog(q) /\ q # r
             /\ q \notin executing
  <2>1. q # r /\ log[q].seq \in Nat /\ log[q].end = 0 /\ q \notin executing
    BY <1>2, <1>9, LogIs DEF Orphan
  <2>2. log'[q].seq = log[q].seq + 1 /\ log'[q].end = log[q].seq + 1
    BY <1>3, <1>6, <1>9, <2>1
  <2> QED
    BY <2>1, <2>2 DEF MoreLog
<1>10. ASSUME NEW q \in Runs \ {r}, ~(q \in Of(SessionOf[r]) /\ Orphan(q)) PROVE log'[q] = log[q]
    BY <1>3, <1>6, <1>10
<1>11. LogInv'
  <2>1. ASSUME NEW q \in Runs, log'[q].end # 0
        PROVE  log'[q].seq = log'[q].end \/ log'[q].seq = log'[q].end + 1
    <3>1. CASE q = r
        BY <1>7, <2>1, <3>1
    <3>2. CASE q # r /\ q \in Of(SessionOf[r]) /\ Orphan(q)
        BY <1>9, <3>2
    <3>3. CASE q # r /\ ~(q \in Of(SessionOf[r]) /\ Orphan(q))
        BY <1>10, <2>1, <3>3 DEF LogInv
    <3> QED
        BY <3>1, <3>2, <3>3
  <2>2. ASSUME NEW q \in executing' PROVE Present(q)' /\ log'[q].end = 0 /\ log'[q].seq > 0
    <3>1. CASE q = r
      <4>1. Present(r)'
        BY DEF Present
      <4> QED
        BY <1>7, <3>1, <4>1
    <3>2. CASE q # r
      <4>1. q \in executing /\ q \in Runs /\ Present(q) /\ log[q].end = 0 /\ log[q].seq > 0
        BY <1>1, <2>2, <3>2 DEF LogInv
      <4>2. Present(q)'
        BY <4>1 DEF Present
      <4>3. log'[q] = log[q]
        BY <1>9, <1>10, <3>2, <4>1
      <4> QED
        BY <4>1, <4>2, <4>3
    <3> QED
        BY <3>1, <3>2
  <2>3. ASSUME NEW q \in Runs, ~Present(q)' PROVE log'[q].seq = 0 /\ log'[q].end = 0
    <3>1. ~Present(q) /\ q # r /\ q \notin Of(SessionOf[r])
        BY <2>3 DEF Present, Of
    <3> QED
        BY <1>10, <3>1 DEF LogInv
  <2> QED
    BY <2>1, <2>2, <2>3 DEF LogInv
<1>12. \A q \in Runs \ {r} : SameLog(q) \/ (MoreLog(q) /\ Orphan(q))
    BY <1>9, <1>10 DEF SameLog
<1>13. \A q \in Of(SessionOf[r]) : Orphan(q) => log'[q].end # 0 /\ MoreLog(q)
  <2>1. Of(SessionOf[r]) \subseteq Runs
    BY DEF Of
  <2> QED
    BY <1>9, <2>1
<1> QED
    BY <1>2, <1>6, <1>7, <1>8, <1>11, <1>12, <1>13

LEMMA FinalPublished ==
    ASSUME FeedData, LogInv, Quiet, NEW s \in Sessions, s \notin retired,
           s \notin retired' => \A q \in Of(s) : Orphan(q) => log'[q].end # 0
    PROVE  /\ Published(FinalEvents(s))
           /\ \A i \in DOMAIN FinalEvents(s) :
                 /\ FinalEvents(s)[i].run \in Of(s) /\ Orphan(FinalEvents(s)[i].run)
           /\ \A q \in Of(s) : Orphan(q) /\ Heard(q) =>
                 \E i \in DOMAIN FinalEvents(s) : FinalEvents(s)[i].run = q
<1> DEFINE evs == FinalEvents(s)
<1>2. /\ evs \in Seq(FeedEvents)
      /\ \A i \in DOMAIN evs :
            \E r \in Of(s) : Orphan(r) /\ Heard(r) /\ evs[i] = Event(r, log[r].seq + 1, TRUE)
      /\ \A r \in Of(s) : Orphan(r) /\ Heard(r) => \E i \in DOMAIN evs : evs[i].run = r
      /\ \A i, j \in DOMAIN evs : evs[i].run = evs[j].run => i = j
    BY FinalEventsAre
<1> HIDE DEF evs
<1>3. ASSUME NEW i \in DOMAIN evs
      PROVE  /\ evs[i].run \in Of(s) /\ Orphan(evs[i].run)
             /\ Present(evs[i].run) /\ evs[i].seq = log[evs[i].run].seq + 1
             /\ phase # "down"
             /\ phase \in Early => SessionOf[evs[i].run] \in subs
             /\ \A r \in Runs : evs[i].run = r =>
                    (Present(r)' => Tuned(r)') /\ (Orphan(r) \/ Present(r)')
  <2>1. PICK r \in Of(s) : Orphan(r) /\ Heard(r) /\ evs[i] = Event(r, log[r].seq + 1, TRUE)
    BY <1>2
  <2>2. r \in Runs /\ SessionOf[r] = s /\ Present(r)
    BY <2>1 DEF Of, Present
  <2>3. evs[i].run = r /\ evs[i].seq = log[r].seq + 1
    BY <2>1 DEF Event
  <2>4. phase # "down" /\ (phase \in Early => SessionOf[r] \in subs)
    BY <2>1, <2>2, QuietIs, HeardThen
  <2>5. ASSUME Present(r)' PROVE Tuned(r)'
    <3>1. s \notin retired'
        BY <2>2, <2>5 DEF Present
    <3>2. log'[r].end # 0
        BY <2>1, <3>1
    <3> QED
        BY <3>2 DEF Tuned
  <2> QED
    BY <2>1, <2>2, <2>3, <2>4, <2>5
<1>4. Published(evs)
    BY <1>2, <1>3 DEF Published
<1> QED
    BY <1>2, <1>3, <1>4 DEF evs

\* The first event of a Run behind the last ones of what a restart left.
Begins(r, evs) ==
    /\ Published(evs)
    /\ \A i \in DOMAIN evs : evs[i].run = r \/ (evs[i].run \in Of(SessionOf[r]) /\ Orphan(evs[i].run))
    /\ \E i \in DOMAIN evs : evs[i].run = r
    /\ \A q \in Of(SessionOf[r]) : Orphan(q) /\ Heard(q) => \E i \in DOMAIN evs : evs[i].run = q

LEMMA StartPublished ==
    ASSUME FeedData, LogInv, Quiet, NEW r \in Runs, log[r].seq = 0, Present(r), retired' = retired,
           phase # "down", phase \in Early => SessionOf[r] \in subs, Tuned(r)',
           \A q \in Of(SessionOf[r]) : Orphan(q) => log'[q].end # 0,
           NEW evs, evs = FinalEvents(SessionOf[r]) \o <<Event(r, 1, FALSE)>>
    PROVE  Begins(r, evs)
<1> DEFINE fin == FinalEvents(SessionOf[r])
           e == Event(r, 1, FALSE)
<1>1. /\ Published(fin)
      /\ \A i \in DOMAIN fin : fin[i].run \in Of(SessionOf[r]) /\ Orphan(fin[i].run)
      /\ \A q \in Of(SessionOf[r]) : Orphan(q) /\ Heard(q) => \E i \in DOMAIN fin : fin[i].run = q
  <2>1. PICK s \in Sessions : s = SessionOf[r] /\ s \notin retired
    BY LogIs DEF Present
  <2>2. /\ Published(FinalEvents(s))
        /\ \A i \in DOMAIN FinalEvents(s) :
              /\ FinalEvents(s)[i].run \in Of(s) /\ Orphan(FinalEvents(s)[i].run)
        /\ \A q \in Of(s) : Orphan(q) /\ Heard(q) =>
              \E i \in DOMAIN FinalEvents(s) : FinalEvents(s)[i].run = q
    BY <2>1, FinalPublished
  <2> QED
    BY <2>1, <2>2
<1>2. e \in FeedEvents /\ e.run = r /\ e.seq = log[r].seq + 1
  <2>1. 1 \in Nat /\ log[r].seq + 1 = 1
    OBVIOUS
  <2> QED
    BY <2>1, EventMade
<1>3. evs = fin \o <<e>>
    OBVIOUS
<1>4. ~Orphan(r)
    BY DEF Orphan
<1> HIDE DEF fin, e
<1>5. fin \in Seq(FeedEvents) /\ <<e>> \in Seq(FeedEvents) /\ DOMAIN <<e>> = {1} /\ <<e>>[1] = e
    BY <1>1, <1>2 DEF Published
<1>6. /\ evs \in Seq(FeedEvents)
      /\ \A i \in DOMAIN fin : i \in DOMAIN evs /\ evs[i] = fin[i]
      /\ \A i \in DOMAIN evs : \/ i \in DOMAIN fin /\ evs[i] = fin[i]
                               \/ i = Len(fin) + 1 /\ evs[i] = e
      /\ Len(fin) + 1 \in DOMAIN evs /\ evs[Len(fin) + 1] = e
  <2> DEFINE p == <<e>>
  <2>1. p \in Seq(FeedEvents) /\ DOMAIN p = {1} /\ p[1] = e /\ evs = fin \o p
    BY <1>3, <1>5
  <2> HIDE DEF p
  <2>2. /\ evs \in Seq(FeedEvents)
        /\ \A i \in DOMAIN fin : i \in DOMAIN evs /\ evs[i] = fin[i]
        /\ \A i \in DOMAIN evs : \/ i \in DOMAIN fin /\ evs[i] = fin[i]
                                 \/ \E j \in DOMAIN p : i = Len(fin) + j /\ evs[i] = p[j]
        /\ \A j \in DOMAIN p : Len(fin) + j \in DOMAIN evs /\ evs[Len(fin) + j] = p[j]
    <3>1. evs \in Seq(FeedEvents) /\ IsConcat(fin, p, evs)
        BY <1>5, <2>1, Queued
    <3> QED
        BY <3>1 DEF IsConcat
  <2> QED
    BY <2>1, <2>2
<1>7. ASSUME NEW i \in DOMAIN evs
      PROVE  /\ Present(evs[i].run) /\ evs[i].seq = log[evs[i].run].seq + 1
             /\ phase # "down"
             /\ phase \in Early => SessionOf[evs[i].run] \in subs
             /\ \A q \in Runs : evs[i].run = q =>
                    (Present(q)' => Tuned(q)') /\ (Orphan(q) \/ Present(q)')
  <2>1. CASE i \in DOMAIN fin /\ evs[i] = fin[i]
    BY <1>1, <2>1 DEF Published
  <2>2. CASE i = Len(fin) + 1 /\ evs[i] = e
    <3>1. Present(r)'
        BY PresentStays
    <3> QED
        BY <1>2, <2>2, <3>1
  <2> QED
    BY <1>6, <2>1, <2>2
<1>8. ASSUME NEW i \in DOMAIN evs, NEW j \in DOMAIN evs, evs[i].run = evs[j].run PROVE i = j
  <2>1. CASE i \in DOMAIN fin /\ j \in DOMAIN fin
    BY <1>1, <1>6, <1>8, <2>1 DEF Published
  <2>2. CASE i \notin DOMAIN fin /\ j \notin DOMAIN fin
    BY <1>6, <2>2
  <2>3. CASE i \in DOMAIN fin /\ j \notin DOMAIN fin
    <3>1. evs[i] = fin[i] /\ evs[j] = e
        BY <1>6, <2>3
    <3> QED
        BY <1>1, <1>2, <1>4, <1>8, <2>3, <3>1
  <2>4. CASE i \notin DOMAIN fin /\ j \in DOMAIN fin
    <3>1. evs[j] = fin[j] /\ evs[i] = e
        BY <1>6, <2>4
    <3> QED
        BY <1>1, <1>2, <1>4, <1>8, <2>4, <3>1
  <2> QED
    BY <2>1, <2>2, <2>3, <2>4
<1>9. Published(evs)
    BY <1>6, <1>7, <1>8 DEF Published
<1>10. \A i \in DOMAIN evs : evs[i].run = r \/ (evs[i].run \in Of(SessionOf[r]) /\ Orphan(evs[i].run))
  <2>1. ASSUME NEW i \in DOMAIN evs
        PROVE  evs[i].run = r \/ (evs[i].run \in Of(SessionOf[r]) /\ Orphan(evs[i].run))
    <3>1. CASE i \in DOMAIN fin /\ evs[i] = fin[i]
        BY <1>1, <3>1
    <3>2. CASE evs[i] = e
        BY <1>2, <3>2
    <3> QED
        BY <1>6, <3>1, <3>2
  <2> QED
    BY <2>1
<1>11. \E i \in DOMAIN evs : evs[i].run = r
    BY <1>2, <1>6
<1>12. ASSUME NEW q \in Of(SessionOf[r]), Orphan(q) /\ Heard(q)
       PROVE  \E i \in DOMAIN evs : evs[i].run = q
  <2>1. PICK i \in DOMAIN fin : fin[i].run = q
    BY <1>1, <1>12
  <2> QED
    BY <1>6, <2>1
<1> QED
    BY <1>9, <1>10, <1>11, <1>12 DEF Begins

\* Orphans are not tuned to; what is tuned to stays so when only orphans end.
LEMMA OrphanUntuned == ASSUME NEW r \in Runs, Orphan(r) PROVE ~Tuned(r)
BY DEF Orphan, Tuned

\* Another client starts a Run.
LEMMA GrowingSend ==
    ASSUME FeedData, LogInv, Quiet, NEW r \in Runs, ForeignSend(r)
    PROVE  ServerData' /\ LogInv' /\ Grows
<1>0. ServerData /\ Deaf /\ Unbound /\ toClient \in Seq(FeedFrames)
    BY DataServer, QuietIs DEF FeedData
<1>1. /\ log[r].seq = 0 /\ Present(r) /\ ~Busy(SessionOf[r])
      /\ log' = [Finalized(SessionOf[r]) EXCEPT ![r] = Grown(@)]
      /\ executing' = executing \union {r}
      /\ toClient' = toClient \o FinalEvents(SessionOf[r]) \o Publish(r, 1, FALSE)
      /\ UNCHANGED <<retired, hub, toServer, recovery, client, renderer, budget>>
    BY DEF ForeignSend, Present
<1>2. /\ UNCHANGED <<retired, subs, route, toServer, phase, provisional, cursor, unbound, retirement,
                     asking, announced, shown, listed, sent, todo, replayed, paging>>
  <2>1. UNCHANGED <<recovery, client, renderer, sent, retired, subs, route, toServer>>
    BY <1>1 DEF hub, budget
  <2> QED
    BY <2>1, StaysPutIs
<1>3. /\ log' \in [Runs -> [seq : Nat, end : Nat]] /\ LogInv'
      /\ log'[r].seq = 1 /\ log[r].end = 0 /\ log'[r].end = 0 /\ MoreLog(r) /\ ~Orphan(r)
      /\ \A q \in Runs \ {r} : SameLog(q) \/ (MoreLog(q) /\ Orphan(q))
      /\ \A q \in Of(SessionOf[r]) : Orphan(q) => log'[q].end # 0 /\ MoreLog(q)
    BY <1>1, StartedIs
<1>4. ServerData'
    BY <1>0, <1>1, <1>2, <1>3 DEF ServerData
<1>5. \A q \in Runs : Heard(q)' <=> Heard(q)
    BY <1>2 DEF Heard
<1>6. \A q \in Runs : Tuned(q) => Tuned(q)' /\ q # r /\ SameLog(q)
  <2>1. ASSUME NEW q \in Runs, Tuned(q) PROVE Tuned(q)' /\ q # r /\ SameLog(q)
    <3>1. q # r
        BY <1>1, <1>3, <2>1 DEF Tuned, LogInv
    <3>2. SameLog(q)
        BY <1>3, <2>1, <3>1, OrphanUntuned
    <3>3. log'[q] = log[q]
        BY <3>2 DEF SameLog
    <3> QED
        BY <1>1, <1>5, <2>1, <3>1, <3>2, <3>3 DEF Tuned
  <2> QED
    BY <2>1
<1>7. Heard(r) => Tuned(r)'
    BY <1>1, <1>5 DEF Tuned
<1>8. PICK evs : /\ Published(evs) /\ toClient' = toClient \o evs
                 /\ \A i \in DOMAIN evs : \/ evs[i].run = r
                                          \/ evs[i].run \in Of(SessionOf[r]) /\ Orphan(evs[i].run)
  <2>1. CASE Heard(r)
    <3>1. PICK evs : evs = FinalEvents(SessionOf[r]) \o <<Event(r, 1, FALSE)>>
        OBVIOUS
    <3>2. /\ Published(evs)
          /\ \A i \in DOMAIN evs : \/ evs[i].run = r
                                   \/ evs[i].run \in Of(SessionOf[r]) /\ Orphan(evs[i].run)
      <4>1. phase # "down" /\ (phase \in Early => SessionOf[r] \in subs) /\ Tuned(r)'
        BY <1>0, <1>7, <2>1, HeardThen
      <4>2. /\ retired' = retired /\ log[r].seq = 0 /\ Present(r)
            /\ \A q \in Of(SessionOf[r]) : Orphan(q) => log'[q].end # 0
        BY <1>1, <1>2, <1>3
      <4>3. Begins(r, evs)
        BY <3>1, <4>1, <4>2, StartPublished
      <4> QED
        BY <4>3 DEF Begins
    <3>3. /\ FinalEvents(SessionOf[r]) \in Seq(FeedFrames) /\ <<Event(r, 1, FALSE)>> \in Seq(FeedFrames)
      <4>1. FinalEvents(SessionOf[r]) \in Seq(FeedEvents) /\ FeedEvents \subseteq FeedFrames
        BY LogIs, FinalEventsAre, FeedKinds
      <4>2. Event(r, 1, FALSE) \in FeedEvents
        BY EventMade
      <4>3. PICK q \in Seq(FeedEvents), e \in FeedEvents :
                q = FinalEvents(SessionOf[r]) /\ e = Event(r, 1, FALSE)
        BY <4>1, <4>2
      <4>4. q \in Seq(FeedFrames) /\ <<e>> \in Seq(FeedFrames)
        BY <4>1
      <4> QED
        BY <4>3, <4>4
    <3>4. Publish(r, 1, FALSE) = <<Event(r, 1, FALSE)>>
        BY <2>1 DEF Publish
    <3>5. toClient' = toClient \o evs
      <4>1. (toClient \o FinalEvents(SessionOf[r])) \o <<Event(r, 1, FALSE)>>
                = toClient \o (FinalEvents(SessionOf[r]) \o <<Event(r, 1, FALSE)>>)
        BY <1>0, <3>3, ConcatAssociative
      <4> QED
        BY <1>1, <3>1, <3>4, <4>1
    <3> QED
        BY <3>2, <3>5
  <2>2. CASE ~Heard(r)
    <3>1. PICK evs : evs = FinalEvents(SessionOf[r])
        OBVIOUS
    <3>2. /\ Published(evs)
          /\ \A i \in DOMAIN evs : evs[i].run \in Of(SessionOf[r]) /\ Orphan(evs[i].run)
      <4>1. SessionOf[r] \in Sessions /\ SessionOf[r] \notin retired
        BY <1>1, LogIs DEF Present
      <4> QED
        BY <1>3, <3>1, <4>1, FinalPublished
    <3>3. toClient' = toClient \o evs \o <<>>
        BY <1>1, <2>2, <3>1 DEF Publish
    <3>4. toClient \o evs \in Seq(FeedFrames)
      <4>1. evs \in Seq(FeedEvents) /\ FeedEvents \subseteq FeedFrames
        BY <3>2, FeedKinds DEF Published
      <4>2. evs \in Seq(FeedFrames)
        BY <4>1
      <4> QED
        BY <1>0, <4>2, ConcatProperties
    <3>5. toClient' = toClient \o evs
        BY <3>3, <3>4, ConcatEmptySeq
    <3> QED
        BY <3>2, <3>5
  <2> QED
    BY <2>1, <2>2
<1>9. toClient' = toClient \o (evs \o <<>>)
  <2>1. evs \in Seq(FeedEvents)
    BY <1>8 DEF Published
  <2> QED
    BY <1>8, <2>1, ConcatEmptySeq
<1>10. Growth(evs, <<>>)
  <2>1. ASSUME NEW q \in Runs, Present(q)'
        PROVE  /\ Tuned(q) => Tuned(q)'
               /\ \/ SameLog(q) /\ \A i \in DOMAIN evs : evs[i].run # q
                  \/ MoreLog(q) /\ (log[q].end = 0 /\ Tuned(q) => \E i \in DOMAIN evs : evs[i].run = q)
    <3>1. CASE q = r
        BY <1>3, <1>6, <3>1
    <3>2. CASE q # r /\ MoreLog(q)
        BY <1>3, <1>6, <3>2 DEF SameLog, MoreLog
    <3>3. CASE q # r /\ ~MoreLog(q)
      <4>1. SameLog(q) /\ ~(q \in Of(SessionOf[r]) /\ Orphan(q))
        BY <1>3, <3>3
      <4> QED
        BY <1>6, <1>8, <3>3, <4>1
    <3> QED
        BY <3>1, <3>2, <3>3
  <2> QED
    BY <1>8, <1>9, <2>1 DEF Growth, Replied
<1>11. StaysPut
    BY <1>2 DEF StaysPut
<1> QED
    BY <1>3, <1>4, <1>10, <1>11 DEF Grows

\* An answer by itself.
LEMMA OnlyReply ==
    ASSUME FeedData, NEW m \in FeedFrames, Reply(m), toClient' = Append(toClient, m),
           log' = log, executing' = executing, \A q \in Runs : Heard(q) => Heard(q)'
    PROVE  Growth(<<>>, <<m>>)
<1>1. toClient' = toClient \o (<<>> \o <<m>>)
  <2>1. toClient \in Seq(FeedFrames) /\ <<m>> \in Seq(FeedFrames)
    BY DEF FeedData
  <2>2. <<>> \o <<m>> = <<m>> /\ Append(toClient, m) = toClient \o <<m>>
    BY <2>1, ConcatEmptySeq, QueuedOne
  <2> QED
    BY <2>2
<1>2. \A q \in Runs : SameLog(q)
    BY DEF SameLog
<1>3. ASSUME NEW q \in Runs, Tuned(q) PROVE Tuned(q)'
    BY <1>3 DEF Tuned
<1> QED
    BY <1>1, <1>2, <1>3, NoEvents DEF Growth, Replied

LEMMA FinalLog ==
    ASSUME FeedData, LogInv, NEW s \in Sessions, s \notin retired, retired' = retired,
           executing' = executing, log' = Finalized(s)
    PROVE  /\ log' \in [Runs -> [seq : Nat, end : Nat]] /\ LogInv'
           /\ \A q \in Runs : SameLog(q) \/ (MoreLog(q) /\ Orphan(q))
           /\ \A q \in Of(s) : Orphan(q) => log'[q].end # 0 /\ MoreLog(q)
<1>1. /\ log' \in [Runs -> [seq : Nat, end : Nat]]
      /\ \A q \in Runs :
            /\ q \in Of(s) /\ Orphan(q) =>
                   log'[q].seq = log[q].seq + 1 /\ log'[q].end = log[q].seq + 1
            /\ ~(q \in Of(s) /\ Orphan(q)) => log'[q] = log[q]
    BY FinalizedIs
<1>2. ASSUME NEW q \in Runs, q \in Of(s), Orphan(q)
      PROVE  /\ log'[q].end # 0 /\ log'[q].seq = log'[q].end /\ MoreLog(q)
             /\ q \notin executing
  <2>1. log[q].seq \in Nat /\ log[q].end = 0 /\ q \notin executing
    BY <1>2, LogIs DEF Orphan
  <2>2. log'[q].seq = log[q].seq + 1 /\ log'[q].end = log[q].seq + 1
    BY <1>1, <1>2
  <2> QED
    BY <2>1, <2>2 DEF MoreLog
<1>3. ASSUME NEW q \in Runs, ~(q \in Of(s) /\ Orphan(q)) PROVE log'[q] = log[q]
    BY <1>1, <1>3
<1>4. LogInv'
  <2>1. ASSUME NEW q \in Runs, log'[q].end # 0
        PROVE  log'[q].seq = log'[q].end \/ log'[q].seq = log'[q].end + 1
    <3>1. CASE q \in Of(s) /\ Orphan(q)
        BY <1>2, <3>1
    <3>2. CASE ~(q \in Of(s) /\ Orphan(q))
        BY <1>3, <2>1, <3>2 DEF LogInv
    <3> QED
        BY <3>1, <3>2
  <2>2. ASSUME NEW q \in executing' PROVE Present(q)' /\ log'[q].end = 0 /\ log'[q].seq > 0
    <3>1. q \in executing /\ q \in Runs /\ Present(q) /\ log[q].end = 0 /\ log[q].seq > 0
        BY <2>2 DEF LogInv, FeedData
    <3>2. Present(q)'
        BY <3>1 DEF Present
    <3>3. log'[q] = log[q]
        BY <1>2, <1>3, <3>1
    <3> QED
        BY <3>1, <3>2, <3>3
  <2>3. ASSUME NEW q \in Runs, ~Present(q)' PROVE log'[q].seq = 0 /\ log'[q].end = 0
    <3>1. ~Present(q) /\ q \notin Of(s)
        BY <2>3 DEF Present, Of
    <3> QED
        BY <1>3, <3>1 DEF LogInv
  <2> QED
    BY <2>1, <2>2, <2>3 DEF LogInv
<1>5. \A q \in Runs : SameLog(q) \/ (MoreLog(q) /\ Orphan(q))
    BY <1>2, <1>3 DEF SameLog
<1>6. \A q \in Of(s) : Orphan(q) => log'[q].end # 0 /\ MoreLog(q)
  <2>1. Of(s) \subseteq Runs
    BY DEF Of
  <2> QED
    BY <1>2, <2>1
<1> QED
    BY <1>1, <1>4, <1>5, <1>6

\* Orphans that end without anybody hearing of it.
LEMMA SilentGrowth ==
    ASSUME FeedData, LogInv, executing' = executing, UNCHANGED hub, NEW rep, Replied(rep),
           toClient' = toClient \o (<<>> \o rep),
           \A q \in Runs : SameLog(q) \/ (MoreLog(q) /\ Orphan(q))
    PROVE  Growth(<<>>, rep)
<1>1. ASSUME NEW q \in Runs, Tuned(q) PROVE SameLog(q) /\ Tuned(q)'
  <2>1. SameLog(q)
    BY <1>1, OrphanUntuned
  <2>2. log'[q] = log[q] /\ (Heard(q) => Heard(q)')
    BY <2>1 DEF SameLog, Heard, hub
  <2> QED
    BY <1>1, <2>1, <2>2 DEF Tuned
<1>2. ASSUME NEW q \in Runs
      PROVE  SameLog(q) \/ (MoreLog(q) /\ ~Tuned(q))
    BY OrphanUntuned
<1> QED
    BY <1>1, <1>2, NoEvents DEF Growth

LEMMA GrowingRead ==
    ASSUME FeedData, LogInv, NEW s \in Sessions, ForeignRead(s)
    PROVE  ServerData' /\ LogInv' /\ Grows
<1>1. /\ log' = Finalized(s) /\ executing' = executing /\ UNCHANGED hub /\ toClient' = toClient
      /\ UNCHANGED <<recovery, client, renderer, sent, retired, subs, route, toServer>>
    BY DEF ForeignRead, hub, channel, budget
<1>2. s \notin retired
  <2>1. PICK r \in Of(s) : Orphan(r)
    BY DEF ForeignRead
  <2>2. log[r].seq > 0 /\ r \in Runs /\ SessionOf[r] = s
    BY <2>1 DEF Orphan, Of
  <2> QED
    BY <2>2 DEF LogInv, Present
<1>3. /\ log' \in [Runs -> [seq : Nat, end : Nat]] /\ LogInv'
      /\ \A q \in Runs : SameLog(q) \/ (MoreLog(q) /\ Orphan(q))
    BY <1>1, <1>2, FinalLog
<1>4. toClient' = toClient \o (<<>> \o <<>>) /\ Replied(<<>>)
    BY <1>1, NoEvents DEF Replied
<1>5. Growth(<<>>, <<>>)
    BY <1>1, <1>3, <1>4, SilentGrowth
<1>6. StaysPut
    BY <1>1, StaysPutIs DEF StaysPut
<1>7. ServerData'
  <2>1. ServerData /\ replayed' = replayed
    BY <1>1, DataServer, StaysPutIs
  <2> QED
    BY <1>1, <1>3, <2>1 DEF ServerData
<1> QED
    BY <1>3, <1>5, <1>6, <1>7 DEF Grows

\* A Session is deleted.
LEMMA GrowingDelete ==
    ASSUME FeedData, LogInv, Quiet, NEW s \in Sessions, Delete(s)
    PROVE  /\ ServerData' /\ LogInv' /\ StaysPut /\ retired' = retired \union {s}
           /\ \E evs : /\ Growth(evs, <<Retired(s)>>) \/ (phase = "down" /\ Growth(evs, <<>>))
<1>1. /\ s \notin retired /\ ~Busy(s) /\ retired' = retired \union {s}
      /\ log' = [r \in Runs |-> IF r \in Of(s) THEN [seq |-> 0, end |-> 0] ELSE log[r]]
      /\ subs' = subs \ {s} /\ executing' = executing /\ route' = route
      /\ toClient' = toClient \o FinalEvents(s) \o (IF phase = "down" THEN <<>> ELSE <<Retired(s)>>)
      /\ UNCHANGED <<recovery, client, renderer, sent, toServer>>
    BY DEF Delete, budget
<1>2. /\ UNCHANGED <<phase, provisional, cursor, unbound, retirement, asking, announced, shown,
                     listed, sent, todo, replayed, paging>>
    BY <1>1, StaysPutIs
<1>3. /\ log' \in [Runs -> [seq : Nat, end : Nat]]
      /\ \A q \in Of(s) : log'[q].seq = 0 /\ log'[q].end = 0
      /\ \A q \in Runs \ Of(s) : log'[q] = log[q]
  <2>1. [seq |-> 0, end |-> 0] \in [seq : Nat, end : Nat] /\ Of(s) \subseteq Runs
    BY DEF Of
  <2>2. \A q \in Runs : log[q] \in [seq : Nat, end : Nat]
    BY LogIs
  <2> QED
    BY <1>1, <2>1, <2>2
<1>4. executing \subseteq Runs /\ executing \cap Of(s) = {}
    BY <1>1 DEF FeedData, Busy
<1>5. \A q \in Runs : Present(q)' <=> (Present(q) /\ q \notin Of(s))
    BY <1>1 DEF Present, Of
<1>6. LogInv'
  <2>1. ASSUME NEW q \in Runs, log'[q].end # 0
        PROVE  log'[q].seq = log'[q].end \/ log'[q].seq = log'[q].end + 1
    <3>1. log'[q] = log[q]
        BY <1>3, <2>1
    <3> QED
        BY <2>1, <3>1 DEF LogInv
  <2>2. ASSUME NEW q \in executing' PROVE Present(q)' /\ log'[q].end = 0 /\ log'[q].seq > 0
    <3>1. q \in executing /\ q \in Runs \ Of(s)
        BY <1>1, <1>4, <2>2
    <3>2. Present(q) /\ log[q].end = 0 /\ log[q].seq > 0
        BY <3>1 DEF LogInv
    <3>3. Present(q)' /\ log'[q] = log[q]
        BY <1>3, <1>5, <3>1, <3>2
    <3> QED
        BY <3>2, <3>3
  <2>3. ASSUME NEW q \in Runs, ~Present(q)' PROVE log'[q].seq = 0 /\ log'[q].end = 0
    BY <1>3, <1>5, <2>3 DEF LogInv
  <2> QED
    BY <2>1, <2>2, <2>3 DEF LogInv
<1>7. ServerData'
  <2>1. ServerData /\ retired' \in SUBSET Sessions /\ subs' \in SUBSET Sessions
    BY <1>1, DataServer DEF ServerData
  <2> QED
    BY <1>1, <1>2, <1>3, <2>1 DEF ServerData
<1>8. StaysPut
    BY <1>1, <1>2 DEF StaysPut
<1>9. PICK evs : /\ evs = FinalEvents(s) /\ Published(evs)
                 /\ \A i \in DOMAIN evs : evs[i].run \in Of(s)
    BY <1>1, FinalPublished
<1>10. ASSUME NEW q \in Runs, Present(q)'
       PROVE  /\ Tuned(q) => Tuned(q)'
              /\ SameLog(q) /\ \A i \in DOMAIN evs : evs[i].run # q
  <2>0. q \notin Of(s) /\ (SessionOf[q] = s => q \in Of(s))
    BY <1>5, <1>10 DEF Of
  <2>1. q \notin Of(s) /\ SessionOf[q] # s /\ log'[q] = log[q]
    BY <1>3, <2>0
  <2>2. Heard(q) => Heard(q)'
    BY <1>1, <2>1 DEF Heard
  <2>3. Tuned(q) => Tuned(q)'
    BY <1>1, <2>1, <2>2 DEF Tuned
  <2> QED
    BY <1>9, <2>1, <2>3 DEF SameLog
<1>11. evs \in Seq(FeedFrames) /\ toClient \in Seq(FeedFrames)
  <2>1. evs \in Seq(FeedEvents) /\ FeedEvents \subseteq FeedFrames
    BY <1>9, FeedKinds DEF Published
  <2> QED
    BY <2>1 DEF FeedData
<1>12. CASE phase = "down"
  <2>1. toClient' = toClient \o evs \o <<>>
    BY <1>1, <1>9, <1>12
  <2>2. toClient' = toClient \o (evs \o <<>>)
    BY <1>11, <2>1, ConcatEmptySeq, ConcatProperties
  <2>3. Growth(evs, <<>>)
    BY <1>9, <1>10, <2>2 DEF Growth, Replied
  <2> QED
    BY <1>1, <1>6, <1>7, <1>8, <1>12, <2>3
<1>13. CASE phase # "down"
  <2>1. toClient' = toClient \o evs \o <<Retired(s)>>
    BY <1>1, <1>9, <1>13
  <2>2. /\ Retired(s) \in FeedFrames /\ Retired(s).kind = "retired"
        /\ <<Retired(s)>> \in Seq(FeedFrames)
    BY FeedKinds DEF Retired
  <2>3. toClient' = toClient \o (evs \o <<Retired(s)>>)
    BY <1>11, <2>1, <2>2, ConcatAssociative
  <2>4. Reply(Retired(s))
    BY <1>13, <2>2 DEF Reply, Answers
  <2>5. Growth(evs, <<Retired(s)>>)
    BY <1>9, <1>10, <2>2, <2>3, <2>4 DEF Growth, Replied
  <2> QED
    BY <1>1, <1>6, <1>7, <1>8, <2>5
<1> QED
    BY <1>12, <1>13

\* A send for a Run that exists.
LEMMA GrowingKnown ==
    ASSUME FeedData, LogInv, Quiet, NEW r \in Runs, SendKnown(r), retired' = retired, subs' = subs,
           phase = "active" \/ (phase = "resending" /\ Idle /\ r \in unbound)
    PROVE  /\ log' \in [Runs -> [seq : Nat, end : Nat]] /\ LogInv' /\ executing' = executing
           /\ route' \in SUBSET Runs /\ \E evs, rep : Growth(evs, rep)
<1>1. /\ Present(r) /\ log[r].seq > 0 /\ executing' = executing
      /\ log' = IF Orphan(r) THEN [log EXCEPT ![r] = Ended(@)] ELSE log
      /\ route' = IF log'[r].end = 0 THEN route \union {r} ELSE route \ {r}
      /\ toClient' = toClient
            \o (IF Orphan(r) THEN <<Event(r, log'[r].seq, TRUE)>> ELSE <<>>)
            \o <<Accepted(r, log'[r].seq, log'[r].end # 0)>>
    BY DEF SendKnown, Present
<1>2. /\ log \in [Runs -> [seq : Nat, end : Nat]] /\ log[r].seq \in Nat /\ log[r].end \in Nat
      /\ executing \subseteq Runs /\ route \subseteq Runs /\ toClient \in Seq(FeedFrames)
    BY LogIs DEF FeedData
<1>3. /\ log' \in [Runs -> [seq : Nat, end : Nat]] /\ LogInv'
      /\ \A q \in Runs \ {r} : SameLog(q)
      /\ Orphan(r) => /\ MoreLog(r) /\ log'[r].seq = log[r].seq + 1 /\ log'[r].end # 0
      /\ ~Orphan(r) => log' = log
  <2>1. CASE Orphan(r)
    <3>1. log' = [log EXCEPT ![r] = Ended(log[r])] /\ log[r].end = 0 /\ log[r].seq > 0
        BY <1>1, <2>1 DEF Orphan
    <3>2. executing' = executing \ {r}
        BY <1>1, <2>1 DEF Orphan
    <3> QED
        BY <1>1, <2>1, <3>1, <3>2, RunGrows
  <2>2. CASE ~Orphan(r)
    <3>1. log' = log
        BY <1>1, <2>2
    <3>2. LogInv'
        BY <1>1, <3>1 DEF LogInv, Present
    <3> QED
        BY <1>2, <2>2, <3>1, <3>2 DEF SameLog
  <2> QED
    BY <2>1, <2>2
<1>4. log'[r].seq \in Nat /\ log'[r].seq > 0 /\ log'[r].end \in Nat
    BY <1>1, <1>2, <1>3
<1>5. \A q \in Runs \ {r} : (Heard(q) => Heard(q)') /\ (Tuned(q) => Tuned(q)')
  <2>1. ASSUME NEW q \in Runs \ {r} PROVE (Heard(q) => Heard(q)') /\ (Tuned(q) => Tuned(q)')
    <3>1. Heard(q) => Heard(q)'
        BY <1>1 DEF Heard
    <3>2. log'[q] = log[q]
        BY <1>3 DEF SameLog
    <3> QED
        BY <1>1, <3>1, <3>2 DEF Tuned
  <2> QED
    BY <2>1
<1>6. Tuned(r)'
  <2>1. CASE log'[r].end # 0
    BY <2>1 DEF Tuned
  <2>2. CASE log'[r].end = 0
    <3>1. r \in executing /\ r \in route'
        BY <1>1, <1>3, <2>2 DEF Orphan
    <3> QED
        BY <1>1, <3>1 DEF Tuned, Heard
  <2> QED
    BY <2>1, <2>2
<1>7. PICK m \in FeedFrames : /\ m = Accepted(r, log'[r].seq, log'[r].end # 0)
                              /\ m.kind = "accepted" /\ m.run = r /\ m.seq = log'[r].seq
                              /\ m.over <=> log'[r].end # 0
  <2> DEFINE m == Accepted(r, log'[r].seq, log'[r].end # 0)
  <2>1. PICK b \in BOOLEAN : b = (log'[r].end # 0)
    OBVIOUS
  <2>2. m = Accepted(r, log'[r].seq, b)
    BY <2>1
  <2>3. m \in FeedFrames
    BY <1>4, <2>2, FeedKinds
  <2>4. m.kind = "accepted" /\ m.run = r /\ m.seq = log'[r].seq /\ m.over = b
    BY <2>2 DEF Accepted
  <2> QED
    BY <2>1, <2>3, <2>4
<1>8. Reply(m)
  <2>1. m.kind = "accepted" /\ m.run = r
    BY <1>7
  <2>2. phase # "down" /\ phase \in {"resending", "active"} /\ (phase = "resending" => r \in unbound)
    OBVIOUS
  <2>3. m.seq = log'[r].seq /\ m.seq > 0 /\ Present(r)
    BY <1>1, <1>4, <1>7
  <2>4. ~m.over => log'[r].end = 0
    BY <1>7
  <2>5. Present(r)'
    BY <1>1, PresentStays
  <2> QED
    BY <1>6, <2>1, <2>2, <2>3, <2>4, <2>5 DEF Reply
<1>9. PICK evs : /\ Published(evs) /\ toClient' = toClient \o evs \o <<m>>
                 /\ \A i \in DOMAIN evs : evs[i].run = r /\ Orphan(r)
                 /\ Orphan(r) => \E i \in DOMAIN evs : evs[i].run = r
  <2>1. CASE Orphan(r)
    <3>1. /\ Published(<<Event(r, log[r].seq + 1, TRUE)>>)
          /\ DOMAIN <<Event(r, log[r].seq + 1, TRUE)>> = {1}
          /\ <<Event(r, log[r].seq + 1, TRUE)>>[1].run = r
      <4>1. PICK b \in BOOLEAN : b = TRUE
        OBVIOUS
      <4>2. phase # "down" /\ (phase \in Early => SessionOf[r] \in subs)
        BY DEF Early
      <4> QED
        BY <1>1, <1>6, <4>1, <4>2, OneEvent, PresentStays
    <3>2. toClient' = toClient \o <<Event(r, log[r].seq + 1, TRUE)>> \o <<m>>
        BY <1>1, <1>3, <1>7, <2>1
    <3> HIDE DEF Published
    <3> QED
        BY <2>1, <3>1, <3>2
  <2>2. CASE ~Orphan(r)
    <3>1. toClient' = toClient \o <<>> \o <<m>>
        BY <1>1, <1>7, <2>2
    <3> QED
        BY <2>2, <3>1, NoEvents
  <2> QED
    BY <2>1, <2>2
<1>10. toClient' = toClient \o (evs \o <<m>>)
  <2>1. evs \in Seq(FeedEvents) /\ FeedEvents \subseteq FeedFrames
    BY <1>9, FeedKinds DEF Published
  <2>2. evs \in Seq(FeedFrames) /\ <<m>> \in Seq(FeedFrames)
    BY <2>1
  <2> QED
    BY <1>2, <1>9, <2>2, ConcatAssociative
<1>11. Growth(evs, <<m>>)
  <2>1. ASSUME NEW q \in Runs
        PROVE  /\ Tuned(q) => Tuned(q)'
               /\ \/ SameLog(q) /\ \A i \in DOMAIN evs : evs[i].run # q
                  \/ MoreLog(q) /\ (log[q].end = 0 /\ Tuned(q) => \E i \in DOMAIN evs : evs[i].run = q)
    <3>1. CASE q # r
        BY <1>3, <1>5, <1>9, <3>1
    <3>2. CASE q = r /\ Orphan(r)
        BY <1>3, <1>6, <1>9, <3>2
    <3>3. CASE q = r /\ ~Orphan(r)
        BY <1>3, <1>6, <1>9, <3>3 DEF SameLog
    <3> QED
        BY <3>1, <3>2, <3>3
  <2> QED
    BY <1>8, <1>9, <1>10, <2>1 DEF Growth, Replied
<1>12. route' \in SUBSET Runs
    BY <1>1, <1>2
<1> QED
    BY <1>1, <1>3, <1>11, <1>12

\* A send for a new Run.
LEMMA GrowingNew ==
    ASSUME FeedData, LogInv, Quiet, NEW r \in Runs, SendNew(r), retired' = retired, subs' = subs,
           phase = "active" \/ (phase = "resending" /\ Idle /\ r \in unbound)
    PROVE  /\ log' \in [Runs -> [seq : Nat, end : Nat]] /\ LogInv' /\ executing' \in SUBSET Runs
           /\ route' \in SUBSET Runs /\ \E evs, rep : Growth(evs, rep)
<1>1. /\ log[r].seq = 0 /\ Present(r) /\ ~Busy(SessionOf[r])
      /\ log' = [Finalized(SessionOf[r]) EXCEPT ![r] = Grown(@)]
      /\ executing' = executing \union {r} /\ route' = route \union {r}
      /\ toClient' = toClient \o FinalEvents(SessionOf[r])
             \o <<Event(r, 1, FALSE), Accepted(r, 1, FALSE)>>
    BY DEF SendNew, Present
<1>2. executing' \in SUBSET Runs /\ route' \in SUBSET Runs /\ toClient \in Seq(FeedFrames)
    BY <1>1 DEF FeedData
<1>3. /\ log' \in [Runs -> [seq : Nat, end : Nat]] /\ LogInv'
      /\ log'[r].seq = 1 /\ log[r].end = 0 /\ log'[r].end = 0 /\ MoreLog(r) /\ ~Orphan(r)
      /\ \A q \in Runs \ {r} : SameLog(q) \/ (MoreLog(q) /\ Orphan(q))
      /\ \A q \in Of(SessionOf[r]) : Orphan(q) => log'[q].end # 0 /\ MoreLog(q)
    BY <1>1, StartedIs
<1>4. Tuned(r)'
    BY <1>1 DEF Tuned, Heard
<1>5. \A q \in Runs : Tuned(q) => Tuned(q)' /\ q # r /\ SameLog(q)
  <2>1. ASSUME NEW q \in Runs, Tuned(q) PROVE Tuned(q)' /\ q # r /\ SameLog(q)
    <3>1. q # r
        BY <1>1, <1>3, <2>1 DEF Tuned, LogInv
    <3>2. SameLog(q)
        BY <1>3, <2>1, <3>1, OrphanUntuned
    <3>3. log'[q] = log[q] /\ (Heard(q) => Heard(q)')
        BY <1>1, <3>2 DEF SameLog, Heard
    <3> QED
        BY <1>1, <2>1, <3>1, <3>2, <3>3 DEF Tuned
  <2> QED
    BY <2>1
<1>6. PICK evs : evs = FinalEvents(SessionOf[r]) \o <<Event(r, 1, FALSE)>>
    OBVIOUS
<1>7. Begins(r, evs)
  <2>1. phase # "down" /\ (phase \in Early => SessionOf[r] \in subs)
    BY DEF Early
  <2>2. \A q \in Of(SessionOf[r]) : Orphan(q) => log'[q].end # 0
    BY <1>3
  <2> QED
    BY <1>1, <1>4, <1>6, <2>1, <2>2, StartPublished
<1>8. PICK m \in FeedFrames : /\ m = Accepted(r, 1, FALSE)
                              /\ m.kind = "accepted" /\ m.run = r /\ m.seq = 1
  <2>1. PICK b \in BOOLEAN, n \in Nat : b = FALSE /\ n = 1
    OBVIOUS
  <2>2. Accepted(r, n, b) \in FeedFrames
    BY FeedKinds
  <2>3. /\ Accepted(r, n, b).kind = "accepted" /\ Accepted(r, n, b).run = r
        /\ Accepted(r, n, b).seq = n
    BY DEF Accepted
  <2> QED
    BY <2>1, <2>2, <2>3
<1>9. Reply(m)
  <2>1. phase # "down" /\ phase \in {"resending", "active"} /\ (phase = "resending" => r \in unbound)
    OBVIOUS
  <2>2. m.kind = "accepted" /\ m.run = r /\ m.seq = 1
    BY <1>8
  <2>3. log'[r].seq = 1 /\ log'[r].end = 0 /\ Present(r)
    BY <1>1, <1>3
  <2>4. m.seq = log'[r].seq /\ m.seq > 0
    BY <2>2, <2>3
  <2>5. Present(r)'
    BY <1>1, PresentStays
  <2> QED
    BY <1>4, <2>1, <2>2, <2>3, <2>4, <2>5 DEF Reply
<1>10. toClient' = toClient \o (evs \o <<m>>)
  <2> DEFINE F == FinalEvents(SessionOf[r])
             e == Event(r, 1, FALSE)
  <2>1. F \in Seq(FeedEvents) /\ FeedEvents \subseteq FeedFrames /\ e \in FeedEvents
    BY LogIs, FinalEventsAre, FeedKinds, EventMade
  <2>2. toClient' = toClient \o F \o <<e, m>> /\ evs = F \o <<e>>
    BY <1>1, <1>6, <1>8
  <2> HIDE DEF F, e
  <2>3. F \in Seq(FeedFrames) /\ <<e>> \in Seq(FeedFrames) /\ <<m>> \in Seq(FeedFrames)
        /\ <<e, m>> \in Seq(FeedFrames) /\ <<e, m>> = <<e>> \o <<m>>
    BY <2>1
  <2>4. toClient \o F \o <<e, m>> = toClient \o (F \o (<<e>> \o <<m>>))
    BY <1>2, <2>3, ConcatAssociative
  <2>5. F \o (<<e>> \o <<m>>) = (F \o <<e>>) \o <<m>>
    BY <2>3, ConcatAssociative
  <2> QED
    BY <2>2, <2>4, <2>5
<1>11. Growth(evs, <<m>>)
  <2>1. ASSUME NEW q \in Runs
        PROVE  /\ Tuned(q) => Tuned(q)'
               /\ \/ SameLog(q) /\ \A i \in DOMAIN evs : evs[i].run # q
                  \/ MoreLog(q) /\ (log[q].end = 0 /\ Tuned(q) => \E i \in DOMAIN evs : evs[i].run = q)
    <3>1. CASE q = r
        BY <1>3, <1>5, <3>1
    <3>2. CASE q # r /\ MoreLog(q)
        BY <1>3, <1>5, <3>2 DEF SameLog, MoreLog
    <3>3. CASE q # r /\ ~MoreLog(q)
      <4>1. SameLog(q) /\ ~(q \in Of(SessionOf[r]) /\ Orphan(q))
        BY <1>3, <3>3
      <4> QED
        BY <1>5, <1>7, <3>3, <4>1 DEF Begins
    <3> QED
        BY <3>1, <3>2, <3>3
  <2>2. Published(evs)
    BY <1>7 DEF Begins
  <2> QED
    BY <1>9, <1>10, <2>1, <2>2 DEF Growth, Replied
<1> QED
    BY <1>2, <1>3, <1>11

\* A send that fails.
LEMMA GrowingFailed ==
    ASSUME FeedData, LogInv, Quiet, NEW r \in Runs, SendFails(r), retired' = retired, subs' = subs,
           phase = "active" \/ (phase = "resending" /\ Idle /\ r \in unbound)
    PROVE  /\ log' = log /\ LogInv' /\ executing' = executing /\ route' = route
           /\ \E evs, rep : Growth(evs, rep)
<1>1. log' = log /\ executing' = executing /\ route' = route
    BY DEF SendFails
<1>2. PICK m \in FeedFrames : /\ m.kind \in {"missing", "failed", "refused", "denied"}
                              /\ toClient' = Append(toClient, m)
  <2>1. /\ SessionOf[r] \in Sessions
        /\ \/ toClient' = Append(toClient, Missing(SessionOf[r]))
           \/ toClient' = Append(toClient, Failed(r))
           \/ toClient' = Append(toClient, Refused(r))
           \/ toClient' = Append(toClient, Denied(r))
    BY LogIs DEF SendFails
  <2>2. /\ Missing(SessionOf[r]) \in FeedFrames /\ Failed(r) \in FeedFrames
        /\ Refused(r) \in FeedFrames /\ Denied(r) \in FeedFrames
        /\ Missing(SessionOf[r]).kind = "missing" /\ Failed(r).kind = "failed"
        /\ Refused(r).kind = "refused" /\ Denied(r).kind = "denied"
    BY <2>1, FeedKinds DEF Missing, Failed, Refused, Denied
  <2> QED
    BY <2>1, <2>2
<1>3. Reply(m)
    BY <1>2 DEF Reply
<1>4. Growth(<<>>, <<m>>)
  <2>1. \A q \in Runs : Heard(q) => Heard(q)'
    BY <1>1 DEF Heard
  <2> QED
    BY <1>1, <1>2, <1>3, <2>1, OnlyReply
<1>5. LogInv'
    BY <1>1 DEF LogInv, Present
<1> QED
    BY <1>1, <1>4, <1>5

LEMMA GrowingChat ==
    ASSUME FeedData, LogInv, Quiet, NEW r \in Runs, ChatSend(r), retired' = retired, subs' = subs,
           phase = "active" \/ (phase = "resending" /\ Idle /\ r \in unbound),
           replayed' = replayed
    PROVE  ServerData' /\ LogInv' /\ \E evs, rep : Growth(evs, rep)
<1>1. SendKnown(r) \/ SendNew(r) \/ SendFails(r)
    BY DEF ChatSend
<1>2. /\ log' \in [Runs -> [seq : Nat, end : Nat]] /\ LogInv' /\ executing' \in SUBSET Runs
      /\ route' \in SUBSET Runs /\ \E evs, rep : Growth(evs, rep)
  <2>1. executing \in SUBSET Runs /\ route \in SUBSET Runs /\ log \in [Runs -> [seq : Nat, end : Nat]]
    BY DEF FeedData
  <2>2. CASE SendKnown(r)
    BY <2>1, <2>2, GrowingKnown
  <2>3. CASE SendNew(r)
    BY <2>3, GrowingNew
  <2>4. CASE SendFails(r)
    BY <2>1, <2>4, GrowingFailed
  <2> QED
    BY <1>1, <2>2, <2>3, <2>4
<1>3. ServerData
    BY DataServer
<1> QED
    BY <1>2, <1>3 DEF ServerData

LEMMA GrowingSends ==
    ASSUME FeedData, LogInv, Quiet, NEW r \in Runs, SendArrives(r) \/ Resend(r)
    PROVE  ServerData' /\ LogInv' /\ Grows
<1>1. /\ ChatSend(r) /\ retired' = retired /\ subs' = subs /\ replayed' = replayed
      /\ phase = "active" \/ (phase = "resending" /\ Idle /\ r \in unbound)
      /\ StaysPut
  <2>1. CASE SendArrives(r)
    <3>1. /\ ChatSend(r) /\ toServer' = toServer \ {r} /\ toServer # {}
          /\ UNCHANGED <<retired, subs, recovery, client, renderer, sent>>
        BY <2>1 DEF SendArrives
    <3>2. phase = "active"
        BY <3>1 DEF Quiet
    <3>3. StaysPut
        BY <3>1, <3>2, StaysPutIs DEF StaysPut
    <3> QED
        BY <3>1, <3>2, <3>3, StaysPutIs
  <2>2. CASE Resend(r)
    <3>1. /\ ChatSend(r) /\ toServer' = toServer /\ phase = "resending" /\ Idle /\ r \in unbound
          /\ todo' = todo \ {r}
          /\ UNCHANGED <<retired, subs, phase, listed, replayed, paging, provisional, client,
                         renderer, sent>>
        BY <2>2 DEF Resend
    <3>2. StaysPut
        BY <3>1 DEF StaysPut, client, renderer
    <3> QED
        BY <3>1, <3>2
  <2> QED
    BY <2>1, <2>2
<1>2. ServerData' /\ LogInv' /\ \E evs, rep : Growth(evs, rep)
    BY <1>1, GrowingChat
<1> QED
    BY <1>1, <1>2 DEF Grows

\* The subscription of a Session.
LEMMA GrowingSubscribe ==
    ASSUME FeedData, LogInv, NEW s \in Sessions, Subscribe(s)
    PROVE  ServerData' /\ LogInv' /\ Grows
<1>1. /\ phase = "subscribing" /\ Idle /\ todo' = todo \ {s}
      /\ log' = log /\ executing' = executing /\ retired' = retired /\ route' = route
      /\ toServer' = toServer
      /\ UNCHANGED <<phase, listed, replayed, paging, provisional, client, renderer, sent>>
    BY DEF Subscribe, server, budget
<1>2. PICK m \in FeedFrames : /\ m.kind \in {"missing", "subscribed"}
                              /\ toClient' = Append(toClient, m)
                              /\ subs' \in {subs, subs \union {s}}
  <2>1. /\ Missing(s) \in FeedFrames /\ Subscribed \in FeedFrames
        /\ Missing(s).kind = "missing" /\ Subscribed.kind = "subscribed"
    BY FeedKinds DEF Missing, Subscribed
  <2> QED
    BY <2>1 DEF Subscribe
<1>3. Reply(m)
    BY <1>1, <1>2 DEF Reply
<1>4. Growth(<<>>, <<m>>)
  <2>1. \A q \in Runs : Heard(q) => Heard(q)'
    BY <1>1, <1>2 DEF Heard
  <2> QED
    BY <1>1, <1>2, <1>3, <2>1, OnlyReply
<1>5. LogInv'
    BY <1>1 DEF LogInv, Present
<1>6. StaysPut
    BY <1>1, <1>2 DEF StaysPut, client, renderer
<1>7. ServerData'
  <2>1. ServerData /\ subs' \in SUBSET Sessions
    BY <1>2, DataServer DEF ServerData
  <2> QED
    BY <1>1, <2>1 DEF ServerData
<1> QED
    BY <1>4, <1>5, <1>6, <1>7 DEF Grows

LEMMA LowestIs ==
    ASSUME NEW T \in SUBSET Nat, T # {}
    PROVE  \E n \in T : \A m \in T : ~(m < n)
<1>1. IsWellFoundedOn(OpToRel(<, Nat), Nat)
    BY Zenon, NatLessThanWellFounded
<1>2. \E n \in T : \A m \in T : <<m, n>> \notin OpToRel(<, Nat)
    BY Zenon, <1>1, WFMin
<1>3. ASSUME NEW m \in Nat, NEW n \in Nat, m < n
      PROVE  <<m, n>> \in OpToRel(<, Nat)
    BY Zenon, <1>3 DEF OpToRel
<1> QED
    BY Zenon, <1>2, <1>3

\* The list of deleted Sessions is asked for.
LEMMA GrowingList ==
    ASSUME FeedData, LogInv, List
    PROVE  ServerData' /\ LogInv' /\ Grows
<1> DEFINE rest  == {s \in retired : s > listed}
           found == {s \in rest : \A t \in rest : s <= t}
<1>1. /\ phase = "listing" /\ Idle /\ toClient' = Append(toClient, Listed(found, rest # found))
      /\ UNCHANGED <<server, hub, toServer, recovery, client, renderer, budget>>
    BY DEF List
<1>2. retired \subseteq Sessions /\ Sessions \subseteq Nat /\ listed \in Nat
    BY FeedAssumption DEF FeedData
<1>3. found \in {{}} \union {{s} : s \in Sessions} /\ (rest # found => found # {})
  <2>1. ASSUME NEW s \in found PROVE found = {s}
    <3>1. \A t \in found : t \in Nat /\ s <= t /\ t <= s
        BY <1>2, <2>1
    <3>2. \A t \in found : t = s
        BY <1>2, <2>1, <3>1
    <3> QED
        BY <2>1, <3>2
  <2>2. found \in {{}} \union {{s} : s \in Sessions}
    <3>1. CASE found = {}
        BY <3>1
    <3>2. CASE found # {}
      <4>1. PICK s \in found : TRUE
        BY <3>2
      <4>2. s \in Sessions /\ found = {s}
        BY <1>2, <2>1, <4>1
      <4> QED
        BY <4>2
    <3> QED
        BY <3>1, <3>2
  <2>3. ASSUME rest # {} PROVE found # {}
    <3>1. rest \subseteq Nat
        BY <1>2
    <3>2. PICK x \in rest : \A y \in rest : ~(y < x)
        BY <2>3, <3>1, LowestIs
    <3>3. \A y \in rest : x <= y
        BY <3>1, <3>2
    <3> QED
        BY <3>2, <3>3
  <2> QED
    BY <2>2, <2>3
<1>4. PICK m \in FeedFrames : /\ m = Listed(found, rest # found) /\ m.kind = "listed"
                              /\ m.found = found /\ (m.more <=> rest # found)
  <2>1. PICK b \in BOOLEAN : b = (rest # found)
    OBVIOUS
  <2>2. PICK f \in {{}} \union {{s} : s \in Sessions} : f = found
    BY <1>3
  <2>3. b => f # {}
    BY <1>3, <2>1, <2>2
  <2>4. Listed(found, rest # found) = Listed(f, b)
    BY <2>1, <2>2
  <2> HIDE DEF found, rest
  <2>5. Listed(f, b).kind = "listed" /\ Listed(f, b).found = f /\ Listed(f, b).more = b
    BY DEF Listed
  <2>6. Listed(f, b) \in FeedLists
    BY <2>3, <2>5 DEF FeedLists
  <2>7. Listed(f, b) \in FeedFrames
    BY <2>6, FeedKinds
  <2>8. PICK m \in FeedFrames : m = Listed(f, b)
    BY <2>7
  <2>9. m = Listed(found, rest # found) /\ m.kind = "listed" /\ m.found = found
    BY <2>2, <2>4, <2>5, <2>8
  <2>10. m.more <=> rest # found
    BY <2>1, <2>5, <2>8
  <2> QED
    BY <2>9, <2>10
<1>5. /\ log' = log /\ executing' = executing /\ retired' = retired /\ route' = route /\ subs' = subs
      /\ toServer' = toServer /\ sent' = sent
    BY <1>1 DEF server, hub, budget
<1>6. Reply(m)
  <2>1. found = {s \in retired : s > listed /\ \A t \in retired : t > listed => s <= t}
    OBVIOUS
  <2>2. rest = {s \in retired : s > listed}
    OBVIOUS
  <2> HIDE DEF found, rest
  <2>3. ListsNext(m)
    BY <1>4, <2>1, <2>2 DEF ListsNext
  <2> QED
    BY <1>1, <1>4, <2>3 DEF Reply
<1>7. Growth(<<>>, <<m>>)
  <2>1. \A q \in Runs : Heard(q) => Heard(q)'
    BY <1>5 DEF Heard
  <2>2. toClient' = Append(toClient, m)
    BY <1>1, <1>4
  <2> QED
    BY <1>5, <1>6, <2>1, <2>2, OnlyReply
<1>8. LogInv'
    BY <1>5 DEF LogInv, Present
<1>9. /\ UNCHANGED <<phase, provisional, cursor, unbound, retirement, asking, announced, shown,
                     listed, sent, todo, replayed, paging>>
    BY <1>1, <1>5, StaysPutIs
<1>10. StaysPut
    BY <1>5, <1>9 DEF StaysPut
<1>11. ServerData'
    BY <1>5, <1>9, DataServer DEF ServerData
<1> QED
    BY <1>7, <1>8, <1>10, <1>11 DEF Grows

\* A page of the replay.
LEMMA PageMade ==
    ASSUME NEW r \in Runs, NEW from \in Nat, NEW l \in [seq : Nat, end : Nat]
    PROVE  \E m \in FeedPages : m = PageOf(r, from, l) /\ IsPage(m, r, from, l)
<1>0. /\ PageSize \in Nat /\ PageSize > 0 /\ l.seq \in Nat /\ l.end \in Nat /\ from + PageSize \in Nat
      /\ from + PageSize > from
  <2>1. PageSize \in Nat \ {0}
    BY FeedAssumption
  <2> QED
    BY <2>1
<1>1. PICK u \in Nat : u = (IF l.seq <= from + PageSize THEN l.seq ELSE from + PageSize)
    BY <1>0
<1>2. u <= l.seq /\ (l.seq > u => u > from)
    BY <1>0, <1>1
<1>3. PICK b \in BOOLEAN : b = (l.seq > u)
  <2>1. CASE l.seq > u
    <3>1. TRUE = (l.seq > u) /\ TRUE \in BOOLEAN
        BY Zenon, <2>1
    <3> QED
        BY Zenon, <3>1
  <2>2. CASE ~(l.seq > u)
    <3>1. FALSE \in BOOLEAN /\ ((l.seq > u) <=> FALSE)
        BY <2>2
    <3>2. FALSE = (l.seq > u)
        BY <1>0, <2>2
    <3> QED
        BY Zenon, <3>1, <3>2
  <2> QED
    BY <2>1, <2>2
<1>4. PICK E \in SUBSET FeedEvents :
          /\ E = PageEvents(r, from, u, l.end)
          /\ \A e \in E : e.run = r /\ e.seq \in (from + 1)..u
          /\ \A n \in (from + 1)..u : Event(r, n, n = l.end) \in E
          /\ Seqs(E, r) = (from + 1)..u
    BY <1>0, PageEventsAre
<1>5. PageOf(r, from, l) = Page(r, E, b)
    BY <1>1, <1>3, <1>4 DEF PageOf, PageEvents
<1>6. /\ Page(r, E, b).run = r /\ Page(r, E, b).events = E /\ Page(r, E, b).more = b
    BY DEF Page
<1>7. b => E # {}
  <2>1. ASSUME b PROVE from + 1 \in (from + 1)..u
    <3>1. l.seq > u
        BY <1>3, <2>1
    <3> QED
        BY <1>0, <1>2, <3>1
  <2> QED
    BY <1>4, <2>1
<1>8. Page(r, E, b) \in FeedPages
  <2>1. PICK end \in Nat : end = l.end
    BY <1>0
  <2>2. E = PageEvents(r, from, u, end)
    BY <1>4, <2>1
  <2>3. Page(r, E, b) \in {Page(q, PageEvents(q, f, t, n), c) :
                           q \in Runs, f \in Nat, t \in Nat, n \in Nat, c \in BOOLEAN}
    BY <2>2
  <2> QED
    BY <1>6, <1>7, <2>3 DEF FeedPages
<1>9. /\ \A e \in E : e.run = r /\ e.seq <= l.seq
      /\ u <= l.seq /\ (b => u > from) /\ (~b => u = l.seq)
  <2>1. \A n \in (from + 1)..u : n <= l.seq
    BY <1>0, <1>2
  <2>2. u <= l.seq /\ (b => u > from) /\ (~b => u = l.seq)
    <3>1. b <=> l.seq > u
        BY <1>3
    <3> QED
        BY <1>0, <1>1, <1>2, <3>1
  <2> QED
    BY <1>4, <2>1, <2>2
<1>10. PICK m \in FeedPages : m = Page(r, E, b)
    BY <1>8
<1>11. /\ m = PageOf(r, from, l) /\ m.run = r /\ m.events = E /\ m.more = b
    BY <1>5, <1>6, <1>10
<1>12. /\ \A e \in m.events : e.run = r /\ e.seq <= l.seq
       /\ Seqs(m.events, r) = (from + 1)..u
       /\ u <= l.seq /\ (m.more => u > from) /\ (~m.more => u = l.seq)
    BY <1>4, <1>9, <1>11
<1> QED
    BY <1>11, <1>12 DEF IsPage

LEMMA GrowingReplay ==
    ASSUME FeedData, LogInv, NEW r \in Runs, NEW from \in Nat, Replay(r, from)
    PROVE  ServerData' /\ LogInv' /\ Grows
<1>1. /\ phase = "replaying" /\ Idle /\ replayed' = replayed \union {r} /\ paging' = NoPage
      /\ UNCHANGED <<executing, retired, hub, toServer, phase, listed, todo, provisional,
                     client, renderer, budget>>
      /\ \/ /\ SessionOf[r] \in retired /\ toClient' = Append(toClient, Missing(SessionOf[r]))
            /\ log' = log
         \/ /\ SessionOf[r] \notin retired
            /\ log' = (IF Orphan(r) THEN [log EXCEPT ![r] = Ended(@)] ELSE log)
            /\ toClient' = Append(toClient, PageOf(r, from, log'[r]))
    BY DEF Replay
<1>2. /\ log \in [Runs -> [seq : Nat, end : Nat]] /\ executing \subseteq Runs
    BY DEF FeedData
<1>3. /\ log' \in [Runs -> [seq : Nat, end : Nat]] /\ LogInv'
      /\ \A q \in Runs : SameLog(q) \/ (MoreLog(q) /\ Orphan(q))
  <2>1. CASE log' = log
    <3>1. LogInv'
        BY <1>1, <2>1 DEF LogInv, Present
    <3> QED
        BY <1>2, <2>1, <3>1 DEF SameLog
  <2>2. CASE log' # log
    <3>1. /\ log' = [log EXCEPT ![r] = Ended(log[r])] /\ Orphan(r) /\ Present(r)
          /\ retired' = retired
        BY <1>1, <1>2, <2>2 DEF Present
    <3>2. log[r].end = 0 /\ log[r].seq > 0 /\ executing' = executing \ {r}
        BY <1>1, <1>2, <3>1 DEF Orphan
    <3>3. /\ log' \in [Runs -> [seq : Nat, end : Nat]] /\ LogInv'
          /\ \A q \in Runs \ {r} : SameLog(q)
          /\ MoreLog(r)
        BY <3>1, <3>2, RunGrows
    <3> QED
        BY <3>1, <3>3
  <2> QED
    BY <2>1, <2>2
<1>4. PICK m \in FeedFrames : Reply(m) /\ toClient' = Append(toClient, m)
  <2>1. CASE SessionOf[r] \in retired
    <3>1. Missing(SessionOf[r]) \in FeedFrames /\ Missing(SessionOf[r]).kind = "missing"
        BY LogIs, FeedKinds DEF Missing
    <3>2. toClient' = Append(toClient, Missing(SessionOf[r]))
        BY <1>1, <2>1
    <3>3. PICK m \in FeedFrames : m = Missing(SessionOf[r]) /\ m.kind = "missing"
        BY <3>1
    <3>4. Reply(m)
        BY <1>1, <3>3 DEF Reply
    <3> QED
        BY <3>2, <3>3, <3>4
  <2>2. CASE SessionOf[r] \notin retired
    <3>1. PICK l \in [seq : Nat, end : Nat] : l = log'[r]
        BY <1>3
    <3>2. PICK m \in FeedPages : m = PageOf(r, from, l) /\ IsPage(m, r, from, l)
        BY PageMade
    <3>3. m \in FeedFrames /\ m.kind = "page"
        BY <3>2, FeedKinds, PageKindsAre
    <3>4. Replies(m, r, from)
      <4>1. m.run = r /\ Present(r) /\ retired' = retired /\ r \in replayed'
        BY <1>1, <2>2, <3>2 DEF IsPage, Present
      <4>2. Continues(r, from)
        BY DEF Replay, Continues, Followed
      <4> QED
        BY <3>1, <3>2, <4>1, <4>2 DEF Replies
    <3>5. Reply(m)
        BY <1>1, <3>3, <3>4 DEF Reply
    <3>6. toClient' = Append(toClient, m)
        BY <1>1, <2>2, <3>1, <3>2
    <3> QED
        BY <3>3, <3>5, <3>6
  <2> QED
    BY <2>1, <2>2
<1>5. toClient' = toClient \o (<<>> \o <<m>>)
  <2>1. toClient \in Seq(FeedFrames) /\ <<m>> \in Seq(FeedFrames)
    BY DEF FeedData
  <2>2. <<>> \o <<m>> = <<m>> /\ toClient' = toClient \o <<m>>
    BY <1>4, <2>1, ConcatEmptySeq, QueuedOne
  <2> QED
    BY <2>2
<1>6. Replied(<<m>>)
    BY <1>4 DEF Replied
<1>7. Growth(<<>>, <<m>>)
    BY <1>1, <1>3, <1>5, <1>6, SilentGrowth
<1>8. /\ UNCHANGED <<retired, route, subs, toServer, phase, listed, todo, provisional, sent,
                     cursor, unbound, retirement, asking, announced, shown>>
    BY <1>1 DEF hub, client, renderer, budget
<1>9. StaysPut
    BY <1>1, <1>8 DEF StaysPut
<1>10. ServerData'
  <2>1. ServerData /\ replayed' \in SUBSET Runs
    BY <1>1, DataServer DEF ServerData
  <2> QED
    BY <1>1, <1>3, <1>8, <2>1 DEF ServerData
<1> QED
    BY <1>3, <1>7, <1>9, <1>10 DEF Grows

-----------------------------------------------------------------------------
(* The deletions of Sessions.                                              *)

\* What is on its way after a step that adds to it.
LEMMA GrowthFrames ==
    ASSUME FeedData, NEW evs, NEW rep, Growth(evs, rep)
    PROVE  /\ Len(toClient) \in Nat /\ Len(evs) \in Nat /\ DOMAIN toClient = 1..Len(toClient)
           /\ DOMAIN evs = 1..Len(evs)
           /\ \A i \in DOMAIN toClient : i \in DOMAIN toClient' /\ toClient'[i] = toClient[i]
           /\ \A i \in DOMAIN toClient' :
                 \/ i \in DOMAIN toClient /\ toClient'[i] = toClient[i]
                 \/ \E k \in DOMAIN evs : i = Len(toClient) + k /\ toClient'[i] = evs[k]
                 \/ /\ i = Len(toClient) + Len(evs) + 1 /\ 1 \in DOMAIN rep
                    /\ toClient'[i] = rep[1] /\ rep[1] \in FeedFrames /\ Reply(rep[1])
           /\ \A k \in DOMAIN evs : /\ Len(toClient) + k \in DOMAIN toClient'
                                    /\ toClient'[Len(toClient) + k] = evs[k]
           /\ 1 \in DOMAIN rep => /\ Len(toClient) + Len(evs) + 1 \in DOMAIN toClient'
                                  /\ toClient'[Len(toClient) + Len(evs) + 1] = rep[1]
<1>1. /\ evs \o rep \in Seq(FeedFrames) /\ rep \in Seq(FeedFrames) /\ evs \in Seq(FeedFrames)
      /\ DOMAIN rep \subseteq {1} /\ \A i \in DOMAIN rep : rep[i] \in FeedFrames /\ Reply(rep[i])
    BY GrowthQueue
<1>2. toClient \in Seq(FeedFrames) /\ toClient' = toClient \o (evs \o rep)
    BY DEF FeedData, Growth
<1>3. PICK t \in Seq(FeedFrames) : t = evs \o rep
    BY <1>1
<1>4. IsConcat(evs, rep, t)
    BY <1>1, <1>3, Queued
<1>5. IsConcat(toClient, t, toClient')
    BY <1>2, <1>3, Queued
<1>6. ASSUME NEW i \in DOMAIN toClient'
      PROVE  \/ i \in DOMAIN toClient /\ toClient'[i] = toClient[i]
             \/ \E k \in DOMAIN evs : i = Len(toClient) + k /\ toClient'[i] = evs[k]
             \/ /\ i = Len(toClient) + Len(evs) + 1 /\ 1 \in DOMAIN rep
                /\ toClient'[i] = rep[1] /\ rep[1] \in FeedFrames /\ Reply(rep[1])
  <2>1. CASE i \in DOMAIN toClient
    BY <1>5, <2>1 DEF IsConcat
  <2>2. CASE i \notin DOMAIN toClient
    <3>1. PICK j \in DOMAIN t : i = Len(toClient) + j /\ toClient'[i] = t[j]
        BY <1>5, <2>2 DEF IsConcat
    <3>2. CASE j \in DOMAIN evs
        BY <1>4, <3>1, <3>2 DEF IsConcat
    <3>3. CASE j \notin DOMAIN evs
      <4>1. PICK k \in DOMAIN rep : j = Len(evs) + k /\ t[j] = rep[k]
        BY <1>4, <3>1, <3>3 DEF IsConcat
      <4>2. k = 1
        BY <1>1, <4>1
      <4> QED
        BY <1>1, <1>4, <1>5, <3>1, <4>1, <4>2 DEF IsConcat
    <3> QED
        BY <3>2, <3>3
  <2> QED
    BY <2>1, <2>2
<1>7. \A k \in DOMAIN evs : /\ Len(toClient) + k \in DOMAIN toClient'
                            /\ toClient'[Len(toClient) + k] = evs[k]
    BY <1>4, <1>5 DEF IsConcat
<1>8. ASSUME 1 \in DOMAIN rep
      PROVE  /\ Len(toClient) + Len(evs) + 1 \in DOMAIN toClient'
             /\ toClient'[Len(toClient) + Len(evs) + 1] = rep[1]
  <2>1. Len(evs) + 1 \in DOMAIN t /\ t[Len(evs) + 1] = rep[1]
    BY <1>4, <1>8 DEF IsConcat
  <2>2. /\ Len(toClient) + (Len(evs) + 1) \in DOMAIN toClient'
        /\ toClient'[Len(toClient) + (Len(evs) + 1)] = rep[1]
    BY <1>5, <2>1 DEF IsConcat
  <2>3. Len(toClient) + (Len(evs) + 1) = Len(toClient) + Len(evs) + 1
    BY <1>4, <1>5 DEF IsConcat
  <2> QED
    BY <2>2, <2>3
<1>9. \A i \in DOMAIN toClient : i \in DOMAIN toClient' /\ toClient'[i] = toClient[i]
    BY <1>5 DEF IsConcat
<1>10. /\ Len(toClient) \in Nat /\ Len(evs) \in Nat /\ DOMAIN toClient = 1..Len(toClient)
       /\ DOMAIN evs = 1..Len(evs)
    BY <1>4, <1>5 DEF IsConcat
<1> QED
    BY <1>6, <1>7, <1>8, <1>9, <1>10

\* Which answer is waited for.
Waits ==
    /\ \A i \in DOMAIN toClient :
         /\ toClient[i].kind = "listed" => phase = "listing"
         /\ toClient[i].kind = "page" => phase = "replaying" /\ paging = NoPage
         /\ toClient[i].kind = "accepted" => phase \in {"resending", "active"}
    /\ phase # "active" => \A i, j \in DOMAIN toClient :
         toClient[i].kind \in Answers /\ toClient[j].kind \in Answers => i = j

Unlisted == \A i \in DOMAIN toClient : toClient[i].kind # "listed"
IsOnItsWay(m) == \E i \in DOMAIN toClient : toClient[i] = m
\* The list has not come to a Session yet.
ToList(s) ==
    \/ s > listed /\ Unlisted
    \/ \E i \in DOMAIN toClient :
          /\ toClient[i].kind = "listed"
          /\ s \in toClient[i].found \/ (toClient[i].more /\ \A t \in toClient[i].found : t < s)
Covered(s) == retirement[s] # "none" \/ IsOnItsWay(Retired(s))

Deletions ==
    /\ phase = "active" => \A s \in Sessions : retirement[s] = "pending" => asking = s
    /\ phase = "listing" => \A s \in retired : Covered(s) \/ ToList(s)
    /\ phase \in {"retiring", "subscribing", "replaying", "resending", "draining"} =>
          \A s \in retired : Covered(s)
    /\ DeletionsReachTheRenderer

\* The inductive invariant of the deletions.
DeletionInv == FeedData /\ Quiet /\ LogInv /\ Waits /\ Deletions

LEMMA GrowsDeletions ==
    ASSUME DeletionInv, ServerData', LogInv', Grows,
           \A s \in retired' \ retired :
               phase = "down" \/ \E i \in DOMAIN toClient' : toClient'[i] = Retired(s)
    PROVE  DeletionInv'
<1>0. FeedData /\ Quiet /\ LogInv /\ Waits /\ Deletions
    BY DEF DeletionInv
<1>1. FeedData'
    BY <1>0, GrowsData
<1>2. PICK evs, rep : Growth(evs, rep)
    BY DEF Grows
<1>3. /\ UNCHANGED <<phase, provisional, cursor, unbound, retirement, asking, announced, listed>>
      /\ toServer' \subseteq toServer /\ todo' \subseteq todo
      /\ subs' \subseteq subs \/ phase = "subscribing"
      /\ route' \subseteq route \/ phase \in {"resending", "active"}
      /\ replayed' = replayed \/ (phase = "replaying" /\ replayed \subseteq replayed')
      /\ paging' = paging \/ paging' = NoPage
    BY DEF Grows, StaysPut
<1>4. /\ \A i \in DOMAIN toClient : i \in DOMAIN toClient' /\ toClient'[i] = toClient[i]
      /\ \A i \in DOMAIN toClient' :
           \/ i \in DOMAIN toClient /\ toClient'[i] = toClient[i]
           \/ \E k \in DOMAIN evs : i = Len(toClient) + k /\ toClient'[i] = evs[k]
           \/ /\ i = Len(toClient) + Len(evs) + 1 /\ 1 \in DOMAIN rep
              /\ toClient'[i] = rep[1] /\ rep[1] \in FeedFrames /\ Reply(rep[1])
    BY <1>0, <1>2, GrowthFrames
<1>5. \A k \in DOMAIN evs : evs[k].kind = "event" /\ phase # "down"
  <2>1. evs \in Seq(FeedEvents) /\ \A k \in DOMAIN evs : phase # "down"
    BY <1>2 DEF Growth, Published
  <2>2. \A k \in DOMAIN evs : evs[k] \in FeedEvents
    BY <2>1
  <2> QED
    BY <2>1, <2>2, FeedEventKinds
<1>6. \A i \in DOMAIN toClient' :
        \/ i \in DOMAIN toClient /\ toClient'[i] = toClient[i]
        \/ /\ phase # "down" /\ toClient'[i].kind \notin Answers
           /\ toClient'[i].kind \notin {"listed", "page", "accepted"}
        \/ /\ phase # "down" /\ i = Len(toClient) + Len(evs) + 1 /\ Reply(toClient'[i])
  <2>1. \A m : m.kind = "event" => m.kind \notin Answers
    BY DEF Answers
  <2>2. 1 \in DOMAIN rep /\ Reply(rep[1]) => phase # "down"
    BY DEF Reply
  <2> QED
    BY <1>4, <1>5, <2>1, <2>2
<1>7. phase' = "down" => toClient' = <<>>
  <2>1. ASSUME phase = "down" PROVE toClient' = <<>>
    <3>1. toClient = <<>>
        BY <1>0, <2>1 DEF Quiet
    <3>2. DOMAIN toClient = {}
        BY <3>1
    <3>3. DOMAIN toClient' = {}
        BY <1>6, <2>1, <3>2
    <3> QED
        BY <1>1, <3>3 DEF FeedData
  <2> QED
    BY <1>3, <2>1
<1>8. Quiet'
  <2>0. /\ phase' = phase /\ provisional' = provisional /\ asking' = asking /\ announced' = announced
        /\ listed' = listed
    BY <1>3
  <2>1. phase' = "down" => subs' = {} /\ asking' = Nobody /\ listed' = 0 /\ todo' = {}
    BY <1>0, <1>3, <2>0 DEF Quiet
  <2>2. phase' \in {"listing", "retiring"} => subs' = {}
    BY <1>0, <1>3, <2>0 DEF Quiet
  <2>3. phase' \in Early \union {"down"} => route' = {}
    BY <1>0, <1>3, <2>0 DEF Quiet, Early
  <2>4. phase' # "active" => toServer' = {} /\ announced' = <<>>
    BY <1>0, <1>3, <2>0 DEF Quiet
  <2>5. phase' \in {"active", "down"} => provisional' = {}
    BY <1>0, <2>0 DEF Quiet
  <2>6. replayed' # {} \/ paging' # NoPage => phase' = "replaying"
    BY <1>0, <1>3, <2>0 DEF Quiet
  <2>7. announced' # <<>> => asking' # Nobody
    BY <1>0, <2>0 DEF Quiet
  <2> QED
    BY <1>7, <2>1, <2>2, <2>3, <2>4, <2>5, <2>6, <2>7 DEF Quiet
<1>9. \A m : Reply(m) =>
         /\ m.kind = "listed" => phase = "listing" /\ ListsNext(m)
         /\ m.kind = "page" => phase = "replaying" /\ paging' = NoPage
         /\ m.kind = "accepted" => phase \in {"resending", "active"}
         /\ m.kind \in Answers => phase = "active" \/ Idle
    BY DEF Reply
<1>10. Waits'
  <2>1. ASSUME NEW i \in DOMAIN toClient'
        PROVE  /\ toClient'[i].kind = "listed" => phase' = "listing"
               /\ toClient'[i].kind = "page" => phase' = "replaying" /\ paging' = NoPage
               /\ toClient'[i].kind = "accepted" => phase' \in {"resending", "active"}
    <3>1. CASE i \in DOMAIN toClient /\ toClient'[i] = toClient[i]
        BY <1>0, <1>3, <3>1 DEF Waits
    <3>2. CASE Reply(toClient'[i])
        BY <1>3, <1>9, <3>2
    <3> QED
        BY <1>6, <3>1, <3>2
  <2>2. ASSUME phase # "active", NEW i \in DOMAIN toClient', NEW j \in DOMAIN toClient',
               toClient'[i].kind \in Answers, toClient'[j].kind \in Answers
        PROVE  i = j
    <3>1. Reply(toClient'[i]) \/ Reply(toClient'[j]) =>
              \A n \in DOMAIN toClient : toClient[n].kind \notin Answers
        BY <1>9, <2>2 DEF Idle
    <3>2. CASE i \in DOMAIN toClient /\ toClient'[i] = toClient[i]
      <4>1. ~Reply(toClient'[j])
        BY <2>2, <3>1, <3>2
      <4>2. j \in DOMAIN toClient /\ toClient'[j] = toClient[j]
        BY <1>6, <2>2, <4>1
      <4> QED
        BY <1>0, <2>2, <3>2, <4>2 DEF Waits
    <3>3. CASE i = Len(toClient) + Len(evs) + 1 /\ Reply(toClient'[i])
      <4>1. ~(j \in DOMAIN toClient /\ toClient'[j] = toClient[j])
        BY <2>2, <3>1, <3>3
      <4> QED
        BY <1>6, <2>2, <3>3, <4>1
    <3> QED
        BY <1>6, <2>2, <3>2, <3>3
  <2> QED
    BY <1>3, <2>1, <2>2 DEF Waits
<1>11. \A s : Covered(s) => Covered(s)'
    BY <1>3, <1>4 DEF Covered, IsOnItsWay
<1>12. ASSUME NEW s \in retired, phase = "listing", ToList(s) PROVE ToList(s)'
  <2>1. CASE \E i \in DOMAIN toClient : toClient[i].kind = "listed"
    <3>1. PICK i \in DOMAIN toClient :
              /\ toClient[i].kind = "listed"
              /\ s \in toClient[i].found \/ (toClient[i].more /\ \A t \in toClient[i].found : t < s)
        BY <1>12, <2>1 DEF ToList, Unlisted
    <3>2. i \in DOMAIN toClient' /\ toClient'[i] = toClient[i]
        BY <1>4
    <3> QED
        BY <3>1, <3>2 DEF ToList
  <2>2. CASE \A i \in DOMAIN toClient : toClient[i].kind # "listed"
    <3>1. s > listed
        BY <1>12, <2>2 DEF ToList
    <3>2. CASE \A i \in DOMAIN toClient' : toClient'[i].kind # "listed"
        BY <1>3, <3>1, <3>2 DEF ToList, Unlisted
    <3>3. CASE \E i \in DOMAIN toClient' : toClient'[i].kind = "listed"
      <4>1. PICK i \in DOMAIN toClient' : toClient'[i].kind = "listed"
        BY <3>3
      <4>2. ListsNext(toClient'[i])
        BY <1>6, <1>9, <2>2, <4>1
      <4>3. PICK m : m = toClient'[i]
        OBVIOUS
      <4>4. /\ m.found = {u \in retired : u > listed /\ \A t \in retired : t > listed => u <= t}
            /\ m.more <=> {u \in retired : u > listed} # m.found
        BY <4>2, <4>3 DEF ListsNext
      <4>5. retired \subseteq Nat
        BY <1>0, FeedAssumption DEF FeedData
      <4>6. s \in m.found \/ (m.more /\ \A t \in m.found : t < s)
        <5>1. CASE s \in m.found
            BY <5>1
        <5>2. CASE s \notin m.found
          <6>1. m.more
            BY <3>1, <4>4, <5>2
          <6>2. \A t \in m.found : t \in Nat /\ t <= s /\ t # s /\ s \in Nat
            BY <3>1, <4>4, <4>5, <5>2
          <6> QED
            BY <6>1, <6>2
        <5> QED
            BY <5>1, <5>2
      <4> QED
        BY <4>1, <4>3, <4>6 DEF ToList
    <3> QED
        BY <3>2, <3>3
  <2> QED
    BY <2>1, <2>2
<1>13. ASSUME NEW s \in retired', s \notin retired
       PROVE  phase = "down" \/ (Covered(s)' /\ IsOnItsWay(Retired(s))')
    BY <1>13 DEF Covered, IsOnItsWay
<1>14. DeletionsReachTheRenderer'
  <2>1. ASSUME phase = "active", NEW s \in retired'
        PROVE  \/ retirement'[s] = "final" \/ asking' = s
               \/ \E i \in DOMAIN announced' : announced'[i] = s
               \/ \E i \in DOMAIN toClient' : toClient'[i] = Retired(s)
    <3>1. CASE s \in retired
        BY <1>0, <1>3, <1>4, <2>1, <3>1 DEF Deletions, DeletionsReachTheRenderer
    <3>2. CASE s \notin retired
        BY <1>13, <2>1, <3>2 DEF IsOnItsWay
    <3> QED
        BY <3>1, <3>2
  <2> QED
    BY <1>3, <2>1 DEF DeletionsReachTheRenderer
<1>15. Deletions'
  <2>0. phase' = phase /\ retirement' = retirement /\ asking' = asking
    BY <1>3
  <2>1. phase' = "active" => \A s \in Sessions : retirement'[s] = "pending" => asking' = s
    BY <1>0, <2>0 DEF Deletions
  <2>2. phase' = "listing" => \A s \in retired' : Covered(s)' \/ ToList(s)'
    BY <1>0, <1>11, <1>12, <1>13, <2>0 DEF Deletions
  <2>3. phase' \in {"retiring", "subscribing", "replaying", "resending", "draining"} =>
            \A s \in retired' : Covered(s)'
    BY <1>0, <1>11, <1>13, <2>0 DEF Deletions
  <2> QED
    BY <1>14, <2>1, <2>2, <2>3 DEF Deletions
<1> QED
    BY <1>1, <1>8, <1>10, <1>15 DEF DeletionInv

\* Everything that adds to the log or to what is on its way.
Growing ==
    \/ \E r \in Runs : RunGoesOn(r) \/ RunEnds(r) \/ OutcomeComesLate(r) \/ SendArrives(r)
                       \/ ForeignSend(r) \/ ForeignCancel(r) \/ Resend(r)
    \/ \E s \in Sessions : ForeignRead(s) \/ Delete(s) \/ Subscribe(s)
    \/ List
    \/ \E r \in Runs, from \in 0..(MaxSeq + 1) : Replay(r, from)

LEMMA GrowingAll ==
    ASSUME FeedData, LogInv, Quiet, Growing
    PROVE  /\ ServerData' /\ LogInv' /\ Grows
           /\ \A s \in retired' \ retired :
                  phase = "down" \/ \E i \in DOMAIN toClient' : toClient'[i] = Retired(s)
<1>1. ASSUME NEW r \in Runs,
             \/ RunGoesOn(r) \/ RunEnds(r) \/ OutcomeComesLate(r) \/ SendArrives(r)
             \/ ForeignSend(r) \/ ForeignCancel(r) \/ Resend(r)
      PROVE  ServerData' /\ LogInv' /\ Grows /\ retired' = retired
  <2>1. CASE RunGoesOn(r) \/ RunEnds(r) \/ OutcomeComesLate(r) \/ ForeignCancel(r)
    <3>1. retired' = retired
        BY <2>1 DEF RunGoesOn, RunEnds, OutcomeComesLate, ForeignCancel
    <3> QED
        BY <2>1, <3>1, GrowingRun
  <2>2. CASE ForeignSend(r)
    <3>1. retired' = retired
        BY <2>2 DEF ForeignSend
    <3> QED
        BY <2>2, <3>1, GrowingSend
  <2>3. CASE SendArrives(r) \/ Resend(r)
    <3>1. retired' = retired
        BY <2>3 DEF SendArrives, Resend
    <3> QED
        BY <2>3, <3>1, GrowingSends
  <2> QED
    BY <1>1, <2>1, <2>2, <2>3
<1>2. ASSUME NEW s \in Sessions, ForeignRead(s) \/ Subscribe(s)
      PROVE  ServerData' /\ LogInv' /\ Grows /\ retired' = retired
  <2>1. retired' = retired
    BY <1>2 DEF ForeignRead, Subscribe, server
  <2> QED
    BY <1>2, <2>1, GrowingRead, GrowingSubscribe
<1>3. ASSUME NEW s \in Sessions, Delete(s)
      PROVE  /\ ServerData' /\ LogInv' /\ Grows /\ retired' = retired \union {s}
             /\ phase = "down" \/ \E i \in DOMAIN toClient' : toClient'[i] = Retired(s)
  <2>1. /\ ServerData' /\ LogInv' /\ StaysPut /\ retired' = retired \union {s}
        /\ \E evs : Growth(evs, <<Retired(s)>>) \/ (phase = "down" /\ Growth(evs, <<>>))
    BY <1>3, GrowingDelete
  <2>2. PICK evs : Growth(evs, <<Retired(s)>>) \/ (phase = "down" /\ Growth(evs, <<>>))
    BY <2>1
  <2>3. Grows
    BY <2>1, <2>2 DEF Grows
  <2>4. CASE Growth(evs, <<Retired(s)>>)
    <3>1. PICK rep : rep = <<Retired(s)>>
        OBVIOUS
    <3>2. 1 \in DOMAIN rep /\ rep[1] = Retired(s)
        BY <3>1
    <3>3. /\ Len(toClient) + Len(evs) + 1 \in DOMAIN toClient'
          /\ toClient'[Len(toClient) + Len(evs) + 1] = rep[1]
        BY <2>4, <3>1, <3>2, GrowthFrames
    <3> QED
        BY <2>1, <2>3, <3>2, <3>3
  <2> QED
    BY <2>1, <2>2, <2>3, <2>4
<1>4. ASSUME List PROVE ServerData' /\ LogInv' /\ Grows /\ retired' = retired
  <2>1. retired' = retired
    BY <1>4 DEF List, server
  <2> QED
    BY <1>4, <2>1, GrowingList
<1>5. ASSUME NEW r \in Runs, NEW from \in 0..(MaxSeq + 1), Replay(r, from)
      PROVE  ServerData' /\ LogInv' /\ Grows /\ retired' = retired
  <2>1. retired' = retired
    BY <1>5 DEF Replay
  <2>2. from \in Nat
    BY FeedAssumption
  <2> QED
    BY <1>5, <2>1, <2>2, GrowingReplay
<1>6. ASSUME retired' = retired PROVE retired' \ retired = {}
    BY <1>6
<1>7. ASSUME NEW s, retired' = retired \union {s} PROVE \A t \in retired' \ retired : t = s
    BY <1>7
<1> QED
    BY <1>1, <1>2, <1>3, <1>4, <1>5, <1>6, <1>7 DEF Growing

LEMMA DownDeletions ==
    ASSUME DeletionInv, Closes, UNCHANGED <<server, retirement, sent>>, unbound' \in SUBSET Runs
    PROVE  DeletionInv'
<1>0. FeedData /\ LogInv
    BY DEF DeletionInv
<1>1. /\ phase' = "down" /\ listed' = 0 /\ todo' = {} /\ replayed' = {}
      /\ paging' = NoPage /\ provisional' = {} /\ toServer' = {} /\ toClient' = <<>>
      /\ route' = {} /\ subs' = {} /\ asking' = Nobody /\ announced' = <<>>
    BY DEF Closes
<1>2. UNCHANGED <<log, executing, retired, retirement, sent>>
    BY DEF server
<1>3. LogInv'
    BY <1>0, <1>2 DEF LogInv, Present
<1>4. FeedData'
  <2>1. /\ "down" \in Phases /\ NoPage \in [run : Runs \union {0}, from : Nat]
        /\ <<>> \in Seq(FeedFrames) /\ <<>> \in Seq(Sessions) /\ 0 \in Nat
        /\ Nobody \in Sessions \union {Nobody}
    BY DEF Phases, NoPage
  <2> QED
    BY <1>0, <1>1, <1>2, <2>1 DEF FeedData
<1>5. Quiet'
    BY <1>1 DEF Quiet
<1>6. DOMAIN toClient' = {}
    BY <1>1
<1>7. Waits' /\ Deletions'
    BY <1>1, <1>6 DEF Waits, Deletions, DeletionsReachTheRenderer
<1> QED
    BY <1>3, <1>4, <1>5, <1>7 DEF DeletionInv

\* A frame is read.
LEMMA ReadFrames ==
    ASSUME FeedData, Reads
    PROVE  /\ toClient' \in Seq(FeedFrames) /\ First \in FeedFrames /\ toClient # <<>>
           /\ First = toClient[1] /\ 1 \in DOMAIN toClient
           /\ \A i \in DOMAIN toClient' :
                 i \in Nat /\ i >= 1 /\ i + 1 \in DOMAIN toClient /\ toClient'[i] = toClient[i + 1]
           /\ \A i \in DOMAIN toClient :
                 \/ i = 1
                 \/ i \in Nat /\ i > 1 /\ i - 1 \in DOMAIN toClient' /\ toClient'[i - 1] = toClient[i]
<1>1. toClient \in Seq(FeedFrames) /\ toClient # <<>>
    BY DEF FeedData, Reads
<1>2. PICK q \in Seq(FeedFrames) : q = toClient /\ q # <<>>
    BY <1>1
<1>3. toClient' = Tail(q)
    BY <1>2 DEF Reads
<1> QED
    BY <1>2, <1>3, HeadOff DEF First

LEMMA ReadWaits ==
    ASSUME FeedData, Waits, Reads,
           \/ phase' = phase /\ paging' = paging
           \/ phase # "active" /\ First.kind \in Answers
    PROVE  Waits'
<1>1. /\ First = toClient[1] /\ 1 \in DOMAIN toClient
      /\ \A i \in DOMAIN toClient' :
            i \in Nat /\ i >= 1 /\ i + 1 \in DOMAIN toClient /\ toClient'[i] = toClient[i + 1]
    BY ReadFrames
<1>2. CASE phase' = phase /\ paging' = paging
  <2>1. ASSUME NEW i \in DOMAIN toClient'
        PROVE  /\ toClient'[i].kind = "listed" => phase' = "listing"
               /\ toClient'[i].kind = "page" => phase' = "replaying" /\ paging' = NoPage
               /\ toClient'[i].kind = "accepted" => phase' \in {"resending", "active"}
    BY <1>1, <1>2 DEF Waits
  <2>2. ASSUME phase' # "active", NEW i \in DOMAIN toClient', NEW j \in DOMAIN toClient',
               toClient'[i].kind \in Answers, toClient'[j].kind \in Answers
        PROVE  i = j
    <3>1. i + 1 = j + 1 /\ i \in Nat /\ j \in Nat
        BY <1>1, <1>2, <2>2 DEF Waits
    <3> QED
        BY <3>1
  <2> QED
    BY <2>1, <2>2 DEF Waits
<1>3. CASE phase # "active" /\ First.kind \in Answers
  <2>1. ASSUME NEW i \in DOMAIN toClient' PROVE toClient'[i].kind \notin Answers
    <3>1. i + 1 # 1 /\ i + 1 \in DOMAIN toClient /\ toClient'[i] = toClient[i + 1]
        BY <1>1
    <3> QED
        BY <1>1, <1>3, <3>1 DEF Waits
  <2>2. \A i \in DOMAIN toClient' : toClient'[i].kind \notin {"listed", "page", "accepted"}
    BY <2>1 DEF Answers
  <2> QED
    BY <2>1, <2>2 DEF Waits
<1> QED
    BY <1>2, <1>3

\* What the Desktop may do with a frame, apart from the list of deleted Sessions.
LEMMA ReadDeletions ==
    ASSUME DeletionInv, Reads, First.kind # "listed",
           UNCHANGED <<server, hub, toServer, todo, replayed, sent, phase, listed>>,
           retirement' \in [Sessions -> {"none", "pending", "final"}],
           asking' \in Sessions \union {Nobody}, announced' \in Seq(Sessions),
           unbound' \in SUBSET Runs, provisional' \in SUBSET FeedEvents,
           paging' \in [run : Runs \union {0}, from : Nat],
           paging' = paging \/ First.kind = "page",
           phase = "active" => provisional' = {},
           announced' # <<>> => phase = "active" /\ asking' # Nobody,
           \A s \in Sessions : retirement[s] # "none" => retirement'[s] # "none",
           phase # "active" /\ First.kind = "retired" => retirement'[First.session] # "none",
           phase = "active" => /\ \A s \in Sessions : retirement'[s] = "pending" => asking' = s
                               /\ DeletionsReachTheRenderer'
    PROVE  DeletionInv'
<1>0. FeedData /\ Quiet /\ LogInv /\ Waits /\ Deletions
    BY DEF DeletionInv
<1>1. /\ toClient' \in Seq(FeedFrames) /\ First \in FeedFrames /\ toClient # <<>>
      /\ First = toClient[1] /\ 1 \in DOMAIN toClient
      /\ \A i \in DOMAIN toClient' :
            i \in Nat /\ i >= 1 /\ i + 1 \in DOMAIN toClient /\ toClient'[i] = toClient[i + 1]
      /\ \A i \in DOMAIN toClient :
            \/ i = 1
            \/ i \in Nat /\ i > 1 /\ i - 1 \in DOMAIN toClient' /\ toClient'[i - 1] = toClient[i]
    BY <1>0, ReadFrames
<1>2. UNCHANGED <<log, executing, retired, route, subs, toServer, todo, replayed, sent, phase, listed>>
    BY DEF server, hub
<1>3. FeedData'
    BY <1>0, <1>1, <1>2 DEF FeedData
<1>4. LogInv'
    BY <1>0, <1>2 DEF LogInv, Present
<1>5. phase # "down" /\ phase' = phase
    BY <1>0, <1>1, <1>2 DEF Quiet
<1>6. First.kind = "page" => phase = "replaying"
    BY <1>0, <1>1 DEF Waits
<1>7. Quiet'
  <2>1. phase' # "down" /\ (phase' \in {"listing", "retiring"} => subs' = {})
    BY <1>0, <1>2, <1>5 DEF Quiet
  <2>2. phase' \in Early \union {"down"} => route' = {}
    BY <1>0, <1>2, <1>5 DEF Quiet
  <2>3. phase' # "active" => toServer' = {} /\ announced' = <<>>
    BY <1>0, <1>2, <1>5 DEF Quiet
  <2>4. phase' \in {"active", "down"} => provisional' = {}
    BY <1>5
  <2>5. replayed' # {} \/ paging' # NoPage => phase' = "replaying"
    BY <1>0, <1>2, <1>5, <1>6 DEF Quiet
  <2> QED
    BY <2>1, <2>2, <2>3, <2>4, <2>5 DEF Quiet
<1>8. Waits'
    BY <1>0, <1>5, <1>6, ReadWaits DEF Answers
<1>9. ASSUME NEW s \in Sessions, Covered(s), phase # "active" PROVE Covered(s)'
  <2>1. CASE retirement[s] # "none"
    BY <2>1 DEF Covered
  <2>2. CASE retirement[s] = "none"
    <3>1. PICK i \in DOMAIN toClient : toClient[i] = Retired(s)
        BY <1>9, <2>2 DEF Covered, IsOnItsWay
    <3>2. Retired(s).kind = "retired" /\ Retired(s).session = s
        BY DEF Retired
    <3>3. CASE i = 1
        BY <1>1, <1>9, <3>1, <3>2, <3>3 DEF Covered
    <3>4. CASE i # 1
        BY <1>1, <3>1, <3>4 DEF Covered, IsOnItsWay
    <3> QED
        BY <3>3, <3>4
  <2> QED
    BY <2>1, <2>2
<1>10. ASSUME NEW s \in Sessions, ToList(s) PROVE ToList(s)'
  <2>1. CASE s > listed /\ Unlisted
    BY <1>1, <1>2, <2>1 DEF ToList, Unlisted
  <2>2. CASE ~(s > listed /\ Unlisted)
    <3>1. PICK i \in DOMAIN toClient :
              /\ toClient[i].kind = "listed"
              /\ s \in toClient[i].found \/ (toClient[i].more /\ \A t \in toClient[i].found : t < s)
        BY <1>10, <2>2 DEF ToList
    <3>2. i - 1 \in DOMAIN toClient' /\ toClient'[i - 1] = toClient[i]
        BY <1>1, <3>1
    <3> QED
        BY <3>1, <3>2 DEF ToList
  <2> QED
    BY <2>1, <2>2
<1>11. Deletions'
  <2>0. retired' = retired /\ retired \subseteq Sessions
    BY <1>0, <1>2 DEF FeedData
  <2>1. phase' = "listing" => \A s \in retired' : Covered(s)' \/ ToList(s)'
    BY <1>0, <1>5, <1>9, <1>10, <2>0 DEF Deletions
  <2>2. phase' \in {"retiring", "subscribing", "replaying", "resending", "draining"} =>
            \A s \in retired' : Covered(s)'
    BY <1>0, <1>5, <1>9, <2>0 DEF Deletions
  <2>3. DeletionsReachTheRenderer'
    BY <1>5 DEF DeletionsReachTheRenderer
  <2>4. phase' = "active" => \A s \in Sessions : retirement'[s] = "pending" => asking' = s
    BY <1>5
  <2> QED
    BY <2>1, <2>2, <2>3, <2>4 DEF Deletions
<1> QED
    BY <1>3, <1>4, <1>7, <1>8, <1>11 DEF DeletionInv

\* Neither a deletion nor an answer that there was one.
LEMMA PlainDeletions ==
    ASSUME DeletionInv, Reads, First.kind \notin {"listed", "retired"},
           UNCHANGED <<server, hub, toServer, todo, replayed, sent, phase, listed, retirement,
                       asking, announced>>,
           unbound' \in SUBSET Runs, provisional' \in SUBSET FeedEvents,
           paging' \in [run : Runs \union {0}, from : Nat],
           paging' = paging \/ First.kind = "page",
           phase = "active" => provisional' = {}
    PROVE  DeletionInv'
<1>0. FeedData /\ Quiet /\ Deletions
    BY DEF DeletionInv
<1>1. /\ First = toClient[1]
      /\ \A i \in DOMAIN toClient :
            \/ i = 1
            \/ i \in Nat /\ i > 1 /\ i - 1 \in DOMAIN toClient' /\ toClient'[i - 1] = toClient[i]
    BY <1>0, ReadFrames
<1>2. UNCHANGED <<retired, phase, retirement, asking, announced>>
    BY DEF server
<1>3. DeletionsReachTheRenderer'
  <2>1. ASSUME phase = "active", NEW s \in retired
        PROVE  \/ retirement'[s] = "final" \/ asking' = s
               \/ \E i \in DOMAIN announced' : announced'[i] = s
               \/ \E i \in DOMAIN toClient' : toClient'[i] = Retired(s)
    <3>1. CASE \E i \in DOMAIN toClient : toClient[i] = Retired(s)
      <4>1. PICK i \in DOMAIN toClient : toClient[i] = Retired(s)
        BY <3>1
      <4>2. Retired(s).kind = "retired"
        BY DEF Retired
      <4>3. i # 1
        BY <1>1, <4>1, <4>2
      <4> QED
        BY <1>1, <4>1, <4>3
    <3>2. CASE ~\E i \in DOMAIN toClient : toClient[i] = Retired(s)
        BY <1>0, <1>2, <2>1, <3>2 DEF Deletions, DeletionsReachTheRenderer
    <3> QED
        BY <3>1, <3>2
  <2> QED
    BY <1>2, <2>1 DEF DeletionsReachTheRenderer
<1>4. /\ retirement' \in [Sessions -> {"none", "pending", "final"}]
      /\ asking' \in Sessions \union {Nobody} /\ announced' \in Seq(Sessions)
    BY <1>0, <1>2 DEF FeedData
<1>5. announced' # <<>> => phase = "active" /\ asking' # Nobody
    BY <1>0, <1>2 DEF Quiet
<1>6. phase = "active" => \A s \in Sessions : retirement'[s] = "pending" => asking' = s
    BY <1>0, <1>2 DEF Deletions
<1> QED
    BY <1>2, <1>3, <1>4, <1>5, <1>6, ReadDeletions

\* The other side of a number of sets: the last number of a page.
LEMMA LastOfPage ==
    ASSUME NEW m \in FeedPages, m.more
    PROVE  \E n \in Nat : /\ n = CHOOSE k \in {e.seq : e \in m.events} : \A e \in m.events : e.seq <= k
                          /\ \E from \in Nat : Seqs(m.events, m.run) = (from + 1)..n /\ n > from
<1>1. /\ m.kind = "page" /\ m.run \in Runs /\ m.more \in BOOLEAN /\ m.events \in SUBSET FeedEvents
      /\ \A e \in m.events : e.run = m.run
      /\ \E from, upto \in Nat : /\ Seqs(m.events, m.run) = (from + 1)..upto
                                 /\ m.more => upto > from
    BY PageKindsAre
<1>2. PICK from \in Nat, upto \in Nat : Seqs(m.events, m.run) = (from + 1)..upto /\ upto > from
    BY <1>1
<1>3. Seqs(m.events, m.run) = {e.seq : e \in m.events}
    BY <1>1 DEF Seqs
<1> DEFINE S == {e.seq : e \in m.events}
           top == CHOOSE k \in S : \A e \in m.events : e.seq <= k
<1>4. \A e \in m.events : e.seq \in S
    OBVIOUS
<1>5. S = (from + 1)..upto
    BY <1>2, <1>3
<1>6. upto \in S /\ \A e \in m.events : e.seq <= upto
    BY <1>2, <1>4, <1>5
<1>7. top \in S /\ \A e \in m.events : e.seq <= top
    BY <1>6
<1>8. top = upto
  <2>1. \E e \in m.events : e.seq = upto
    BY <1>6
  <2>2. top \in (from + 1)..upto /\ upto <= top
    BY <1>5, <1>7, <2>1
  <2> QED
    BY <2>2
<1> QED
    BY <1>2, <1>8

LEMMA EventDeletions ==
    ASSUME DeletionInv, EventDropped \/ EventUnknown \/ EventKept \/ EventDelivered
    PROVE  DeletionInv'
<1>0. FeedData /\ Quiet
    BY DEF DeletionInv
<1>1. /\ toClient # <<>> => First \in FeedFrames
      /\ Holds("event") => First.kind \notin {"listed", "retired"}
  <2>1. toClient \in Seq(FeedFrames)
    BY <1>0 DEF FeedData
  <2>2. toClient # <<>> => Head(toClient) \in FeedFrames
    BY <2>1, HeadTailProperties
  <2> QED
    BY <2>2 DEF First, Holds
<1>2. ASSUME Holds("event") PROVE First \in FeedEvents /\ First \in FeedFrames
    BY <1>1, <1>2, FeedKinds DEF Holds
<1>3. CASE EventDropped
  <2>1. /\ Holds("event") /\ Reads
        /\ UNCHANGED <<server, hub, toServer, recovery, client, renderer, budget>>
    BY <1>3 DEF EventDropped
  <2>2. UNCHANGED <<server, hub, toServer, todo, replayed, sent, phase, listed, retirement, asking,
                    announced, unbound, provisional, paging>>
    BY <2>1 DEF recovery, client, renderer, budget
  <2>3. /\ unbound' \in SUBSET Runs /\ provisional' \in SUBSET FeedEvents
        /\ paging' \in [run : Runs \union {0}, from : Nat]
        /\ (phase = "active" => provisional' = {})
    BY <1>0, <2>2 DEF FeedData, Quiet
  <2> QED
    BY <1>1, <2>1, <2>2, <2>3, PlainDeletions
<1>4. CASE EventUnknown
  <2>1. Closes /\ UNCHANGED <<server, client, shown, budget>>
    BY <1>4 DEF EventUnknown
  <2>2. UNCHANGED <<server, retirement, sent>> /\ unbound' \in SUBSET Runs
    BY <1>0, <2>1 DEF client, budget, FeedData
  <2> QED
    BY <2>1, <2>2, DownDeletions
<1>5. CASE EventKept
  <2>1. /\ Holds("event") /\ Reads /\ phase # "active"
        /\ unbound' = unbound \ {First.run}
        /\ provisional' = provisional \union {First}
        /\ UNCHANGED <<server, hub, toServer, phase, listed, todo, replayed, paging,
                       retirement, renderer, budget>>
    BY <1>5 DEF EventKept
  <2>2. UNCHANGED <<server, hub, toServer, todo, replayed, sent, phase, listed, retirement, asking,
                    announced, paging>>
    BY <2>1 DEF renderer, budget
  <2>3. /\ unbound' \in SUBSET Runs /\ provisional' \in SUBSET FeedEvents
        /\ paging' \in [run : Runs \union {0}, from : Nat]
    BY <1>0, <1>2, <2>1, <2>2 DEF FeedData
  <2> QED
    BY <1>1, <2>1, <2>2, <2>3, PlainDeletions
<1>6. CASE EventDelivered
  <2>1. /\ Holds("event") /\ phase = "active" /\ unbound' = unbound \ {First.run}
        /\ Closes \/ (Reads /\ UNCHANGED <<hub, toServer, recovery, asking, announced>>)
        /\ UNCHANGED <<server, retirement, budget>>
    BY <1>6 DEF EventDelivered
  <2>2. unbound' \in SUBSET Runs /\ sent' = sent
    BY <1>0, <2>1 DEF FeedData, budget
  <2>3. CASE Closes
    BY <2>1, <2>2, <2>3, DownDeletions
  <2>4. CASE Reads /\ UNCHANGED <<hub, toServer, recovery, asking, announced>>
    <3>1. UNCHANGED <<server, hub, toServer, todo, replayed, sent, phase, listed, retirement, asking,
                      announced, provisional, paging>>
        BY <2>1, <2>2, <2>4 DEF recovery
    <3>2. /\ provisional' \in SUBSET FeedEvents /\ paging' \in [run : Runs \union {0}, from : Nat]
          /\ (phase = "active" => provisional' = {})
        BY <1>0, <3>1 DEF FeedData, Quiet
    <3> QED
        BY <1>1, <2>1, <2>2, <2>4, <3>1, <3>2, PlainDeletions
  <2> QED
    BY <2>1, <2>3, <2>4
<1> QED
    BY <1>3, <1>4, <1>5, <1>6

LEMMA AnswerDeletions ==
    ASSUME DeletionInv,
           SubscribedArrives \/ AcceptedArrives \/ RefusedArrives \/ FailedArrives \/ PageArrives
    PROVE  DeletionInv'
<1>0. FeedData /\ Quiet /\ Waits
    BY DEF DeletionInv
<1>1. CASE SubscribedArrives \/ AcceptedArrives \/ RefusedArrives \/ (FailedArrives /\ phase = "active")
  <2>1. /\ Reads /\ First.kind \notin {"listed", "retired"} /\ unbound' \in SUBSET unbound
        /\ UNCHANGED <<server, hub, toServer, recovery, retirement, renderer, budget>>
    <3>1. CASE SubscribedArrives
        BY <3>1 DEF SubscribedArrives, Holds, client
    <3>2. CASE AcceptedArrives
        BY <3>2 DEF AcceptedArrives, Holds
    <3>3. CASE RefusedArrives
        BY <3>3 DEF RefusedArrives, Holds
    <3>4. CASE FailedArrives /\ phase = "active"
        BY <3>4 DEF FailedArrives, Holds, client, renderer
    <3> QED
        BY <1>1, <3>1, <3>2, <3>3, <3>4
  <2>2. UNCHANGED <<server, hub, toServer, todo, replayed, sent, phase, listed, retirement, asking,
                    announced, provisional, paging>>
    BY <2>1 DEF recovery, renderer, budget
  <2>3. /\ unbound' \in SUBSET Runs /\ provisional' \in SUBSET FeedEvents
        /\ paging' \in [run : Runs \union {0}, from : Nat]
        /\ (phase = "active" => provisional' = {})
    BY <1>0, <2>1, <2>2 DEF FeedData, Quiet
  <2> QED
    BY <2>1, <2>2, <2>3, PlainDeletions
<1>2. CASE FailedArrives /\ phase # "active"
  <2>1. Closes /\ UNCHANGED <<server, client, shown, budget>>
    BY <1>2 DEF FailedArrives
  <2>2. UNCHANGED <<server, retirement, sent>> /\ unbound' \in SUBSET Runs
    BY <1>0, <2>1 DEF client, budget, FeedData
  <2> QED
    BY <2>1, <2>2, DownDeletions
<1>3. CASE PageArrives
  <2>1. /\ Holds("page") /\ UNCHANGED <<server, unbound, retirement, budget>>
        /\ \/ Closes
           \/ /\ Reads
              /\ \/ First.more = FALSE /\ paging' = NoPage
                 \/ /\ First.more
                    /\ paging' = [run |-> First.run,
                                  from |-> CHOOSE n \in {e.seq : e \in First.events} :
                                               \A e \in First.events : e.seq <= n]
                 \/ paging' = NoPage
              /\ UNCHANGED <<hub, toServer, phase, listed, todo, replayed, provisional,
                             asking, announced>>
    BY <1>3 DEF PageArrives
  <2>2. unbound' \in SUBSET Runs /\ sent' = sent
    BY <1>0, <2>1 DEF FeedData, budget
  <2>3. CASE Closes
    BY <2>1, <2>2, <2>3, DownDeletions
  <2>4. CASE ~Closes
    <3>1. Reads /\ UNCHANGED <<hub, toServer, phase, listed, todo, replayed, provisional, asking, announced>>
        BY <2>1, <2>4
    <3>2. First \in FeedPages /\ First.kind = "page"
        BY <1>0, <2>1, <3>1, ReadFrames, FeedKinds DEF Holds
    <3>3. paging' \in [run : Runs \union {0}, from : Nat]
      <4>1. CASE paging' = NoPage
        BY <4>1 DEF NoPage
      <4>2. CASE paging' # NoPage
        <5>1. PICK m \in FeedPages : m = First
            BY <3>2
        <5>2. /\ m.more
              /\ paging' = [run |-> m.run, from |-> CHOOSE n \in {e.seq : e \in m.events} :
                                                         \A e \in m.events : e.seq <= n]
            BY <2>1, <2>4, <4>2, <5>1
        <5>3. PICK n \in Nat : n = CHOOSE k \in {e.seq : e \in m.events} : \A e \in m.events : e.seq <= k
            BY <5>2, LastOfPage
        <5>4. paging' = [run |-> m.run, from |-> n]
            BY <5>2, <5>3
        <5>5. m.run \in Runs
            BY PageKindsAre
        <5> QED
            BY <5>4, <5>5
      <4> QED
        BY <4>1, <4>2
    <3>4. /\ provisional' \in SUBSET FeedEvents /\ (phase = "active" => provisional' = {})
        BY <1>0, <3>1 DEF FeedData, Quiet
    <3>5. UNCHANGED <<server, hub, toServer, todo, replayed, sent, phase, listed, retirement, asking,
                      announced>>
        BY <2>1, <2>2, <3>1
    <3> QED
        BY <2>2, <3>1, <3>2, <3>3, <3>4, <3>5, PlainDeletions
  <2> QED
    BY <2>3, <2>4
<1> QED
    BY <1>1, <1>2, <1>3

LEMMA StagedIs ==
    ASSUME FeedData, NEW found \in SUBSET Sessions
    PROVE  /\ Staged(found) \in [Sessions -> {"none", "pending", "final"}]
           /\ \A s \in Sessions : /\ retirement[s] # "none" => Staged(found)[s] = retirement[s]
                                  /\ s \notin found => Staged(found)[s] = retirement[s]
                                  /\ s \in found => Staged(found)[s] # "none"
<1>1. retirement \in [Sessions -> {"none", "pending", "final"}]
    BY DEF FeedData
<1> QED
    BY <1>1 DEF Staged

\* The news of a deletion.
LEMMA RetiredDeletions ==
    ASSUME DeletionInv, RetiredStaged \/ RetiredAsked
    PROVE  DeletionInv'
<1>0. FeedData /\ Quiet /\ Deletions
    BY DEF DeletionInv
<1>1. Holds("retired") /\ Reads
    BY DEF RetiredStaged, RetiredAsked
<1>2. /\ First \in FeedFrames /\ First.kind = "retired" /\ First = toClient[1]
      /\ \A i \in DOMAIN toClient :
            \/ i = 1
            \/ i \in Nat /\ i > 1 /\ i - 1 \in DOMAIN toClient' /\ toClient'[i - 1] = toClient[i]
    BY <1>0, <1>1, ReadFrames DEF Holds
<1>3. First.session \in Sessions /\ First = Retired(First.session)
    BY <1>2, FeedKinds
<1>4. PICK s \in Sessions : s = First.session
    BY <1>3
<1>5. /\ Staged({s}) \in [Sessions -> {"none", "pending", "final"}]
      /\ \A t \in Sessions : /\ retirement[t] # "none" => Staged({s})[t] = retirement[t]
                             /\ t # s => Staged({s})[t] = retirement[t]
      /\ Staged({s})[s] # "none"
    BY <1>0, <1>4, StagedIs
<1>6. /\ retirement \in [Sessions -> {"none", "pending", "final"}]
      /\ unbound \in SUBSET Runs /\ provisional \in SUBSET FeedEvents
      /\ paging \in [run : Runs \union {0}, from : Nat]
      /\ asking \in Sessions \union {Nobody} /\ announced \in Seq(Sessions) /\ retired \subseteq Sessions
    BY <1>0 DEF FeedData
<1>7. CASE RetiredStaged
  <2>1. /\ phase # "active" /\ retirement' = Staged({s})
        /\ UNCHANGED <<server, hub, toServer, recovery, cursor, unbound, renderer, budget>>
    BY <1>4, <1>7 DEF RetiredStaged
  <2>2. /\ UNCHANGED <<server, hub, toServer, todo, replayed, sent, phase, listed, asking, announced,
                       unbound, provisional, paging>>
    BY <2>1 DEF recovery, renderer, budget
  <2>3. announced' # <<>> => phase = "active" /\ asking' # Nobody
    BY <1>0, <2>1, <2>2 DEF Quiet
  <2>4. retirement' \in [Sessions -> {"none", "pending", "final"}] /\ retirement'[First.session] # "none"
        /\ \A t \in Sessions : retirement[t] # "none" => retirement'[t] # "none"
    BY <1>4, <1>5, <2>1
  <2>5. /\ unbound' \in SUBSET Runs /\ provisional' \in SUBSET FeedEvents
        /\ paging' \in [run : Runs \union {0}, from : Nat] /\ paging' = paging
        /\ asking' \in Sessions \union {Nobody} /\ announced' \in Seq(Sessions)
    BY <1>6, <2>2
  <2> QED
    BY <1>1, <1>2, <2>1, <2>2, <2>3, <2>4, <2>5, ReadDeletions
<1>8. CASE RetiredAsked
  <2>1. /\ phase = "active"
        /\ \/ /\ asking = Nobody /\ retirement' = Staged({s})
              /\ asking' = Asks(s, retirement') /\ announced' = announced
           \/ /\ asking # Nobody /\ announced' = Append(announced, s)
              /\ retirement' = retirement /\ asking' = asking
        /\ UNCHANGED <<server, hub, toServer, recovery, cursor, unbound, shown, budget>>
    BY <1>4, <1>8 DEF RetiredAsked
  <2>2. /\ UNCHANGED <<server, retired, hub, toServer, todo, replayed, sent, phase, listed, unbound,
                       provisional, paging>>
    BY <2>1 DEF recovery, server, budget
  <2>3. ASSUME NEW t \in retired, t # s,
               \E i \in DOMAIN toClient : toClient[i] = Retired(t)
        PROVE  \E i \in DOMAIN toClient' : toClient'[i] = Retired(t)
    <3>1. PICK i \in DOMAIN toClient : toClient[i] = Retired(t)
        BY <2>3
    <3>2. Retired(t).session = t /\ Retired(s).session = s
        BY DEF Retired
    <3>3. i # 1
        BY <1>2, <1>4, <2>3, <3>1, <3>2
    <3> QED
        BY <1>2, <3>1, <3>3
  <2>4. \A t \in Sessions : retirement[t] = "pending" => asking = t
    BY <1>0, <2>1 DEF Deletions
  <2>5. ASSUME NEW t \in retired
        PROVE  \/ retirement[t] = "final" \/ asking = t
               \/ \E i \in DOMAIN announced : announced[i] = t
               \/ \E i \in DOMAIN toClient : toClient[i] = Retired(t)
    BY <1>0, <2>1 DEF Deletions, DeletionsReachTheRenderer
  <2>6. CASE /\ asking = Nobody /\ retirement' = Staged({s})
             /\ asking' = Asks(s, retirement') /\ announced' = announced
    <3>1. \A t \in Sessions : t # Nobody
        BY FeedAssumption DEF Nobody
    <3>2. announced = <<>> /\ \A t \in Sessions : retirement[t] # "pending"
        BY <1>0, <2>4, <2>6, <3>1 DEF Quiet
    <3>3. /\ \A t \in Sessions : retirement'[t] = "pending" => t = s /\ asking' = s
          /\ asking' \in {s, Nobody} /\ (retirement'[s] = "final" \/ asking' = s)
        BY <1>5, <2>6, <3>2 DEF Asks
    <3>4. ASSUME NEW t \in retired
          PROVE  \/ retirement'[t] = "final" \/ asking' = t
                 \/ \E i \in DOMAIN toClient' : toClient'[i] = Retired(t)
      <4>1. CASE t = s
        BY <3>3, <4>1
      <4>2. CASE t # s
        <5>1. DOMAIN announced = {} /\ asking # t /\ t \in Sessions
            BY <1>6, <2>6, <3>1, <3>2
        <5>2. retirement[t] = "final" => retirement'[t] = "final"
            BY <1>5, <2>6, <5>1
        <5> QED
            BY <2>3, <2>5, <4>2, <5>1, <5>2
      <4> QED
        BY <4>1, <4>2
    <3>5. DeletionsReachTheRenderer'
        BY <2>2, <3>4 DEF DeletionsReachTheRenderer
    <3>6. /\ retirement' \in [Sessions -> {"none", "pending", "final"}]
          /\ \A t \in Sessions : retirement[t] # "none" => retirement'[t] # "none"
        BY <1>5, <2>6
    <3>7. /\ asking' \in Sessions \union {Nobody} /\ announced' = <<>> /\ announced' \in Seq(Sessions)
        BY <1>6, <2>6, <3>2, <3>3
    <3>8. /\ unbound' \in SUBSET Runs /\ provisional' \in SUBSET FeedEvents
          /\ paging' \in [run : Runs \union {0}, from : Nat] /\ paging' = paging
          /\ (phase = "active" => provisional' = {})
        BY <1>0, <1>6, <2>2 DEF Quiet
    <3> QED
        BY <1>1, <1>2, <2>1, <2>2, <3>3, <3>5, <3>6, <3>7, <3>8, ReadDeletions
  <2>7. CASE /\ asking # Nobody /\ announced' = Append(announced, s)
             /\ retirement' = retirement /\ asking' = asking
    <3>1. /\ announced' \in Seq(Sessions)
          /\ \A i \in DOMAIN announced : i \in DOMAIN announced' /\ announced'[i] = announced[i]
          /\ \E i \in DOMAIN announced' : announced'[i] = s
        BY <1>6, <2>7, QueuedOne
    <3>2. ASSUME NEW t \in retired
          PROVE  \/ retirement'[t] = "final" \/ asking' = t
                 \/ \E i \in DOMAIN announced' : announced'[i] = t
                 \/ \E i \in DOMAIN toClient' : toClient'[i] = Retired(t)
        BY <2>3, <2>5, <2>7, <3>1
    <3>3. DeletionsReachTheRenderer'
        BY <2>2, <3>2 DEF DeletionsReachTheRenderer
    <3>4. /\ unbound' \in SUBSET Runs /\ provisional' \in SUBSET FeedEvents
          /\ paging' \in [run : Runs \union {0}, from : Nat] /\ paging' = paging
          /\ asking' \in Sessions \union {Nobody} /\ asking' # Nobody
          /\ retirement' \in [Sessions -> {"none", "pending", "final"}]
          /\ (phase = "active" => provisional' = {})
        BY <1>0, <1>6, <2>2, <2>7 DEF Quiet
    <3>5. \A t \in Sessions : retirement'[t] = "pending" => asking' = t
        BY <2>4, <2>7
    <3> QED
        BY <1>1, <1>2, <2>1, <2>2, <2>7, <3>1, <3>3, <3>4, <3>5, ReadDeletions
  <2> QED
    BY <2>1, <2>6, <2>7
<1> QED
    BY <1>7, <1>8

\* An answer that the Session is not there.
LEMMA MissingDeletions ==
    ASSUME DeletionInv, MissingArrives
    PROVE  DeletionInv'
<1>0. FeedData /\ Quiet /\ Deletions
    BY DEF DeletionInv
<1>1. Holds("missing") /\ Reads
    BY DEF MissingArrives
<1>2. /\ First \in FeedFrames /\ First.kind = "missing" /\ First = toClient[1]
      /\ \A i \in DOMAIN toClient :
            \/ i = 1
            \/ i \in Nat /\ i > 1 /\ i - 1 \in DOMAIN toClient' /\ toClient'[i - 1] = toClient[i]
    BY <1>0, <1>1, ReadFrames DEF Holds
<1>3. PICK s \in Sessions : s = First.session
    BY <1>2, FeedKinds
<1>4. /\ \/ /\ phase # "active" /\ retirement' = Staged({s}) /\ asking' = Asks(s, retirement')
            /\ unbound' = unbound
         \/ /\ phase = "active" /\ asking' = asking
            /\ \/ retirement[s] = "pending" /\ retirement' = retirement /\ unbound' = unbound
               \/ /\ retirement[s] # "pending" /\ unbound' = unbound \ Of(s)
                  /\ retirement' = [retirement EXCEPT ![s] = "final"]
      /\ UNCHANGED <<server, hub, toServer, recovery, announced, shown, budget>>
    BY <1>3 DEF MissingArrives, ForgetsRuns, client
<1>5. UNCHANGED <<server, retired, hub, toServer, todo, replayed, sent, phase, listed, announced,
                  provisional, paging>>
    BY <1>4 DEF recovery, server, budget
<1>6. /\ retirement \in [Sessions -> {"none", "pending", "final"}]
      /\ unbound \in SUBSET Runs /\ provisional \in SUBSET FeedEvents
      /\ paging \in [run : Runs \union {0}, from : Nat]
      /\ asking \in Sessions \union {Nobody} /\ announced \in Seq(Sessions) /\ retired \subseteq Sessions
    BY <1>0 DEF FeedData
<1>7. /\ unbound' \in SUBSET Runs /\ provisional' \in SUBSET FeedEvents
      /\ paging' \in [run : Runs \union {0}, from : Nat] /\ paging' = paging
      /\ announced' \in Seq(Sessions) /\ (phase = "active" => provisional' = {})
    BY <1>0, <1>4, <1>5, <1>6 DEF Quiet
<1>8. CASE /\ phase # "active" /\ retirement' = Staged({s}) /\ asking' = Asks(s, retirement')
  <2>1. /\ retirement' \in [Sessions -> {"none", "pending", "final"}]
        /\ \A t \in Sessions : retirement[t] # "none" => retirement'[t] # "none"
    BY <1>0, <1>8, StagedIs
  <2>2. asking' \in Sessions \union {Nobody} /\ announced' = <<>>
    BY <1>0, <1>5, <1>8 DEF Asks, Quiet
  <2> QED
    BY <1>1, <1>2, <1>5, <1>7, <1>8, <2>1, <2>2, ReadDeletions
<1>9. CASE /\ phase = "active" /\ asking' = asking
           /\ \/ retirement' = retirement
              \/ retirement[s] # "pending" /\ retirement' = [retirement EXCEPT ![s] = "final"]
  <2>1. /\ retirement' \in [Sessions -> {"none", "pending", "final"}]
        /\ \A t \in Sessions : retirement[t] # "none" => retirement'[t] # "none"
        /\ \A t \in Sessions : retirement'[t] = "pending" => retirement[t] = "pending"
        /\ \A t \in Sessions : retirement[t] = "final" => retirement'[t] = "final"
    BY <1>6, <1>9
  <2>2. \A t \in Sessions : retirement'[t] = "pending" => asking' = t
    BY <1>0, <1>9, <2>1 DEF Deletions
  <2>3. ASSUME NEW t \in retired
        PROVE  \/ retirement'[t] = "final" \/ asking' = t
               \/ \E i \in DOMAIN announced' : announced'[i] = t
               \/ \E i \in DOMAIN toClient' : toClient'[i] = Retired(t)
    <3>1. CASE \E i \in DOMAIN toClient : toClient[i] = Retired(t)
      <4>1. PICK i \in DOMAIN toClient : toClient[i] = Retired(t)
        BY <3>1
      <4>2. Retired(t).kind = "retired"
        BY DEF Retired
      <4> QED
        BY <1>2, <4>1, <4>2
    <3>2. CASE ~\E i \in DOMAIN toClient : toClient[i] = Retired(t)
        BY <1>0, <1>5, <1>6, <1>9, <2>1, <3>2 DEF Deletions, DeletionsReachTheRenderer
    <3> QED
        BY <3>1, <3>2
  <2>4. DeletionsReachTheRenderer'
    BY <1>5, <2>3 DEF DeletionsReachTheRenderer
  <2>5. asking' \in Sessions \union {Nobody} /\ (announced' # <<>> => asking' # Nobody)
    BY <1>0, <1>5, <1>6, <1>9 DEF Quiet
  <2> QED
    BY <1>1, <1>2, <1>5, <1>7, <1>9, <2>1, <2>2, <2>4, <2>5, ReadDeletions
<1> QED
    BY <1>4, <1>8, <1>9

LEMMA ZeroIsNat == 0 \in Nat
OBVIOUS

\* The list of deleted Sessions, a page of it.
LEMMA ListDeletions ==
    ASSUME DeletionInv, ListArrives
    PROVE  DeletionInv'
<1>0. FeedData /\ Quiet /\ LogInv /\ Waits /\ Deletions
    BY DEF DeletionInv
<1>1. Holds("listed") /\ Reads
    BY DEF ListArrives
<1>2. /\ toClient' \in Seq(FeedFrames) /\ First \in FeedFrames /\ First.kind = "listed"
      /\ First = toClient[1] /\ 1 \in DOMAIN toClient
      /\ \A i \in DOMAIN toClient' :
            i \in Nat /\ i >= 1 /\ i + 1 \in DOMAIN toClient /\ toClient'[i] = toClient[i + 1]
      /\ \A i \in DOMAIN toClient :
            \/ i = 1
            \/ i \in Nat /\ i > 1 /\ i - 1 \in DOMAIN toClient' /\ toClient'[i - 1] = toClient[i]
    BY <1>0, <1>1, ReadFrames DEF Holds
<1>3. PICK m \in FeedLists : m = First
    BY <1>2, FeedKinds
<1>4. /\ m.found \in SUBSET Sessions /\ m.more \in BOOLEAN
      /\ (m.found = {} /\ ~m.more) \/ \E s \in Sessions : m.found = {s}
    BY ListKindsAre
<1>5. phase = "listing" /\ \A i \in DOMAIN toClient : toClient[i].kind \in Answers => i = 1
    BY <1>0, <1>2 DEF Waits, Answers
<1>6. /\ retirement' = Staged(m.found)
      /\ listed' = (IF m.more THEN CHOOSE s \in m.found : TRUE ELSE 0)
      /\ phase' = (IF m.more THEN phase ELSE "retiring")
      /\ asking' = (IF m.found = {} THEN Nobody ELSE Asks(CHOOSE s \in m.found : TRUE, retirement'))
      /\ UNCHANGED <<server, hub, toServer, todo, replayed, paging, provisional, cursor, unbound,
                     announced, shown, budget>>
    BY <1>3 DEF ListArrives
<1>7. /\ UNCHANGED <<log, executing, retired, route, subs, toServer, todo, replayed, paging, provisional,
                     unbound, announced, sent>>
    BY <1>6 DEF server, hub, budget
<1>8. \/ phase' = "listing" /\ m.more /\ listed' \in Sessions /\ m.found = {listed'}
      \/ phase' = "retiring" /\ ~m.more /\ listed' = 0
  <2>1. CASE m.more
    <3>1. PICK s \in Sessions : m.found = {s}
        BY <1>4, <2>1
    <3>2. listed' = s
        BY <1>6, <2>1, <3>1
    <3> QED
        BY <1>5, <1>6, <2>1, <3>1, <3>2
  <2>2. CASE ~m.more
    BY <1>6, <2>2
  <2> QED
    BY <2>1, <2>2
<1>9. asking' \in Sessions \union {Nobody}
  <2>1. CASE m.found = {}
    BY <1>6, <2>1
  <2>2. CASE m.found # {}
    <3>1. PICK s \in Sessions : s = CHOOSE t \in m.found : TRUE
        BY <1>4, <2>2
    <3> QED
        BY <1>6, <2>2, <3>1 DEF Asks
  <2> QED
    BY <2>1, <2>2
<1>10. /\ retirement' \in [Sessions -> {"none", "pending", "final"}]
       /\ \A s \in Sessions : retirement[s] # "none" \/ s \in m.found => retirement'[s] # "none"
    BY <1>0, <1>4, <1>6, StagedIs
<1>11. FeedData'
  <2>1. phase' \in Phases /\ listed' \in Nat
    <3>1. Sessions \subseteq Nat
        BY FeedAssumption
    <3>2. phase' \in {"listing", "retiring"} /\ (listed' \in Sessions \/ listed' = 0)
        BY <1>8
    <3>3. listed' \in Nat
        BY Zenon, <3>1, <3>2, ZeroIsNat
    <3>4. phase' \in Phases
        BY Zenon, <3>2 DEF Phases
    <3> QED
        BY <3>3, <3>4
  <2> QED
    BY <1>0, <1>2, <1>7, <1>9, <1>10, <2>1 DEF FeedData
<1>12. LogInv'
    BY <1>0, <1>7 DEF LogInv, Present
<1>13. Quiet'
  <2>1. /\ subs' = {} /\ route' = {} /\ toServer' = {} /\ announced' = <<>>
        /\ phase' \in {"listing", "retiring"} /\ replayed' = {} /\ paging' = NoPage
    BY <1>0, <1>5, <1>7, <1>8 DEF Quiet, Early
  <2> QED
    BY <2>1 DEF Quiet
<1>14. Waits'
    BY <1>0, <1>1, <1>2, <1>5, ReadWaits DEF Answers
<1>15. Unlisted'
  <2>1. ASSUME NEW i \in DOMAIN toClient' PROVE toClient'[i].kind # "listed"
    BY <1>2, <1>5 DEF Answers
  <2> QED
    BY <2>1 DEF Unlisted
<1>16. ASSUME NEW s \in retired, Covered(s) PROVE Covered(s)'
  <2>0. s \in Sessions
    BY <1>0 DEF FeedData
  <2>1. CASE retirement[s] # "none"
    BY <1>10, <2>0, <2>1 DEF Covered
  <2>2. CASE retirement[s] = "none"
    <3>1. PICK i \in DOMAIN toClient : toClient[i] = Retired(s)
        BY <1>16, <2>2 DEF Covered, IsOnItsWay
    <3>2. i # 1
        BY <1>2, <3>1 DEF Retired
    <3> QED
        BY <1>2, <3>1, <3>2 DEF Covered, IsOnItsWay
  <2> QED
    BY <2>1, <2>2
<1>17. ASSUME NEW s \in retired, ToList(s)
       PROVE  Covered(s)' \/ (phase' = "listing" /\ ToList(s)')
  <2>0. s \in Sessions /\ s \in Nat /\ Sessions \subseteq Nat
    BY <1>0, FeedAssumption DEF FeedData
  <2>1. s \in m.found \/ (m.more /\ \A t \in m.found : t < s)
    <3>1. ~Unlisted
        BY <1>2 DEF Unlisted
    <3>2. PICK i \in DOMAIN toClient :
              /\ toClient[i].kind = "listed"
              /\ s \in toClient[i].found \/ (toClient[i].more /\ \A t \in toClient[i].found : t < s)
        BY <1>17, <3>1 DEF ToList
    <3>3. i = 1
        BY <1>5, <3>2 DEF Answers
    <3> QED
        BY <1>2, <1>3, <3>2, <3>3
  <2>2. CASE s \in m.found
    BY <1>10, <2>0, <2>2 DEF Covered
  <2>3. CASE m.more /\ \A t \in m.found : t < s
    <3>1. phase' = "listing" /\ listed' \in Nat /\ listed' < s
        BY <1>8, <2>0, <2>3
    <3>2. s > listed'
        BY <2>0, <3>1
    <3> QED
        BY <1>15, <3>1, <3>2 DEF ToList
  <2> QED
    BY <2>1, <2>2, <2>3
<1>18. Deletions'
  <2>1. \A s \in retired : Covered(s)' \/ (phase' = "listing" /\ ToList(s)')
    BY <1>0, <1>5, <1>16, <1>17 DEF Deletions
  <2>2. retired' = retired /\ phase' \in {"listing", "retiring"}
    BY <1>7, <1>8
  <2> QED
    BY <2>1, <2>2 DEF Deletions, DeletionsReachTheRenderer
<1> QED
    BY <1>11, <1>12, <1>13, <1>14, <1>18 DEF DeletionInv

\* A step that reads nothing and publishes nothing, while the Desktop is connected.
LEMMA StillDeletions ==
    ASSUME DeletionInv, UNCHANGED <<server, hub, toClient>>, FeedData', Quiet', phase # "down",
           \/ phase' = phase /\ paging' = paging /\ listed' = listed
           \/ Idle /\ phase \notin {"listing", "active"} /\ phase' \notin {"down", "listing"},
           \A s \in Sessions : retirement[s] # "none" => retirement'[s] # "none",
           phase' = "active" => /\ \A s \in Sessions : retirement'[s] = "pending" => asking' = s
                                /\ DeletionsReachTheRenderer'
    PROVE  DeletionInv'
<1>0. FeedData /\ LogInv /\ Waits /\ Deletions
    BY DEF DeletionInv
<1>1. UNCHANGED <<log, executing, retired, toClient>>
    BY DEF server
<1>2. LogInv'
    BY <1>0, <1>1 DEF LogInv, Present
<1>3. Waits'
  <2>1. CASE phase' = phase /\ paging' = paging
    BY <1>0, <1>1, <2>1 DEF Waits
  <2>2. CASE Idle
    <3>1. \A i \in DOMAIN toClient : toClient[i].kind \notin Answers
        BY <2>2 DEF Idle
    <3>2. \A i \in DOMAIN toClient : toClient[i].kind \notin {"listed", "page", "accepted"}
        BY <3>1 DEF Answers
    <3> QED
        BY <1>1, <3>1, <3>2 DEF Waits
  <2> QED
    BY <2>1, <2>2
<1>4. \A s \in Sessions : Covered(s) => Covered(s)'
    BY <1>1 DEF Covered, IsOnItsWay
<1>5. retired \subseteq Sessions /\ phase \in Phases
    BY <1>0 DEF FeedData
<1>6. CASE phase' = phase /\ listed' = listed
  <2>1. \A s \in Sessions : ToList(s) => ToList(s)'
    BY <1>1, <1>6 DEF ToList, Unlisted
  <2>2. phase' = "listing" => \A s \in retired' : Covered(s)' \/ ToList(s)'
    BY <1>0, <1>1, <1>4, <1>5, <1>6, <2>1 DEF Deletions
  <2>3. phase' \in {"retiring", "subscribing", "replaying", "resending", "draining"} =>
            \A s \in retired' : Covered(s)'
    BY <1>0, <1>1, <1>4, <1>5, <1>6 DEF Deletions
  <2>4. Deletions'
    BY <2>2, <2>3 DEF Deletions, DeletionsReachTheRenderer
  <2> QED
    BY <1>2, <1>3, <2>4 DEF DeletionInv
<1>7. CASE phase \notin {"listing", "active"} /\ phase' \notin {"down", "listing"}
  <2>1. phase \in {"retiring", "subscribing", "replaying", "resending", "draining"}
    BY <1>5, <1>7 DEF Phases
  <2>2. \A s \in retired' : Covered(s)'
    BY <1>0, <1>1, <1>4, <1>5, <2>1 DEF Deletions
  <2>3. Deletions'
    BY <1>7, <2>2 DEF Deletions, DeletionsReachTheRenderer
  <2> QED
    BY <1>2, <1>3, <2>3 DEF DeletionInv
<1> QED
    BY <1>6, <1>7

LEMMA ConnectDeletions ==
    ASSUME DeletionInv, Connect
    PROVE  DeletionInv'
<1>0. FeedData /\ Quiet /\ LogInv
    BY DEF DeletionInv
<1>1. /\ phase = "down" /\ phase' = "listing" /\ executing' \in {executing, {}}
      /\ UNCHANGED <<log, retired, hub, channel, listed, todo, replayed, paging, provisional,
                     client, renderer, budget>>
    BY DEF Connect
<1>2. UNCHANGED <<log, retired, route, subs, toServer, toClient, listed, todo, replayed, paging,
                  provisional, unbound, retirement, asking, announced, sent>>
    BY <1>1 DEF hub, channel, client, renderer, budget
<1>3. executing' \subseteq executing
    BY <1>1
<1>4. FeedData'
  <2>1. phase' \in Phases /\ executing' \in SUBSET Runs
    BY <1>0, <1>1, <1>3 DEF FeedData, Phases
  <2> QED
    BY <1>0, <1>2, <2>1 DEF FeedData
<1>5. LogInv'
    BY <1>0, <1>2, <1>3 DEF LogInv, Present
<1>6. toClient' = <<>> /\ DOMAIN toClient' = {} /\ listed' = 0
    BY <1>0, <1>1, <1>2 DEF Quiet
<1>7. Quiet'
    BY <1>0, <1>1, <1>2 DEF Quiet, Early
<1>8. Waits'
    BY <1>6 DEF Waits
<1>9. Deletions'
  <2>1. \A s \in retired' : s > listed'
    <3>1. retired' \in SUBSET Sessions /\ Sessions \subseteq Nat \ {0}
        BY <1>4, FeedAssumption DEF FeedData
    <3>2. \A s \in Nat \ {0} : s > 0
        OBVIOUS
    <3> QED
        BY <1>6, <3>1, <3>2
  <2>2. \A s \in retired' : ToList(s)'
    BY <1>6, <2>1 DEF ToList, Unlisted
  <2> QED
    BY <1>1, <2>2 DEF Deletions, DeletionsReachTheRenderer
<1> QED
    BY <1>4, <1>5, <1>7, <1>8, <1>9 DEF DeletionInv

LEMMA AsksNextIs ==
    ASSUME FeedData, NEW ret, AsksNext(ret)
    PROVE  /\ asking' \in Sessions \union {Nobody}
           /\ Pending(ret) = {} => asking' = Nobody
BY DEF AsksNext, Pending

\* The phases of a recovery, and a message of the user.
LEMMA RecoveryDeletions ==
    ASSUME DeletionInv, Retires \/ Subscribes \/ \E r \in Runs : Send(r)
    PROVE  DeletionInv'
<1>0. FeedData /\ Quiet /\ Deletions
    BY DEF DeletionInv
<1>1. CASE Retires
  <2>1. /\ phase = "retiring" /\ Idle
        /\ \/ AsksNext(retirement) /\ phase' = phase
           \/ phase' = "subscribing" /\ asking' = asking
        /\ UNCHANGED <<server, hub, channel, listed, replayed, paging, provisional, client,
                       announced, shown, budget>>
    BY <1>1 DEF Retires
  <2>2. UNCHANGED <<log, executing, retired, route, subs, toServer, toClient, listed, replayed, paging,
                    provisional, unbound, retirement, announced, sent>>
    BY <2>1 DEF server, hub, channel, client, budget
  <2>3. asking' \in Sessions \union {Nobody} /\ phase' \in {"retiring", "subscribing"}
    BY <1>0, <2>1, AsksNextIs DEF FeedData
  <2>4. FeedData'
    <3>1. phase' \in Phases
        BY <2>3 DEF Phases
    <3> QED
        BY <1>0, <2>2, <2>3, <3>1 DEF FeedData
  <2>5. Quiet'
    BY <1>0, <2>1, <2>2, <2>3 DEF Quiet, Early
  <2>6. \A s \in Sessions : retirement[s] # "none" => retirement'[s] # "none"
    BY <2>2
  <2>7. phase # "down" /\ phase \notin {"listing", "active"} /\ phase' \notin {"down", "listing", "active"}
    BY <2>1, <2>3
  <2> QED
    BY <2>1, <2>2, <2>4, <2>5, <2>6, <2>7, StillDeletions
<1>2. CASE Subscribes
  <2>1. /\ phase = "subscribing" /\ Idle /\ phase' = "replaying"
        /\ UNCHANGED <<server, hub, channel, listed, todo, replayed, paging, provisional, client,
                       renderer, budget>>
    BY <1>2 DEF Subscribes
  <2>2. UNCHANGED <<log, executing, retired, route, subs, toServer, toClient, listed, todo, replayed,
                    paging, provisional, unbound, retirement, asking, announced, sent>>
    BY <2>1 DEF server, hub, channel, client, renderer, budget
  <2>3. FeedData'
    <3>1. phase' \in Phases
        BY <2>1 DEF Phases
    <3> QED
        BY <1>0, <2>2, <3>1 DEF FeedData
  <2>4. Quiet'
    BY <1>0, <2>1, <2>2 DEF Quiet, Early
  <2>5. \A s \in Sessions : retirement[s] # "none" => retirement'[s] # "none"
    BY <2>2
  <2>6. phase # "down" /\ phase \notin {"listing", "active"} /\ phase' \notin {"down", "listing", "active"}
    BY <2>1
  <2> QED
    BY <2>1, <2>2, <2>3, <2>4, <2>5, <2>6, StillDeletions
<1>3. CASE \E r \in Runs : Send(r)
  <2>1. PICK r \in Runs : Send(r)
    BY <1>3
  <2>2. /\ phase = "active" /\ sent' = sent \union {r}
        /\ unbound' = unbound \union {r} /\ toServer' = toServer \union {r}
        /\ UNCHANGED <<server, hub, toClient, recovery, cursor, retirement, renderer, feedFaults>>
    BY <2>1 DEF Send
  <2>3. UNCHANGED <<log, executing, retired, route, subs, toClient, phase, listed, todo, replayed,
                    paging, provisional, retirement, asking, announced>>
    BY <2>2 DEF server, hub, recovery, renderer
  <2>4. FeedData'
    BY <1>0, <2>2, <2>3 DEF FeedData
  <2>5. Quiet'
    BY <1>0, <2>2, <2>3 DEF Quiet, Early
  <2>6. \A s \in Sessions : retirement[s] # "none" => retirement'[s] # "none"
    BY <2>3
  <2>7. /\ \A s \in Sessions : retirement'[s] = "pending" => asking' = s
        /\ DeletionsReachTheRenderer'
    BY <1>0, <2>2, <2>3 DEF Deletions, DeletionsReachTheRenderer
  <2>8. phase # "down" /\ phase' = phase /\ paging' = paging /\ listed' = listed
    BY <2>2, <2>3
  <2> QED
    BY <2>2, <2>4, <2>5, <2>6, <2>7, <2>8, StillDeletions
<1> QED
    BY <1>1, <1>2, <1>3

\* The events of the recovery are delivered, and the Desktop is active again.
LEMMA DrainDeletions ==
    ASSUME DeletionInv, Replays \/ Drains
    PROVE  DeletionInv'
<1>0. FeedData /\ Quiet /\ Deletions
    BY DEF DeletionInv
<1>1. /\ Idle /\ phase \in {"replaying", "resending", "draining"}
      /\ UNCHANGED <<server, unbound, retirement, budget>>
      /\ phase = "replaying" => paging = NoPage
      /\ \/ Closes
         \/ /\ UNCHANGED <<hub, channel, listed, paging, announced>> /\ provisional' = {}
            /\ \/ phase = "replaying" /\ phase' = "resending" /\ replayed' = {} /\ asking' = asking
               \/ /\ phase # "replaying" /\ replayed' = replayed /\ AsksNext(retirement)
                  /\ phase' = (IF Pending(retirement) = {} THEN "active" ELSE "draining")
    BY DEF Replays, Drains
<1>2. UNCHANGED <<log, executing, retired, unbound, retirement, sent>>
    BY <1>1 DEF server, budget
<1>3. CASE Closes
  <2>1. unbound' \in SUBSET Runs
    BY <1>0, <1>2 DEF FeedData
  <2> QED
    BY <1>1, <1>2, <1>3, <2>1, DownDeletions
<1>4. CASE ~Closes
  <2>1. /\ UNCHANGED <<hub, channel, listed, paging, announced>> /\ provisional' = {}
        /\ \/ phase = "replaying" /\ phase' = "resending" /\ replayed' = {} /\ asking' = asking
           \/ /\ phase # "replaying" /\ replayed' = replayed /\ AsksNext(retirement)
              /\ phase' = (IF Pending(retirement) = {} THEN "active" ELSE "draining")
    BY <1>1, <1>4
  <2>2. UNCHANGED <<route, subs, toServer, toClient, listed, paging, announced>>
    BY <2>1 DEF hub, channel
  <2>3. asking' \in Sessions \union {Nobody} /\ phase' \in {"resending", "draining", "active"}
    BY <1>0, <2>1, AsksNextIs DEF FeedData
  <2>4. FeedData'
    <3>1. phase' \in Phases /\ replayed' \in SUBSET Runs
        BY <1>0, <2>1, <2>3 DEF Phases, FeedData
    <3> QED
        BY <1>0, <1>2, <2>1, <2>2, <2>3, <3>1 DEF FeedData
  <2>5. toServer' = {} /\ announced' = <<>> /\ replayed' = {} /\ paging' = NoPage
    BY <1>0, <1>1, <2>1, <2>2 DEF Quiet
  <2>6. Quiet'
    BY <2>1, <2>3, <2>5 DEF Quiet, Early
  <2>7. \A s \in Sessions : retirement[s] # "none" => retirement'[s] # "none"
    BY <1>2
  <2>8. ASSUME phase' = "active"
        PROVE  /\ \A s \in Sessions : retirement'[s] # "pending"
               /\ DeletionsReachTheRenderer'
    <3>1. Pending(retirement) = {}
        BY <2>1, <2>8
    <3>2. \A s \in Sessions : retirement[s] # "pending"
        BY <3>1 DEF Pending
    <3>3. \A s \in retired : s \in Sessions /\ Covered(s)
        BY <1>0, <1>1 DEF Deletions, FeedData
    <3>4. \A s \in Sessions : retirement[s] \in {"none", "pending", "final"}
        BY <1>0 DEF FeedData
    <3>5. \A s \in retired : retirement[s] = "final" \/ \E i \in DOMAIN toClient : toClient[i] = Retired(s)
        BY <3>2, <3>3, <3>4 DEF Covered, IsOnItsWay
    <3> QED
        BY <1>2, <2>2, <3>2, <3>5 DEF DeletionsReachTheRenderer
  <2>9. Idle /\ phase # "down" /\ phase \notin {"listing", "active"} /\ phase' \notin {"down", "listing"}
    BY <1>1, <2>3
  <2>10. UNCHANGED <<server, hub, toClient>>
    BY <1>1, <2>1, <2>2
  <2>11. phase' = "active" => /\ \A s \in Sessions : retirement'[s] = "pending" => asking' = s
                             /\ DeletionsReachTheRenderer'
    BY <2>8
  <2> QED
    BY <2>4, <2>6, <2>7, <2>9, <2>10, <2>11, StillDeletions
<1> QED
    BY <1>3, <1>4

\* The renderer knows of a deletion.
LEMMA AcknowledgedDeletions ==
    ASSUME DeletionInv, Acknowledged
    PROVE  DeletionInv'
<1>0. FeedData /\ Quiet /\ Deletions
    BY DEF DeletionInv
<1>1. PICK a \in Sessions : a = asking
    BY <1>0 DEF Acknowledged, FeedData
<1>2. PICK done : done = [retirement EXCEPT ![a] = "final"]
    OBVIOUS
<1>3. /\ done \in [Sessions -> {"none", "pending", "final"}] /\ done[a] = "final"
      /\ \A s \in Sessions : s # a => done[s] = retirement[s]
    BY <1>0, <1>2 DEF FeedData
<1>4. /\ UNCHANGED <<server, hub, channel, recovery, shown, budget>>
      /\ unbound' = unbound \ Of(a)
      /\ \/ /\ phase \in {"retiring", "draining"} /\ retirement' = done
            /\ AsksNext(done) /\ announced' = announced
         \/ /\ phase = "active" /\ Turns(done) # {}
            /\ LET i == CHOOSE j \in Turns(done) : \A k \in Turns(done) : j <= k
               IN  /\ retirement' = [done EXCEPT ![announced[i]] = "pending"]
                   /\ asking' = announced[i]
                   /\ announced' = SubSeq(announced, i + 1, Len(announced))
         \/ /\ phase \notin {"retiring", "draining"} /\ ~(phase = "active" /\ Turns(done) # {})
            /\ retirement' = done /\ asking' = Nobody /\ announced' = <<>>
    BY <1>1, <1>2 DEF Acknowledged, ForgetsRuns
<1>5. UNCHANGED <<log, executing, retired, route, subs, toServer, toClient, phase, listed, todo, replayed,
                  paging, provisional, sent>>
    BY <1>4 DEF server, hub, channel, recovery, budget
<1>6. phase # "down"
  <2>1. asking # Nobody
    BY DEF Acknowledged
  <2> QED
    BY <1>0, <2>1 DEF Quiet
<1>7. announced \in Seq(Sessions) /\ retired \subseteq Sessions
    BY <1>0 DEF FeedData
<1>8. /\ retirement' \in [Sessions -> {"none", "pending", "final"}]
      /\ asking' \in Sessions \union {Nobody} /\ announced' \in Seq(Sessions)
      /\ phase # "active" => announced' = <<>>
      /\ announced' # <<>> => asking' # Nobody
      /\ \A s \in Sessions : retirement[s] # "none" => retirement'[s] # "none"
      /\ phase = "active" => /\ \A s \in Sessions : retirement'[s] = "pending" => asking' = s
                             /\ \A s \in retired : \/ retirement'[s] = "final" \/ asking' = s
                                                   \/ \E i \in DOMAIN announced' : announced'[i] = s
                                                   \/ \E i \in DOMAIN toClient : toClient[i] = Retired(s)
  <2>1. ASSUME phase = "active"
        PROVE  /\ \A s \in Sessions : done[s] # "pending"
               /\ \A s \in retired : \/ done[s] = "final"
                                     \/ \E i \in DOMAIN announced : announced[i] = s
                                     \/ \E i \in DOMAIN toClient : toClient[i] = Retired(s)
    <3>1. \A s \in Sessions : done[s] # "pending"
        BY <1>0, <1>1, <1>3, <2>1 DEF Deletions
    <3>2. \A s \in retired : \/ done[s] = "final"
                             \/ \E i \in DOMAIN announced : announced[i] = s
                             \/ \E i \in DOMAIN toClient : toClient[i] = Retired(s)
        BY <1>0, <1>1, <1>3, <1>7, <2>1 DEF Deletions, DeletionsReachTheRenderer
    <3> QED
        BY <3>1, <3>2
  <2>2. CASE /\ phase \in {"retiring", "draining"} /\ retirement' = done
             /\ AsksNext(done) /\ announced' = announced
    <3>1. announced' = <<>> /\ asking' \in Sessions \union {Nobody}
        BY <1>0, <2>2, AsksNextIs DEF Quiet
    <3> QED
        BY <1>3, <2>2, <3>1
  <2>3. CASE /\ phase \notin {"retiring", "draining"} /\ ~(phase = "active" /\ Turns(done) # {})
             /\ retirement' = done /\ asking' = Nobody /\ announced' = <<>>
    <3>1. phase = "active" => \A i \in DOMAIN announced : done[announced[i]] = "final"
        BY <2>3 DEF Turns
    <3> QED
        BY <1>3, <2>1, <2>3, <3>1
  <2>4. CASE phase = "active" /\ Turns(done) # {}
    <3>1. Turns(done) \subseteq DOMAIN announced /\ DOMAIN announced = 1..Len(announced)
          /\ Len(announced) \in Nat
        BY <1>7 DEF Turns
    <3>2. \E i \in Turns(done) : \A j \in Turns(done) : ~(j < i)
        BY <2>4, <3>1, LowestIs
    <3>3. \E i \in Turns(done) : \A j \in Turns(done) : i <= j
        BY <3>1, <3>2
    <3>4. PICK i \in Turns(done) : i = CHOOSE j \in Turns(done) : \A k \in Turns(done) : j <= k
        BY <3>3
    <3>5. \A k \in Turns(done) : i <= k
        BY <3>3, <3>4
    <3>6. PICK b \in Sessions : b = announced[i]
        BY <1>7, <3>1
    <3>7. /\ retirement' = [done EXCEPT ![b] = "pending"] /\ asking' = b
          /\ announced' = SubSeq(announced, i + 1, Len(announced))
        BY <1>4, <2>4, <3>4, <3>6
    <3>8. /\ announced' \in Seq(Sessions)
          /\ \A k \in DOMAIN announced : k > i => \E j \in DOMAIN announced' : announced'[j] = announced[k]
      <4>1. i \in 1..Len(announced)
        BY <3>1
      <4>2. announced' \in Seq(Sessions)
        BY <1>7, <3>1, <3>7, <4>1
      <4>3. ASSUME NEW k \in DOMAIN announced, k > i
            PROVE  k - i \in DOMAIN announced' /\ announced'[k - i] = announced[k]
        BY <1>7, <3>1, <3>7, <4>1, <4>3
      <4> QED
        BY <4>2, <4>3
    <3>9. done[b] # "final"
        BY <3>6 DEF Turns
    <3>10. /\ retirement' \in [Sessions -> {"none", "pending", "final"}]
           /\ \A s \in Sessions : retirement[s] # "none" => retirement'[s] # "none"
           /\ \A s \in Sessions : retirement'[s] = "pending" => asking' = s
        BY <1>3, <2>1, <2>4, <3>7
    <3>11. ASSUME NEW s \in retired
           PROVE  \/ retirement'[s] = "final" \/ asking' = s
                  \/ \E k \in DOMAIN announced' : announced'[k] = s
                  \/ \E k \in DOMAIN toClient : toClient[k] = Retired(s)
      <4>1. CASE done[s] = "final"
        BY <1>3, <1>7, <3>7, <3>9, <4>1
      <4>2. CASE done[s] # "final" /\ \E k \in DOMAIN announced : announced[k] = s
        <5>1. PICK k \in DOMAIN announced : announced[k] = s
            BY <4>2
        <5>2. k \in Turns(done)
            BY <4>2, <5>1 DEF Turns
        <5>3. k = i \/ k > i
            BY <3>1, <3>5, <5>2
        <5> QED
            BY <3>6, <3>7, <3>8, <5>1, <5>3
      <4> QED
        BY <2>1, <2>4, <4>1, <4>2
    <3>12. asking' # Nobody
      <4>1. Nobody \notin Sessions
        BY FeedAssumption DEF Nobody
      <4> QED
        BY <3>7, <4>1
    <3> QED
        BY <2>4, <3>7, <3>8, <3>10, <3>11, <3>12
  <2> QED
    BY <1>4, <2>2, <2>3, <2>4
<1>9. FeedData'
  <2>1. unbound' \in SUBSET Runs
    BY <1>0, <1>4 DEF FeedData
  <2> QED
    BY <1>0, <1>5, <1>8, <2>1 DEF FeedData
<1>10. Quiet'
    BY <1>0, <1>5, <1>6, <1>8 DEF Quiet, Early
<1>11. phase' = "active" => DeletionsReachTheRenderer'
    BY <1>5, <1>8 DEF DeletionsReachTheRenderer
<1>12. UNCHANGED <<server, hub, toClient>>
    BY <1>4 DEF channel
<1> QED
    BY <1>5, <1>6, <1>8, <1>9, <1>10, <1>11, <1>12, StillDeletions

LEMMA FirstDeletions == ASSUME FeedInit PROVE DeletionInv
<1>1. /\ log = [r \in Runs |-> [seq |-> 0, end |-> 0]] /\ executing = {} /\ retired = {}
      /\ route = {} /\ subs = {} /\ toServer = {} /\ toClient = <<>> /\ phase = "down" /\ listed = 0
      /\ todo = {} /\ replayed = {} /\ paging = NoPage /\ provisional = {} /\ unbound = {}
      /\ retirement = [s \in Sessions |-> "none"] /\ asking = Nobody /\ announced = <<>> /\ sent = {}
    BY DEF FeedInit
<1>2. FeedData
  <2>1. log \in [Runs -> [seq : Nat, end : Nat]] /\ NoPage \in [run : Runs \union {0}, from : Nat]
    BY <1>1 DEF NoPage
  <2>2. toClient \in Seq(FeedFrames) /\ announced \in Seq(Sessions)
    BY <1>1
  <2>3. phase \in Phases /\ listed \in Nat /\ retirement \in [Sessions -> {"none", "pending", "final"}]
    BY <1>1 DEF Phases
  <2> QED
    BY <1>1, <2>1, <2>2, <2>3 DEF FeedData
<1>3. LogInv /\ Quiet
    BY <1>1 DEF LogInv, Quiet
<1>4. DOMAIN toClient = {}
    BY <1>1
<1>5. Waits /\ Deletions
    BY <1>1, <1>4 DEF Waits, Deletions, DeletionsReachTheRenderer
<1> QED
    BY <1>2, <1>3, <1>5 DEF DeletionInv

LEMMA NextDeletions == ASSUME DeletionInv, FeedNext PROVE DeletionInv'
<1>0. FeedData /\ Quiet /\ LogInv
    BY DEF DeletionInv
<1>1. CASE Growing
  <2>1. /\ ServerData' /\ LogInv' /\ Grows
        /\ \A s \in retired' \ retired :
               phase = "down" \/ \E i \in DOMAIN toClient' : toClient'[i] = Retired(s)
    BY <1>0, <1>1, GrowingAll
  <2> QED
    BY <2>1, GrowsDeletions
<1>2. CASE Arrives
    BY <1>2, EventDeletions, AnswerDeletions, RetiredDeletions, MissingDeletions, ListDeletions
       DEF Arrives
<1>3. CASE RendererRefuses \/ ConnectionLost
  <2>1. Closes /\ UNCHANGED <<server, client, shown, sent>>
    BY <1>3 DEF RendererRefuses, ConnectionLost
  <2>2. UNCHANGED <<server, retirement, sent>> /\ unbound' \in SUBSET Runs
    BY <1>0, <2>1 DEF client, FeedData
  <2> QED
    BY <2>1, <2>2, DownDeletions
<1>4. CASE Connect \/ Acknowledged \/ Retires \/ Subscribes \/ (\E r \in Runs : Send(r)) \/ Replays \/ Drains
    BY <1>4, ConnectDeletions, AcknowledgedDeletions, RecoveryDeletions, DrainDeletions
<1>5. Growing \/ Arrives \/ RendererRefuses \/ ConnectionLost \/ Connect \/ Acknowledged \/ Retires
      \/ Subscribes \/ (\E r \in Runs : Send(r)) \/ Replays \/ Drains
    BY DEF FeedNext, Recovers, Serves, Others, Growing
<1> QED
    BY <1>1, <1>2, <1>3, <1>4, <1>5

LEMMA StutterDeletions == ASSUME DeletionInv, UNCHANGED feedVars PROVE DeletionInv'
<1>1. UNCHANGED <<log, executing, retired, route, subs, toServer, toClient, phase, listed, todo, replayed,
                  paging, provisional, unbound, retirement, asking, announced, sent>>
    BY DEF feedVars, server, hub, channel, recovery, client, renderer, budget
<1>2. FeedData' /\ Quiet' /\ LogInv' /\ Waits'
    BY <1>1 DEF DeletionInv, FeedData, Quiet, LogInv, Waits, Present
<1>3. Deletions'
    BY <1>1 DEF DeletionInv, Deletions, DeletionsReachTheRenderer, Covered, IsOnItsWay, ToList, Unlisted
<1> QED
    BY <1>2, <1>3 DEF DeletionInv

\* Once the Desktop is active every deleted Session is forgotten, being asked about,
\* or announced, however the deletion, the recovery and the renderer interleave.
THEOREM DeletionsAlwaysReachTheRenderer == FeedSpec => []DeletionsReachTheRenderer
<1>1. FeedInit => DeletionInv
    BY FirstDeletions
<1>2. DeletionInv /\ [FeedNext]_feedVars => DeletionInv'
    BY NextDeletions, StutterDeletions
<1>3. DeletionInv => DeletionsReachTheRenderer
    BY DEF DeletionInv, Deletions
<1> QED
    BY <1>1, <1>2, <1>3, PTL DEF FeedSpec

-----------------------------------------------------------------------------
(* What was shown of each Run, what is on its way, and what the Desktop    *)
(* holds.                                                                  *)

Frames(r, k) == {toClient[i] : i \in {j \in DOMAIN toClient : toClient[j].kind = k /\ toClient[j].run = r}}
Coming(r)  == {m.seq : m \in Frames(r, "event")}
Kept(r)    == Seqs(provisional, r)
Waiting(r) == Coming(r) \union Kept(r)

Heeded(r) == retirement[SessionOf[r]] = "none"
Follow(r) == r \in DOMAIN cursor
Open(r)   == r \in unbound \/ (Follow(r) /\ ~cursor[r].over)
Alive(r)  == Follow(r) /\ Heeded(r) /\ Present(r) /\ ~cursor[r].over

Gapless(S)     == \A a, b \in S : a..b \subseteq S
IsInterval(S) == S = {} \/ \E a, b \in Nat : a <= b /\ S = a..b

\* The request of a Run.
Wanted(r) ==
    /\ r \in toServer \/ r \in unbound \/ Follow(r) => r \in sent
    /\ r \in unbound => ~Follow(r) /\ Kept(r) = {} /\ shown[r] = <<>>
    /\ r \in Mine \ sent => log[r].seq = 0 /\ Waiting(r) = {} /\ shown[r] = <<>>

\* What was shown, and what is kept.
Showing(r) ==
    /\ Consecutive(shown[r])
    /\ Follow(r) => shown[r] = <<>> \/ shown[r][Len(shown[r])] = cursor[r].seq
    /\ Kept(r) # {} /\ Heeded(r) /\ ~Follow(r) => shown[r] = <<>>
    /\ Heeded(r) => IsInterval(Kept(r))

\* What comes is ahead of what was shown, and not of the log.
Levels(r) ==
    /\ \A n \in Coming(r) : n > 0 /\ (\A k \in Kept(r) : k < n) /\ (Follow(r) => cursor[r].seq < n)
    /\ \A m \in Frames(r, "accepted") : m.seq > 0
    /\ Present(r) =>
          /\ \A n \in Waiting(r) : n <= log[r].seq
          /\ \A m \in Frames(r, "accepted") : m.seq <= log[r].seq
          /\ \A m \in Frames(r, "page") : \A e \in m.events : e.seq <= log[r].seq
          /\ Follow(r) => cursor[r].seq <= log[r].seq /\ log[r].seq > 0

\* What comes, comes without a gap and up to the end.
Stream(r) ==
    /\ Waiting(r) # {} /\ Present(r) => Tuned(r) /\ (phase \in Early => SessionOf[r] \in subs)
    /\ Open(r) /\ Heeded(r) => Gapless(Waiting(r))
    /\ Open(r) /\ Heeded(r) /\ Present(r) => \A n \in Waiting(r) : n..Told(r) \subseteq Waiting(r)
Answered(r) == \A m \in Frames(r, "accepted") :
    /\ Present(r) /\ ~m.over => Tuned(r) /\ (m.seq + 1)..Told(r) \subseteq Coming(r)
    /\ phase = "resending" => shown[r] = <<>>

\* The page of a replay goes on from the cursor.
Pends(r) == paging # NoPage /\ paging.run = r
Fits(r, events, more) ==
    \E u \in Nat :
        /\ u >= cursor[r].seq /\ Seqs(events, r) = (cursor[r].seq + 1)..u
        /\ more => u > cursor[r].seq
        /\ ~more /\ Alive(r) => (u + 1)..Told(r) \subseteq Waiting(r)
Paging(r) ==
    /\ Frames(r, "page") # {} \/ Pends(r) => r \in replayed
    /\ r \in replayed /\ Heeded(r) => Follow(r)
    /\ Heeded(r) => \A m \in Frames(r, "page") : Fits(r, m.events, m.more)
    /\ Heeded(r) /\ Pends(r) => paging.from = cursor[r].seq

\* What is to come of a Run that is followed.
Reaches(r) == (cursor[r].seq + 1)..Told(r) \subseteq Waiting(r)
\* The events that were kept will not do, and the connection will be closed.
Doomed(r)  == \E n \in Kept(r) : n > cursor[r].seq + 1 /\ cursor[r].seq + 1 \notin Kept(r)
Recovering(r) ==
    /\ phase = "subscribing" => SessionOf[r] \in todo \union subs
    /\ phase = "replaying" => SessionOf[r] \in subs
    /\ phase = "replaying" /\ r \in replayed =>
          Tuned(r) /\ (Reaches(r) \/ Pends(r) \/ Frames(r, "page") # {})
    /\ phase \in {"resending", "draining"} => Tuned(r) /\ (Reaches(r) \/ Doomed(r))
    /\ phase = "active" => Tuned(r) /\ Reaches(r)
Follows(r) ==
    /\ phase = "active" /\ Follow(r) => ~cursor[r].over
    /\ Alive(r) => Recovering(r)

\* In which order it comes.
Before(f, g) ==
    /\ g.kind = "event" /\ f.kind \in {"event", "accepted"} /\ f.run = g.run => f.seq < g.seq
    /\ g.kind = "event" /\ f.kind = "page" /\ f.run = g.run => \A e \in f.events : e.seq < g.seq
    /\ g.kind = "accepted" /\ f.kind = "event" /\ f.run = g.run => f.seq <= g.seq
Orders == \A i, j \in DOMAIN toClient : i < j => Before(toClient[i], toClient[j])

RunInv(r) == /\ Wanted(r) /\ Showing(r) /\ Levels(r) /\ Stream(r) /\ Answered(r)
             /\ Paging(r) /\ Follows(r)
\* The inductive invariant of what is shown.
FeedInv == DeletionInv /\ ShownData /\ Orders /\ \A r \in Runs : RunInv(r)

-----------------------------------------------------------------------------
(* The frames of a Run.                                                    *)

LEMMA FramesAre ==
    ASSUME FeedData, NEW r \in Runs
    PROVE  /\ \A k, m : m \in Frames(r, k) <=>
                  m.kind = k /\ m.run = r /\ \E i \in DOMAIN toClient : toClient[i] = m
           /\ \A m \in Frames(r, "event") : m \in FeedEvents /\ m.run = r /\ m.seq \in Nat
           /\ \A m \in Frames(r, "page") : m \in FeedPages /\ m.run = r
           /\ \A m \in Frames(r, "accepted") : m.seq \in Nat /\ m.over \in BOOLEAN /\ m.run = r
           /\ \A n : n \in Coming(r) <=> \E m \in Frames(r, "event") : m.seq = n
           /\ Coming(r) \subseteq Nat /\ Kept(r) \subseteq Nat /\ Waiting(r) \subseteq Nat
           /\ \A n : n \in Waiting(r) <=> n \in Coming(r) \/ n \in Kept(r)
<1>1. \A k, m : m \in Frames(r, k) <=>
          m.kind = k /\ m.run = r /\ \E i \in DOMAIN toClient : toClient[i] = m
    BY DEF Frames
<1>2. \A i \in DOMAIN toClient : toClient[i] \in FeedFrames
    BY DEF FeedData
<1>3. \A k : \A m \in Frames(r, k) : m \in FeedFrames /\ m.kind = k /\ m.run = r
    BY <1>1, <1>2
<1>4. \A m \in Frames(r, "event") : m \in FeedEvents /\ m.run = r /\ m.seq \in Nat
    BY <1>3, FeedKinds, FeedEventKinds
<1>5. \A m \in Frames(r, "page") : m \in FeedPages /\ m.run = r
    BY <1>3, FeedKinds
<1>6. \A m \in Frames(r, "accepted") : m.seq \in Nat /\ m.over \in BOOLEAN /\ m.run = r
    BY <1>3, FeedKinds
<1>7. \A n : n \in Coming(r) <=> \E m \in Frames(r, "event") : m.seq = n
    BY DEF Coming
<1>8. Coming(r) \subseteq Nat
    BY <1>4, <1>7
<1>9. Kept(r) \subseteq Nat
  <2>1. \A e \in provisional : e.seq \in Nat
    BY FeedEventKinds DEF FeedData
  <2> QED
    BY <2>1 DEF Kept, Seqs
<1> QED
    BY <1>1, <1>4, <1>5, <1>6, <1>7, <1>8, <1>9 DEF Waiting

LEMMA NumbersAre ==
    ASSUME FeedData, ShownData, NEW r \in Runs
    PROVE  /\ log[r].seq \in Nat /\ log[r].end \in Nat /\ Told(r) \in Nat /\ SessionOf[r] \in Sessions
           /\ Follow(r) => cursor[r].seq \in Nat /\ cursor[r].over \in BOOLEAN
           /\ shown[r] \in Seq(Nat)
<1>1. log[r].seq \in Nat /\ log[r].end \in Nat /\ SessionOf[r] \in Sessions
    BY LogIs
<1>2. Follow(r) => cursor[r].seq \in Nat /\ cursor[r].over \in BOOLEAN
    BY CursorKinds DEF ShownData, Follow
<1>3. Told(r) \in Nat
    BY <1>1 DEF Told
<1> QED
    BY <1>1, <1>2, <1>3 DEF ShownData

\* What a frame that was read leaves.
LEMMA ReadSets ==
    ASSUME FeedData, Reads, NEW r \in Runs
    PROVE  /\ \A k : Frames(r, k)' \subseteq Frames(r, k)
           /\ \A k : ~(First.kind = k /\ First.run = r) => Frames(r, k)' = Frames(r, k)
           /\ First.kind # "event" \/ First.run # r => Coming(r)' = Coming(r)
           /\ \A k : First.kind = k /\ First.run = r => First \in Frames(r, k)
<1>1. /\ First = toClient[1] /\ 1 \in DOMAIN toClient
      /\ \A i \in DOMAIN toClient' : i + 1 \in DOMAIN toClient /\ toClient'[i] = toClient[i + 1]
      /\ \A i \in DOMAIN toClient : i = 1 \/ (i - 1 \in DOMAIN toClient' /\ toClient'[i - 1] = toClient[i])
    BY ReadFrames
<1>2. /\ \A m : (\E i \in DOMAIN toClient' : toClient'[i] = m) => \E i \in DOMAIN toClient : toClient[i] = m
      /\ \A m : (\E i \in DOMAIN toClient : toClient[i] = m)
                    => m = First \/ \E i \in DOMAIN toClient' : toClient'[i] = m
      /\ \E i \in DOMAIN toClient : toClient[i] = First
    BY <1>1
<1>3. \A k, m : /\ m \in Frames(r, k) <=>
                       m.kind = k /\ m.run = r /\ \E i \in DOMAIN toClient : toClient[i] = m
                /\ m \in Frames(r, k)' <=>
                       m.kind = k /\ m.run = r /\ \E i \in DOMAIN toClient' : toClient'[i] = m
    BY DEF Frames
<1>4. \A k : /\ Frames(r, k)' \subseteq Frames(r, k)
             /\ ~(First.kind = k /\ First.run = r) => Frames(r, k)' = Frames(r, k)
             /\ First.kind = k /\ First.run = r => First \in Frames(r, k)
  <2>1. PICK f : f = First
    OBVIOUS
  <2>2. ASSUME NEW k PROVE Frames(r, k)' \subseteq Frames(r, k)
    BY <1>2, <1>3
  <2>3. ASSUME NEW k, ~(f.kind = k /\ f.run = r), NEW m \in Frames(r, k) PROVE m \in Frames(r, k)'
    <3>1. m.kind = k /\ m.run = r /\ \E i \in DOMAIN toClient : toClient[i] = m
        BY <1>3, <2>3
    <3>2. m # f
        BY <2>3, <3>1
    <3> QED
        BY <1>2, <1>3, <2>1, <3>1, <3>2
  <2>4. \A k : f.kind = k /\ f.run = r => f \in Frames(r, k)
    BY <1>2, <1>3, <2>1
  <2> QED
    BY <2>1, <2>2, <2>3, <2>4
<1>5. First.kind # "event" \/ First.run # r => Coming(r)' = Coming(r)
    BY <1>4 DEF Coming
<1> QED
    BY <1>4, <1>5

LEMMA ReadOrders ==
    ASSUME FeedData, Orders, Reads
    PROVE  Orders' /\ \A i \in DOMAIN toClient' : Before(First, toClient'[i])
<1>1. /\ First = toClient[1] /\ 1 \in DOMAIN toClient
      /\ \A i \in DOMAIN toClient' :
            i \in Nat /\ i >= 1 /\ i + 1 \in DOMAIN toClient /\ toClient'[i] = toClient[i + 1]
    BY ReadFrames
<1>2. \A i, j \in DOMAIN toClient : i < j => Before(toClient[i], toClient[j])
    BY DEF Orders
<1> HIDE DEF First
<1>3. \A i \in DOMAIN toClient' : Before(First, toClient'[i])
  <2>1. ASSUME NEW i \in DOMAIN toClient' PROVE Before(First, toClient'[i])
    <3>1. Before(toClient[1], toClient[i + 1])
        BY <1>1, <1>2
    <3> QED
        BY <1>1, <3>1
  <2> QED
    BY <2>1
<1>4. ASSUME NEW i \in DOMAIN toClient', NEW j \in DOMAIN toClient', i < j
      PROVE  Before(toClient'[i], toClient'[j])
  <2>1. Before(toClient[i + 1], toClient[j + 1])
    BY <1>1, <1>2, <1>4
  <2> QED
    BY <1>1, <2>1
<1> QED
    BY <1>3, <1>4 DEF Orders

\* The first frame is the lowest event, and what comes behind it is above it.
LEMMA ReadFirst ==
    ASSUME FeedData, Orders, Reads, NEW r \in Runs, NEW f, f = First, f.run = r,
           f.kind \in {"event", "page", "accepted"}
    PROVE  /\ f \in Frames(r, f.kind)
           /\ f.kind = "event" => /\ f.seq \in Coming(r) /\ f.seq \in Nat
                                  /\ Coming(r)' = Coming(r) \ {f.seq}
                                  /\ \A n \in Coming(r)' : f.seq < n
                                  /\ \A m \in Frames(r, "accepted") : f.seq <= m.seq
           /\ f.kind = "page" => \A n \in Coming(r) : \A e \in f.events : e.seq < n
           /\ f.kind = "accepted" => \A n \in Coming(r) : f.seq < n
<1>1. /\ f = toClient[1] /\ 1 \in DOMAIN toClient
      /\ \A i \in DOMAIN toClient' : i + 1 \in DOMAIN toClient /\ toClient'[i] = toClient[i + 1]
      /\ \A i \in DOMAIN toClient : i = 1 \/ (i - 1 \in DOMAIN toClient' /\ toClient'[i - 1] = toClient[i])
    BY ReadFrames
<1>2. \A i \in DOMAIN toClient' : Before(f, toClient'[i])
    BY ReadOrders
<1>3. f \in Frames(r, f.kind)
    BY <1>1 DEF Frames
<1>4. \A k, m : /\ m \in Frames(r, k) <=>
                       m.kind = k /\ m.run = r /\ \E i \in DOMAIN toClient : toClient[i] = m
                /\ m \in Frames(r, k)' <=>
                       m.kind = k /\ m.run = r /\ \E i \in DOMAIN toClient' : toClient'[i] = m
    BY DEF Frames
<1>5. \A k, m : /\ m \in Frames(r, k)' => m.kind = k /\ m.run = r /\ Before(f, m)
                /\ m \in Frames(r, k) => m = f \/ m \in Frames(r, k)'
                /\ m \in Frames(r, k)' => m \in Frames(r, k)
    BY <1>1, <1>2, <1>4
<1>6. /\ \A n : n \in Coming(r) <=> \E m \in Frames(r, "event") : m.seq = n
      /\ \A n : n \in Coming(r)' <=> \E m \in Frames(r, "event")' : m.seq = n
      /\ Coming(r) \subseteq Nat
      /\ \A m \in Frames(r, "accepted") : m.seq \in Nat
    BY FramesAre DEF Coming
<1>7. ASSUME f.kind = "event"
      PROVE  /\ f.seq \in Coming(r) /\ f.seq \in Nat
             /\ Coming(r)' = Coming(r) \ {f.seq}
             /\ \A n \in Coming(r)' : f.seq < n
             /\ \A m \in Frames(r, "accepted") : f.seq <= m.seq
  <2>1. f.seq \in Coming(r) /\ f.seq \in Nat
    BY <1>3, <1>6, <1>7
  <2>2. \A n \in Coming(r)' : n \in Coming(r) /\ f.seq < n
    BY <1>5, <1>6, <1>7 DEF Before
  <2>3. \A n \in Coming(r) : n = f.seq \/ n \in Coming(r)'
    BY <1>5, <1>6
  <2>4. \A m \in Frames(r, "accepted") : f.seq <= m.seq
    BY <1>5, <1>7, <2>1 DEF Before
  <2>5. Coming(r)' = Coming(r) \ {f.seq}
    BY <1>6, <2>1, <2>2, <2>3
  <2> QED
    BY <2>1, <2>2, <2>4, <2>5
<1>8. ASSUME f.kind # "event" PROVE \A n \in Coming(r) : \E m \in Frames(r, "event")' : m.seq = n
  <2>1. ASSUME NEW n \in Coming(r) PROVE \E m \in Frames(r, "event")' : m.seq = n
    <3>1. PICK m \in Frames(r, "event") : m.seq = n
        BY <1>6
    <3>2. m.kind = "event"
        BY <1>4
    <3> QED
        BY <1>5, <1>8, <3>1, <3>2
  <2> QED
    BY <2>1
<1>9. f.kind = "page" => \A n \in Coming(r) : \A e \in f.events : e.seq < n
    BY <1>5, <1>8 DEF Before
<1>10. f.kind = "accepted" => \A n \in Coming(r) : f.seq < n
    BY <1>5, <1>8 DEF Before
<1> QED
    BY <1>3, <1>7, <1>9, <1>10

-----------------------------------------------------------------------------
(* A step that shows nothing of a Run, and forgets it only once its        *)
(* Session was deleted.                                                    *)

Drops(r) ==
    \/ Coming(r)' = Coming(r)
    \/ /\ ~(Open(r) /\ Heeded(r))
       /\ \E n \in Nat : /\ Coming(r)' = Coming(r) \ {n}
                         /\ \A m \in Frames(r, "accepted") : n <= m.seq
Forgets(r) ==
    /\ r \in sent' <=> r \in sent
    /\ r \in toServer' => r \in toServer
    /\ r \in unbound' => r \in unbound
    /\ Follow(r)' => Follow(r) /\ cursor'[r] = cursor[r]
    /\ Heeded(r)' => Heeded(r) /\ (Follow(r) => Follow(r)')
Rests(r) ==
    /\ UNCHANGED <<server, hub>> /\ shown'[r] = shown[r] /\ Kept(r)' = Kept(r)
    /\ Forgets(r)
    /\ \A k : Frames(r, k)' \subseteq Frames(r, k)
    /\ Frames(r, "page")' = Frames(r, "page") /\ Drops(r)
    /\ r \in replayed' <=> r \in replayed
    /\ Pends(r)' <=> Pends(r)
    /\ Pends(r) => paging' = paging

LEMMA RestsFacts ==
    ASSUME FeedData, ShownData, NEW r \in Runs, Rests(r)
    PROVE  /\ log'[r] = log[r] /\ Told(r)' = Told(r) /\ (Present(r)' <=> Present(r))
           /\ (Tuned(r)' <=> Tuned(r)) /\ subs' = subs
           /\ Coming(r)' \subseteq Coming(r) /\ Waiting(r)' \subseteq Waiting(r)
           /\ Open(r) /\ Heeded(r) => Coming(r)' = Coming(r) /\ Waiting(r)' = Waiting(r)
           /\ Open(r)' => Open(r)
           /\ Alive(r)' => Alive(r) /\ Open(r)
<1>1. UNCHANGED <<log, executing, retired, route, subs>> /\ Kept(r)' = Kept(r)
    BY DEF Rests, server, hub
<1>2. log'[r] = log[r] /\ Told(r)' = Told(r) /\ (Present(r)' <=> Present(r)) /\ (Tuned(r)' <=> Tuned(r))
    BY <1>1 DEF Told, Present, Tuned, Heard
<1>3. Coming(r)' \subseteq Coming(r) /\ (Open(r) /\ Heeded(r) => Coming(r)' = Coming(r))
    BY DEF Rests, Drops
<1>4. Waiting(r)' \subseteq Waiting(r) /\ (Open(r) /\ Heeded(r) => Waiting(r)' = Waiting(r))
    BY <1>1, <1>3 DEF Waiting
<1>5. /\ r \in unbound' => r \in unbound
      /\ Follow(r)' => Follow(r) /\ cursor'[r] = cursor[r]
      /\ Heeded(r)' => Heeded(r)
    BY DEF Rests, Forgets
<1>6. Open(r)' => Open(r)
    BY <1>5 DEF Open
<1>7. Alive(r)' => Alive(r) /\ Open(r)
    BY <1>2, <1>5 DEF Alive, Open
<1> QED
    BY <1>1, <1>2, <1>3, <1>4, <1>6, <1>7

LEMMA RestsParts ==
    ASSUME FeedData, ShownData, NEW r \in Runs, Rests(r), RunInv(r)
    PROVE  Wanted(r)' /\ Showing(r)' /\ Levels(r)' /\ Paging(r)'
<1>1. /\ log'[r] = log[r] /\ Told(r)' = Told(r) /\ (Present(r)' <=> Present(r))
      /\ Coming(r)' \subseteq Coming(r) /\ Waiting(r)' \subseteq Waiting(r)
      /\ Open(r) /\ Heeded(r) => Coming(r)' = Coming(r) /\ Waiting(r)' = Waiting(r)
      /\ Alive(r)' => Alive(r) /\ Open(r)
    BY RestsFacts
<1>2. Forgets(r) /\ shown'[r] = shown[r] /\ Kept(r)' = Kept(r)
    BY DEF Rests
<1>3. /\ Frames(r, "accepted")' \subseteq Frames(r, "accepted")
      /\ Frames(r, "page")' = Frames(r, "page")
    BY DEF Rests
<1>4. Wanted(r)'
    BY <1>1, <1>2 DEF RunInv, Wanted, Forgets
<1>5. Showing(r)'
    BY <1>2 DEF RunInv, Showing, Forgets
<1>6. Levels(r)'
    BY <1>1, <1>2, <1>3 DEF RunInv, Levels, Forgets
<1>7. Paging(r)'
  <2>1. /\ r \in replayed' <=> r \in replayed
        /\ Pends(r)' <=> Pends(r)
        /\ Pends(r) => paging' = paging
    BY DEF Rests
  <2>2. /\ Frames(r, "page") # {} \/ Pends(r) => r \in replayed
        /\ r \in replayed /\ Heeded(r) => Follow(r)
        /\ Heeded(r) => \A m \in Frames(r, "page") : Fits(r, m.events, m.more)
        /\ Heeded(r) /\ Pends(r) => paging.from = cursor[r].seq
    BY DEF RunInv, Paging
  <2>3. ASSUME Heeded(r)', NEW m \in Frames(r, "page")' PROVE Fits(r, m.events, m.more)'
    <3>1. m \in Frames(r, "page") /\ Heeded(r) /\ Follow(r) /\ Follow(r)' /\ cursor'[r] = cursor[r]
        BY <1>2, <1>3, <2>2, <2>3 DEF Forgets
    <3>2. Fits(r, m.events, m.more)
        BY <2>2, <3>1
    <3>3. Alive(r)' => Alive(r) /\ Waiting(r)' = Waiting(r)
        BY <1>1, <3>1
    <3> QED
        BY <1>1, <3>1, <3>2, <3>3 DEF Fits
  <2> QED
    BY <1>2, <1>3, <2>1, <2>2, <2>3 DEF Paging, Forgets
<1> QED
    BY <1>4, <1>5, <1>6, <1>7

LEMMA RestsStream ==
    ASSUME FeedData, ShownData, NEW r \in Runs, Rests(r), RunInv(r),
           phase' \in Early => phase \in Early,
           phase' = "resending" => phase = "resending" \/ Frames(r, "accepted") = {}
    PROVE  Stream(r)' /\ Answered(r)'
<1>1. /\ log'[r] = log[r] /\ Told(r)' = Told(r) /\ (Present(r)' <=> Present(r))
      /\ (Tuned(r)' <=> Tuned(r)) /\ subs' = subs
      /\ Coming(r)' \subseteq Coming(r) /\ Waiting(r)' \subseteq Waiting(r)
      /\ Open(r) /\ Heeded(r) => Coming(r)' = Coming(r) /\ Waiting(r)' = Waiting(r)
      /\ Open(r)' => Open(r)
    BY RestsFacts
<1>2. Forgets(r) /\ shown'[r] = shown[r] /\ Kept(r)' = Kept(r)
    BY DEF Rests
<1>3. Stream(r)'
    BY <1>1, <1>2 DEF RunInv, Stream, Forgets
<1>4. ASSUME NEW m \in Frames(r, "accepted")'
      PROVE  /\ Present(r)' /\ ~m.over => Tuned(r)' /\ (m.seq + 1)..Told(r)' \subseteq Coming(r)'
             /\ phase' = "resending" => shown'[r] = <<>>
  <2>1. m \in Frames(r, "accepted") /\ m.seq \in Nat
    BY <1>4, FramesAre DEF Rests
  <2>2. /\ Present(r) /\ ~m.over => Tuned(r) /\ (m.seq + 1)..Told(r) \subseteq Coming(r)
        /\ phase = "resending" => shown[r] = <<>>
    BY <2>1 DEF RunInv, Answered
  <2>3. ASSUME NEW k \in (m.seq + 1)..Told(r), k \in Coming(r) PROVE k \in Coming(r)'
    <3>1. CASE Coming(r)' = Coming(r)
        BY <2>3, <3>1
    <3>2. CASE \E n \in Nat : /\ Coming(r)' = Coming(r) \ {n}
                              /\ \A a \in Frames(r, "accepted") : n <= a.seq
      <4>1. PICK n \in Nat : Coming(r)' = Coming(r) \ {n} /\ n <= m.seq
        BY <2>1, <3>2
      <4>2. k # n
        BY <2>1, <2>3, <4>1
      <4> QED
        BY <2>3, <4>1, <4>2
    <3> QED
        BY <3>1, <3>2 DEF Rests, Drops
  <2>4. phase' = "resending" => shown'[r] = <<>>
    BY <1>2, <2>1, <2>2
  <2> QED
    BY <1>1, <2>2, <2>3, <2>4
<1>5. Answered(r)'
    BY <1>4 DEF Answered
<1> QED
    BY <1>3, <1>5

LEMMA RestsStill ==
    ASSUME FeedData, ShownData, NEW r \in Runs, Rests(r), RunInv(r), phase' = phase, todo' = todo
    PROVE  RunInv(r)'
<1>1. /\ Told(r)' = Told(r) /\ (Tuned(r)' <=> Tuned(r)) /\ subs' = subs
      /\ Open(r) /\ Heeded(r) => Coming(r)' = Coming(r) /\ Waiting(r)' = Waiting(r)
      /\ Alive(r)' => Alive(r) /\ Open(r)
    BY RestsFacts
<1>2. Forgets(r) /\ Kept(r)' = Kept(r) /\ Frames(r, "page")' = Frames(r, "page")
    BY DEF Rests
<1>3. /\ r \in replayed' <=> r \in replayed
      /\ Pends(r)' <=> Pends(r)
    BY DEF Rests
<1>4. ASSUME Alive(r)' PROVE Recovering(r)'
  <2>1. Alive(r) /\ Recovering(r) /\ cursor'[r] = cursor[r] /\ Waiting(r)' = Waiting(r)
    BY <1>1, <1>2, <1>4 DEF RunInv, Follows, Forgets, Alive
  <2>2. (Reaches(r)' <=> Reaches(r)) /\ (Doomed(r)' <=> Doomed(r))
    BY <1>1, <1>2, <2>1 DEF Reaches, Doomed
  <2> QED
    BY <1>1, <1>2, <1>3, <2>1, <2>2 DEF Recovering
<1>5. phase' = "active" /\ Follow(r)' => ~cursor'[r].over
    BY <1>2 DEF RunInv, Follows, Forgets
<1>6. Follows(r)'
    BY <1>4, <1>5 DEF Follows
<1> QED
    BY <1>6, RestsParts, RestsStream DEF RunInv

-----------------------------------------------------------------------------
(* The connection is closed.                                               *)

Shows(r) ==
    /\ r \in unbound \/ Follow(r) => r \in sent
    /\ r \in unbound => ~Follow(r) /\ shown[r] = <<>>
    /\ r \in Mine \ sent => log[r].seq = 0 /\ shown[r] = <<>>
    /\ Consecutive(shown[r])
    /\ Follow(r) => shown[r] = <<>> \/ shown[r][Len(shown[r])] = cursor[r].seq
    /\ Present(r) /\ Follow(r) => cursor[r].seq <= log[r].seq /\ log[r].seq > 0

LEMMA ShowsIs == ASSUME NEW r \in Runs, RunInv(r) PROVE Shows(r)
BY DEF RunInv, Shows, Wanted, Showing, Levels

LEMMA ClosesShown ==
    ASSUME Closes, NEW r \in Runs, Shows(r)'
    PROVE  RunInv(r)'
<1>1. /\ phase' = "down" /\ todo' = {} /\ replayed' = {} /\ paging' = NoPage /\ provisional' = {}
      /\ toServer' = {} /\ toClient' = <<>>
    BY DEF Closes
<1>2. \A k : Frames(r, k)' = {}
    BY <1>1 DEF Frames
<1>3. Coming(r)' = {} /\ Kept(r)' = {} /\ Waiting(r)' = {}
    BY <1>1, <1>2 DEF Coming, Kept, Waiting, Seqs
<1>4. Wanted(r)' /\ Showing(r)' /\ Levels(r)'
    BY <1>1, <1>2, <1>3 DEF Shows, Wanted, Showing, Levels, IsInterval
<1>5. Stream(r)' /\ Answered(r)'
    BY <1>2, <1>3 DEF Stream, Answered, Gapless
<1>6. Paging(r)' /\ Follows(r)'
    BY <1>1, <1>2 DEF Paging, Pends, Follows, Recovering
<1> QED
    BY <1>4, <1>5, <1>6 DEF RunInv

\* The steps that close it and leave the Desktop what it knows.
LEMMA LosesShown ==
    ASSUME FeedInv, Closes, UNCHANGED <<server, client, shown, sent>>
    PROVE  ShownData' /\ Orders' /\ \A r \in Runs : RunInv(r)'
<1>1. UNCHANGED <<log, retired, cursor, unbound, shown, sent>>
    BY DEF server, client
<1>2. ASSUME NEW r \in Runs PROVE RunInv(r)'
  <2>1. Shows(r)
    BY ShowsIs DEF FeedInv
  <2>2. Shows(r)'
    BY <1>1, <2>1 DEF Shows, Follow, Present
  <2> QED
    BY <2>2, ClosesShown
<1>3. Orders'
    BY DEF Closes, Orders
<1>4. ShownData'
    BY <1>1 DEF ShownData, FeedInv
<1> QED
    BY <1>2, <1>3, <1>4

LEMMA ClosingShown ==
    ASSUME FeedInv,
           EventUnknown \/ RendererRefuses \/ ConnectionLost \/ (FailedArrives /\ phase # "active")
    PROVE  ShownData' /\ Orders' /\ \A r \in Runs : RunInv(r)'
<1>1. Closes /\ UNCHANGED <<server, client, shown, sent>>
    BY DEF EventUnknown, RendererRefuses, ConnectionLost, FailedArrives, budget
<1> QED
    BY <1>1, LosesShown

-----------------------------------------------------------------------------
(* The steps that leave what is shown alone.                               *)

\* A frame was read, and what it says of a Run does not matter.
LEMMA ReadingRests ==
    ASSUME FeedInv, Reads, UNCHANGED <<server, hub, replayed, paging>>,
           NEW r \in Runs, Forgets(r), shown'[r] = shown[r], Kept(r)' = Kept(r),
           First.kind # "page" \/ First.run # r,
           First.kind = "event" /\ First.run = r => ~(Open(r) /\ Heeded(r))
    PROVE  Rests(r)
<1>1. /\ \A k : Frames(r, k)' \subseteq Frames(r, k)
      /\ Frames(r, "page")' = Frames(r, "page")
      /\ First.kind # "event" \/ First.run # r => Coming(r)' = Coming(r)
    BY ReadSets DEF FeedInv, DeletionInv
<1>2. Drops(r)
  <2>1. CASE First.kind # "event" \/ First.run # r
    BY <1>1, <2>1 DEF Drops
  <2>2. CASE First.kind = "event" /\ First.run = r
    <3>1. PICK f : f = First
        OBVIOUS
    <3>2. /\ f.seq \in Nat /\ Coming(r)' = Coming(r) \ {f.seq}
          /\ \A m \in Frames(r, "accepted") : f.seq <= m.seq
        BY <2>2, <3>1, ReadFirst DEF FeedInv, DeletionInv
    <3> QED
        BY <2>2, <3>2 DEF Drops
  <2> QED
    BY <2>1, <2>2
<1>3. Pends(r)' <=> Pends(r)
    BY DEF Pends
<1> QED
    BY <1>1, <1>2, <1>3 DEF Rests

\* The same when nothing is kept or shown of any Run.
LEMMA PlainRests ==
    ASSUME FeedInv, Reads, UNCHANGED <<server, hub, shown, provisional, replayed, paging>>,
           NEW r \in Runs, Forgets(r), First.kind # "page",
           First.kind = "event" /\ First.run = r => ~(Open(r) /\ Heeded(r))
    PROVE  Rests(r)
<1>1. shown'[r] = shown[r] /\ Kept(r)' = Kept(r)
    BY DEF Kept
<1> QED
    BY <1>1, ReadingRests

\* A step that reads no frame.
LEMMA StillRests ==
    ASSUME UNCHANGED <<server, hub, toClient, shown, provisional, replayed, paging>>,
           NEW r \in Runs, Forgets(r)
    PROVE  Rests(r)
<1>1. \A k : Frames(r, k)' = Frames(r, k)
    BY DEF Frames
<1>2. Coming(r)' = Coming(r) /\ Kept(r)' = Kept(r) /\ (Pends(r)' <=> Pends(r))
    BY <1>1 DEF Coming, Kept, Pends
<1> QED
    BY <1>1, <1>2 DEF Rests, Drops

ShownStep == ShownData' /\ Orders' /\ \A r \in Runs : RunInv(r)'

LEMMA PlainShown ==
    ASSUME FeedInv, UNCHANGED <<server, hub, shown, provisional, replayed, paging, phase, todo>>,
           cursor' \in FeedCursors, \A r \in Runs : Forgets(r),
           \/ toClient' = toClient
           \/ /\ Reads /\ First.kind # "page"
              /\ \A r \in Runs : First.kind = "event" /\ First.run = r => ~(Open(r) /\ Heeded(r))
    PROVE  ShownStep
<1>1. ASSUME NEW r \in Runs PROVE RunInv(r)'
  <2>1. Rests(r)
    BY PlainRests, StillRests
  <2> QED
    BY <2>1, RestsStill DEF FeedInv, DeletionInv
<1>2. Orders'
  <2>1. CASE toClient' = toClient
    BY <2>1 DEF FeedInv, Orders
  <2>2. CASE Reads
    BY <2>2, ReadOrders DEF FeedInv, DeletionInv
  <2> QED
    BY <2>1, <2>2
<1>3. ShownData'
    BY DEF ShownData, FeedInv
<1> QED
    BY <1>1, <1>2, <1>3 DEF ShownStep

\* What is forgotten, and what is not.
LEMMA SameForgets ==
    ASSUME UNCHANGED <<cursor, retirement, sent>>, toServer' \subseteq toServer,
           unbound' \subseteq unbound, NEW r \in Runs
    PROVE  Forgets(r)
BY DEF Forgets, Follow, Heeded

LEMMA StagedForgets ==
    ASSUME FeedData, UNCHANGED <<cursor, sent, toServer, unbound>>, NEW r \in Runs,
           NEW found \in SUBSET Sessions, retirement' = Staged(found)
    PROVE  Forgets(r)
<1>1. SessionOf[r] \in Sessions
    BY LogIs
<1>2. retirement[SessionOf[r]] # "none" => retirement'[SessionOf[r]] = retirement[SessionOf[r]]
    BY <1>1, StagedIs
<1> QED
    BY <1>2 DEF Forgets, Follow, Heeded

Parted(c, S, d) ==
    /\ d \in FeedCursors /\ DOMAIN d = DOMAIN c \ S
    /\ \A r \in DOMAIN d : d[r] = c[r]
LEMMA WithoutIs ==
    ASSUME NEW c \in FeedCursors, NEW S
    PROVE  Parted(c, S, Without(c, S))
<1> DEFINE d == Without(c, S)
<1>1. d = [r \in DOMAIN c \ S |-> c[r]]
    BY DEF Without, Followed
<1> HIDE DEF d
<1>2. DOMAIN d = DOMAIN c \ S /\ \A r \in DOMAIN d : d[r] = c[r]
    BY <1>1
<1>3. DOMAIN c \ S \in SUBSET Runs /\ \A r \in DOMAIN c : c[r] \in [seq : Nat, over : BOOLEAN]
    BY CursorKinds
<1>4. d \in [DOMAIN c \ S -> [seq : Nat, over : BOOLEAN]]
    BY <1>1, <1>3
<1>5. d \in FeedCursors
    BY <1>3, <1>4, CursorKinds
<1>6. Parted(c, S, d)
    BY <1>2, <1>5 DEF Parted
<1> QED
    BY <1>6 DEF d

LEMMA RunsForgotten ==
    ASSUME FeedData, ShownData, UNCHANGED <<sent, toServer>>, NEW s \in Sessions, ForgetsRuns(s),
           retirement'[s] # "none",
           \A t \in Sessions : retirement[t] # "none" => retirement'[t] # "none"
    PROVE  cursor' \in FeedCursors /\ \A r \in Runs : Forgets(r)
<1>1. /\ cursor' \in FeedCursors /\ DOMAIN cursor' = DOMAIN cursor \ Of(s)
      /\ \A r \in DOMAIN cursor' : cursor'[r] = cursor[r]
  <2>1. PICK c \in FeedCursors : c = cursor
    BY DEF ShownData
  <2>2. Parted(c, Of(s), cursor')
    BY <2>1, WithoutIs DEF ForgetsRuns
  <2> QED
    BY <2>1, <2>2 DEF Parted
<1>2. unbound' \subseteq unbound
    BY DEF ForgetsRuns
<1>3. ASSUME NEW r \in Runs PROVE Forgets(r)
  <2>1. SessionOf[r] \in Sessions /\ (r \in Of(s) => SessionOf[r] = s)
    BY LogIs DEF Of
  <2>2. Heeded(r)' => Heeded(r) /\ r \notin Of(s)
    BY <2>1 DEF Heeded
  <2> QED
    BY <1>1, <1>2, <2>2 DEF Forgets, Follow
<1> QED
    BY <1>1, <1>3

LEMMA FrameShown ==
    ASSUME FeedInv,
           EventDropped \/ RetiredStaged \/ RetiredAsked \/ SubscribedArrives \/ RefusedArrives
           \/ (FailedArrives /\ phase = "active")
    PROVE  ShownStep
<1>0. FeedData /\ ShownData /\ cursor \in FeedCursors
    BY DEF FeedInv, DeletionInv, ShownData
<1>1. /\ UNCHANGED <<server, hub, shown, provisional, replayed, paging, phase, todo>>
      /\ UNCHANGED <<cursor, sent, toServer>> /\ unbound' \subseteq unbound
      /\ Reads /\ First.kind # "page"
  <2>1. CASE EventDropped \/ RetiredStaged \/ RetiredAsked \/ SubscribedArrives
    BY <2>1 DEF EventDropped, RetiredStaged, RetiredAsked, SubscribedArrives, Holds, recovery, client,
                renderer, budget
  <2>2. CASE RefusedArrives
    BY <2>2 DEF RefusedArrives, Holds, recovery, renderer, budget
  <2>3. CASE FailedArrives /\ phase = "active"
    BY <2>3 DEF FailedArrives, Holds, recovery, client, budget
  <2> QED
    BY <2>1, <2>2, <2>3
<1>2. \/ retirement' = retirement
      \/ First.kind = "retired" /\ unbound' = unbound /\ retirement' = Staged({First.session})
    BY DEF EventDropped, RetiredStaged, RetiredAsked, SubscribedArrives, RefusedArrives, FailedArrives,
           Holds, client
<1>3. ASSUME NEW r \in Runs PROVE Forgets(r)
  <2>1. CASE retirement' = retirement
    BY <1>1, <2>1, SameForgets
  <2>2. CASE First.kind = "retired" /\ unbound' = unbound /\ retirement' = Staged({First.session})
    <3>1. PICK f \in FeedFrames : f = First
        BY <1>0, <1>1, ReadFrames
    <3>2. {f.session} \in SUBSET Sessions
        BY <2>2, <3>1, FeedKinds
    <3> QED
        BY <1>0, <1>1, <2>2, <3>1, <3>2, StagedForgets
  <2> QED
    BY <1>2, <2>1, <2>2
<1>4. ASSUME NEW r \in Runs, First.kind = "event", First.run = r PROVE ~(Open(r) /\ Heeded(r))
  <2>1. Dropped(First)
    BY <1>4 DEF EventDropped, RetiredStaged, RetiredAsked, SubscribedArrives, RefusedArrives,
                FailedArrives, Holds
  <2>2. r \in unbound => ~Follow(r)
    BY DEF FeedInv, RunInv, Wanted
  <2> QED
    BY <1>4, <2>1, <2>2 DEF Dropped, Open, Heeded, Follow, Followed
<1> QED
    BY <1>0, <1>1, <1>3, <1>4, PlainShown

LEMMA MissingShown ==
    ASSUME FeedInv, MissingArrives
    PROVE  ShownStep
<1>0. FeedData /\ ShownData /\ cursor \in FeedCursors
    BY DEF FeedInv, DeletionInv, ShownData
<1>1. /\ UNCHANGED <<server, hub, shown, provisional, replayed, paging, phase, todo>>
      /\ UNCHANGED <<sent, toServer>>
      /\ Reads /\ First.kind = "missing"
    BY DEF MissingArrives, Holds, recovery, budget
<1>2. PICK s \in Sessions : s = First.session
    BY <1>0, <1>1, ReadFrames, FeedKinds
<1>3. \/ retirement' = Staged({s}) /\ UNCHANGED <<cursor, unbound>>
      \/ UNCHANGED <<cursor, unbound, retirement>>
      \/ ForgetsRuns(s) /\ retirement' = [retirement EXCEPT ![s] = "final"]
    BY <1>2 DEF MissingArrives, client
<1>4. cursor' \in FeedCursors /\ \A r \in Runs : Forgets(r)
  <2>1. CASE retirement' = Staged({s}) /\ UNCHANGED <<cursor, unbound>>
    <3>1. {s} \in SUBSET Sessions
        OBVIOUS
    <3> QED
        BY <1>0, <1>1, <2>1, <3>1, StagedForgets
  <2>2. CASE UNCHANGED <<cursor, unbound, retirement>>
    BY <1>0, <1>1, <2>2, SameForgets
  <2>3. CASE ForgetsRuns(s) /\ retirement' = [retirement EXCEPT ![s] = "final"]
    <3>1. retirement \in [Sessions -> {"none", "pending", "final"}]
        BY <1>0 DEF FeedData
    <3>2. retirement'[s] # "none" /\ \A t \in Sessions : retirement[t] # "none" => retirement'[t] # "none"
        BY <2>3, <3>1
    <3> QED
        BY <1>0, <1>1, <2>3, <3>2, RunsForgotten
  <2> QED
    BY <1>3, <2>1, <2>2, <2>3
<1> QED
    BY <1>1, <1>4, PlainShown

LEMMA AcknowledgedShown ==
    ASSUME FeedInv, Acknowledged
    PROVE  ShownStep
<1>0. FeedData /\ ShownData /\ cursor \in FeedCursors
    BY DEF FeedInv, DeletionInv, ShownData
<1>1. /\ UNCHANGED <<server, hub, shown, provisional, replayed, paging, phase, todo, toClient>>
      /\ UNCHANGED <<sent, toServer>> /\ asking # Nobody /\ ForgetsRuns(asking)
    BY DEF Acknowledged, recovery, budget, channel
<1>2. PICK s \in Sessions : s = asking
    BY <1>0, <1>1 DEF FeedData
<1>3. PICK done \in [Sessions -> {"none", "pending", "final"}] : done = [retirement EXCEPT ![s] = "final"]
    BY <1>0 DEF FeedData
<1>4. done[s] = "final" /\ \A t \in Sessions : retirement[t] # "none" => done[t] # "none"
    BY <1>0, <1>3 DEF FeedData
<1>5. retirement' = done \/ \E t : retirement' = [done EXCEPT ![t] = "pending"]
    BY <1>2, <1>3 DEF Acknowledged
<1>6. \A t \in Sessions : done[t] # "none" => retirement'[t] # "none"
    BY <1>3, <1>5
<1>7. cursor' \in FeedCursors /\ \A r \in Runs : Forgets(r)
    BY <1>0, <1>1, <1>2, <1>4, <1>6, RunsForgotten
<1> QED
    BY <1>1, <1>7, PlainShown

-----------------------------------------------------------------------------
(* connect() goes on.                                                      *)

\* All that is about a Run but what is to come of one that is followed.
LEMMA PhaseShown ==
    ASSUME FeedInv, NEW r \in Runs, Rests(r), phase' # "active",
           phase' \in Early => phase \in Early,
           phase' = "resending" => Frames(r, "accepted") = {},
           Alive(r)' => Recovering(r)'
    PROVE  RunInv(r)'
<1>1. FeedData /\ ShownData /\ RunInv(r)
    BY DEF FeedInv, DeletionInv
<1>2. Wanted(r)' /\ Showing(r)' /\ Levels(r)' /\ Paging(r)' /\ Stream(r)' /\ Answered(r)'
    BY <1>1, RestsParts, RestsStream
<1>3. Follows(r)'
    BY DEF Follows
<1> QED
    BY <1>2, <1>3 DEF RunInv

LEMMA ListShown ==
    ASSUME FeedInv, ListArrives
    PROVE  ShownStep
<1>0. FeedData /\ ShownData /\ cursor \in FeedCursors /\ Waits
    BY DEF FeedInv, DeletionInv, ShownData
<1>1. /\ UNCHANGED <<server, hub, shown, provisional, replayed, paging, todo, cursor, unbound>>
      /\ UNCHANGED <<sent, toServer>>
      /\ Reads /\ First.kind = "listed" /\ retirement' = Staged(First.found)
      /\ phase' \in {phase, "retiring"}
    BY DEF ListArrives, Holds, budget
<1>2. First = toClient[1] /\ 1 \in DOMAIN toClient
    BY <1>0, <1>1, ReadFrames
<1>3. phase = "listing"
    BY <1>0, <1>1, <1>2 DEF Waits
<1>4. PICK f \in FeedFrames : f = First
    BY <1>0, <1>1, ReadFrames
<1>5. PICK found \in SUBSET Sessions : found = f.found
    BY <1>1, <1>4, FeedKinds, ListKindsAre
<1>6. ASSUME NEW r \in Runs PROVE RunInv(r)'
  <2>1. Forgets(r)
    BY <1>0, <1>1, <1>4, <1>5, StagedForgets
  <2>2. Rests(r)
    BY <1>1, <2>1, PlainRests
  <2>3. phase' \in {"listing", "retiring"}
    BY <1>1, <1>3
  <2>4. Recovering(r)'
    BY <2>3 DEF Recovering
  <2> QED
    BY <1>3, <2>2, <2>3, <2>4, PhaseShown DEF Early
<1>7. ShownData' /\ Orders'
    BY <1>0, <1>1, ReadOrders DEF ShownData, FeedInv
<1> QED
    BY <1>6, <1>7 DEF ShownStep

LEMMA NextPhaseShown ==
    ASSUME FeedInv, Retires \/ Subscribes
    PROVE  ShownStep
<1>0. FeedData /\ ShownData /\ Quiet
    BY DEF FeedInv, DeletionInv
<1>1. /\ UNCHANGED <<server, hub, toClient, shown, provisional, replayed, paging, client, sent, toServer>>
      /\ \/ phase = "retiring" /\ phase' = phase
         \/ /\ phase = "retiring" /\ phase' = "subscribing"
            /\ todo' = {SessionOf[r] : r \in {q \in DOMAIN cursor : retirement[SessionOf[q]] = "none"}}
         \/ phase = "subscribing" /\ phase' = "replaying" /\ todo = {}
    BY DEF Retires, Subscribes, channel, renderer, budget, Followed
<1>2. UNCHANGED <<cursor, retirement, unbound>>
    BY <1>1 DEF client
<1>3. ASSUME NEW r \in Runs PROVE RunInv(r)'
  <2>1. Forgets(r)
    BY <1>1, <1>2, SameForgets
  <2>2. Rests(r)
    BY <1>1, <2>1, StillRests
  <2>3. /\ Alive(r)' => Alive(r) /\ Open(r)
        /\ subs' = subs
    BY <1>0, <2>2, RestsFacts
  <2>4. ASSUME Alive(r)' PROVE Recovering(r)'
    <3>1. CASE phase' = "retiring"
        BY <3>1 DEF Recovering
    <3>2. CASE phase' = "subscribing"
      <4>1. SessionOf[r] \in todo'
        BY <1>1, <2>3, <2>4, <3>2 DEF Alive, Follow, Heeded
      <4> QED
        BY <3>2, <4>1 DEF Recovering
    <3>3. CASE phase' = "replaying"
      <4>1. phase = "subscribing" /\ todo = {} /\ replayed = {} /\ replayed' = {}
        BY <1>0, <1>1, <3>3 DEF Quiet
      <4>2. SessionOf[r] \in subs
        BY <2>3, <2>4, <4>1 DEF FeedInv, RunInv, Follows, Recovering
      <4> QED
        BY <2>3, <3>3, <4>1, <4>2 DEF Recovering
    <3> QED
        BY <1>1, <3>1, <3>2, <3>3
  <2> QED
    BY <1>1, <2>2, <2>4, PhaseShown DEF Early
<1>4. ShownData' /\ Orders'
    BY <1>0, <1>1, <1>2 DEF ShownData, FeedInv, Orders
<1> QED
    BY <1>3, <1>4 DEF ShownStep

LEMMA ConnectShown ==
    ASSUME FeedInv, Connect
    PROVE  ShownStep
<1>0. FeedData /\ ShownData /\ Quiet
    BY DEF FeedInv, DeletionInv
<1>1. /\ UNCHANGED <<log, retired, route, subs, toServer, toClient, todo, replayed, paging, provisional,
                     cursor, unbound, retirement, shown, sent>>
      /\ phase = "down" /\ phase' = "listing"
    BY DEF Connect, hub, channel, client, renderer, budget
<1>2. toClient = <<>> /\ provisional = {} /\ replayed = {} /\ paging = NoPage
    BY <1>0, <1>1 DEF Quiet
<1>3. ASSUME NEW r \in Runs PROVE RunInv(r)'
  <2>1. \A k : Frames(r, k)' = {} /\ Frames(r, k) = {}
    BY <1>1, <1>2 DEF Frames
  <2>2. /\ Coming(r)' = {} /\ Kept(r)' = {} /\ Waiting(r)' = {}
        /\ Coming(r) = {} /\ Kept(r) = {} /\ Waiting(r) = {}
    BY <1>1, <1>2, <2>1 DEF Coming, Kept, Waiting, Seqs
  <2>3. /\ Follow(r)' <=> Follow(r)
        /\ Heeded(r)' <=> Heeded(r)
        /\ Present(r)' <=> Present(r)
    BY <1>1 DEF Follow, Heeded, Present
  <2>4. RunInv(r)
    BY DEF FeedInv
  <2>5. Wanted(r)' /\ Showing(r)' /\ Levels(r)'
    BY <1>1, <2>1, <2>2, <2>3, <2>4 DEF RunInv, Wanted, Showing, Levels, IsInterval
  <2>6. Stream(r)' /\ Answered(r)' /\ Paging(r)' /\ Follows(r)'
    BY <1>1, <1>2, <2>1, <2>2 DEF Stream, Answered, Paging, Pends, Follows, Recovering, Gapless
  <2> QED
    BY <2>5, <2>6 DEF RunInv
<1>4. ShownData' /\ Orders'
    BY <1>0, <1>1, <1>2 DEF ShownData, FeedInv, Orders
<1> QED
    BY <1>3, <1>4 DEF ShownStep

LEMMA SendShown ==
    ASSUME FeedInv, NEW r \in Runs, Send(r)
    PROVE  ShownStep
<1>0. FeedData /\ ShownData /\ Quiet
    BY DEF FeedInv, DeletionInv
<1>1. /\ phase = "active" /\ r \in Mine \ sent
      /\ sent' = sent \union {r} /\ unbound' = unbound \union {r} /\ toServer' = toServer \union {r}
      /\ UNCHANGED <<server, hub, toClient, recovery, cursor, retirement, renderer, feedFaults>>
    BY DEF Send
<1>2. /\ UNCHANGED <<shown, provisional, replayed, paging, phase, todo>>
    BY <1>1 DEF recovery, renderer
<1>3. ASSUME NEW q \in Runs, q # r PROVE RunInv(q)'
  <2>1. Forgets(q)
    BY <1>1, <1>3 DEF Forgets, Follow, Heeded
  <2>2. Rests(q)
    BY <1>1, <1>2, <2>1, StillRests
  <2> QED
    BY <1>0, <1>2, <2>2, RestsStill DEF FeedInv
<1>4. RunInv(r)'
  <2>1. RunInv(r)
    BY DEF FeedInv
  <2>2. ~Follow(r) /\ log[r].seq = 0 /\ Waiting(r) = {} /\ shown[r] = <<>>
    BY <1>1, <2>1 DEF RunInv, Wanted
  <2>3. /\ \A k : Frames(r, k)' = Frames(r, k)
        /\ UNCHANGED <<log, retired, executing, route, subs>>
    BY <1>1 DEF Frames, server, hub
  <2>4. Coming(r)' = Coming(r) /\ Kept(r)' = Kept(r)
    BY <1>2, <2>3 DEF Coming, Kept
  <2>5. Waiting(r)' = {} /\ Kept(r)' = {} /\ Coming(r)' = {}
    BY <2>2, <2>4 DEF Waiting
  <2>6. ~Follow(r)' /\ (Heeded(r)' <=> Heeded(r)) /\ (Present(r)' <=> Present(r)) /\ (Tuned(r)' <=> Tuned(r))
        /\ Told(r)' = Told(r) /\ (Pends(r)' <=> Pends(r)) /\ paging' = paging /\ replayed' = replayed
    BY <1>1, <1>2, <2>2, <2>3 DEF Follow, Heeded, Present, Tuned, Heard, Told, Pends
  <2>7. Wanted(r)' /\ Showing(r)' /\ Levels(r)'
    BY <1>1, <1>2, <2>1, <2>2, <2>3, <2>5, <2>6 DEF RunInv, Wanted, Showing, Levels, IsInterval
  <2>8. Stream(r)' /\ Follows(r)'
    BY <2>5, <2>6 DEF Stream, Follows, Alive, Gapless
  <2>9. Answered(r)'
    BY <1>2, <2>1, <2>3, <2>4, <2>6 DEF RunInv, Answered
  <2>10. replayed' = {} /\ Frames(r, "page")' = {} /\ ~Pends(r)'
    BY <1>0, <1>1, <2>1, <2>3, <2>6 DEF Quiet, RunInv, Paging
  <2>11. Paging(r)'
    BY <2>10 DEF Paging
  <2> QED
    BY <2>7, <2>8, <2>9, <2>11 DEF RunInv
<1>5. ShownData' /\ Orders'
    BY <1>0, <1>1, <1>2 DEF ShownData, FeedInv, Orders
<1> QED
    BY <1>3, <1>4, <1>5 DEF ShownStep

-----------------------------------------------------------------------------
(* An answer to a send, and an event that is kept.                         *)

Joined(c, r, n, d) ==
    /\ d \in FeedCursors /\ DOMAIN d = DOMAIN c \union {r}
    /\ \A q \in DOMAIN c : d[q] = c[q]
    /\ r \notin DOMAIN c => d[r].seq = n /\ ~d[r].over
LEMMA WithIs ==
    ASSUME NEW c \in FeedCursors, NEW r \in Runs, NEW n \in Nat
    PROVE  Joined(c, r, n, With(c, r, n))
<1> DEFINE d == With(c, r, n)
<1>1. d = [q \in DOMAIN c \union {r} |-> IF q \in DOMAIN c THEN c[q] ELSE [seq |-> n, over |-> FALSE]]
    BY DEF With, Followed
<1> HIDE DEF d
<1>2. /\ DOMAIN d = DOMAIN c \union {r} /\ \A q \in DOMAIN c : d[q] = c[q]
      /\ r \notin DOMAIN c => d[r] = [seq |-> n, over |-> FALSE]
    BY <1>1
<1>3. DOMAIN c \in SUBSET Runs /\ \A q \in DOMAIN c : c[q] \in [seq : Nat, over : BOOLEAN]
    BY CursorKinds
<1>4. [seq |-> n, over |-> FALSE] \in [seq : Nat, over : BOOLEAN]
    OBVIOUS
<1>5. d \in [DOMAIN c \union {r} -> [seq : Nat, over : BOOLEAN]]
    BY <1>1, <1>3, <1>4
<1>6. DOMAIN c \union {r} \in SUBSET Runs
    BY <1>3
<1>7. d \in FeedCursors
    BY ONLY <1>5, <1>6, CursorKinds
<1>8. Joined(c, r, n, d)
    BY <1>2, <1>7 DEF Joined
<1> QED
    BY <1>8 DEF d

\* What is kept stays an interval.
LEMMA NextKept ==
    ASSUME NEW K \in SUBSET Nat, NEW C \in SUBSET Nat, NEW n \in C, \A m \in C : n <= m,
           \A k \in K, m \in C : k < m, IsInterval(K), Gapless(C \union K)
    PROVE  IsInterval(K \union {n})
<1>1. CASE K = {}
  <2>1. K \union {n} = n..n /\ n \in Nat
    BY <1>1
  <2> QED
    BY <2>1 DEF IsInterval
<1>2. CASE K # {}
  <2>1. PICK a \in Nat, b \in Nat : a <= b /\ K = a..b
    BY <1>2 DEF IsInterval
  <2>2. b \in K /\ b < n /\ b + 1 \notin K
    BY <2>1
  <2>3. b + 1 \in b..n
    BY <2>2
  <2>4. b + 1 \in C
    BY <2>2, <2>3 DEF Gapless
  <2>5. n = b + 1
    BY <2>2, <2>4
  <2>6. K \union {n} = a..n /\ a <= n
    BY <2>1, <2>5
  <2> QED
    BY <2>1, <2>6 DEF IsInterval
<1> QED
    BY <1>1, <1>2

\* The other Runs when the cursor of one changes.
LEMMA OthersForget ==
    ASSUME NEW r, NEW q \in Runs, q # r, UNCHANGED <<retirement, sent, toServer>>,
           unbound' \subseteq unbound, DOMAIN cursor' \ {r} = DOMAIN cursor \ {r},
           \A p \in DOMAIN cursor' \ {r} : cursor'[p] = cursor[p]
    PROVE  Forgets(q)
BY DEF Forgets, Follow, Heeded

LEMMA AcceptedRun ==
    ASSUME FeedInv, AcceptedArrives, NEW r \in Runs, NEW f, f = First, f.run = r,
           Heeded(r), Known(r)
    PROVE  RunInv(r)' /\ cursor' \in FeedCursors
           /\ DOMAIN cursor' \ {r} = DOMAIN cursor \ {r} /\ unbound' = unbound \ {r}
           /\ \A p \in DOMAIN cursor' \ {r} : cursor'[p] = cursor[p]
<1>0. FeedData /\ ShownData /\ Quiet /\ Waits /\ RunInv(r) /\ cursor \in FeedCursors
    BY DEF FeedInv, DeletionInv, ShownData
<1>1. /\ f.kind = "accepted" /\ Reads /\ unbound' = unbound \ {r}
      /\ cursor' = IF f.over THEN Without(cursor, {r}) ELSE With(cursor, r, f.seq)
      /\ UNCHANGED <<server, hub, toServer, recovery, retirement, renderer, budget>>
    BY DEF AcceptedArrives, Holds, Heeded
<1>2. /\ UNCHANGED <<shown, provisional, replayed, paging, phase, todo, sent>>
      /\ UNCHANGED <<log, executing, retired, route, subs>>
    BY <1>1 DEF recovery, renderer, server, hub, budget
<1>3. /\ First = toClient[1] /\ 1 \in DOMAIN toClient
      /\ f \in Frames(r, "accepted") /\ \A n \in Coming(r) : f.seq < n
      /\ f.seq \in Nat /\ f.over \in BOOLEAN
    BY <1>0, <1>1, ReadFrames, ReadFirst, FramesAre DEF FeedInv
<1>4. phase \in {"resending", "active"} /\ replayed = {} /\ paging = NoPage
    BY <1>0, <1>1, <1>3 DEF Waits, Quiet
<1>5. /\ \A k : Frames(r, k)' \subseteq Frames(r, k)
      /\ Frames(r, "page") = {} /\ Coming(r)' = Coming(r) /\ Kept(r)' = Kept(r) /\ Waiting(r)' = Waiting(r)
  <2>1. Coming(r)' = Coming(r) /\ Kept(r)' = Kept(r)
    BY <1>0, <1>1, <1>2, ReadSets DEF Kept
  <2>2. Frames(r, "page") = {}
    BY <1>0, <1>4 DEF RunInv, Paging
  <2> QED
    BY <1>0, <1>1, <2>1, <2>2, ReadSets DEF Waiting
<1>6. /\ Heeded(r)' <=> Heeded(r)
      /\ Present(r)' <=> Present(r)
      /\ Tuned(r)' <=> Tuned(r)
      /\ Told(r)' = Told(r) /\ ~Pends(r)'
    BY <1>1, <1>2, <1>4 DEF Heeded, Present, Tuned, Heard, Told, Pends
<1>7. Paging(r)'
    BY <1>2, <1>4, <1>5, <1>6 DEF Paging
<1>8. Answered(r)'
    BY <1>0, <1>2, <1>5, <1>6 DEF RunInv, Answered
<1>9. CASE f.over
  <2>1. PICK d : d = cursor' /\ d = Without(cursor, {r})
    BY <1>1, <1>9
  <2>2. PICK c \in FeedCursors : c = cursor /\ d = Without(c, {r})
    BY <1>0, <2>1
  <2>3. d \in FeedCursors /\ DOMAIN d = DOMAIN c \ {r} /\ \A q \in DOMAIN d : d[q] = c[q]
    BY <2>2, WithoutIs DEF Parted
  <2>4. ~Follow(r)' /\ r \notin unbound' /\ ~Open(r)'
    BY <1>1, <2>1, <2>3 DEF Follow, Open
  <2>5. Kept(r) = {} \/ shown[r] = <<>>
    BY <1>0, <1>3, <1>4 DEF RunInv, Answered, Quiet, Kept, Seqs
  <2>6. Wanted(r)'
    BY <1>0, <1>1, <1>2, <1>5, <2>4 DEF RunInv, Wanted
  <2>7. Showing(r)' /\ Levels(r)'
    BY <1>0, <1>2, <1>5, <1>6, <2>4, <2>5 DEF RunInv, Showing, Levels
  <2>8. Stream(r)' /\ Follows(r)'
    BY <1>0, <1>2, <1>5, <1>6, <2>4 DEF RunInv, Stream, Follows, Alive
  <2> QED
    BY <1>1, <1>7, <1>8, <2>1, <2>2, <2>3, <2>6, <2>7, <2>8 DEF RunInv
<1>10. CASE ~f.over
  <2>1. PICK n \in Nat : n = f.seq
    BY <1>3
  <2>2. PICK c \in FeedCursors : c = cursor
    BY <1>0
  <2>5. PICK d : d = cursor' /\ d = With(c, r, n)
    BY <1>1, <1>10, <2>1, <2>2
  <2>3. /\ d \in FeedCursors /\ DOMAIN d = DOMAIN c \union {r}
        /\ \A q \in DOMAIN c : d[q] = c[q]
        /\ r \notin DOMAIN c => d[r].seq = n /\ ~d[r].over
  <3>1. Joined(c, r, n, d)
    BY <2>5, WithIs
  <3> QED
    BY <3>1 DEF Joined
  <2>4. RunInv(r)'
    <3>1. CASE Follow(r)
      <4>1. Forgets(r)
        BY <1>1, <1>2, <2>2, <2>3, <2>5, <3>1 DEF Forgets, Follow, Heeded
      <4>2. Rests(r)
        BY <1>1, <1>2, <4>1, PlainRests
      <4> QED
        BY <1>0, <1>2, <4>2, RestsStill
    <3>2. CASE ~Follow(r)
      <4>1. r \in unbound /\ r \in sent /\ Kept(r) = {} /\ shown[r] = <<>>
        BY <1>0, <3>2 DEF Known, Followed, Follow, RunInv, Wanted
      <4>2. /\ Follow(r)' /\ cursor'[r].seq = n /\ ~cursor'[r].over /\ r \notin unbound'
            /\ Open(r)' /\ Open(r)
        BY <1>1, <2>2, <2>3, <2>5, <3>2, <4>1 DEF Follow, Open
      <4>3. Wanted(r)' /\ Showing(r)'
        BY <1>0, <1>1, <1>2, <1>5, <1>6, <4>1, <4>2 DEF RunInv, Wanted, Showing
      <4>4. Levels(r)'
        <5>1. /\ \A k \in Coming(r) : n < k /\ k > 0
              /\ n > 0 /\ (Present(r) => n <= log[r].seq)
            BY <1>0, <1>3, <2>1 DEF RunInv, Levels
        <5>2. log[r].seq \in Nat
            BY <1>0, NumbersAre
        <5>3. Present(r) => log[r].seq > 0
            BY <5>1, <5>2
        <5> QED
            BY <1>0, <1>2, <1>5, <1>6, <4>1, <4>2, <5>1, <5>3 DEF RunInv, Levels
      <4>5. Stream(r)'
        BY <1>0, <1>2, <1>5, <1>6, <4>2 DEF RunInv, Stream
      <4>6. Present(r) => Tuned(r) /\ (n + 1)..Told(r) \subseteq Coming(r)
        BY <1>0, <1>3, <1>10, <2>1 DEF RunInv, Answered
      <4>7. Present(r) => Reaches(r)'
        BY <1>5, <1>6, <4>2, <4>6 DEF Reaches, Waiting
      <4>8. Follows(r)'
        BY <1>2, <1>4, <1>6, <4>2, <4>6, <4>7 DEF Follows, Alive, Recovering
      <4> QED
        BY <1>7, <1>8, <4>3, <4>4, <4>5, <4>8 DEF RunInv
    <3> QED
        BY <3>1, <3>2
  <2> QED
    BY <1>1, <2>2, <2>3, <2>4, <2>5
<1> QED
    BY <1>3, <1>9, <1>10

LEMMA AcceptedShown ==
    ASSUME FeedInv, AcceptedArrives
    PROVE  ShownStep
<1>0. FeedData /\ ShownData /\ cursor \in FeedCursors
    BY DEF FeedInv, DeletionInv, ShownData
<1>1. /\ UNCHANGED <<server, hub, shown, provisional, replayed, paging, phase, todo>>
      /\ UNCHANGED <<sent, toServer, retirement>> /\ Reads /\ First.kind = "accepted"
    BY DEF AcceptedArrives, Holds, recovery, renderer, budget
<1>2. PICK f \in FeedFrames : f = First
    BY <1>0, <1>1, ReadFrames
<1>3. PICK r \in Runs : r = f.run
    BY <1>1, <1>2, FeedKinds
<1>4. CASE ~Heeded(r) \/ ~Known(r)
  <2>1. UNCHANGED <<cursor, unbound>>
    BY <1>2, <1>3, <1>4 DEF AcceptedArrives, Heeded
  <2>2. \A q \in Runs : Forgets(q)
    BY <1>1, <2>1, SameForgets
  <2> QED
    BY <1>0, <1>1, <2>1, <2>2, PlainShown
<1>5. CASE Heeded(r) /\ Known(r)
  <2>1. /\ RunInv(r)' /\ cursor' \in FeedCursors
        /\ DOMAIN cursor' \ {r} = DOMAIN cursor \ {r} /\ unbound' = unbound \ {r}
        /\ \A p \in DOMAIN cursor' \ {r} : cursor'[p] = cursor[p]
    BY <1>2, <1>3, <1>5, AcceptedRun
  <2>2. ASSUME NEW q \in Runs, q # r PROVE RunInv(q)'
    <3>1. Forgets(q)
        BY <1>1, <2>1, <2>2, OthersForget
    <3>2. Rests(q)
        BY <1>1, <3>1, PlainRests
    <3> QED
        BY <1>0, <1>1, <3>2, RestsStill DEF FeedInv
  <2>3. ShownData' /\ Orders'
    BY <1>0, <1>1, <2>1, ReadOrders DEF ShownData, FeedInv
  <2> QED
    BY <2>1, <2>2, <2>3 DEF ShownStep
<1> QED
    BY <1>4, <1>5

\* Other Runs when an event is read that is not of theirs.
LEMMA OtherEvents ==
    ASSUME FeedInv, Reads, NEW r, NEW q \in Runs, q # r, First.kind = "event", First.run = r,
           UNCHANGED <<server, hub, toServer, phase, todo, replayed, paging, retirement, sent>>,
           shown'[q] = shown[q], Kept(q)' = Kept(q), unbound' \subseteq unbound,
           DOMAIN cursor' \ {r} = DOMAIN cursor \ {r},
           \A p \in DOMAIN cursor' \ {r} : cursor'[p] = cursor[p]
    PROVE  RunInv(q)'
<1>1. Forgets(q)
    BY OthersForget
<1>2. Rests(q)
    BY <1>1, ReadingRests
<1> QED
    BY <1>2, RestsStill DEF FeedInv, DeletionInv

\* What is to come when an event was taken out of the queue.
LEMMA EventAnswered ==
    ASSUME FeedInv, NEW r \in Runs, NEW n \in Nat,
           Coming(r)' = Coming(r) \ {n}, \A m \in Frames(r, "accepted") : n <= m.seq,
           Frames(r, "accepted")' \subseteq Frames(r, "accepted"),
           Present(r)' <=> Present(r), Tuned(r)' <=> Tuned(r), Told(r)' = Told(r),
           phase' = phase, phase = "resending" => shown' = shown
    PROVE  Answered(r)'
<1>1. Answered(r) /\ FeedData
    BY DEF FeedInv, RunInv, DeletionInv
<1>2. ASSUME NEW m \in Frames(r, "accepted")', Present(r)', ~m.over
      PROVE  Tuned(r)' /\ (m.seq + 1)..Told(r)' \subseteq Coming(r)'
  <2>1. m \in Frames(r, "accepted") /\ m.seq \in Nat /\ n <= m.seq
    BY <1>1, <1>2, FramesAre
  <2>2. Tuned(r) /\ (m.seq + 1)..Told(r) \subseteq Coming(r)
    BY <1>1, <1>2, <2>1 DEF Answered
  <2>3. \A k \in (m.seq + 1)..Told(r) : k \in Coming(r) /\ k # n
    BY <2>1, <2>2
  <2> QED
    BY <2>2, <2>3
<1>3. ASSUME NEW m \in Frames(r, "accepted")', phase' = "resending" PROVE shown'[r] = <<>>
    BY <1>1, <1>3 DEF Answered
<1> QED
    BY <1>2, <1>3 DEF Answered

LEMMA KeptRun ==
    ASSUME FeedInv, EventKept, NEW r \in Runs, NEW f, f = First, f.run = r
    PROVE  RunInv(r)' /\ cursor' \in FeedCursors
           /\ DOMAIN cursor' \ {r} = DOMAIN cursor \ {r}
           /\ \A p \in DOMAIN cursor' \ {r} : cursor'[p] = cursor[p]
<1>0. FeedData /\ ShownData /\ Quiet /\ RunInv(r) /\ cursor \in FeedCursors /\ Orders
    BY DEF FeedInv, DeletionInv, ShownData
<1>1. /\ f.kind = "event" /\ ~Dropped(f) /\ Known(r) /\ phase # "active" /\ Reads
      /\ cursor' = With(cursor, r, 0) /\ unbound' = unbound \ {r}
      /\ provisional' = provisional \union {f}
      /\ UNCHANGED <<server, hub, toServer, phase, listed, todo, replayed, paging, retirement,
                     renderer, budget>>
    BY DEF EventKept, Holds
<1>2. UNCHANGED <<log, executing, retired, route, subs, shown, sent>>
    BY <1>1 DEF renderer, server, hub, budget
<1>3. PICK n \in Nat : n = f.seq
    BY <1>0, <1>1, ReadFirst
<1>4. /\ n \in Coming(r) /\ Coming(r)' = Coming(r) \ {n}
      /\ \A k \in Coming(r)' : n < k
      /\ \A m \in Frames(r, "accepted") : n <= m.seq
    BY <1>0, <1>1, <1>3, ReadFirst
<1>5. Kept(r)' = Kept(r) \union {n}
    BY <1>1, <1>3 DEF Kept, Seqs
<1>6. /\ Coming(r) \subseteq Nat /\ Kept(r) \subseteq Nat /\ log[r].seq \in Nat /\ Told(r) \in Nat
      /\ Follow(r) => cursor[r].seq \in Nat
    BY <1>0, FramesAre, NumbersAre
<1>7. Waiting(r)' = Waiting(r) /\ n \in Waiting(r)
    BY <1>4, <1>5 DEF Waiting
<1>8. /\ Heeded(r)' <=> Heeded(r)
      /\ Present(r)' <=> Present(r)
      /\ Tuned(r)' <=> Tuned(r)
      /\ Told(r)' = Told(r) /\ (Pends(r)' <=> Pends(r))
    BY <1>1, <1>2 DEF Heeded, Present, Tuned, Heard, Told, Pends
<1>9. /\ \A k : Frames(r, k)' \subseteq Frames(r, k)
      /\ Frames(r, "page")' = Frames(r, "page")
    BY <1>0, <1>1, ReadSets
<1>10. PICK c \in FeedCursors, z \in Nat : c = cursor /\ z = 0
    BY <1>0
<1>11. PICK d : d = cursor' /\ d = With(c, r, z)
    BY <1>1, <1>10
<1>12. Joined(c, r, z, d)
    BY <1>11, WithIs
<1>13. /\ d \in FeedCursors /\ DOMAIN d = DOMAIN c \union {r}
       /\ \A q \in DOMAIN c : d[q] = c[q]
       /\ r \notin DOMAIN c => d[r].seq = z /\ ~d[r].over
    BY <1>12 DEF Joined
<1>14. /\ Heeded(r) /\ (Follow(r) => ~cursor[r].over /\ r \notin unbound)
       /\ Follow(r) \/ r \in unbound
       /\ r \in sent /\ Open(r)
    BY <1>0, <1>1 DEF Dropped, Known, Heeded, Follow, Followed, RunInv, Wanted, Open
<1>15. /\ Follow(r)' /\ r \notin unbound' /\ Open(r)' /\ ~cursor'[r].over
       /\ Follow(r) => cursor'[r] = cursor[r]
       /\ ~Follow(r) => cursor'[r].seq = 0 /\ Kept(r) = {} /\ shown[r] = <<>>
    BY <1>0, <1>1, <1>10, <1>11, <1>13, <1>14 DEF Follow, Open, RunInv, Wanted
<1>16. cursor'[r].seq \in Nat /\ n > 0 /\ cursor'[r].seq < n
    BY <1>0, <1>4, <1>6, <1>15 DEF RunInv, Levels
<1>17. Wanted(r)'
    BY <1>1, <1>2, <1>14, <1>15 DEF Wanted
<1>18. Showing(r)'
  <2>1. IsInterval(Kept(r) \union {n})
    <3>1. IsInterval(Kept(r)) /\ Gapless(Coming(r) \union Kept(r))
        BY <1>0, <1>14 DEF RunInv, Showing, Stream, Waiting
    <3>2. \A k \in Kept(r), m \in Coming(r) : k < m
        BY <1>0 DEF RunInv, Levels
    <3>3. \A m \in Coming(r) : n <= m
        BY <1>4, <1>6
    <3> QED
        BY <1>4, <1>6, <3>1, <3>2, <3>3, NextKept
  <2> QED
    BY <1>0, <1>2, <1>5, <1>15, <2>1 DEF RunInv, Showing
<1>19. Levels(r)'
  <2>1. \A m \in Coming(r)' : m > 0 /\ (\A k \in Kept(r)' : k < m) /\ cursor'[r].seq < m
    BY <1>0, <1>4, <1>5, <1>6, <1>16 DEF RunInv, Levels
  <2>2. Present(r) => /\ cursor'[r].seq <= log[r].seq /\ log[r].seq > 0
                      /\ \A k \in Waiting(r) : k <= log[r].seq
    BY <1>0, <1>6, <1>7, <1>16 DEF RunInv, Levels
  <2> QED
    BY <1>0, <1>2, <1>7, <1>8, <1>9, <1>15, <2>1, <2>2 DEF RunInv, Levels
<1>20. Stream(r)'
    BY <1>0, <1>1, <1>2, <1>7, <1>8, <1>14 DEF RunInv, Stream
<1>21. Answered(r)'
    BY <1>1, <1>2, <1>4, <1>8, <1>9, EventAnswered
<1>22. CASE Follow(r)
  <2>1. Alive(r)' <=> Alive(r)
    BY <1>8, <1>14, <1>15, <1>22 DEF Alive
  <2>2. \A e, m : Fits(r, e, m) => Fits(r, e, m)'
    BY <1>7, <1>8, <1>15, <1>22, <2>1 DEF Fits
  <2>3. Paging(r)'
    BY <1>0, <1>1, <1>8, <1>9, <1>15, <1>22, <2>2 DEF RunInv, Paging
  <2>4. (Reaches(r)' <=> Reaches(r)) /\ (Doomed(r) => Doomed(r)')
    <3>1. ASSUME NEW k \in Kept(r), k > cursor[r].seq + 1, cursor[r].seq + 1 \notin Kept(r)
          PROVE  cursor[r].seq + 1 \notin Kept(r)'
      <4>1. k < n
        BY <1>0, <1>4 DEF RunInv, Levels
      <4>2. n # cursor[r].seq + 1
        BY <1>6, <1>22, <3>1, <4>1
      <4> QED
        BY <1>5, <3>1, <4>2
    <3> QED
        BY <1>5, <1>7, <1>8, <1>15, <1>22, <3>1 DEF Reaches, Doomed
  <2>5. Alive(r)' => Recovering(r)'
    BY <1>0, <1>1, <1>2, <1>8, <1>9, <2>1, <2>4 DEF RunInv, Follows, Recovering
  <2>6. Follows(r)'
    BY <1>15, <2>5 DEF Follows
  <2> QED
    BY <1>10, <1>11, <1>13, <1>17, <1>18, <1>19, <1>20, <1>21, <2>3, <2>6 DEF RunInv
<1>23. CASE ~Follow(r)
  <2>1. r \notin replayed /\ Frames(r, "page") = {} /\ ~Pends(r)
    BY <1>0, <1>14, <1>23 DEF RunInv, Paging
  <2>2. Paging(r)'
    BY <1>1, <1>8, <1>9, <2>1 DEF Paging
  <2>3. ASSUME Present(r) PROVE Recovering(r)'
    <3>1. Tuned(r) /\ (phase \in Early => SessionOf[r] \in subs)
        BY <1>0, <1>7, <2>3 DEF RunInv, Stream
    <3>2. Reaches(r)' \/ Doomed(r)'
      <4>1. CASE n = 1
        <5>1. 1..Told(r) \subseteq Waiting(r)
            BY <1>0, <1>7, <1>14, <2>3, <4>1 DEF RunInv, Stream
        <5>2. Reaches(r)'
            BY <1>7, <1>8, <1>15, <1>23, <5>1 DEF Reaches
        <5> QED
            BY <5>2
      <4>2. CASE n # 1
        <5>1. Kept(r)' = {n} /\ cursor'[r].seq = 0 /\ n > 1
            BY <1>5, <1>15, <1>16, <1>23, <4>2
        <5>2. Doomed(r)'
            BY <5>1 DEF Doomed
        <5> QED
            BY <5>2
      <4> QED
        BY <4>1, <4>2
    <3> QED
        BY <1>1, <1>2, <1>8, <2>1, <3>1, <3>2 DEF Recovering, Early
  <2>4. Follows(r)'
    BY <1>8, <1>15, <2>3 DEF Follows, Alive
  <2> QED
    BY <1>10, <1>11, <1>13, <1>17, <1>18, <1>19, <1>20, <1>21, <2>2, <2>4 DEF RunInv
<1> QED
    BY <1>22, <1>23

LEMMA KeptShown ==
    ASSUME FeedInv, EventKept
    PROVE  ShownStep
<1>0. FeedData /\ ShownData /\ Orders
    BY DEF FeedInv, DeletionInv
<1>1. /\ First.kind = "event" /\ Reads /\ unbound' = unbound \ {First.run}
      /\ provisional' = provisional \union {First}
      /\ UNCHANGED <<server, hub, toServer, phase, todo, replayed, paging, retirement>>
      /\ UNCHANGED <<shown, sent>>
    BY DEF EventKept, Holds, renderer, budget
<1>2. PICK f \in FeedFrames : f = First
    BY <1>0, <1>1, ReadFrames
<1>3. PICK r \in Runs : r = f.run
    BY <1>1, <1>2, FeedKinds, FeedEventKinds
<1>4. /\ RunInv(r)' /\ cursor' \in FeedCursors
      /\ DOMAIN cursor' \ {r} = DOMAIN cursor \ {r}
      /\ \A p \in DOMAIN cursor' \ {r} : cursor'[p] = cursor[p]
    BY <1>2, <1>3, KeptRun
<1>5. ASSUME NEW q \in Runs, q # r PROVE RunInv(q)'
  <2>1. Kept(q)' = Kept(q)
    BY <1>1, <1>2, <1>3, <1>5 DEF Kept, Seqs
  <2>2. shown'[q] = shown[q] /\ unbound' \subseteq unbound /\ First.run = r
    BY <1>1, <1>2, <1>3
  <2> QED
    BY <1>1, <1>4, <1>5, <2>1, <2>2, OtherEvents
<1>6. ShownData' /\ Orders'
    BY <1>0, <1>1, <1>4, ReadOrders DEF ShownData
<1> QED
    BY <1>4, <1>5, <1>6 DEF ShownStep

-----------------------------------------------------------------------------
(* What is taken of some events, and shown.                                *)

LEMMA InOrderIs ==
    /\ InOrder({}) = <<>>
    /\ \A a, b \in Nat : a <= b =>
          /\ InOrder(a..b) \in Seq(Nat) /\ Len(InOrder(a..b)) > 0
          /\ InOrder(a..b)[1] = a /\ InOrder(a..b)[Len(InOrder(a..b))] = b
          /\ \A i \in 1..(Len(InOrder(a..b)) - 1) : InOrder(a..b)[i + 1] = InOrder(a..b)[i] + 1
<1>1. InOrder({}) = <<>>
  <2>1. Cardinality({}) = 0
    BY FS_EmptySet
  <2>2. \A q \in [1..0 -> {}] : q = <<>>
    OBVIOUS
  <2>3. <<>> \in [1..0 -> {}] /\ \A i, j \in DOMAIN <<>> : i < j => <<>>[i] < <<>>[j]
    OBVIOUS
  <2>4. (CHOOSE q \in [1..0 -> {}] : \A i, j \in DOMAIN q : i < j => q[i] < q[j]) \in [1..0 -> {}]
    BY <2>3
  <2>5. InOrder({}) \in [1..0 -> {}]
    BY <2>1, <2>4 DEF InOrder
  <2> QED
    BY <2>2, <2>5
<1>2. ASSUME NEW a \in Nat, NEW b \in Nat, a <= b
      PROVE  /\ InOrder(a..b) \in Seq(Nat) /\ Len(InOrder(a..b)) > 0
             /\ InOrder(a..b)[1] = a /\ InOrder(a..b)[Len(InOrder(a..b))] = b
             /\ \A i \in 1..(Len(InOrder(a..b)) - 1) : InOrder(a..b)[i + 1] = InOrder(a..b)[i] + 1
  <2>1. PICK m \in Nat : m = b - a + 1 /\ m > 0
    BY <1>2
  <2>2. IsFiniteSet(a..b) /\ Cardinality(a..b) = m /\ Cardinality(1..m) = m /\ IsFiniteSet(1..m)
    BY <1>2, <2>1, FS_Interval
  <2>3. PICK g : g = [i \in 1..m |-> a + i - 1]
    OBVIOUS
  <2>4. g \in [1..m -> a..b] /\ \A i, j \in DOMAIN g : i < j => g[i] < g[j]
    BY <2>1, <2>3
  <2>5. PICK q : q = InOrder(a..b)
    OBVIOUS
  <2>6. q = CHOOSE p \in [1..m -> a..b] : \A i, j \in DOMAIN p : i < j => p[i] < p[j]
    BY <2>2, <2>5 DEF InOrder
  <2>7. q \in [1..m -> a..b] /\ \A i, j \in DOMAIN q : i < j => q[i] < q[j]
    BY <2>4, <2>6
  <2>8. DOMAIN q = 1..m /\ \A i \in 1..m : q[i] \in a..b
    BY <2>7
  <2>9. \A i, j \in 1..m : (i < j => q[i] < q[j]) /\ (q[i] = q[j] => i = j)
    BY <2>7, <2>8
  <2>10. q \in Injection(1..m, a..b)
    BY <2>7, <2>9 DEF Injection, IsInjective
  <2>11. q \in Surjection(1..m, a..b)
    BY <2>2, <2>10, FS_Injection
  <2>12. \A n \in a..b : \E i \in 1..m : q[i] = n
    BY <2>11 DEF Surjection
  <2>13. q[1] = a
    <3>1. PICK i \in 1..m : q[i] = a
        BY <1>2, <2>12
    <3>2. 1 \in 1..m /\ (i = 1 \/ 1 < i)
        BY <2>1
    <3>3. 1 < i => q[1] < q[i]
        BY <2>9, <3>2
    <3> QED
        BY <2>8, <3>1, <3>2, <3>3
  <2>14. q[m] = b
    <3>1. PICK i \in 1..m : q[i] = b
        BY <1>2, <2>12
    <3>2. m \in 1..m /\ (i = m \/ i < m)
        BY <2>1
    <3>3. i < m => q[i] < q[m]
        BY <2>9, <3>2
    <3> QED
        BY <2>8, <3>1, <3>2, <3>3
  <2>15. ASSUME NEW i \in 1..(m - 1) PROVE q[i + 1] = q[i] + 1
    <3>1. i \in 1..m /\ i + 1 \in 1..m
        BY <2>1
    <3>2. q[i] \in Nat /\ q[i + 1] \in Nat /\ q[i] \in a..b /\ q[i + 1] \in a..b /\ q[i] < q[i + 1]
        BY <2>8, <2>9, <3>1
    <3>3. PICK j \in 1..m : q[j] = q[i] + 1
      <4>1. q[i] + 1 \in a..b
        BY <3>2
      <4> QED
        BY <2>12, <4>1
    <3>4. j > i
      <4>1. q[j] > q[i] /\ (j < i => q[j] < q[i])
        BY <2>9, <3>1, <3>2, <3>3
      <4>2. ~(j < i) /\ j # i
        BY <3>2, <3>3, <4>1
      <4> QED
        BY <3>1, <4>2
    <3>5. j = i + 1 \/ i + 1 < j
        BY <3>1, <3>4
    <3>6. i + 1 < j => q[i + 1] < q[j]
        BY <2>9, <3>1
    <3>7. ~(i + 1 < j)
        BY <3>2, <3>3, <3>6
    <3> QED
        BY <3>3, <3>5, <3>7
  <2>16. q \in Seq(Nat) /\ Len(q) = m
    BY <2>7, <2>8
  <2>17. /\ q \in Seq(Nat) /\ Len(q) > 0 /\ q[1] = a /\ q[Len(q)] = b
         /\ \A i \in 1..(Len(q) - 1) : q[i + 1] = q[i] + 1
    BY <2>1, <2>13, <2>14, <2>15, <2>16
  <2> QED
    BY <2>5, <2>17
<1> QED
    BY <1>1, <1>2

\* More numbers behind those that were shown.
Chain(s, p, t, l, m) ==
    /\ m > 0 /\ \A i \in 1..l : t[i] = s[i]
    /\ \A j \in 1..m : t[l + j] = p[j]
    /\ \A i \in 1..(l - 1) : s[i + 1] = s[i] + 1
    /\ \A j \in 1..(m - 1) : p[j + 1] = p[j] + 1
    /\ l = 0 \/ p[1] = s[l] + 1
Chained(p, t, l, m) == t[l + m] = p[m] /\ \A i \in 1..(l + m - 1) : t[i + 1] = t[i] + 1
LEMMA ChainIs ==
    ASSUME NEW s, NEW p, NEW t, NEW l \in Nat, NEW m \in Nat, Chain(s, p, t, l, m)
    PROVE  Chained(p, t, l, m)
<1>0. /\ m > 0 /\ \A i \in 1..l : t[i] = s[i]
      /\ \A j \in 1..m : t[l + j] = p[j]
      /\ \A i \in 1..(l - 1) : s[i + 1] = s[i] + 1
      /\ \A j \in 1..(m - 1) : p[j + 1] = p[j] + 1
      /\ l = 0 \/ p[1] = s[l] + 1
    BY DEF Chain
<1>1. t[l + m] = p[m]
    BY <1>0
<1>2. ASSUME NEW i \in 1..(l + m - 1) PROVE t[i + 1] = t[i] + 1
  <2>0. i \in Nat /\ i > 0
    OBVIOUS
  <2>1. CASE i < l
    <3>1. i \in 1..(l - 1) /\ i \in 1..l /\ i + 1 \in 1..l
        BY <2>0, <2>1
    <3> QED
        BY <1>0, <3>1
  <2>2. CASE i = l
    <3>1. i \in 1..l /\ 1 \in 1..m /\ l # 0
        BY <2>0, <2>2
    <3>2. t[l] = s[l] /\ t[l + 1] = p[1]
        BY <1>0, <2>2, <3>1
    <3> QED
        BY <1>0, <2>2, <3>1, <3>2
  <2>3. CASE i > l
    <3>1. PICK k \in 1..(m - 1) : i = l + k
      <4>1. i - l \in 1..(m - 1) /\ i = l + (i - l)
        BY <1>2, <2>0, <2>3
      <4> QED
        BY <4>1
    <3>2. k \in 1..m /\ k + 1 \in 1..m /\ i + 1 = l + (k + 1)
        BY <3>1
    <3>3. t[i] = p[k] /\ t[i + 1] = p[k + 1]
        BY <1>0, <3>1, <3>2
    <3> QED
        BY <1>0, <3>1, <3>3
  <2> QED
    BY <2>0, <2>1, <2>2, <2>3
<1> QED
    BY <1>1, <1>2 DEF Chained

LEMMA Appended ==
    ASSUME NEW s \in Seq(Nat), Consecutive(s), NEW p \in Seq(Nat), Consecutive(p), p # <<>>,
           s = <<>> \/ s[Len(s)] + 1 = p[1]
    PROVE  /\ s \o p \in Seq(Nat) /\ Consecutive(s \o p) /\ s \o p # <<>>
           /\ (s \o p)[Len(s \o p)] = p[Len(p)]
<1>1. PICK t : t = s \o p
    OBVIOUS
<1>2. PICK l \in Nat, m \in Nat : l = Len(s) /\ m = Len(p)
    OBVIOUS
<1>3. t \in Seq(Nat) /\ Len(t) = l + m
    BY <1>1, <1>2
<1>4. /\ \A i \in 1..l : t[i] = s[i]
      /\ \A j \in 1..m : t[l + j] = p[j]
  <2>1. IsConcat(s, p, t)
    BY <1>1, Queued
  <2> QED
    BY <1>2, <2>1 DEF IsConcat
<1>5. m > 0 /\ (l = 0 \/ p[1] = s[l] + 1)
    BY <1>2
<1>6. \A i \in 1..(l - 1) : s[i + 1] = s[i] + 1
    BY <1>2 DEF Consecutive
<1>7. \A i \in 1..(m - 1) : p[i + 1] = p[i] + 1
    BY <1>2 DEF Consecutive
<1>8. t[l + m] = p[m] /\ \A i \in 1..(l + m - 1) : t[i + 1] = t[i] + 1
  <2>1. Chain(s, p, t, l, m)
    BY <1>4, <1>5, <1>6, <1>7 DEF Chain
  <2>2. Chained(p, t, l, m)
    BY <2>1, ChainIs
  <2> QED
    BY <2>2 DEF Chained
<1>9. t # <<>>
    BY <1>3, <1>5
<1>10. Consecutive(t)
    BY <1>3, <1>8 DEF Consecutive
<1> QED
    BY <1>1, <1>2, <1>3, <1>8, <1>9, <1>10

\* What of some events is new, and what is taken: those from the cursor on.
LEMMA TakenIs ==
    ASSUME NEW c, NEW E, NEW r \in Runs, r \in DOMAIN c => c[r].seq \in Nat,
           Heeded(r) => IsInterval(Seqs(E, r))
    PROVE  /\ ~Heeded(r) => News(c, E, r) = {} /\ Taken(c, E, r) = {}
           /\ Heeded(r) /\ r \notin DOMAIN c => /\ News(c, E, r) = Seqs(E, r)
                                                /\ Taken(c, E, r) = Seqs(E, r)
           /\ Heeded(r) /\ r \in DOMAIN c =>
                 /\ News(c, E, r) = {n \in Seqs(E, r) : n > c[r].seq}
                 /\ c[r].seq + 1 \notin Seqs(E, r) => Taken(c, E, r) = {}
                 /\ c[r].seq + 1 \in Seqs(E, r) =>
                       /\ Taken(c, E, r) = News(c, E, r)
                       /\ \E b \in Nat : /\ b > c[r].seq /\ b \in Seqs(E, r)
                                         /\ Taken(c, E, r) = (c[r].seq + 1)..b
<1>1. News(c, E, r) = LET these == {e.seq : e \in {f \in E : f.run = r /\ Heeded(r)}}
                      IN  IF r \in DOMAIN c THEN {n \in these : n > c[r].seq} ELSE these
    BY DEF News, Heeded, Followed
<1>2. Taken(c, E, r) = IF r \in DOMAIN c
                       THEN {n \in News(c, E, r) : (c[r].seq + 1)..n \subseteq News(c, E, r)}
                       ELSE News(c, E, r)
    BY DEF Taken, Followed
<1>3. ASSUME ~Heeded(r) PROVE News(c, E, r) = {} /\ Taken(c, E, r) = {}
  <2>1. News(c, E, r) = {}
    BY <1>1, <1>3
  <2> QED
    BY <1>2, <2>1
<1>4. ASSUME Heeded(r)
      PROVE  News(c, E, r) = IF r \in DOMAIN c THEN {n \in Seqs(E, r) : n > c[r].seq} ELSE Seqs(E, r)
  <2>1. {f \in E : f.run = r /\ Heeded(r)} = {f \in E : f.run = r}
    BY <1>4
  <2> QED
    BY <1>1, <2>1 DEF Seqs
<1>5. ASSUME Heeded(r), r \in DOMAIN c
      PROVE  /\ News(c, E, r) = {n \in Seqs(E, r) : n > c[r].seq}
             /\ c[r].seq + 1 \notin Seqs(E, r) => Taken(c, E, r) = {}
             /\ c[r].seq + 1 \in Seqs(E, r) =>
                   /\ Taken(c, E, r) = News(c, E, r)
                   /\ \E b \in Nat : /\ b > c[r].seq /\ b \in Seqs(E, r)
                                     /\ Taken(c, E, r) = (c[r].seq + 1)..b
  <2>1. PICK k \in Nat : k = c[r].seq
    BY <1>5
  <2>2. PICK S, N, T : S = Seqs(E, r) /\ N = News(c, E, r) /\ T = Taken(c, E, r)
    OBVIOUS
  <2>3. IsInterval(S) /\ N = {n \in S : n > k} /\ T = {n \in N : (k + 1)..n \subseteq N}
    BY <1>2, <1>4, <1>5, <2>1, <2>2
  <2>4. S \subseteq Nat
    BY <2>3 DEF IsInterval
  <2>5. ASSUME k + 1 \notin S PROVE T = {}
    <3>1. ASSUME NEW n \in T PROVE FALSE
      <4>1. n \in Nat /\ n > k /\ (k + 1)..n \subseteq N
        BY <2>3, <2>4, <3>1
      <4>2. k + 1 \in (k + 1)..n
        BY <4>1
      <4> QED
        BY <2>3, <2>5, <4>1, <4>2
    <3> QED
        BY <3>1
  <2>6. ASSUME k + 1 \in S PROVE T = N /\ \E b \in Nat : b > k /\ b \in S /\ T = (k + 1)..b
    <3>1. PICK a \in Nat, b \in Nat : a <= b /\ S = a..b
        BY <2>3, <2>6 DEF IsInterval
    <3>2. N = (k + 1)..b /\ b > k /\ b \in S
        BY <2>3, <2>6, <3>1
    <3>3. \A n \in N : (k + 1)..n \subseteq N
        BY <3>2
    <3>4. T = N
        BY <2>3, <3>3
    <3> QED
        BY <3>2, <3>4
  <2>7. /\ N = {n \in S : n > k} /\ (k + 1 \notin S => T = {})
        /\ k + 1 \in S => T = N /\ \E b \in Nat : b > k /\ b \in S /\ T = (k + 1)..b
    BY <2>3, <2>5, <2>6
  <2> QED
    BY <2>1, <2>2, <2>7
<1>6. ASSUME Heeded(r), r \notin DOMAIN c
      PROVE  News(c, E, r) = Seqs(E, r) /\ Taken(c, E, r) = Seqs(E, r)
    BY <1>2, <1>4, <1>6
<1> QED
    BY <1>3, <1>5, <1>6

\* What the cursor of a Run becomes, and what was shown of it.
Delivery(c, E, d, r) ==
    /\ shown'[r] \in Seq(Nat) /\ Consecutive(shown'[r])
    /\ ~Heeded(r) \/ Seqs(E, r) = {} => shown'[r] = shown[r]
    /\ r \in DOMAIN c =>
          /\ ~d[r].over => ~c[r].over
          /\ shown'[r] = <<>> \/ shown'[r][Len(shown'[r])] = d[r].seq
          /\ \/ d[r] = c[r] /\ shown'[r] = shown[r] /\ Taken(c, E, r) = {}
             \/ \E b \in Nat : /\ b > c[r].seq /\ b \in Seqs(E, r) /\ d[r].seq = b /\ Heeded(r)
                               /\ News(c, E, r) = (c[r].seq + 1)..b /\ Taken(c, E, r) = News(c, E, r)
\* What is to be delivered of it.
Ahead(c, E, r) ==
    /\ shown[r] \in Seq(Nat) /\ Consecutive(shown[r])
    /\ r \in DOMAIN c => shown[r] = <<>> \/ shown[r][Len(shown[r])] = c[r].seq
    /\ Heeded(r) => IsInterval(Seqs(E, r))
    /\ Heeded(r) /\ r \notin DOMAIN c /\ Seqs(E, r) # {} => shown[r] = <<>>

Extended(t, b) == t \in Seq(Nat) /\ Consecutive(t) /\ t # <<>> /\ t[Len(t)] = b
LEMMA Appends ==
    ASSUME NEW s \in Seq(Nat), Consecutive(s), NEW a \in Nat, NEW b \in Nat, a <= b,
           s = <<>> \/ s[Len(s)] + 1 = a
    PROVE  Extended(s \o InOrder(a..b), b)
<1>1. PICK p : p = InOrder(a..b)
    OBVIOUS
<1>2. /\ p \in Seq(Nat) /\ Len(p) > 0 /\ p[1] = a /\ p[Len(p)] = b
      /\ \A i \in 1..(Len(p) - 1) : p[i + 1] = p[i] + 1
    BY <1>1, InOrderIs
<1>3. Consecutive(p) /\ p # <<>> /\ (s = <<>> \/ s[Len(s)] + 1 = p[1])
    BY <1>2 DEF Consecutive
<1>4. /\ s \o p \in Seq(Nat) /\ Consecutive(s \o p) /\ s \o p # <<>>
      /\ (s \o p)[Len(s \o p)] = p[Len(p)]
    BY <1>2, <1>3, Appended
<1> QED
    BY <1>1, <1>2, <1>4 DEF Extended

LEMMA AdvancedIs ==
    ASSUME NEW c \in FeedCursors, NEW E, \A r \in Runs : Heeded(r) => IsInterval(Seqs(E, r)),
           NEW d, d = Advanced(c, E)
    PROVE  /\ d \in FeedCursors /\ DOMAIN d = DOMAIN c
           /\ \A r \in DOMAIN c :
                 /\ d[r].seq = c[r].seq + Cardinality(Taken(c, E, r))
                 /\ ~d[r].over => ~c[r].over
                 /\ Taken(c, E, r) = {} => d[r] = c[r]
<1>1. d = [r \in DOMAIN c |->
              [seq  |-> c[r].seq + Cardinality(Taken(c, E, r)),
               over |-> c[r].over \/ \E e \in E : e.run = r /\ e.last /\ e.seq \in Taken(c, E, r)]]
    BY DEF Advanced, Followed
<1>2. ASSUME NEW r \in DOMAIN c
      PROVE  /\ d[r] \in [seq : Nat, over : BOOLEAN]
             /\ d[r].seq = c[r].seq + Cardinality(Taken(c, E, r))
             /\ ~d[r].over => ~c[r].over
             /\ Taken(c, E, r) = {} => d[r] = c[r]
  <2>1. r \in Runs /\ c[r] \in [seq : Nat, over : BOOLEAN] /\ c[r].seq \in Nat /\ c[r].over \in BOOLEAN
    BY CursorKinds
  <2>2. PICK k, T : k = c[r].seq /\ T = Taken(c, E, r)
    OBVIOUS
  <2>3. T = {} \/ \E b \in Nat : b > k /\ T = (k + 1)..b
    BY <2>1, <2>2, TakenIs
  <2>4. Cardinality(T) \in Nat
    <3>1. CASE T = {}
        BY <3>1, FS_EmptySet
    <3>2. CASE T # {}
      <4>1. PICK b \in Nat : b > k /\ T = (k + 1)..b
        BY <2>3, <3>2
      <4>2. k + 1 \in Int /\ b \in Int /\ ~(k + 1 > b) /\ b - (k + 1) + 1 \in Nat
        BY <2>1, <2>2, <4>1
      <4> QED
        BY <4>1, <4>2, FS_Interval
    <3> QED
        BY <3>1, <3>2
  <2>5. PICK o \in BOOLEAN : o <=> \E e \in E : e.run = r /\ e.last /\ e.seq \in Taken(c, E, r)
    OBVIOUS
  <2>6. d[r].seq = k + Cardinality(T) /\ k + Cardinality(T) \in Nat
    BY <1>1, <2>1, <2>2, <2>4
  <2>7. PICK x : x = [seq |-> c[r].seq + Cardinality(Taken(c, E, r)),
                      over |-> c[r].over \/ \E e \in E : e.run = r /\ e.last /\ e.seq \in Taken(c, E, r)]
    OBVIOUS
  <2>8. d[r] = x
    BY <1>1, <2>7
  <2>9. (c[r].over \/ \E e \in E : e.run = r /\ e.last /\ e.seq \in Taken(c, E, r)) \in BOOLEAN
    BY <2>1
  <2>10. x \in [seq : Nat, over : BOOLEAN] /\ (~x.over => ~c[r].over)
    BY <2>2, <2>6, <2>7, <2>9
  <2>11. ASSUME T = {} PROVE x = c[r]
    <3>1. x.seq = c[r].seq
        BY <2>1, <2>2, <2>6, <2>8, <2>11, FS_EmptySet
    <3>2. x.over = c[r].over
        BY <2>1, <2>2, <2>7, <2>11
    <3> QED
        BY <2>1, <2>10, <3>1, <3>2
  <2> QED
    BY <2>2, <2>6, <2>8, <2>10, <2>11
<1>3. DOMAIN d = DOMAIN c /\ DOMAIN c \in SUBSET Runs
    BY <1>1, CursorKinds
<1>4. PICK S \in SUBSET Runs : S = DOMAIN c
    BY <1>3
<1>5. d \in [S -> [seq : Nat, over : BOOLEAN]]
  <2>1. d = [r \in S |-> d[r]]
    BY <1>1, <1>4
  <2> QED
    BY <1>2, <1>4, <2>1
<1>6. d \in FeedCursors
    BY <1>5, CursorKinds
<1> QED
    BY <1>2, <1>3, <1>6

LEMMA Delivers ==
    ASSUME NEW c \in FeedCursors, NEW E, NEW d, d = Advanced(c, E), shown' = ShownAfter(c, E),
           \A r \in Runs : Ahead(c, E, r)
    PROVE  /\ d \in FeedCursors /\ DOMAIN d = DOMAIN c
           /\ shown' \in [Runs -> Seq(Nat)]
           /\ \A r \in Runs : Delivery(c, E, d, r)
<1>0. \A r \in Runs : Heeded(r) => IsInterval(Seqs(E, r))
    BY DEF Ahead
<1>1. /\ d \in FeedCursors /\ DOMAIN d = DOMAIN c
      /\ \A r \in DOMAIN c : /\ d[r].seq = c[r].seq + Cardinality(Taken(c, E, r))
                             /\ ~d[r].over => ~c[r].over
                             /\ Taken(c, E, r) = {} => d[r] = c[r]
    BY <1>0, AdvancedIs
<1>2. shown' = [r \in Runs |-> shown[r] \o InOrder(Taken(c, E, r))]
    BY DEF ShownAfter
<1>3. ASSUME NEW r \in Runs PROVE Delivery(c, E, d, r)
  <2>0. Ahead(c, E, r)
    OBVIOUS
  <2>1. PICK s, T : s = shown[r] /\ T = Taken(c, E, r) /\ s \in Seq(Nat)
    BY <2>0 DEF Ahead
  <2>2. PICK t : t = shown'[r] /\ t = s \o InOrder(T)
    BY <1>2, <2>1
  <2>3. r \in DOMAIN c => c[r].seq \in Nat
    BY CursorKinds
  <2>4. T = {} => t = s
    BY <2>1, <2>2, InOrderIs, ConcatEmptySeq
  <2>5. ~Heeded(r) \/ Seqs(E, r) = {} => T = {}
    BY <1>0, <2>1, <2>3, TakenIs
  <2>6. Consecutive(s) /\ (r \in DOMAIN c => s = <<>> \/ s[Len(s)] = c[r].seq)
    BY <2>0, <2>1 DEF Ahead
  <2>10. r \in DOMAIN c => d[r].seq = c[r].seq + Cardinality(T)
    BY <1>1, <2>1
  <2>7. CASE T = {}
    <3>1. r \in DOMAIN c => d[r] = c[r]
        BY <1>1, <2>1, <2>7
    <3> QED
        BY <1>1, <2>1, <2>2, <2>4, <2>6, <2>7, <3>1 DEF Delivery
  <2>8. CASE T # {} /\ r \notin DOMAIN c
    <3>1. Heeded(r) /\ T = Seqs(E, r) /\ s = <<>>
        BY <1>0, <2>0, <2>1, <2>5, <2>8, TakenIs DEF Ahead
    <3>2. PICK a \in Nat, b \in Nat : a <= b /\ T = a..b
        BY <1>0, <2>8, <3>1 DEF IsInterval
    <3>3. t \in Seq(Nat) /\ Consecutive(t)
      <4>1. Extended(s \o InOrder(a..b), b)
        BY <2>1, <2>6, <3>1, <3>2, Appends
      <4> QED
        BY <2>2, <3>2, <4>1 DEF Extended
    <3> QED
        BY <2>2, <2>5, <2>8, <3>3 DEF Delivery
  <2>9. CASE T # {} /\ r \in DOMAIN c
    <3>1. Heeded(r)
        BY <2>5, <2>9
    <3>2. PICK k \in Nat : k = c[r].seq
        BY <2>3, <2>9
    <3>3. PICK b \in Nat : b > k /\ b \in Seqs(E, r) /\ T = (k + 1)..b /\ News(c, E, r) = T
        BY <1>0, <2>1, <2>9, <3>1, <3>2, TakenIs
    <3>4. Cardinality(T) = b - k
      <4>1. k + 1 \in Int /\ b \in Int /\ ~(k + 1 > b) /\ b - (k + 1) + 1 = b - k
        BY <3>3
      <4> QED
        BY <3>3, <4>1, FS_Interval
    <3>5. d[r].seq = b
        BY <2>9, <2>10, <3>2, <3>3, <3>4
    <3>6. t \in Seq(Nat) /\ Consecutive(t) /\ t # <<>> /\ t[Len(t)] = b
      <4>1. PICK a \in Nat : a = k + 1 /\ a <= b
        BY <3>3
      <4>2. s = <<>> \/ s[Len(s)] + 1 = a
        BY <2>6, <2>9, <3>2, <4>1
      <4>3. Extended(s \o InOrder(a..b), b)
        BY <2>1, <2>6, <4>1, <4>2, Appends
      <4> QED
        BY <2>2, <3>3, <4>1, <4>3 DEF Extended
    <3> QED
        BY <1>1, <2>1, <2>2, <2>5, <2>9, <3>1, <3>2, <3>3, <3>5, <3>6 DEF Delivery
  <2> QED
    BY <2>7, <2>8, <2>9
<1>4. shown' \in [Runs -> Seq(Nat)]
  <2>1. \A r \in Runs : shown'[r] \in Seq(Nat)
    BY <1>3 DEF Delivery
  <2> QED
    BY <1>2, <2>1
<1> QED
    BY <1>1, <1>3, <1>4

LEMMA FollowingIs ==
    ASSUME NEW d \in FeedCursors, NEW e, e = Following(d)
    PROVE  /\ e \in FeedCursors
           /\ \A r : r \in DOMAIN e <=> r \in DOMAIN d /\ ~d[r].over
           /\ \A r \in DOMAIN e : e[r] = d[r]
<1>1. PICK S : S = {r \in DOMAIN d : d[r].over}
    OBVIOUS
<1>2. e = Without(d, S)
    BY <1>1 DEF Following, Followed
<1>3. Parted(d, S, e)
    BY <1>2, WithoutIs
<1> QED
    BY <1>1, <1>3 DEF Parted

LEMMA DeliveredShows ==
    ASSUME NEW r \in Runs, Shows(r), UNCHANGED <<log, retired, sent>>, NEW c, NEW E, NEW d,
           r \in DOMAIN c => c[r].seq \in Nat, log[r].seq \in Nat,
           Delivery(c, E, d, r), unbound' \subseteq unbound,
           Follow(r)' => r \in DOMAIN c /\ cursor'[r] = d[r],
           r \in DOMAIN c => r \in sent /\ r \notin unbound',
           r \in DOMAIN c /\ Present(r) => c[r].seq <= log[r].seq /\ log[r].seq > 0,
           Present(r) /\ Heeded(r) => \A n \in Seqs(E, r) : n <= log[r].seq,
           r \in unbound' \/ r \in Mine \ sent => ~Heeded(r) \/ Seqs(E, r) = {}
    PROVE  Shows(r)'
<1>1. /\ Consecutive(shown'[r])
      /\ ~Heeded(r) \/ Seqs(E, r) = {} => shown'[r] = shown[r]
      /\ r \in DOMAIN c => shown'[r] = <<>> \/ shown'[r][Len(shown'[r])] = d[r].seq
    BY DEF Delivery
<1>2. r \in DOMAIN c =>
          \/ d[r] = c[r]
          \/ \E b \in Nat : b \in Seqs(E, r) /\ d[r].seq = b /\ Heeded(r)
    BY DEF Delivery
<1>3. r \in DOMAIN c /\ Present(r) => d[r].seq <= log[r].seq /\ log[r].seq > 0
    BY <1>2
<1>4. Present(r)' <=> Present(r)
    BY DEF Present
<1>5. /\ r \in unbound' \/ Follow(r)' => r \in sent'
      /\ r \in unbound' => ~Follow(r)' /\ shown'[r] = <<>>
      /\ r \in Mine \ sent' => log'[r].seq = 0 /\ shown'[r] = <<>>
    BY <1>1 DEF Shows
<1>6. Follow(r)' => shown'[r] = <<>> \/ shown'[r][Len(shown'[r])] = cursor'[r].seq
    BY <1>1
<1>7. Present(r)' /\ Follow(r)' => cursor'[r].seq <= log'[r].seq /\ log'[r].seq > 0
    BY <1>3, <1>4
<1> QED
    BY <1>1, <1>5, <1>6, <1>7 DEF Shows

-----------------------------------------------------------------------------
(* An event that is delivered.                                             *)

LEMMA DeliveredRun ==
    ASSUME FeedInv, NEW r \in Runs, NEW f, f = First, f.run = r, f.kind = "event",
           phase = "active", Heeded(r), Open(r), Reads, NEW n \in Nat, n = f.seq,
           NEW c, NEW d, Delivery(c, {f}, d, r), r \in DOMAIN c,
           c[r].seq = n - 1 /\ n > 0 /\ d[r].seq = n,
           Follow(r)' <=> ~d[r].over, Follow(r)' => cursor'[r] = d[r], unbound' = unbound \ {r},
           UNCHANGED <<server, hub, toServer, phase, todo, replayed, paging, provisional, retirement,
                       sent>>
    PROVE  RunInv(r)'
<1>0. FeedData /\ ShownData /\ Quiet /\ RunInv(r)
    BY DEF FeedInv, DeletionInv
<1>1. UNCHANGED <<log, executing, retired, route, subs>>
    BY DEF server, hub
<1>2. /\ n \in Coming(r) /\ Coming(r)' = Coming(r) \ {n}
      /\ \A k \in Coming(r)' : n < k
      /\ \A m \in Frames(r, "accepted") : n <= m.seq
    BY <1>0, ReadFirst DEF FeedInv
<1>3. Kept(r) = {} /\ Kept(r)' = {} /\ replayed = {} /\ paging = NoPage
    BY <1>0 DEF Quiet, Kept, Seqs
<1>4. Waiting(r) = Coming(r) /\ Waiting(r)' = Coming(r)'
    BY <1>3 DEF Waiting
<1>5. Coming(r) \subseteq Nat /\ log[r].seq \in Nat /\ Told(r) \in Nat
    BY <1>0, FramesAre, NumbersAre
<1>6. /\ Heeded(r)' <=> Heeded(r)
      /\ Present(r)' <=> Present(r)
      /\ Tuned(r)' <=> Tuned(r)
      /\ Told(r)' = Told(r)
    BY <1>1 DEF Heeded, Present, Tuned, Heard, Told
<1>7. /\ \A k : Frames(r, k)' \subseteq Frames(r, k)
      /\ Frames(r, "page") = {} /\ ~Pends(r)
    BY <1>0, <1>3, ReadSets DEF RunInv, Paging
<1>8. r \in sent
    BY <1>0 DEF RunInv, Wanted, Open
<1>9. Wanted(r)'
    BY <1>0, <1>8 DEF RunInv, Wanted
<1>10. Showing(r)'
    BY <1>3 DEF Delivery, Showing, IsInterval
<1>11. Levels(r)'
    <2>1. \A m \in Frames(r, "accepted")' : m.seq > 0 /\ (Present(r) => m.seq <= log[r].seq)
        BY <1>0, <1>7 DEF RunInv, Levels
    <2>2. \A k \in Coming(r)' : k > 0 /\ n < k /\ (Present(r) => k <= log[r].seq)
        BY <1>0, <1>2, <1>4 DEF RunInv, Levels
    <2>3. Present(r) => n <= log[r].seq /\ log[r].seq > 0
        BY <1>0, <1>2, <1>4, <1>5 DEF RunInv, Levels
    <2>4. Frames(r, "page")' = {}
        BY <1>7
    <2> QED
        BY <1>1, <1>3, <1>4, <1>6, <2>1, <2>2, <2>3, <2>4 DEF Levels
<1>12. /\ Present(r) => Tuned(r)
       /\ Gapless(Coming(r))
       /\ Present(r) => \A k \in Coming(r) : k..Told(r) \subseteq Coming(r)
    BY <1>0, <1>2, <1>4 DEF RunInv, Stream
<1>13. Stream(r)'
  <2>1. Gapless(Coming(r)')
    BY <1>2, <1>5, <1>12 DEF Gapless
  <2>2. Present(r) => \A k \in Coming(r)' : k..Told(r) \subseteq Coming(r)'
    BY <1>2, <1>5, <1>12
  <2> QED
    BY <1>4, <1>6, <1>12, <2>1, <2>2 DEF Stream, Early
<1>14. Answered(r)'
    BY <1>2, <1>6, <1>7, EventAnswered
<1>15. Paging(r)'
    BY <1>3, <1>7 DEF Paging, Pends, NoPage
<1>16. Present(r) => (n + 1)..Told(r) \subseteq Coming(r)'
    BY <1>2, <1>5, <1>12
<1>17. Follow(r)' => cursor'[r].seq = n /\ ~cursor'[r].over
    OBVIOUS
<1>18. Follows(r)'
    BY <1>4, <1>6, <1>12, <1>16, <1>17 DEF Follows, Alive, Recovering, Reaches
<1> QED
    BY <1>9, <1>10, <1>11, <1>13, <1>14, <1>15, <1>18 DEF RunInv

\* One event, and what it means to deliver it.
LEMMA OneNumber ==
    ASSUME NEW r \in Runs, NEW f, f.run = r, NEW n, n = f.seq
    PROVE  /\ Seqs({f}, r) = {n}
           /\ \A q \in Runs : q # r => Seqs({f}, q) = {}
BY DEF Seqs

\* Whether all of it is taken.
LEMMA GapIs ==
    ASSUME NEW c \in FeedCursors, NEW E, \A q \in Runs : Heeded(q) => IsInterval(Seqs(E, q))
    PROVE  /\ ~Gap(c, E) => \A q \in Runs : Taken(c, E, q) = News(c, E, q)
           /\ Gap(c, E) => \E q \in Runs : /\ Heeded(q) /\ q \in DOMAIN c /\ c[q].seq + 1 \notin Seqs(E, q)
                                           /\ \E n \in Seqs(E, q) : n > c[q].seq
<1>1. ~Gap(c, E) => \A q \in Runs : Taken(c, E, q) = News(c, E, q)
    BY DEF Gap
<1>2. ASSUME Gap(c, E)
      PROVE  \E q \in Runs : /\ Heeded(q) /\ q \in DOMAIN c /\ c[q].seq + 1 \notin Seqs(E, q)
                             /\ \E n \in Seqs(E, q) : n > c[q].seq
  <2>1. PICK q \in Runs : Taken(c, E, q) # News(c, E, q)
    BY <1>2 DEF Gap
  <2>2. q \in DOMAIN c => c[q].seq \in Nat
    BY CursorKinds
  <2>3. Heeded(q) /\ q \in DOMAIN c /\ c[q].seq + 1 \notin Seqs(E, q) /\ Taken(c, E, q) = {}
        /\ News(c, E, q) = {n \in Seqs(E, q) : n > c[q].seq}
    BY <2>1, <2>2, TakenIs
  <2>4. \E n \in Seqs(E, q) : n > c[q].seq
    BY <2>1, <2>3
  <2> QED
    BY <2>3, <2>4
<1> QED
    BY <1>1, <1>2

LEMMA DeliveredShown ==
    ASSUME FeedInv, EventDelivered
    PROVE  ShownStep
<1>0. FeedData /\ ShownData /\ Orders /\ Quiet /\ \A q \in Runs : RunInv(q) /\ Shows(q)
    BY ShowsIs DEF FeedInv, DeletionInv
<1>1. First.kind = "event" /\ phase = "active" /\ toClient # <<>>
    BY DEF EventDelivered, Holds
<1>2. PICK f \in FeedFrames : f = First /\ \E i \in DOMAIN toClient : toClient[i] = f
  <2>1. PICK q \in Seq(FeedFrames) : q = toClient
    BY <1>0 DEF FeedData
  <2>2. Head(q) \in FeedFrames /\ Head(q) = q[1] /\ 1 \in DOMAIN q
    BY <1>1, <2>1, HeadOff
  <2> QED
    BY <2>1, <2>2 DEF First
<1>3. PICK r \in Runs, n \in Nat : r = f.run /\ n = f.seq
    BY <1>1, <1>2, FeedKinds, FeedEventKinds
<1>4. PICK b \in FeedCursors, z \in Nat : b = cursor /\ z = 0
    BY <1>0 DEF ShownData
<1>5. PICK c : c = With(b, r, z)
    OBVIOUS
<1>6. Joined(b, r, z, c)
    BY <1>5, WithIs
<1>7. /\ c \in FeedCursors /\ DOMAIN c = DOMAIN b \union {r}
      /\ \A q \in DOMAIN b : c[q] = b[q]
      /\ r \notin DOMAIN b => c[r].seq = 0 /\ ~c[r].over
    BY <1>4, <1>6 DEF Joined
<1>8. PICK d, e : d = Advanced(c, {f}) /\ e = Following(d)
    OBVIOUS
<1>9. /\ ~Dropped(f) /\ Known(r) /\ unbound' = unbound \ {r}
      /\ cursor' = e /\ shown' = ShownAfter(c, {f})
      /\ Gap(c, {f}) => Closes
      /\ ~Gap(c, {f}) => Reads /\ UNCHANGED <<hub, toServer, recovery, asking, announced>>
      /\ UNCHANGED <<server, retirement, budget>>
    BY <1>2, <1>3, <1>4, <1>5, <1>8 DEF EventDelivered
<1>10. UNCHANGED <<log, executing, retired, sent>>
    BY <1>9 DEF server, budget
<1>11. /\ Seqs({f}, r) = {n}
       /\ \A q \in Runs : q # r => Seqs({f}, q) = {}
    BY <1>3, OneNumber
<1>12. \A q \in Runs : IsInterval(Seqs({f}, q))
  <2>1. n <= n /\ {n} = n..n
    OBVIOUS
  <2>2. IsInterval(Seqs({f}, r))
    BY <1>11, <2>1 DEF IsInterval
  <2>3. \A q \in Runs : q # r => IsInterval(Seqs({f}, q))
    BY <1>11 DEF IsInterval
  <2> QED
    BY <2>2, <2>3
<1>13. /\ Heeded(r) /\ r \in sent /\ Open(r)
       /\ Follow(r) => r \notin unbound
       /\ ~Follow(r) => r \in unbound /\ shown[r] = <<>>
    BY <1>0, <1>3, <1>9 DEF Dropped, Known, Heeded, Follow, Followed, Open, RunInv, Wanted
<1>14. n \in Coming(r)
    BY <1>1, <1>2, <1>3 DEF Coming, Frames
<1>15. /\ n > 0 /\ c[r].seq < n /\ c[r].seq \in Nat
       /\ Present(r) => n <= log[r].seq
  <2>1. /\ n > 0 /\ (Follow(r) => cursor[r].seq < n)
        /\ Present(r) => n <= log[r].seq
    BY <1>0, <1>14 DEF RunInv, Levels, Waiting
  <2>2. c[r].seq \in Nat
    BY <1>7, CursorKinds
  <2> QED
    BY <1>4, <1>7, <2>1, <2>2 DEF Follow
<1>16. \A q \in Runs : Ahead(c, {f}, q)
  <2>1. ASSUME NEW q \in Runs PROVE Ahead(c, {f}, q)
    <3>1. shown[q] \in Seq(Nat) /\ Consecutive(shown[q])
        BY <1>0 DEF ShownData, Shows
    <3>2. q \in DOMAIN c => shown[q] = <<>> \/ shown[q][Len(shown[q])] = c[q].seq
        BY <1>0, <1>4, <1>7, <1>13 DEF Shows, Follow
    <3>3. q \notin DOMAIN c => Seqs({f}, q) = {}
        BY <1>7, <1>11
    <3> QED
        BY <1>12, <3>1, <3>2, <3>3 DEF Ahead
  <2> QED
    BY <2>1
<1>17. /\ d \in FeedCursors /\ DOMAIN d = DOMAIN c
       /\ shown' \in [Runs -> Seq(Nat)]
       /\ \A q \in Runs : Delivery(c, {f}, d, q)
    BY <1>7, <1>8, <1>9, <1>16, Delivers
<1>18. /\ e \in FeedCursors
       /\ \A q : q \in DOMAIN e <=> q \in DOMAIN d /\ ~d[q].over
       /\ \A q \in DOMAIN e : e[q] = d[q]
    BY <1>8, <1>17, FollowingIs
<1>19. ShownData'
    BY <1>9, <1>17, <1>18 DEF ShownData
<1>20. \A q \in Runs : Follow(q)' => q \in DOMAIN c /\ cursor'[q] = d[q]
    BY <1>9, <1>17, <1>18 DEF Follow
<1>21. CASE Gap(c, {f})
  <2>1. ASSUME NEW q \in Runs PROVE Shows(q)'
    <3>1. q \in DOMAIN c => c[q].seq \in Nat
        BY <1>7, CursorKinds
    <3>2. log[q].seq \in Nat
        BY <1>0, NumbersAre
    <3>3. q \in DOMAIN c => q \in sent /\ q \notin unbound'
        BY <1>0, <1>4, <1>7, <1>9, <1>13 DEF Shows, Follow
    <3>4. q \in DOMAIN c /\ Present(q) => c[q].seq <= log[q].seq /\ log[q].seq > 0
      <4>1. CASE q = r
        BY <1>0, <1>15, <3>2, <4>1
      <4>2. CASE q # r
        BY <1>0, <1>4, <1>7, <4>2 DEF Shows, Follow
      <4> QED
        BY <4>1, <4>2
    <3>5. Present(q) /\ Heeded(q) => \A k \in Seqs({f}, q) : k <= log[q].seq
        BY <1>11, <1>15
    <3>6. q \in unbound' \/ q \in Mine \ sent => Seqs({f}, q) = {}
        BY <1>9, <1>11, <1>13
    <3> QED
        BY <1>0, <1>9, <1>10, <1>17, <1>20, <3>1, <3>2, <3>3, <3>4, <3>5, <3>6, DeliveredShows
  <2>2. \A q \in Runs : RunInv(q)'
    BY <1>9, <1>21, <2>1, ClosesShown
  <2>3. Orders'
    BY <1>9, <1>21 DEF Closes, Orders
  <2> QED
    BY <1>19, <2>2, <2>3 DEF ShownStep
<1>22. CASE ~Gap(c, {f})
  <2>1. Reads /\ UNCHANGED <<hub, toServer, phase, todo, replayed, paging, provisional>>
    BY <1>9, <1>22 DEF recovery
  <2>2. c[r].seq = n - 1 /\ d[r].seq = n
    <3>1. Taken(c, {f}, r) = News(c, {f}, r)
        BY <1>7, <1>12, <1>22, GapIs
    <3>2. PICK k \in Nat : k = c[r].seq
        BY <1>15
    <3>3. News(c, {f}, r) = {m \in Seqs({f}, r) : m > k}
      <4>1. PICK E : E = {f}
        OBVIOUS
      <4>2. News(c, E, r) = {m \in Seqs(E, r) : m > c[r].seq}
        BY <1>7, <1>12, <1>13, <1>15, <4>1, TakenIs
      <4> QED
        BY <3>2, <4>1, <4>2
    <3>4. n \in News(c, {f}, r)
        BY <1>11, <1>15, <3>2, <3>3
    <3>5. PICK m \in Nat : m > k /\ m \in Seqs({f}, r) /\ d[r].seq = m /\ News(c, {f}, r) = (k + 1)..m
        BY <1>7, <1>17, <3>1, <3>2, <3>4 DEF Delivery
    <3>6. m = n
        BY <1>11, <3>5
    <3>7. k + 1 \in News(c, {f}, r)
        BY <3>5
    <3>8. k + 1 = n
        BY <1>11, <3>3, <3>7
    <3> QED
        BY <3>2, <3>5, <3>6, <3>8
  <2>3. RunInv(r)'
    <3>1. Follow(r)' <=> ~d[r].over
        BY <1>7, <1>9, <1>17, <1>18 DEF Follow
    <3>2. Follow(r)' => cursor'[r] = d[r]
        BY <1>20
    <3>3. Delivery(c, {f}, d, r) /\ r \in DOMAIN c
        BY <1>7, <1>17
    <3> QED
        BY <1>1, <1>2, <1>3, <1>9, <1>10, <1>13, <1>15, <2>1, <2>2, <3>1, <3>2, <3>3, DeliveredRun
  <2>4. ASSUME NEW q \in Runs, q # r PROVE RunInv(q)'
    <3>1. Delivery(c, {f}, d, q) /\ Seqs({f}, q) = {}
        BY <1>11, <1>17, <2>4
    <3>2. shown'[q] = shown[q]
        BY <3>1 DEF Delivery
    <3>3. \A p \in Runs : p # r /\ p \in DOMAIN b => d[p] = b[p] /\ ~d[p].over
      <4>1. ASSUME NEW p \in Runs, p # r, p \in DOMAIN b PROVE d[p] = b[p] /\ ~d[p].over
        <5>1. Delivery(c, {f}, d, p) /\ Seqs({f}, p) = {}
            BY <1>11, <1>17, <4>1
        <5>2. d[p] = c[p]
            BY <1>7, <4>1, <5>1 DEF Delivery
        <5>3. ~cursor[p].over
            BY <1>0, <1>1, <1>4, <4>1 DEF RunInv, Follows, Follow
        <5> QED
            BY <1>4, <1>7, <4>1, <5>2, <5>3
      <4> QED
        BY <4>1
    <3>4. DOMAIN b \subseteq Runs /\ DOMAIN e \subseteq Runs
        BY <1>18, CursorKinds
    <3>5. \A p : p # r => (p \in DOMAIN e <=> p \in DOMAIN b) /\ (p \in DOMAIN e => e[p] = b[p])
        BY <1>7, <1>17, <1>18, <3>3, <3>4
    <3>6. /\ DOMAIN cursor' \ {r} = DOMAIN cursor \ {r}
          /\ \A p \in DOMAIN cursor' \ {r} : cursor'[p] = cursor[p]
        BY <1>4, <1>9, <3>5
    <3>7. Kept(q)' = Kept(q) /\ unbound' \subseteq unbound
        BY <1>9, <2>1 DEF Kept
    <3> QED
        BY <1>1, <1>2, <1>3, <1>9, <1>10, <2>1, <2>4, <3>2, <3>6, <3>7, OtherEvents
  <2>5. Orders'
    BY <1>0, <2>1, ReadOrders
  <2> QED
    BY <1>19, <2>3, <2>4, <2>5 DEF ShownStep
<1> QED
    BY <1>21, <1>22

-----------------------------------------------------------------------------
(* A page of the replay.                                                   *)

\* What was read, and where the replay goes on.
Turned(r, f) ==
    /\ f = First /\ f \in FeedPages /\ f.run = r /\ Reads
    /\ UNCHANGED <<server, hub, toServer, phase, todo, replayed, provisional, unbound, retirement, sent>>
    /\ paging' = IF ~f.more THEN NoPage
                 ELSE [run |-> r, from |-> CHOOSE n \in {e.seq : e \in f.events} :
                                                \A e \in f.events : e.seq <= n]

LEMMA TurnedIs ==
    ASSUME FeedInv, NEW r \in Runs, NEW f, Turned(r, f)
    PROVE  /\ phase = "replaying" /\ paging = NoPage /\ r \in replayed
           /\ f \in Frames(r, "page")
           /\ \A q \in Runs : Frames(q, "page")' = {} /\ Frames(q, "accepted")' = Frames(q, "accepted")
                              /\ Coming(q)' = Coming(q) /\ Waiting(q)' = Waiting(q) /\ Kept(q)' = Kept(q)
                              /\ \A k : Frames(q, k)' \subseteq Frames(q, k)
           /\ \A q \in Runs : q # r => Frames(q, "page") = {} /\ ~Pends(q) /\ ~Pends(q)'
<1>0. FeedData /\ Waits /\ RunInv(r) /\ Reads /\ f = First /\ f \in FeedPages /\ f.run = r
    BY DEF FeedInv, DeletionInv, Turned
<1>1. f.kind = "page"
    BY <1>0, PageKindsAre
<1>2. /\ f = toClient[1] /\ 1 \in DOMAIN toClient
      /\ \A i \in DOMAIN toClient' :
            i \in Nat /\ i >= 1 /\ i + 1 \in DOMAIN toClient /\ toClient'[i] = toClient[i + 1]
    BY <1>0, ReadFrames
<1>3. phase = "replaying" /\ paging = NoPage
    BY <1>0, <1>1, <1>2 DEF Waits
<1>4. f \in Frames(r, "page") /\ r \in replayed
    BY <1>0, <1>1, <1>2 DEF Frames, RunInv, Paging
<1>5. \A i \in DOMAIN toClient : toClient[i].kind = "page" => i = 1
    BY <1>0, <1>1, <1>2, <1>3 DEF Waits, Answers
<1>6. \A i \in DOMAIN toClient' : toClient'[i].kind # "page"
  <2>1. ASSUME NEW i \in DOMAIN toClient', toClient'[i].kind = "page" PROVE FALSE
    <3>1. i + 1 = 1 /\ i \in Nat /\ i >= 1
        BY <1>2, <1>5, <2>1
    <3> QED
        BY <3>1
  <2> QED
    BY <2>1
<1>7. ASSUME NEW q \in Runs
      PROVE  /\ Frames(q, "page")' = {} /\ Frames(q, "accepted")' = Frames(q, "accepted")
             /\ Coming(q)' = Coming(q) /\ Waiting(q)' = Waiting(q) /\ Kept(q)' = Kept(q)
             /\ \A k : Frames(q, k)' \subseteq Frames(q, k)
  <2>1. Frames(q, "page")' = {}
    BY <1>6 DEF Frames
  <2>2. /\ Frames(q, "accepted")' = Frames(q, "accepted") /\ Coming(q)' = Coming(q)
        /\ \A k : Frames(q, k)' \subseteq Frames(q, k)
    BY <1>0, <1>1, ReadSets
  <2>3. Kept(q)' = Kept(q)
    BY DEF Kept, Turned
  <2> QED
    BY <2>1, <2>2, <2>3 DEF Waiting
<1>8. ASSUME NEW q \in Runs, q # r PROVE Frames(q, "page") = {} /\ ~Pends(q) /\ ~Pends(q)'
  <2>1. Frames(q, "page") = {}
    BY <1>0, <1>2, <1>5, <1>8 DEF Frames
  <2>2. paging' = NoPage \/ paging'.run = r
    BY DEF Turned
  <2> QED
    BY <1>3, <1>8, <2>1, <2>2 DEF Pends
<1> QED
    BY <1>3, <1>4, <1>7, <1>8

\* The other Runs.
LEMMA TurnedOther ==
    ASSUME FeedInv, NEW r \in Runs, NEW f, Turned(r, f), NEW q \in Runs, q # r,
           shown'[q] = shown[q], Follow(q)' <=> Follow(q), Follow(q) => cursor'[q] = cursor[q]
    PROVE  RunInv(q)'
<1>1. /\ Frames(q, "page")' = {} /\ Frames(q, "page") = {} /\ ~Pends(q) /\ ~Pends(q)'
      /\ Coming(q)' = Coming(q) /\ Kept(q)' = Kept(q)
      /\ \A k : Frames(q, k)' \subseteq Frames(q, k)
    BY TurnedIs
<1>2. Forgets(q)
    BY DEF Forgets, Turned, Heeded
<1>3. Rests(q)
    BY <1>1, <1>2 DEF Rests, Drops, Turned
<1> QED
    BY <1>3, RestsStill DEF FeedInv, DeletionInv, Turned

LEMMA TurnedRun ==
    ASSUME FeedInv, NEW r \in Runs, NEW f, Turned(r, f), NEW c, c = cursor,
           NEW d, Delivery(c, f.events, d, r),
           Follow(r)' <=> Follow(r), Follow(r) => cursor'[r] = d[r]
    PROVE  RunInv(r)'
<1>0. FeedData /\ ShownData /\ Orders /\ RunInv(r)
    BY DEF FeedInv, DeletionInv
<1>1. /\ phase = "replaying" /\ paging = NoPage /\ r \in replayed
      /\ f \in Frames(r, "page")
      /\ Frames(r, "page")' = {} /\ Frames(r, "accepted")' = Frames(r, "accepted")
      /\ Coming(r)' = Coming(r) /\ Waiting(r)' = Waiting(r) /\ Kept(r)' = Kept(r)
    BY TurnedIs
<1>2. UNCHANGED <<log, executing, retired, route, subs, toServer, phase, todo, replayed, unbound,
                  retirement, sent>>
    BY DEF Turned, server, hub
<1>3. /\ Heeded(r)' <=> Heeded(r)
      /\ Present(r)' <=> Present(r)
      /\ Tuned(r)' <=> Tuned(r)
      /\ Told(r)' = Told(r)
    BY <1>2 DEF Heeded, Present, Tuned, Heard, Told
<1>4. Coming(r) \subseteq Nat /\ Kept(r) \subseteq Nat /\ log[r].seq \in Nat /\ Told(r) \in Nat
      /\ (Follow(r) => cursor[r].seq \in Nat)
    BY <1>0, FramesAre, NumbersAre
<1>5. Follow(r) =>
          /\ ~d[r].over => ~cursor[r].over
          /\ shown'[r] = <<>> \/ shown'[r][Len(shown'[r])] = d[r].seq
    BY DEF Delivery, Follow
<1>6. Wanted(r)'
  <2>1. r \in unbound => ~Follow(r) /\ Kept(r) = {} /\ shown[r] = <<>>
    BY <1>0 DEF RunInv, Wanted
  <2>2. ~Follow(r) => ~Heeded(r)
    BY <1>0, <1>1 DEF RunInv, Paging
  <2>3. ~Heeded(r) => shown'[r] = shown[r]
    BY DEF Delivery
  <2>4. Follow(r) => r \in sent
    BY <1>0 DEF RunInv, Wanted
  <2> QED
    BY <1>0, <1>1, <1>2, <2>1, <2>2, <2>3, <2>4 DEF RunInv, Wanted
<1>7. Showing(r)'
  <2>1. Kept(r) # {} /\ Heeded(r) => Follow(r)
    BY <1>0, <1>1 DEF RunInv, Paging
  <2> QED
    BY <1>0, <1>1, <1>3, <1>5, <2>1 DEF RunInv, Showing, Delivery
<1>8. Stream(r)' /\ Answered(r)'
  <2>1. Open(r)' => Open(r)
    BY <1>2, <1>5 DEF Open
  <2>2. Stream(r)'
    BY <1>0, <1>1, <1>2, <1>3, <2>1 DEF RunInv, Stream
  <2>3. phase' # "resending"
    BY <1>1, <1>2
  <2> QED
    BY <1>0, <1>1, <1>3, <2>2, <2>3 DEF RunInv, Answered
<1>9. CASE ~Heeded(r)
  <2>1. Follow(r) => d[r] = c[r]
    BY <1>9 DEF Delivery, Follow
  <2>2. Levels(r)'
    BY <1>0, <1>1, <1>2, <1>3, <2>1 DEF RunInv, Levels
  <2>3. Paging(r)' /\ Follows(r)'
    BY <1>1, <1>2, <1>3, <1>9 DEF Paging, Follows, Alive
  <2> QED
    BY <1>6, <1>7, <1>8, <2>2, <2>3 DEF RunInv
<1>10. CASE Heeded(r)
  <2>1. Follow(r) /\ Fits(r, f.events, f.more)
    BY <1>0, <1>1, <1>10 DEF RunInv, Paging
  <2>2. PICK k \in Nat : k = cursor[r].seq
    BY <1>4, <2>1
  <2>3. PICK u \in Nat :
            /\ u >= k /\ Seqs(f.events, r) = (k + 1)..u
            /\ f.more => u > k
            /\ ~f.more /\ Alive(r) => (u + 1)..Told(r) \subseteq Waiting(r)
    BY <2>1, <2>2 DEF Fits
  <2>4. d[r].seq = u
    <3>1. CASE u = k
      <4>1. Seqs(f.events, r) = {}
        BY <2>3, <3>1
      <4>2. d[r] = c[r]
        BY <2>1, <4>1 DEF Delivery, Follow
      <4> QED
        BY <2>2, <3>1, <4>2
    <3>2. CASE u # k
      <4>1. u > k /\ k + 1 \in Seqs(f.events, r)
        BY <2>3, <3>2
      <4>2. PICK E : E = f.events
        OBVIOUS
      <4>3. /\ News(c, E, r) = {n \in Seqs(E, r) : n > k}
            /\ Taken(c, E, r) = News(c, E, r)
        <5>1. k + 1 <= u
            BY <4>1
        <5>2. IsInterval(Seqs(E, r))
            BY <2>3, <4>2, <5>1 DEF IsInterval
        <5>3. r \in DOMAIN c /\ c[r].seq \in Nat
            BY <2>1, <2>2 DEF Follow
        <5>4. /\ News(c, E, r) = {n \in Seqs(E, r) : n > c[r].seq}
              /\ c[r].seq + 1 \in Seqs(E, r) => Taken(c, E, r) = News(c, E, r)
            BY <1>10, <5>2, <5>3, TakenIs
        <5> QED
            BY <2>2, <4>1, <4>2, <5>4
      <4>4. k + 1 \in Taken(c, E, r)
        BY <4>1, <4>2, <4>3
      <4>5. PICK b \in Nat : b > k /\ b \in Seqs(E, r) /\ d[r].seq = b /\ News(c, E, r) = (k + 1)..b
        BY <2>1, <2>2, <4>2, <4>4 DEF Delivery, Follow
      <4>6. u \in News(c, E, r) /\ b \in (k + 1)..u
        BY <2>3, <4>1, <4>2, <4>3, <4>5
      <4>7. u \in (k + 1)..b
        BY <4>5, <4>6
      <4>8. b = u
        BY <4>6, <4>7
      <4> QED
        BY <4>5, <4>8
    <3> QED
        BY <3>1, <3>2
  <2>5. cursor'[r].seq = u /\ Follow(r)' /\ (~cursor'[r].over => ~cursor[r].over)
    BY <1>5, <2>1, <2>4
  <2>6. Levels(r)'
    <3>1. \A n \in Coming(r) : u < n
      <4>1. CASE u = k
        BY <1>0, <2>1, <2>2, <4>1 DEF RunInv, Levels
      <4>2. CASE u # k
        <5>1. u \in Seqs(f.events, r)
            BY <2>3, <4>2
        <5>2. f.run = r /\ f = First /\ Reads /\ f.kind = "page"
            BY <1>0, PageKindsAre DEF Turned
        <5>3. \A n \in Coming(r) : \A e \in f.events : e.seq < n
            BY <1>0, <5>2, ReadFirst
        <5> QED
            BY <5>1, <5>3 DEF Seqs
      <4> QED
        BY <4>1, <4>2
    <3>2. Present(r) => u <= log[r].seq
      <4>1. CASE u = k
        BY <1>0, <2>1, <2>2, <4>1 DEF RunInv, Levels
      <4>2. CASE u # k
        <5>1. u \in Seqs(f.events, r)
            BY <2>3, <4>2
        <5> QED
            BY <1>0, <1>1, <5>1 DEF RunInv, Levels, Seqs
      <4> QED
        BY <4>1, <4>2
    <3> QED
        BY <1>0, <1>1, <1>2, <1>3, <2>1, <2>5, <3>1, <3>2 DEF RunInv, Levels
  <2>7. Pends(r)' => f.more /\ paging'.from = u
    <3>1. CASE ~f.more
        BY <3>1 DEF Turned, Pends
    <3>2. CASE f.more
      <4>0. f \in FeedPages /\ f.run = r
        BY DEF Turned
      <4>1. PICK n \in Nat : /\ n = CHOOSE j \in {e.seq : e \in f.events} : \A e \in f.events : e.seq <= j
                             /\ \E from \in Nat : Seqs(f.events, f.run) = (from + 1)..n /\ n > from
        BY <3>2, <4>0, LastOfPage
      <4>2. PICK from \in Nat : (k + 1)..u = (from + 1)..n /\ n > from
        BY <2>3, <4>0, <4>1
      <4>3. n \in (k + 1)..u /\ u \in (from + 1)..n
        BY <2>3, <3>2, <4>2
      <4>4. n = u
        BY <4>3
      <4> QED
        BY <3>2, <4>1, <4>4 DEF Turned, Pends
    <3> QED
        BY <3>1, <3>2
  <2>8. f.more => Pends(r)'
    <3>1. ASSUME f.more PROVE Pends(r)'
      <4>0. f \in FeedPages /\ f.run = r
        BY DEF Turned
      <4>1. PICK n \in Nat : /\ n = CHOOSE j \in {e.seq : e \in f.events} : \A e \in f.events : e.seq <= j
                             /\ \E from \in Nat : Seqs(f.events, f.run) = (from + 1)..n /\ n > from
        BY <3>1, <4>0, LastOfPage
      <4>2. paging' = [run |-> r, from |-> n] /\ n > 0
        BY <3>1, <4>1 DEF Turned
      <4>3. paging'.run = r /\ paging'.from # 0
        BY <4>2
      <4> QED
        BY <4>3 DEF Pends, NoPage
    <3> QED
        BY <3>1
  <2>9. Paging(r)'
    BY <1>1, <1>2, <2>5, <2>7 DEF Paging
  <2>10. Follows(r)'
    <3>1. ASSUME Alive(r)' PROVE Recovering(r)'
      <4>1. Alive(r) /\ Recovering(r)
        BY <1>0, <1>3, <2>1, <2>5, <3>1 DEF RunInv, Follows, Alive
      <4>2. Tuned(r) /\ SessionOf[r] \in subs
        BY <1>1, <4>1 DEF Recovering
      <4>3. ~f.more => Reaches(r)'
        BY <1>1, <1>3, <2>3, <2>5, <4>1 DEF Reaches
      <4> QED
        BY <1>1, <1>2, <1>3, <2>8, <4>2, <4>3 DEF Recovering
    <3> QED
        BY <1>1, <1>2, <3>1 DEF Follows
  <2> QED
    BY <1>6, <1>7, <1>8, <2>6, <2>9, <2>10 DEF RunInv
<1> QED
    BY <1>9, <1>10

LEMMA PageShown ==
    ASSUME FeedInv, PageArrives
    PROVE  ShownStep
<1>0. FeedData /\ ShownData /\ Orders /\ \A q \in Runs : RunInv(q) /\ Shows(q)
    BY ShowsIs DEF FeedInv, DeletionInv
<1>1. First.kind = "page" /\ toClient # <<>>
    BY DEF PageArrives, Holds
<1>2. PICK f \in FeedPages : f = First /\ \E i \in DOMAIN toClient : toClient[i] = f
  <2>1. PICK q \in Seq(FeedFrames) : q = toClient
    BY <1>0 DEF FeedData
  <2>2. Head(q) \in FeedFrames /\ Head(q) = q[1] /\ 1 \in DOMAIN q
    BY <1>1, <2>1, HeadOff
  <2>3. First \in FeedPages
    BY <1>1, <2>1, <2>2, FeedKinds DEF First
  <2> QED
    BY <2>1, <2>2, <2>3 DEF First
<1>3. PICK r, E : r = f.run /\ E = f.events /\ r \in Runs
    BY PageKindsAre
<1>4. /\ \A e \in E : e.run = r
      /\ \E from, upto \in Nat : Seqs(E, r) = (from + 1)..upto
    BY <1>3, PageKindsAre
<1>5. PICK c \in FeedCursors : c = cursor
    BY <1>0 DEF ShownData
<1>6. PICK d : d = Advanced(c, E)
    OBVIOUS
<1>7. /\ cursor' = d /\ shown' = ShownAfter(c, E)
      /\ ~Gap(c, E) => Turned(r, f)
      /\ UNCHANGED <<server, unbound, retirement, budget>>
    BY <1>2, <1>3, <1>5, <1>6 DEF PageArrives, Turned, budget
<1>8. \A q \in Runs : q # r => Seqs(E, q) = {}
    BY <1>4 DEF Seqs
<1>9. \A q \in Runs : IsInterval(Seqs(E, q))
  <2>1. PICK from \in Nat, upto \in Nat : Seqs(E, r) = (from + 1)..upto
    BY <1>4
  <2>2. IsInterval(Seqs(E, r))
    <3>1. CASE from + 1 <= upto
        BY <2>1, <3>1 DEF IsInterval
    <3>2. CASE ~(from + 1 <= upto)
      <4>1. Seqs(E, r) = {}
        BY <2>1, <3>2
      <4> QED
        BY <4>1 DEF IsInterval
    <3> QED
        BY <3>1, <3>2
  <2>3. \A q \in Runs : q # r => IsInterval(Seqs(E, q))
    BY <1>8 DEF IsInterval
  <2> QED
    BY <2>2, <2>3
<1>10. f \in Frames(r, "page")
    BY <1>1, <1>2, <1>3 DEF Frames
<1>11. Heeded(r) => Follow(r) /\ Fits(r, E, f.more)
    BY <1>0, <1>3, <1>10 DEF RunInv, Paging
<1>12. \A q \in Runs : Ahead(c, E, q)
  <2>1. ASSUME NEW q \in Runs PROVE Ahead(c, E, q)
    <3>1. shown[q] \in Seq(Nat) /\ Consecutive(shown[q])
        BY <1>0 DEF ShownData, Shows
    <3>2. q \in DOMAIN c => shown[q] = <<>> \/ shown[q][Len(shown[q])] = c[q].seq
        BY <1>0, <1>5 DEF Shows, Follow
    <3>3. Heeded(q) /\ q \notin DOMAIN c => Seqs(E, q) = {}
        BY <1>5, <1>8, <1>11 DEF Follow
    <3> QED
        BY <1>9, <3>1, <3>2, <3>3 DEF Ahead
  <2> QED
    BY <2>1
<1>13. /\ d \in FeedCursors /\ DOMAIN d = DOMAIN c
       /\ shown' \in [Runs -> Seq(Nat)]
       /\ \A q \in Runs : Delivery(c, E, d, q)
    BY <1>6, <1>7, <1>12, Delivers
<1>14. ~Gap(c, E)
  <2>1. ASSUME NEW q \in Runs, Heeded(q), q \in DOMAIN c, c[q].seq + 1 \notin Seqs(E, q),
               NEW n \in Seqs(E, q), n > c[q].seq
        PROVE  FALSE
    <3>1. q = r
        BY <1>8, <2>1
    <3>2. PICK k \in Nat : k = c[r].seq
        BY <2>1, <3>1, CursorKinds
    <3>3. PICK u \in Nat : Seqs(E, r) = (k + 1)..u
        BY <1>5, <1>11, <2>1, <3>1, <3>2 DEF Fits
    <3>4. k + 1 \in (k + 1)..u
        BY <2>1, <3>1, <3>2, <3>3
    <3> QED
        BY <2>1, <3>1, <3>2, <3>3, <3>4
  <2> QED
    BY <1>9, <2>1, GapIs
<1>15. Turned(r, f)
    BY <1>7, <1>14
<1>16. \A q \in Runs : /\ Follow(q)' <=> Follow(q)
                       /\ Follow(q) => cursor'[q] = d[q]
    BY <1>5, <1>7, <1>13 DEF Follow
<1>17. RunInv(r)'
    BY <1>3, <1>5, <1>13, <1>15, <1>16, TurnedRun
<1>18. ASSUME NEW q \in Runs, q # r PROVE RunInv(q)'
  <2>1. Delivery(c, E, d, q) /\ Seqs(E, q) = {}
    BY <1>8, <1>13, <1>18
  <2>2. shown'[q] = shown[q] /\ (Follow(q) => cursor'[q] = cursor[q])
    BY <1>5, <1>16, <2>1 DEF Delivery, Follow
  <2> QED
    BY <1>3, <1>15, <1>16, <1>18, <2>2, TurnedOther
<1>19. ShownData' /\ Orders'
  <2>1. Reads
    BY <1>15 DEF Turned
  <2> QED
    BY <1>0, <1>7, <1>13, <2>1, ReadOrders DEF ShownData
<1> QED
    BY <1>17, <1>18, <1>19 DEF ShownStep

-----------------------------------------------------------------------------
(* The events that were kept are delivered.                                *)

\* All of them were taken.
Flushed ==
    /\ UNCHANGED <<log, executing, retired, route, subs, toServer, toClient, unbound, retirement, sent>>
    /\ provisional' = {} /\ replayed' = {} /\ paging' = NoPage /\ paging = NoPage
    /\ phase \in {"replaying", "resending", "draining"}
    /\ phase = "replaying" => DOMAIN cursor \subseteq replayed
    /\ phase' \in {"resending", "draining", "active"} /\ Idle

LEMMA FlushedRun ==
    ASSUME FeedInv, NEW r \in Runs, Flushed, NEW c, c = cursor, NEW E, E = provisional,
           NEW d, Delivery(c, E, d, r), Taken(c, E, r) = News(c, E, r),
           Follow(r)' <=> Follow(r) /\ ~d[r].over, Follow(r)' => cursor'[r] = d[r]
    PROVE  RunInv(r)'
<1>0. FeedData /\ ShownData /\ RunInv(r)
    BY DEF FeedInv, DeletionInv
<1>1. /\ UNCHANGED <<log, executing, retired, route, subs, toServer, toClient, unbound, retirement, sent>>
      /\ provisional' = {} /\ replayed' = {} /\ paging' = NoPage /\ paging = NoPage
      /\ phase' \in {"resending", "draining", "active"}
    BY DEF Flushed
<1>2. /\ Heeded(r)' <=> Heeded(r)
      /\ Present(r)' <=> Present(r)
      /\ Tuned(r)' <=> Tuned(r)
      /\ Told(r)' = Told(r)
    BY <1>1 DEF Heeded, Present, Tuned, Heard, Told
<1>3. /\ \A k : Frames(r, k)' = Frames(r, k)
      /\ Frames(r, "page") = {} /\ Frames(r, "accepted") = {}
    BY <1>1 DEF Frames, Flushed, Idle, Answers
<1>4. /\ Coming(r)' = Coming(r) /\ Kept(r)' = {} /\ Waiting(r)' = Coming(r)
      /\ Kept(r) = Seqs(E, r) /\ Waiting(r) = Coming(r) \union Kept(r)
    BY <1>1, <1>3 DEF Coming, Kept, Waiting, Seqs
<1>5. Coming(r) \subseteq Nat /\ Kept(r) \subseteq Nat /\ log[r].seq \in Nat /\ Told(r) \in Nat
      /\ (Follow(r) => cursor[r].seq \in Nat)
    BY <1>0, FramesAre, NumbersAre
<1>6. Wanted(r)'
    BY <1>0, <1>1, <1>4 DEF RunInv, Wanted, Delivery
<1>7. Showing(r)'
    BY <1>4 DEF Delivery, Showing, IsInterval, Follow
<1>8. Follow(r)' => Follow(r) /\ ~cursor'[r].over /\ ~cursor[r].over
    BY DEF Delivery, Follow
<1>9. Open(r)' => Open(r)
    BY <1>1, <1>8 DEF Open
<1>10. \A k \in Kept(r), n \in Coming(r) : k < n
    BY <1>0 DEF RunInv, Levels
<1>11. Stream(r)'
  <2>1. Open(r)' /\ Heeded(r)' => Gapless(Coming(r))
    <3>1. ASSUME Gapless(Coming(r) \union Kept(r)) PROVE Gapless(Coming(r))
      <4>1. ASSUME NEW a \in Coming(r), NEW b \in Coming(r), NEW x \in a..b PROVE x \in Coming(r)
        <5>1. x \in Coming(r) \union Kept(r) /\ a <= x /\ a \in Nat /\ x \in Nat
            BY <1>5, <3>1, <4>1 DEF Gapless
        <5>2. x \notin Kept(r)
            BY <1>5, <1>10, <5>1, <4>1
        <5> QED
            BY <5>1, <5>2
      <4> QED
        BY <4>1 DEF Gapless
    <3> QED
        BY <1>0, <1>2, <1>4, <1>9, <3>1 DEF RunInv, Stream
  <2>2. ASSUME Open(r)', Heeded(r)', Present(r)', NEW n \in Coming(r), NEW x \in n..Told(r)
        PROVE  x \in Coming(r)
    <3>1. x \in Waiting(r)
        BY <1>0, <1>2, <1>4, <1>9, <2>2 DEF RunInv, Stream
    <3>2. n <= x /\ n \in Nat /\ x \in Nat
        BY <1>5, <2>2
    <3>3. x \notin Kept(r)
        BY <1>5, <1>10, <2>2, <3>2
    <3> QED
        BY <1>4, <3>1, <3>3
  <2>3. Coming(r) # {} /\ Present(r) => Tuned(r)
    BY <1>0, <1>4 DEF RunInv, Stream
  <2>4. phase' \notin Early
    BY <1>1 DEF Early
  <2> QED
    BY <1>2, <1>4, <2>1, <2>2, <2>3, <2>4 DEF Stream
<1>12. Answered(r)' /\ Paging(r)'
    BY <1>1, <1>3 DEF Answered, Paging, Pends
<1>13. Follow(r) => \E m \in Nat : /\ m >= cursor[r].seq /\ d[r].seq = m
                                   /\ m = cursor[r].seq \/ m \in Kept(r)
                                   /\ Heeded(r) =>
                                         {n \in Kept(r) : n > cursor[r].seq} = (cursor[r].seq + 1)..m
  <2>1. ASSUME Follow(r)
        PROVE  \E m \in Nat : /\ m >= cursor[r].seq /\ d[r].seq = m
                              /\ m = cursor[r].seq \/ m \in Kept(r)
                              /\ Heeded(r) => {n \in Kept(r) : n > cursor[r].seq} = (cursor[r].seq + 1)..m
    <3>1. PICK k \in Nat : k = cursor[r].seq
        BY <1>5, <2>1
    <3>2. IsInterval(Kept(r)) \/ ~Heeded(r)
        BY <1>0 DEF RunInv, Showing
    <3>3. Heeded(r) => News(c, E, r) = {n \in Kept(r) : n > k}
        BY <1>4, <2>1, <3>1, <3>2, TakenIs DEF Follow
    <3>4. CASE d[r] = c[r] /\ Taken(c, E, r) = {}
      <4>1. (k + 1)..k = {}
        BY <3>1
      <4>2. Heeded(r) => {n \in Kept(r) : n > k} = (k + 1)..k
        BY <3>3, <3>4, <4>1
      <4> QED
        BY <3>1, <3>4, <4>2
    <3>5. CASE \E b \in Nat : /\ b > k /\ b \in Kept(r) /\ d[r].seq = b /\ Heeded(r)
                              /\ News(c, E, r) = (k + 1)..b
      <4>1. PICK b \in Nat : b > k /\ b \in Kept(r) /\ d[r].seq = b /\ Heeded(r) /\ News(c, E, r) = (k + 1)..b
        BY <3>5
      <4>2. {n \in Kept(r) : n > k} = (k + 1)..b
        BY <3>3, <4>1
      <4> QED
        BY <3>1, <4>1, <4>2
    <3> QED
        BY <1>4, <2>1, <3>1, <3>4, <3>5 DEF Delivery, Follow
  <2> QED
    BY <2>1
<1>14. Levels(r)'
  <2>1. ASSUME Follow(r)'
        PROVE  /\ \A n \in Coming(r) : cursor'[r].seq < n
               /\ Present(r) => cursor'[r].seq <= log[r].seq /\ log[r].seq > 0
    <3>1. PICK m \in Nat : d[r].seq = m /\ (m = cursor[r].seq \/ m \in Kept(r))
        BY <1>8, <1>13, <2>1
    <3>2. \A n \in Coming(r) : m < n
        BY <1>0, <1>8, <1>10, <2>1, <3>1 DEF RunInv, Levels
    <3>3. Present(r) => m <= log[r].seq /\ log[r].seq > 0
        BY <1>0, <1>4, <1>8, <2>1, <3>1 DEF RunInv, Levels
    <3> QED
        BY <2>1, <3>1, <3>2, <3>3
  <2>2. \A n \in Coming(r) : n > 0 /\ (Present(r) => n <= log[r].seq)
    BY <1>0, <1>4 DEF RunInv, Levels
  <2> QED
    BY <1>1, <1>2, <1>3, <1>4, <2>1, <2>2 DEF Levels
<1>15. Follows(r)'
  <2>1. ASSUME Alive(r)' PROVE Tuned(r) /\ Reaches(r)'
    <3>1. Alive(r) /\ Follow(r)' /\ Follow(r) /\ Heeded(r)
        BY <1>2, <1>8, <2>1 DEF Alive
    <3>2. PICK k \in Nat : k = cursor[r].seq
        BY <1>5, <3>1
    <3>3. PICK m \in Nat : m >= k /\ cursor'[r].seq = m /\ {n \in Kept(r) : n > k} = (k + 1)..m
        BY <1>13, <3>1, <3>2
    <3>4. ~Doomed(r)
      <4>1. ASSUME NEW n \in Kept(r), n > k + 1, k + 1 \notin Kept(r) PROVE FALSE
        <5>1. n > k /\ n \in Nat
            BY <1>5, <3>2, <4>1
        <5>2. n \in (k + 1)..m
            BY <3>3, <5>1
        <5>3. k + 1 \in (k + 1)..m
            BY <3>2, <5>2
        <5> QED
            BY <3>3, <4>1, <5>3
      <4> QED
        BY <3>2, <4>1 DEF Doomed
    <3>5. Tuned(r) /\ Reaches(r)
      <4>1. Recovering(r) /\ phase \in {"replaying", "resending", "draining"}
        BY <1>0, <3>1 DEF RunInv, Follows, Flushed
      <4>2. phase = "replaying" => r \in replayed /\ ~Pends(r) /\ Frames(r, "page") = {}
        BY <1>1, <1>3, <3>1 DEF Flushed, Follow, Pends
      <4> QED
        BY <3>4, <4>1, <4>2 DEF Recovering
    <3>6. ASSUME NEW x \in (m + 1)..Told(r) PROVE x \in Coming(r)
      <4>1. x \in (k + 1)..Told(r) /\ x > k /\ x > m /\ x \in Nat
        BY <1>5, <3>2, <3>3, <3>6
      <4>2. x \in Waiting(r)
        BY <3>2, <3>5, <4>1 DEF Reaches
      <4>3. x \notin (k + 1)..m
        BY <3>2, <3>3, <4>1
      <4>4. x \notin Kept(r)
        BY <3>3, <4>1, <4>3
      <4> QED
        BY <1>4, <4>2, <4>4
    <3> QED
        BY <1>2, <1>4, <3>3, <3>5, <3>6 DEF Reaches
  <2> QED
    BY <1>1, <1>2, <1>8, <2>1 DEF Follows, Recovering
<1> QED
    BY <1>6, <1>7, <1>11, <1>12, <1>14, <1>15 DEF RunInv

LEMMA FlushShown ==
    ASSUME FeedInv, Replays \/ Drains
    PROVE  ShownStep
<1>0. FeedData /\ ShownData /\ Orders /\ Quiet /\ \A q \in Runs : RunInv(q) /\ Shows(q)
    BY ShowsIs DEF FeedInv, DeletionInv
<1>1. PICK c \in FeedCursors : c = cursor
    BY <1>0 DEF ShownData
<1>2. PICK E, d : E = provisional /\ d = Advanced(c, E)
    OBVIOUS
<1>3. /\ shown' = ShownAfter(c, E)
      /\ cursor' = IF Gap(c, E) THEN d ELSE Following(d)
      /\ UNCHANGED <<server, unbound, retirement, budget>>
      /\ Gap(c, E) => Closes
    BY <1>1, <1>2 DEF Replays, Drains, Flushes
<1>4. UNCHANGED <<log, executing, retired, unbound, retirement, sent>>
    BY <1>3 DEF server, budget
<1>5. ~Gap(c, E) => Flushed
  <2>1. ASSUME ~Gap(c, E), Replays PROVE Flushed
    <3>1. phase' = "resending" /\ replayed' = {} /\ provisional' = {} /\ phase = "replaying" /\ Idle
          /\ UNCHANGED <<hub, channel, paging>> /\ DOMAIN cursor \subseteq replayed
          /\ paging = NoPage
        BY <1>1, <1>2, <2>1 DEF Replays, Followed
    <3> QED
        BY <1>4, <3>1 DEF Flushed, hub, channel
  <2>2. ASSUME ~Gap(c, E), Drains PROVE Flushed
    <3>1. phase' \in {"active", "draining"} /\ provisional' = {} /\ phase \in {"resending", "draining"}
          /\ UNCHANGED <<hub, channel, replayed, paging>> /\ Idle
        BY <1>1, <1>2, <2>2 DEF Drains
    <3>2. replayed = {} /\ paging = NoPage
        BY <1>0, <3>1 DEF Quiet
    <3> QED
        BY <1>4, <3>1, <3>2 DEF Flushed, hub, channel
  <2> QED
    BY <2>1, <2>2
<1>6. \A q \in Runs : Seqs(E, q) = Kept(q)
    BY <1>2 DEF Kept
<1>7. \A q \in Runs : Ahead(c, E, q)
    BY <1>0, <1>1, <1>6 DEF Ahead, ShownData, Shows, Follow, RunInv, Showing
<1>8. /\ d \in FeedCursors /\ DOMAIN d = DOMAIN c
      /\ shown' \in [Runs -> Seq(Nat)]
      /\ \A q \in Runs : Delivery(c, E, d, q)
    BY <1>2, <1>3, <1>7, Delivers
<1>9. PICK e : e = Following(d)
    OBVIOUS
<1>10. /\ e \in FeedCursors
       /\ \A q : q \in DOMAIN e <=> q \in DOMAIN d /\ ~d[q].over
       /\ \A q \in DOMAIN e : e[q] = d[q]
    BY <1>8, <1>9, FollowingIs
<1>11. ShownData'
    BY <1>3, <1>8, <1>9, <1>10 DEF ShownData
<1>12. CASE Gap(c, E)
  <2>1. ASSUME NEW q \in Runs PROVE Shows(q)'
    <3>1. q \in DOMAIN c => c[q].seq \in Nat
        BY CursorKinds
    <3>2. log[q].seq \in Nat
        BY <1>0, NumbersAre
    <3>3. q \in DOMAIN c => q \in sent /\ q \notin unbound'
        BY <1>0, <1>1, <1>4 DEF Shows, Follow
    <3>4. q \in DOMAIN c /\ Present(q) => c[q].seq <= log[q].seq /\ log[q].seq > 0
        BY <1>0, <1>1 DEF Shows, Follow
    <3>5. Present(q) /\ Heeded(q) => \A k \in Seqs(E, q) : k <= log[q].seq
        BY <1>0, <1>6 DEF RunInv, Levels, Waiting
    <3>6. q \in unbound' \/ q \in Mine \ sent => Seqs(E, q) = {}
        BY <1>0, <1>4, <1>6 DEF RunInv, Wanted, Waiting
    <3>7. Follow(q)' => q \in DOMAIN c /\ cursor'[q] = d[q]
        BY <1>3, <1>8, <1>12 DEF Follow
    <3> QED
        BY <1>0, <1>4, <1>8, <3>1, <3>2, <3>3, <3>4, <3>5, <3>6, <3>7, DeliveredShows
  <2>2. \A q \in Runs : RunInv(q)'
    BY <1>3, <1>12, <2>1, ClosesShown
  <2>3. Orders'
    BY <1>3, <1>12 DEF Closes, Orders
  <2> QED
    BY <1>11, <2>2, <2>3 DEF ShownStep
<1>13. CASE ~Gap(c, E)
  <2>1. Flushed /\ cursor' = e
    BY <1>3, <1>5, <1>9, <1>13
  <2>2. ASSUME NEW q \in Runs PROVE RunInv(q)'
    <3>1. Taken(c, E, q) = News(c, E, q)
        BY <1>7, <1>13, GapIs DEF Ahead
    <3>2. Follow(q)' <=> Follow(q) /\ ~d[q].over
        BY <1>1, <1>8, <1>10, <2>1 DEF Follow
    <3>3. Follow(q)' => cursor'[q] = d[q]
        BY <1>10, <2>1 DEF Follow
    <3>4. Delivery(c, E, d, q)
        BY <1>8
    <3> QED
        BY <1>1, <1>2, <2>1, <3>1, <3>2, <3>3, <3>4, FlushedRun
  <2>3. Orders'
    BY <1>0, <2>1 DEF Flushed, Orders
  <2> QED
    BY <1>11, <2>2, <2>3 DEF ShownStep
<1> QED
    BY <1>12, <1>13

-----------------------------------------------------------------------------
(* What else holds of the steps that add to the log or to the queue.       *)

\* A Run the user has not asked for is not there; the Sessions to follow are
\* followed; the replay goes on with one Run.
Asked == \A r \in Mine \ sent : log'[r].seq = 0
Tried == phase = "subscribing" => todo \subseteq todo' \union subs' \union retired'
Replayed ==
    \/ replayed' = replayed /\ paging' = paging
    \/ \E r \in Runs, from \in Nat :
          /\ Continues(r, from) /\ phase = "replaying" /\ replayed' = replayed \union {r}
          /\ paging' = NoPage
          /\ Present(r)' => ~Orphan(r)' /\ Frames(r, "page")' # {}
Beside == Asked /\ Tried /\ Replayed
Unasked == \A r \in Mine \ sent : r \notin toServer /\ r \notin unbound /\ log[r].seq = 0

LEMMA FinalizedRun ==
    ASSUME FeedData, NEW s \in Sessions, NEW r \in Runs, log[r].seq = 0
    PROVE  Finalized(s)[r] = log[r]
BY FinalizedIs DEF Orphan

\* The log when one Run has a new event.
LEMMA OneRunAsked ==
    ASSUME FeedData, Unasked, NEW q, q \notin Mine \ sent, NEW l, NEW x,
           log' = [l EXCEPT ![q] = x], \A r \in Mine \ sent : l[r] = log[r], DOMAIN l = Runs
    PROVE  Asked
<1>1. ASSUME NEW r \in Mine \ sent PROVE log'[r].seq = 0
  <2>1. r # q /\ log'[r] = l[r] /\ log[r].seq = 0
    BY FeedAssumption DEF Unasked
  <2> QED
    BY <2>1
<1> QED
    BY <1>1 DEF Asked

LEMMA ChatAsked ==
    ASSUME FeedData, LogInv, Unasked, NEW q \in Runs, q \notin Mine \ sent, ChatSend(q)
    PROVE  Asked
<1>0. DOMAIN log = Runs /\ Mine \subseteq Runs /\ SessionOf[q] \in Sessions
    BY LogIs, FeedAssumption DEF FeedData
<1>1. CASE log' = log
    BY <1>1 DEF Asked, Unasked
<1>2. CASE log' = [log EXCEPT ![q] = Ended(@)]
  <2>1. PICK x : x = Ended(log[q])
    OBVIOUS
  <2>2. log' = [log EXCEPT ![q] = x]
    BY <1>2, <2>1
  <2> QED
    BY <1>0, <2>2, OneRunAsked
<1>3. CASE log' = [Finalized(SessionOf[q]) EXCEPT ![q] = Grown(@)]
  <2>1. PICK l, x : l = Finalized(SessionOf[q]) /\ x = Grown(l[q])
    OBVIOUS
  <2>2. log' = [l EXCEPT ![q] = x]
    BY <1>3, <2>1
  <2>3. DOMAIN l = Runs
    BY <2>1 DEF Finalized
  <2>4. \A r \in Mine \ sent : l[r] = log[r]
    BY <1>0, <2>1, FinalizedRun DEF Unasked
  <2> QED
    BY <2>2, <2>3, <2>4, OneRunAsked
<1> QED
    BY <1>1, <1>2, <1>3 DEF ChatSend, SendKnown, SendNew, SendFails

LEMMA GrowingAsked ==
    ASSUME FeedData, LogInv, Unasked, Growing
    PROVE  Asked
<1>0. DOMAIN log = Runs /\ Mine \subseteq Runs /\ \A q \in Runs : SessionOf[q] \in Sessions
    BY LogIs, FeedAssumption DEF FeedData
<1>1. ASSUME NEW q \in Runs, RunGoesOn(q) \/ RunEnds(q) \/ OutcomeComesLate(q) \/ ForeignCancel(q)
      PROVE  Asked
  <2>1. PICK x : log' = [log EXCEPT ![q] = x]
    BY <1>1 DEF RunGoesOn, RunEnds, OutcomeComesLate, ForeignCancel
  <2>2. log[q].seq # 0
    <3>1. log[q].seq \in Nat /\ log[q].end \in Nat
        BY LogIs
    <3>2. CASE q \in executing
        BY <3>1, <3>2 DEF LogInv
    <3>3. CASE q \notin executing
      <4>1. \/ log[q].end # 0 /\ log[q].seq = log[q].end
            \/ log[q].seq > 0
        BY <1>1, <3>3 DEF RunGoesOn, RunEnds, OutcomeComesLate, ForeignCancel, Orphan
      <4> QED
        BY ONLY <3>1, <4>1
    <3> QED
        BY <3>2, <3>3
  <2>3. q \notin Mine \ sent
    BY <2>2 DEF Unasked
  <2> QED
    BY <1>0, <2>1, <2>3, OneRunAsked
<1>2. ASSUME NEW q \in Runs, ForeignSend(q) PROVE Asked
  <2>1. PICK l, x : l = Finalized(SessionOf[q]) /\ x = Grown(l[q])
    OBVIOUS
  <2>2. log' = [l EXCEPT ![q] = x] /\ q \notin Mine \ sent
    BY <1>2, <2>1 DEF ForeignSend, Unasked
  <2>3. DOMAIN l = Runs
    BY <2>1 DEF Finalized
  <2>4. \A r \in Mine \ sent : l[r] = log[r]
    BY <1>0, <2>1, FinalizedRun DEF Unasked
  <2> QED
    BY <2>2, <2>3, <2>4, OneRunAsked
<1>3. ASSUME NEW q \in Runs, SendArrives(q) \/ Resend(q) PROVE Asked
  <2>1. q \notin Mine \ sent /\ ChatSend(q)
    BY <1>3 DEF SendArrives, Resend, Unasked
  <2> QED
    BY <2>1, ChatAsked
<1>4. ASSUME NEW s \in Sessions, ForeignRead(s) \/ Delete(s) \/ Subscribe(s) PROVE Asked
  <2>1. CASE ForeignRead(s)
    <3>1. log' = Finalized(s)
        BY <2>1 DEF ForeignRead
    <3>2. \A r \in Mine \ sent : Finalized(s)[r] = log[r] /\ log[r].seq = 0
        BY <1>0, FinalizedRun DEF Unasked
    <3> QED
        BY <3>1, <3>2 DEF Asked
  <2>2. CASE Delete(s)
    <3>1. \A r \in Runs : log'[r] = log[r] \/ log'[r].seq = 0
        BY <2>2 DEF Delete
    <3> QED
        BY <1>0, <3>1 DEF Asked, Unasked
  <2>3. CASE Subscribe(s)
    BY <2>3 DEF Subscribe, server, Asked, Unasked
  <2> QED
    BY <1>4, <2>1, <2>2, <2>3
<1>5. ASSUME List PROVE Asked
    BY <1>5 DEF List, server, Asked, Unasked
<1>6. ASSUME NEW q \in Runs, NEW from, Replay(q, from) PROVE Asked
  <2>1. CASE log' = log
    BY <2>1 DEF Asked, Unasked
  <2>2. CASE log' # log
    <3>1. Orphan(q) /\ log' = [log EXCEPT ![q] = Ended(@)]
        BY <1>6, <2>2 DEF Replay
    <3>2. PICK x : log' = [log EXCEPT ![q] = x]
        BY <3>1
    <3>3. q \notin Mine \ sent
        BY <3>1 DEF Unasked, Orphan
    <3> QED
        BY <1>0, <3>2, <3>3, OneRunAsked
  <2> QED
    BY <2>1, <2>2
<1> QED
    BY <1>1, <1>2, <1>3, <1>4, <1>5, <1>6 DEF Growing

LEMMA ReplayedRun ==
    ASSUME FeedData, NEW r \in Runs, NEW from \in Nat, Replay(r, from)
    PROVE  Replayed
<1>1. /\ phase = "replaying" /\ replayed' = replayed \union {r} /\ paging' = NoPage
      /\ retired' = retired /\ executing' = executing
      /\ ~Present(r) \/ /\ log' = (IF Orphan(r) THEN [log EXCEPT ![r] = Ended(@)] ELSE log)
                        /\ toClient' = Append(toClient, PageOf(r, from, log'[r]))
    BY DEF Replay, Present
<1>2. Continues(r, from)
    BY DEF Replay, Continues, Followed
<1>3. ASSUME Present(r)' PROVE ~Orphan(r)' /\ Frames(r, "page")' # {}
  <2>1. Present(r)
    BY <1>1, <1>3 DEF Present
  <2>2. ~Orphan(r)'
    <3>1. log[r].seq \in Nat /\ r \in DOMAIN log
        BY LogIs DEF FeedData
    <3>2. Orphan(r) => log'[r] = Ended(log[r])
        BY <1>1, <2>1, <3>1
    <3>3. Orphan(r) => log'[r].end # 0
        BY <3>1, <3>2 DEF Ended
    <3>4. ~Orphan(r) => log' = log
        BY <1>1, <2>1
    <3> QED
        BY <1>1, <3>3, <3>4 DEF Orphan
  <2>3. PICK m : m = PageOf(r, from, log'[r])
    OBVIOUS
  <2>4. m.kind = "page" /\ m.run = r
    BY <2>3 DEF PageOf, Page
  <2>5. toClient' = Append(toClient, m)
    BY <1>1, <2>1, <2>3
  <2>6. \E i \in DOMAIN toClient' : toClient'[i] = m
    <3>1. PICK q \in Seq(FeedFrames) : q = toClient
        BY DEF FeedData
    <3>2. Len(q) + 1 \in DOMAIN toClient' /\ toClient'[Len(q) + 1] = m
        BY <2>5, <3>1
    <3> QED
        BY <3>2
  <2> QED
    BY <2>2, <2>4, <2>6 DEF Frames
<1> QED
    BY <1>1, <1>2, <1>3 DEF Replayed

LEMMA GrowingBeside ==
    ASSUME FeedData, LogInv, Unasked, Growing
    PROVE  Beside
<1>1. Asked
    BY GrowingAsked
<1>2. ASSUME NEW q \in Runs,
             \/ RunGoesOn(q) \/ RunEnds(q) \/ OutcomeComesLate(q) \/ SendArrives(q)
             \/ ForeignSend(q) \/ ForeignCancel(q)
      PROVE  Tried /\ Replayed
  <2>1. UNCHANGED recovery
    BY <1>2 DEF RunGoesOn, RunEnds, OutcomeComesLate, SendArrives, ForeignSend, ForeignCancel
  <2> QED
    BY <2>1 DEF recovery, Tried, Replayed
<1>3. ASSUME NEW q \in Runs, Resend(q) PROVE Tried /\ Replayed
    BY <1>3 DEF Resend, Tried, Replayed
<1>4. ASSUME NEW s \in Sessions, ForeignRead(s) \/ Delete(s) PROVE Tried /\ Replayed
  <2>1. UNCHANGED recovery
    BY <1>4 DEF ForeignRead, Delete
  <2> QED
    BY <2>1 DEF recovery, Tried, Replayed
<1>5. ASSUME NEW s \in Sessions, Subscribe(s) PROVE Tried /\ Replayed
    BY <1>5 DEF Subscribe, Tried, Replayed, server
<1>6. ASSUME List PROVE Tried /\ Replayed
    BY <1>6 DEF List, recovery, Tried, Replayed
<1>7. ASSUME NEW q \in Runs, NEW from \in 0..(MaxSeq + 1), Replay(q, from) PROVE Tried /\ Replayed
  <2>1. from \in Nat
    BY FeedAssumption
  <2>2. phase # "subscribing"
    BY <1>7 DEF Replay
  <2> QED
    BY <1>7, <2>1, <2>2, ReplayedRun DEF Tried
<1> QED
    BY <1>1, <1>2, <1>3, <1>4, <1>5, <1>6, <1>7 DEF Growing, Beside

-----------------------------------------------------------------------------
(* The steps that add to the log and to the queue.                         *)

\* What comes of a Run, and what becomes of its log.
Comes(r) ==
    /\ Present(r) /\ (Present(r)' => Tuned(r)') /\ (Orphan(r) \/ Present(r)')
    /\ phase # "down" /\ (phase \in Early => SessionOf[r] \in subs)
Adds(r) ==
    /\ \A k : Frames(r, k) \subseteq Frames(r, k)'
    /\ \A m \in Frames(r, "event")' : m \in Frames(r, "event") \/ (m.seq = log[r].seq + 1 /\ Comes(r))
    /\ \A k : k # "event" =>
          \A m \in Frames(r, k)' : m \in Frames(r, k) \/ (m.kind = k /\ m.run = r /\ Reply(m))
    /\ Present(r)' =>
          /\ Present(r) /\ (Tuned(r) => Tuned(r)')
          /\ \/ SameLog(r) /\ Coming(r)' = Coming(r)
             \/ MoreLog(r) /\ (log[r].end = 0 /\ Tuned(r) => log[r].seq + 1 \in Coming(r)')

LEMMA GrowthAdds ==
    ASSUME FeedData, StaysPut, NEW evs, NEW rep, Growth(evs, rep), NEW r \in Runs
    PROVE  Adds(r)
<1>1. PICK l \in Nat, p \in Nat : l = Len(toClient) /\ p = Len(evs)
    BY GrowthFrames
<1>2. /\ \A i \in DOMAIN toClient : i \in DOMAIN toClient' /\ toClient'[i] = toClient[i]
      /\ \A i \in DOMAIN toClient' :
            \/ i \in DOMAIN toClient /\ toClient'[i] = toClient[i]
            \/ \E k \in DOMAIN evs : i = l + k /\ toClient'[i] = evs[k]
            \/ /\ i = l + p + 1 /\ 1 \in DOMAIN rep
               /\ toClient'[i] = rep[1] /\ rep[1] \in FeedFrames /\ Reply(rep[1])
      /\ \A k \in DOMAIN evs : l + k \in DOMAIN toClient' /\ toClient'[l + k] = evs[k]
    BY <1>1, GrowthFrames
<1>3. \A k, m : /\ m \in Frames(r, k) <=>
                       m.kind = k /\ m.run = r /\ \E i \in DOMAIN toClient : toClient[i] = m
                /\ m \in Frames(r, k)' <=>
                       m.kind = k /\ m.run = r /\ \E i \in DOMAIN toClient' : toClient'[i] = m
    BY DEF Frames
<1>4. Published(evs) /\ \A k \in DOMAIN evs : evs[k] \in FeedEvents
    BY DEF Growth, Published
<1>5. \A k \in DOMAIN evs : evs[k].kind = "event"
    BY <1>4, FeedEventKinds
<1>6. \A k \in DOMAIN evs : evs[k].run = r => evs[k].seq = log[r].seq + 1 /\ Comes(r)
  <2>1. ASSUME NEW k \in DOMAIN evs, evs[k].run = r
        PROVE  evs[k].seq = log[r].seq + 1 /\ Comes(r)
    <3>1. PICK e : e = evs[k]
        OBVIOUS
    <3>2. /\ Present(e.run) /\ e.seq = log[e.run].seq + 1
          /\ phase # "down"
          /\ phase \in Early => SessionOf[e.run] \in subs
          /\ \A q \in Runs : e.run = q => /\ Present(q)' => Tuned(q)'
                                          /\ Orphan(q) \/ Present(q)'
        BY <1>4, <3>1 DEF Published
    <3>3. Present(r) /\ e.seq = log[r].seq + 1
        BY <2>1, <3>1, <3>2 DEF Present
    <3> QED
        BY <2>1, <3>1, <3>2, <3>3 DEF Comes
  <2> QED
    BY <2>1
<1>7. \A k : Frames(r, k) \subseteq Frames(r, k)'
    BY <1>2, <1>3
<1>8. ASSUME NEW m \in Frames(r, "event")', m \notin Frames(r, "event")
      PROVE  \E k \in DOMAIN evs : evs[k] = m
  <2>1. PICK i \in DOMAIN toClient' : toClient'[i] = m
    BY <1>3, <1>8
  <2>2. m.kind = "event" /\ ~(i \in DOMAIN toClient /\ toClient'[i] = toClient[i])
    BY <1>3, <1>8, <2>1
  <2>3. ~Reply(m)
    BY <2>2 DEF Reply
  <2> QED
    BY <1>2, <2>1, <2>2, <2>3
<1>9. \A m \in Frames(r, "event")' : m \in Frames(r, "event") \/ (m.seq = log[r].seq + 1 /\ Comes(r))
    BY <1>3, <1>6, <1>8
<1>10. ASSUME NEW k, k # "event", NEW m \in Frames(r, k)', m \notin Frames(r, k)
       PROVE  m.kind = k /\ m.run = r /\ Reply(m)
  <2>1. PICK i \in DOMAIN toClient' : toClient'[i] = m
    BY <1>3, <1>10
  <2>2. m.kind = k /\ m.run = r /\ ~(i \in DOMAIN toClient /\ toClient'[i] = toClient[i])
    BY <1>3, <1>10, <2>1
  <2>3. ~\E j \in DOMAIN evs : evs[j] = m
    BY <1>5, <1>10, <2>2
  <2> QED
    BY <1>2, <2>1, <2>2, <2>3
<1>11. (\E k \in DOMAIN evs : evs[k].run = r) => log[r].seq + 1 \in Coming(r)'
  <2>1. ASSUME NEW k \in DOMAIN evs, evs[k].run = r PROVE log[r].seq + 1 \in Coming(r)'
    <3>1. evs[k] \in Frames(r, "event")'
        BY <1>2, <1>3, <1>5, <2>1
    <3> QED
        BY <1>6, <2>1, <3>1 DEF Coming
  <2> QED
    BY <2>1
<1>12. (\A k \in DOMAIN evs : evs[k].run # r) => Coming(r)' = Coming(r)
  <2>1. ASSUME \A k \in DOMAIN evs : evs[k].run # r PROVE Frames(r, "event")' = Frames(r, "event")
    BY <1>3, <1>7, <1>8, <2>1
  <2> QED
    BY <2>1 DEF Coming
<1>13. ASSUME Present(r)'
       PROVE  /\ Present(r) /\ (Tuned(r) => Tuned(r)')
              /\ \/ SameLog(r) /\ Coming(r)' = Coming(r)
                 \/ MoreLog(r) /\ (log[r].end = 0 /\ Tuned(r) => log[r].seq + 1 \in Coming(r)')
  <2>1. Present(r)
    BY <1>13 DEF StaysPut, Present
  <2>2. /\ Tuned(r) => Tuned(r)'
        /\ \/ SameLog(r) /\ \A i \in DOMAIN evs : evs[i].run # r
           \/ MoreLog(r) /\ (log[r].end = 0 /\ Tuned(r) => \E i \in DOMAIN evs : evs[i].run = r)
    BY <1>13 DEF Growth
  <2> QED
    BY <1>11, <1>12, <2>1, <2>2
<1> QED
    BY <1>7, <1>9, <1>10, <1>13 DEF Adds

\* How far a Run is then.
Passed(r) ==
    /\ log[r].seq \in Nat /\ log'[r].seq \in Nat /\ Told(r) \in Nat /\ Told(r)' \in Nat
    /\ Coming(r) \subseteq Nat /\ Kept(r) \subseteq Nat
    /\ Kept(r)' = Kept(r) /\ Coming(r) \subseteq Coming(r)'
    /\ \A n \in Coming(r)' : n \in Coming(r) \/ (n = log[r].seq + 1 /\ Comes(r))
    /\ Orphan(r) => Told(r) = log[r].seq
    /\ Present(r)' =>
          /\ Present(r) /\ (Tuned(r) => Tuned(r)')
          /\ Told(r)' <= log'[r].seq
          /\ \/ log'[r].seq = log[r].seq /\ Told(r)' = Told(r) /\ Coming(r)' = Coming(r)
             \/ /\ log'[r].seq = log[r].seq + 1 /\ Told(r) = log[r].seq
                /\ \/ Told(r)' = Told(r) /\ log[r].end # 0
                   \/ /\ Told(r)' = log[r].seq + 1
                      /\ Tuned(r) => log[r].seq + 1 \in Coming(r)'

LEMMA AddsPassed ==
    ASSUME FeedData, StaysPut, ServerData', LogInv', NEW r \in Runs, Adds(r)
    PROVE  Passed(r)
<1>1. /\ log[r].seq \in Nat /\ log[r].end \in Nat /\ log'[r].seq \in Nat /\ log'[r].end \in Nat
    BY LogIs DEF ServerData
<1>2. Told(r) \in Nat /\ Told(r)' \in Nat
    BY <1>1 DEF Told
<1>3. Coming(r) \subseteq Nat /\ Kept(r) \subseteq Nat
    BY FramesAre
<1>4. Kept(r)' = Kept(r)
    BY DEF StaysPut, Kept
<1>5. Coming(r) \subseteq Coming(r)'
    BY DEF Adds, Coming
<1>6. \A n \in Coming(r)' : n \in Coming(r) \/ (n = log[r].seq + 1 /\ Comes(r))
    BY DEF Adds, Coming
<1>7. Orphan(r) => Told(r) = log[r].seq
    BY DEF Orphan, Told
<1>8. Told(r)' <= log'[r].seq
    BY <1>1 DEF LogInv, Told
<1>9. ASSUME Present(r)'
      PROVE  /\ Present(r) /\ (Tuned(r) => Tuned(r)')
             /\ \/ log'[r].seq = log[r].seq /\ Told(r)' = Told(r) /\ Coming(r)' = Coming(r)
                \/ /\ log'[r].seq = log[r].seq + 1 /\ Told(r) = log[r].seq
                   /\ \/ Told(r)' = Told(r) /\ log[r].end # 0
                      \/ /\ Told(r)' = log[r].seq + 1
                         /\ Tuned(r) => log[r].seq + 1 \in Coming(r)'
  <2>1. /\ Present(r) /\ (Tuned(r) => Tuned(r)')
        /\ \/ SameLog(r) /\ Coming(r)' = Coming(r)
           \/ MoreLog(r) /\ (log[r].end = 0 /\ Tuned(r) => log[r].seq + 1 \in Coming(r)')
    BY <1>9 DEF Adds
  <2>2. CASE SameLog(r) /\ Coming(r)' = Coming(r)
    BY <2>1, <2>2 DEF SameLog, Told
  <2>3. CASE MoreLog(r) /\ (log[r].end = 0 /\ Tuned(r) => log[r].seq + 1 \in Coming(r)')
    <3>1. CASE log[r].end # 0
        BY <1>1, <2>1, <2>3, <3>1 DEF MoreLog, Told
    <3>2. CASE log[r].end = 0
        BY <1>1, <2>1, <2>3, <3>2 DEF MoreLog, Told
    <3> QED
        BY <3>1, <3>2
  <2> QED
    BY <2>1, <2>2, <2>3
<1> QED
    BY <1>1, <1>2, <1>3, <1>4, <1>5, <1>6, <1>7, <1>8, <1>9 DEF Passed

\* What still reached up to the end does so then.
LEMMA PassedReach ==
    ASSUME NEW r, Passed(r), Present(r)', NEW n \in Nat, NEW W, NEW V,
           W \subseteq V, Coming(r)' \subseteq V,
           Tuned(r), n..Told(r) \subseteq W
    PROVE  n..Told(r)' \subseteq V
<1>1. \/ Told(r)' = Told(r)
      \/ /\ Told(r)' = log[r].seq + 1 /\ Told(r) = log[r].seq /\ log[r].seq + 1 \in V
    BY DEF Passed
<1>2. Told(r) \in Nat /\ log[r].seq \in Nat
    BY DEF Passed
<1>3. ASSUME NEW k \in n..Told(r)' PROVE k \in V
  <2>1. k \in n..Told(r) \/ (k = log[r].seq + 1 /\ log[r].seq + 1 \in V)
    BY <1>1, <1>2, <1>3
  <2> QED
    BY <2>1
<1> QED
    BY <1>3

\* What stays as it was.
LEMMA StaysPutKeeps ==
    ASSUME StaysPut, NEW r \in Runs
    PROVE  /\ (Follow(r)' <=> Follow(r)) /\ (Heeded(r)' <=> Heeded(r)) /\ (Open(r)' <=> Open(r))
           /\ Kept(r)' = Kept(r) /\ cursor' = cursor /\ shown' = shown /\ phase' = phase
           /\ unbound' = unbound /\ sent' = sent /\ toServer' \subseteq toServer
           /\ (Present(r)' => Present(r))
           /\ (Present(r)' /\ SessionOf[r] \in subs => SessionOf[r] \in subs')
           /\ (Alive(r)' => Alive(r))
<1>1. /\ cursor' = cursor /\ shown' = shown /\ phase' = phase /\ unbound' = unbound
      /\ sent' = sent /\ provisional' = provisional /\ retirement' = retirement
      /\ toServer' \subseteq toServer /\ retired \subseteq retired'
      /\ subs \subseteq subs' \union retired'
    BY DEF StaysPut
<1>2. (Follow(r)' <=> Follow(r)) /\ (Heeded(r)' <=> Heeded(r)) /\ Kept(r)' = Kept(r)
    BY <1>1 DEF Follow, Heeded, Kept
<1>3. (Open(r)' <=> Open(r)) /\ (Present(r)' => Present(r))
    BY <1>1, <1>2 DEF Open, Present
<1>4. Present(r)' /\ SessionOf[r] \in subs => SessionOf[r] \in subs'
    BY <1>1 DEF Present
<1>5. Alive(r)' => Alive(r)
    BY <1>1, <1>2, <1>3 DEF Alive
<1> QED
    BY <1>1, <1>2, <1>3, <1>4, <1>5

LEMMA GrowsLevels ==
    ASSUME FeedInv, StaysPut, Asked, NEW r \in Runs, Adds(r), Passed(r)
    PROVE  Wanted(r)' /\ Showing(r)' /\ Levels(r)'
<1>1. /\ (Follow(r)' <=> Follow(r)) /\ (Heeded(r)' <=> Heeded(r))
      /\ Kept(r)' = Kept(r) /\ cursor' = cursor /\ shown' = shown /\ phase' = phase
      /\ unbound' = unbound /\ sent' = sent /\ toServer' \subseteq toServer
    BY StaysPutKeeps
<1>2. Wanted(r) /\ Showing(r) /\ Levels(r)
    BY DEF FeedInv, RunInv
<1>3. /\ log[r].seq \in Nat /\ log'[r].seq \in Nat /\ Coming(r) \subseteq Nat /\ Kept(r) \subseteq Nat
      /\ \A n \in Coming(r)' : n \in Coming(r) \/ (n = log[r].seq + 1 /\ Comes(r))
      /\ Present(r)' =>
            /\ Present(r)
            /\ \/ log'[r].seq = log[r].seq /\ Coming(r)' = Coming(r)
               \/ log'[r].seq = log[r].seq + 1
    BY DEF Passed
<1>4. Waiting(r) = Coming(r) \union Kept(r) /\ Waiting(r)' = Coming(r)' \union Kept(r)
    BY <1>1 DEF Waiting
<1>5. Wanted(r)'
  <2>1. ASSUME r \in Mine \ sent' PROVE log'[r].seq = 0 /\ Waiting(r)' = {} /\ shown'[r] = <<>>
    <3>1. log[r].seq = 0 /\ Waiting(r) = {} /\ shown[r] = <<>> /\ log'[r].seq = 0
        BY <1>1, <1>2, <2>1 DEF Wanted, Asked
    <3>2. Comes(r) => Present(r)'
        BY <3>1 DEF Comes, Orphan
    <3>3. Coming(r)' = {}
        BY <1>3, <1>4, <3>1, <3>2
    <3> QED
        BY <1>1, <1>4, <3>1, <3>3
  <2> QED
    BY <1>1, <1>2, <2>1 DEF Wanted
<1>6. Showing(r)'
    BY <1>1, <1>2 DEF Showing
<1>7. \A n \in Coming(r)' : n > 0 /\ (\A k \in Kept(r) : k < n) /\ (Follow(r) => cursor[r].seq < n)
  <2>1. ASSUME NEW n \in Coming(r)', n \notin Coming(r)
        PROVE  n > 0 /\ (\A k \in Kept(r) : k < n) /\ (Follow(r) => cursor[r].seq < n)
    <3>1. n = log[r].seq + 1 /\ Present(r)
        BY <1>3, <2>1 DEF Comes
    <3>2. (\A k \in Kept(r) : k <= log[r].seq) /\ (Follow(r) => cursor[r].seq <= log[r].seq)
        BY <1>2, <1>4, <3>1 DEF Levels
    <3>3. Follow(r) => cursor[r].seq \in Nat
        BY NumbersAre DEF FeedInv, DeletionInv
    <3> QED
        BY <1>3, <3>1, <3>2, <3>3
  <2> QED
    BY <1>2, <2>1 DEF Levels
<1>8. \A m \in Frames(r, "accepted")' :
          /\ m.seq > 0
          /\ m \in Frames(r, "accepted") \/ m.seq = log'[r].seq
    BY <1>2 DEF Levels, Adds, Reply
<1>9. \A m \in Frames(r, "page")' : m \in Frames(r, "page") \/ \A e \in m.events : e.seq <= log'[r].seq
  <2>1. ASSUME NEW m \in Frames(r, "page")', m \notin Frames(r, "page")
        PROVE  \A e \in m.events : e.seq <= log'[r].seq
    <3>1. m.kind = "page" /\ m.run = r /\ Reply(m)
        BY <2>1 DEF Adds
    <3>2. PICK q \in Runs, from \in Nat : Replies(m, q, from)
        BY <3>1 DEF Reply
    <3> QED
        BY <3>1, <3>2 DEF Replies, IsPage
  <2> QED
    BY <2>1
<1>10. ASSUME Present(r)'
       PROVE  /\ \A n \in Waiting(r)' : n <= log'[r].seq
              /\ \A m \in Frames(r, "accepted")' : m.seq <= log'[r].seq
              /\ \A m \in Frames(r, "page")' : \A e \in m.events : e.seq <= log'[r].seq
              /\ Follow(r) => cursor[r].seq <= log'[r].seq /\ log'[r].seq > 0
  <2>1. /\ \A n \in Waiting(r) : n <= log[r].seq
        /\ \A m \in Frames(r, "accepted") : m.seq <= log[r].seq
        /\ \A m \in Frames(r, "page") : \A e \in m.events : e.seq <= log[r].seq
        /\ Follow(r) => cursor[r].seq <= log[r].seq /\ log[r].seq > 0
    BY <1>2, <1>3, <1>10 DEF Levels
  <2>2. /\ \A m \in Frames(r, "accepted") : m.seq \in Nat
        /\ \A m \in Frames(r, "page") : \A e \in m.events : e.seq \in Nat
        /\ Follow(r) => cursor[r].seq \in Nat
    <3>1. FeedData /\ ShownData
        BY DEF FeedInv, DeletionInv
    <3>2. \A m \in Frames(r, "page") : m \in FeedPages
        BY <3>1, FramesAre
    <3>3. \A m \in Frames(r, "page") : \A e \in m.events : e.seq \in Nat
        BY <3>2, PageKindsAre, FeedEventKinds
    <3> QED
        BY <3>1, <3>3, FramesAre, NumbersAre
  <2>3. log[r].seq <= log'[r].seq
    BY <1>3, <1>10
  <2>4. \A n \in Waiting(r)' : n <= log'[r].seq
    <3>1. ASSUME NEW n \in Waiting(r)' PROVE n <= log'[r].seq
      <4>1. CASE n \in Waiting(r)
        BY <1>3, <1>4, <2>1, <2>3, <4>1
      <4>2. CASE n \notin Waiting(r)
        BY <1>3, <1>4, <1>10, <3>1, <4>2
      <4> QED
        BY <4>1, <4>2
    <3> QED
        BY <3>1
  <2>5. \A m \in Frames(r, "accepted")' : m.seq <= log'[r].seq
    BY <1>3, <1>8, <2>1, <2>2, <2>3
  <2>6. \A m \in Frames(r, "page")' : \A e \in m.events : e.seq <= log'[r].seq
    BY <1>3, <1>9, <2>1, <2>2, <2>3
  <2> QED
    BY <1>3, <2>1, <2>2, <2>3, <2>4, <2>5, <2>6
<1>11. Levels(r)'
    BY <1>1, <1>7, <1>8, <1>10 DEF Levels
<1> QED
    BY <1>5, <1>6, <1>11

\* The numbers that wait when the next one comes.
LEMMA NextCloses ==
    ASSUME NEW W, NEW V, NEW n \in Nat, NEW k \in Nat, W \subseteq Nat, W \subseteq V,
           V \subseteq W \union {n + 1}, Gapless(W), \A a \in W : a <= n /\ a..n \subseteq W
    PROVE  Gapless(V)
<1>1. ASSUME NEW a \in V, NEW b \in V, NEW c \in a..b PROVE c \in V
  <2>1. (a \in W \/ a = n + 1) /\ (b \in W \/ b = n + 1)
    BY <1>1
  <2>2. CASE b \in W
    <3>1. CASE a \in W
        BY <1>1, <2>2, <3>1 DEF Gapless
    <3>2. CASE a = n + 1
      <4>1. b <= n /\ b \in Nat
        BY <2>2
      <4>2. a..b = {}
        BY <3>2, <4>1
      <4> QED
        BY <1>1, <4>2
    <3> QED
        BY <2>1, <3>1, <3>2
  <2>3. CASE b \notin W
    <3>1. b = n + 1
        BY <2>1, <2>3
    <3>2. a \in Nat /\ (c \in a..n \/ c = n + 1)
        BY <1>1, <2>1, <3>1
    <3>3. a \in W => a..n \subseteq W
        OBVIOUS
    <3>4. a \notin W => c = n + 1
        BY <2>1, <3>2
    <3> QED
        BY <1>1, <3>1, <3>2, <3>3, <3>4
  <2> QED
    BY <2>2, <2>3
<1> QED
    BY <1>1 DEF Gapless

LEMMA GrowsStream ==
    ASSUME FeedInv, StaysPut, NEW r \in Runs, Adds(r), Passed(r)
    PROVE  Stream(r)'
<1>1. /\ (Follow(r)' <=> Follow(r)) /\ (Heeded(r)' <=> Heeded(r)) /\ (Open(r)' <=> Open(r))
      /\ Kept(r)' = Kept(r) /\ phase' = phase
      /\ (Present(r)' /\ SessionOf[r] \in subs => SessionOf[r] \in subs')
    BY StaysPutKeeps
<1>2. Levels(r) /\ Stream(r)
    BY DEF FeedInv, RunInv
<1>3. /\ log[r].seq \in Nat /\ Told(r) \in Nat /\ Coming(r) \subseteq Nat /\ Kept(r) \subseteq Nat
      /\ Coming(r) \subseteq Coming(r)'
      /\ \A n \in Coming(r)' : n \in Coming(r) \/ (n = log[r].seq + 1 /\ Comes(r))
      /\ Orphan(r) => Told(r) = log[r].seq
      /\ Present(r)' =>
            /\ Present(r) /\ (Tuned(r) => Tuned(r)')
            /\ \/ log'[r].seq = log[r].seq /\ Told(r)' = Told(r) /\ Coming(r)' = Coming(r)
               \/ /\ log'[r].seq = log[r].seq + 1 /\ Told(r) = log[r].seq
                  /\ \/ Told(r)' = Told(r) /\ log[r].end # 0
                     \/ /\ Told(r)' = log[r].seq + 1
                        /\ Tuned(r) => log[r].seq + 1 \in Coming(r)'
    BY DEF Passed
<1>4. PICK W, V : W = Waiting(r) /\ V = Waiting(r)'
    OBVIOUS
<1>5. /\ W \subseteq V /\ W \subseteq Nat /\ Coming(r)' \subseteq V
      /\ \A n \in V : n \in W \/ (n = log[r].seq + 1 /\ n \in Coming(r)' /\ n \notin Coming(r) /\ Comes(r))
    BY <1>1, <1>3, <1>4 DEF Waiting
<1>6. W # {} /\ Present(r) => Tuned(r) /\ (phase \in Early => SessionOf[r] \in subs)
    BY <1>2, <1>4 DEF Stream
<1>7. ASSUME V # {}, Present(r)' PROVE Tuned(r)' /\ (phase \in Early => SessionOf[r] \in subs')
    BY <1>1, <1>3, <1>5, <1>6, <1>7 DEF Comes
<1>8. ASSUME Open(r), Heeded(r) PROVE Gapless(V)
  <2>1. Gapless(W)
    BY <1>2, <1>4, <1>8 DEF Stream
  <2>2. CASE V = W
    BY <2>1, <2>2
  <2>3. CASE V # W
    <3>1. Comes(r) /\ Coming(r)' # Coming(r)
        BY <1>5, <2>3
    <3>2. Present(r) /\ (Orphan(r) \/ Present(r)')
        BY <3>1 DEF Comes
    <3>3. Told(r) = log[r].seq
        BY <1>3, <3>1, <3>2
    <3>4. \A a \in W : a <= log[r].seq /\ a..log[r].seq \subseteq W
        BY <1>2, <1>4, <1>8, <3>2, <3>3 DEF Stream, Levels
    <3>5. V \subseteq W \union {log[r].seq + 1}
        BY <1>5
    <3> QED
        BY <1>3, <1>5, <2>1, <3>4, <3>5, NextCloses
  <2> QED
    BY <2>2, <2>3
<1>9. ASSUME Open(r), Heeded(r), Present(r)', NEW n \in V PROVE n..Told(r)' \subseteq V
  <2>1. CASE n \in W
    <3>1. Tuned(r) /\ n..Told(r) \subseteq W /\ n \in Nat
        BY <1>2, <1>3, <1>4, <1>5, <1>6, <1>9, <2>1 DEF Stream
    <3> QED
        BY <1>5, <1>9, <3>1, PassedReach
  <2>2. CASE n \notin W
    <3>1. n = log[r].seq + 1 /\ Coming(r)' # Coming(r)
        BY <1>5, <1>9, <2>2
    <3>2. Told(r)' \in Nat /\ Told(r)' <= n
        BY <1>3, <1>9, <3>1
    <3>3. n..Told(r)' \subseteq {n}
        BY <1>3, <3>1, <3>2
    <3> QED
        BY <1>9, <3>3
  <2> QED
    BY <2>1, <2>2
<1> QED
    BY <1>1, <1>4, <1>7, <1>8, <1>9 DEF Stream

LEMMA GrowsAnswered ==
    ASSUME FeedInv, StaysPut, ServerData', NEW r \in Runs, Adds(r), Passed(r)
    PROVE  Answered(r)'
<1>1. phase' = phase /\ shown' = shown
    BY StaysPutKeeps
<1>2. Wanted(r) /\ Answered(r)
    BY DEF FeedInv, RunInv
<1>3. ASSUME NEW m \in Frames(r, "accepted")'
      PROVE  /\ Present(r)' /\ ~m.over => Tuned(r)' /\ (m.seq + 1)..Told(r)' \subseteq Coming(r)'
             /\ phase = "resending" => shown[r] = <<>>
  <2>1. CASE m \in Frames(r, "accepted")
    <3>1. m.seq \in Nat
        BY <2>1, FramesAre DEF FeedInv, DeletionInv
    <3>2. /\ Present(r) /\ ~m.over => Tuned(r) /\ (m.seq + 1)..Told(r) \subseteq Coming(r)
          /\ phase = "resending" => shown[r] = <<>>
        BY <1>2, <2>1 DEF Answered
    <3>3. ASSUME Present(r)', ~m.over PROVE Tuned(r)' /\ (m.seq + 1)..Told(r)' \subseteq Coming(r)'
      <4>1. Present(r) /\ Tuned(r)' /\ Tuned(r) /\ (m.seq + 1)..Told(r) \subseteq Coming(r)
        BY <3>2, <3>3 DEF Passed
      <4>2. m.seq + 1 \in Nat /\ Coming(r) \subseteq Coming(r)'
        BY <3>1 DEF Passed
      <4> QED
        BY <3>3, <4>1, <4>2, PassedReach
    <3> QED
        BY <3>2, <3>3
  <2>2. CASE m \notin Frames(r, "accepted")
    <3>1. m.kind = "accepted" /\ m.run = r /\ Reply(m)
        BY <1>3, <2>2 DEF Adds
    <3>2. /\ phase = "resending" => r \in unbound
          /\ m.seq = log'[r].seq
          /\ ~m.over => log'[r].end = 0 /\ Tuned(r)'
        BY <3>1 DEF Reply
    <3>3. phase = "resending" => shown[r] = <<>>
        BY <1>2, <3>2 DEF Wanted
    <3>4. log'[r].seq \in Nat
        BY DEF ServerData
    <3>5. ~m.over => Told(r)' = m.seq
        BY <3>2 DEF Told
    <3>6. ~m.over => (m.seq + 1)..Told(r)' = {}
        BY <3>2, <3>4, <3>5
    <3> QED
        BY <3>2, <3>3, <3>6
  <2> QED
    BY <2>1, <2>2
<1> QED
    BY <1>1, <1>3 DEF Answered

\* The Run whose replay goes on.
LEMMA ContinuesRun ==
    ASSUME FeedInv, NEW q \in Runs, NEW from \in Nat, Continues(q, from)
    PROVE  /\ Follow(q) \/ Pends(q)
           /\ Heeded(q) => Follow(q) /\ from = cursor[q].seq
           /\ paging # NoPage => paging.run = q
<1>1. CASE paging = NoPage /\ q \in DOMAIN cursor \ replayed /\ from = cursor[q].seq
    BY <1>1 DEF Follow
<1>2. CASE paging = [run |-> q, from |-> from]
  <2>1. paging.run = q /\ paging.from = from
    BY <1>2
  <2>2. paging # NoPage
    BY <2>1, FeedAssumption DEF NoPage
  <2>3. Pends(q)
    BY <2>1, <2>2 DEF Pends
  <2>4. Paging(q)
    BY DEF FeedInv, RunInv
  <2> QED
    BY <2>1, <2>3, <2>4 DEF Paging
<1> QED
    BY <1>1, <1>2 DEF Continues

\* A page that comes goes on from the cursor, and the last one reaches what is to come.
LEMMA NewFits ==
    ASSUME FeedInv, StaysPut, ServerData', NEW r \in Runs, Adds(r), Passed(r), Heeded(r),
           NEW m, m.kind = "page", m.run = r, Reply(m)
    PROVE  r \in replayed' /\ Fits(r, m.events, m.more)'
<1>1. PICK q \in Runs, from \in Nat : Replies(m, q, from)
    BY DEF Reply
<1>2. /\ q = r /\ Present(r) /\ Present(r)' /\ r \in replayed' /\ Continues(r, from)
      /\ IsPage(m, r, from, log'[r])
    BY <1>1, PresentStays DEF Replies
<1>3. Follow(r) /\ from = cursor[r].seq /\ cursor' = cursor
    BY <1>2, ContinuesRun, StaysPutKeeps
<1>4. PICK u \in Nat : /\ Seqs(m.events, r) = (from + 1)..u
                       /\ u <= log'[r].seq /\ (m.more => u > from) /\ (~m.more => u = log'[r].seq)
    BY <1>2 DEF IsPage
<1>5. from <= log[r].seq
    BY <1>2, <1>3 DEF FeedInv, RunInv, Levels
<1>6. /\ log[r].seq \in Nat /\ log'[r].seq \in Nat /\ Told(r)' \in Nat
      /\ Told(r)' <= log'[r].seq /\ log[r].seq <= log'[r].seq
    BY <1>2 DEF Passed
<1>7. u >= from
    BY <1>4, <1>5, <1>6
<1>8. ~m.more => (u + 1)..Told(r)' = {}
    BY <1>4, <1>6
<1> QED
    BY <1>2, <1>3, <1>4, <1>7, <1>8 DEF Fits

\* And a page that was under way still does.
LEMMA OldFits ==
    ASSUME FeedInv, StaysPut, NEW r \in Runs, Adds(r), Passed(r), Heeded(r),
           NEW m \in Frames(r, "page")
    PROVE  Fits(r, m.events, m.more)'
<1>1. /\ cursor' = cursor /\ (Alive(r)' => Alive(r))
    BY StaysPutKeeps
<1>2. r \in replayed /\ Fits(r, m.events, m.more) /\ Follows(r)
    BY DEF FeedInv, RunInv, Paging
<1>3. PICK u \in Nat :
        /\ u >= cursor[r].seq /\ Seqs(m.events, r) = (cursor[r].seq + 1)..u
        /\ m.more => u > cursor[r].seq
        /\ ~m.more /\ Alive(r) => (u + 1)..Told(r) \subseteq Waiting(r)
    BY <1>2 DEF Fits
<1>4. phase = "replaying"
    BY DEF FeedInv, DeletionInv, Waits, Frames
<1>5. ASSUME ~m.more, Alive(r)' PROVE (u + 1)..Told(r)' \subseteq Waiting(r)'
  <2>1. Tuned(r) /\ Present(r)' /\ (u + 1)..Told(r) \subseteq Waiting(r) /\ u + 1 \in Nat
    BY <1>1, <1>2, <1>3, <1>4, <1>5 DEF Follows, Recovering, Alive
  <2>2. Waiting(r) \subseteq Waiting(r)' /\ Coming(r)' \subseteq Waiting(r)'
    BY DEF Passed, Waiting
  <2> QED
    BY <2>1, <2>2, PassedReach
<1> QED
    BY <1>1, <1>3, <1>5 DEF Fits

LEMMA GrowsPaging ==
    ASSUME FeedInv, StaysPut, Replayed, ServerData', NEW r \in Runs, Adds(r), Passed(r)
    PROVE  Paging(r)'
<1>1. /\ (Follow(r)' <=> Follow(r)) /\ (Heeded(r)' <=> Heeded(r)) /\ cursor' = cursor
    BY StaysPutKeeps
<1>2. Paging(r)
    BY DEF FeedInv, RunInv
<1>3. /\ replayed \subseteq replayed'
      /\ paging' # NoPage => paging' = paging
    BY DEF StaysPut
<1>4. Pends(r)' => Pends(r) /\ paging' = paging
    BY <1>3 DEF Pends
<1>5. \A m \in Frames(r, "page")' : r \in replayed'
  <2>1. ASSUME NEW m \in Frames(r, "page")' PROVE r \in replayed'
    <3>1. CASE m \in Frames(r, "page")
        BY <1>2, <1>3, <3>1 DEF Paging
    <3>2. CASE m \notin Frames(r, "page")
      <4>1. m.kind = "page" /\ m.run = r /\ Reply(m)
        BY <2>1, <3>2 DEF Adds
      <4>2. PICK q \in Runs, from \in Nat : Replies(m, q, from)
        BY <4>1 DEF Reply
      <4> QED
        BY <4>1, <4>2 DEF Replies
    <3> QED
        BY <3>1, <3>2
  <2> QED
    BY <2>1
<1>6. Pends(r)' => r \in replayed'
    BY <1>2, <1>3, <1>4 DEF Paging
<1>7. ASSUME r \in replayed', Heeded(r) PROVE Follow(r)
  <2>1. CASE r \in replayed
    BY <1>2, <1>7, <2>1 DEF Paging
  <2>2. CASE r \notin replayed
    <3>1. PICK q \in Runs, from \in Nat : Continues(q, from) /\ replayed' = replayed \union {q}
        BY <1>7, <2>2 DEF Replayed
    <3>2. q = r
        BY <1>7, <2>2, <3>1
    <3> QED
        BY <1>7, <3>1, <3>2, ContinuesRun
  <2> QED
    BY <2>1, <2>2
<1>8. ASSUME Heeded(r), NEW m \in Frames(r, "page")' PROVE Fits(r, m.events, m.more)'
  <2>1. CASE m \in Frames(r, "page")
    BY <1>8, <2>1, OldFits
  <2>2. CASE m \notin Frames(r, "page")
    <3>1. m.kind = "page" /\ m.run = r /\ Reply(m)
        BY <1>8, <2>2 DEF Adds
    <3> QED
        BY <1>8, <3>1, NewFits
  <2> QED
    BY <2>1, <2>2
<1>9. Heeded(r) /\ Pends(r)' => paging'.from = cursor[r].seq
    BY <1>2, <1>4 DEF Paging
<1> QED
    BY <1>1, <1>5, <1>6, <1>7, <1>8, <1>9 DEF Paging

LEMMA GrowsFollows ==
    ASSUME FeedInv, StaysPut, Tried, Replayed, NEW r \in Runs, Adds(r), Passed(r)
    PROVE  Follows(r)'
<1>1. /\ (Follow(r)' <=> Follow(r)) /\ cursor' = cursor /\ phase' = phase /\ Kept(r)' = Kept(r)
      /\ (Present(r)' /\ SessionOf[r] \in subs => SessionOf[r] \in subs')
      /\ (Alive(r)' => Alive(r))
    BY StaysPutKeeps
<1>2. Follows(r) /\ Levels(r)
    BY DEF FeedInv, RunInv
<1>3. ASSUME Alive(r)' PROVE Recovering(r)'
  <2>1. Alive(r) /\ Recovering(r) /\ Present(r) /\ Present(r)' /\ Follow(r) /\ cursor[r].seq \in Nat
    <3>1. Alive(r) /\ Recovering(r)
        BY <1>1, <1>2, <1>3 DEF Follows
    <3>2. Follow(r) => cursor[r].seq \in Nat
        BY NumbersAre DEF FeedInv, DeletionInv
    <3> QED
        BY <1>3, <3>1, <3>2 DEF Alive
  <2>2. Tuned(r) => Tuned(r)'
    BY <2>1 DEF Passed
  <2>3. Tuned(r) /\ Reaches(r) => Reaches(r)'
    <3>1. ASSUME Tuned(r), Reaches(r) PROVE Reaches(r)'
      <4>1. (cursor[r].seq + 1)..Told(r) \subseteq Waiting(r) /\ cursor[r].seq + 1 \in Nat
        BY <2>1, <3>1 DEF Reaches
      <4>2. Waiting(r) \subseteq Waiting(r)' /\ Coming(r)' \subseteq Waiting(r)'
        BY DEF Passed, Waiting
      <4>3. (cursor[r].seq + 1)..Told(r)' \subseteq Waiting(r)'
        BY <2>1, <3>1, <4>1, <4>2, PassedReach
      <4> QED
        BY <1>1, <4>3 DEF Reaches
    <3> QED
        BY <3>1
  <2>4. Doomed(r)' <=> Doomed(r)
    BY <1>1 DEF Doomed
  <2>5. phase = "subscribing" => SessionOf[r] \in todo' \union subs'
    BY <1>1, <2>1 DEF Recovering, Tried, Present
  <2>6. phase = "replaying" => SessionOf[r] \in subs'
    BY <1>1, <2>1 DEF Recovering
  <2>7. ASSUME phase = "replaying", r \in replayed'
        PROVE  Tuned(r)' /\ (Reaches(r)' \/ Pends(r)' \/ Frames(r, "page")' # {})
    <3>1. CASE replayed' = replayed /\ paging' = paging
      <4>1. Tuned(r) /\ (Reaches(r) \/ Pends(r) \/ Frames(r, "page") # {})
        BY <2>1, <2>7, <3>1 DEF Recovering
      <4>2. Pends(r) => Pends(r)'
        BY <3>1 DEF Pends
      <4>3. Frames(r, "page") \subseteq Frames(r, "page")'
        BY DEF Adds
      <4> QED
        BY <2>2, <2>3, <4>1, <4>2, <4>3
    <3>2. ASSUME NEW q \in Runs, NEW from \in Nat, Continues(q, from),
                 replayed' = replayed \union {q},
                 Present(q)' => ~Orphan(q)' /\ Frames(q, "page")' # {}
          PROVE  Tuned(r)' /\ (Reaches(r)' \/ Pends(r)' \/ Frames(r, "page")' # {})
      <4>1. CASE q = r
        <5>1. ~Orphan(r)' /\ Frames(r, "page")' # {}
            BY <2>1, <3>2, <4>1
        <5>2. log[r].seq > 0
            BY <1>2, <2>1 DEF Levels
        <5>3. log'[r].seq > 0
            BY <2>1, <5>2 DEF Passed
        <5>4. log'[r].end # 0 \/ r \in executing'
            BY <5>1, <5>3 DEF Orphan
        <5>5. Heard(r)'
            BY <2>6, <2>7 DEF Heard
        <5> QED
            BY <5>1, <5>4, <5>5 DEF Tuned
      <4>2. CASE q # r
        <5>1. r \in replayed
            BY <2>7, <3>2, <4>2
        <5>2. Tuned(r) /\ (Reaches(r) \/ Pends(r) \/ Frames(r, "page") # {})
            BY <2>1, <2>7, <5>1 DEF Recovering
        <5>3. ~Pends(r)
            BY <3>2, <4>2, ContinuesRun DEF Pends
        <5>4. Frames(r, "page") \subseteq Frames(r, "page")'
            BY DEF Adds
        <5> QED
            BY <2>2, <2>3, <5>2, <5>3, <5>4
      <4> QED
        BY <4>1, <4>2
    <3> QED
        BY <3>1, <3>2 DEF Replayed
  <2>8. phase \in {"resending", "draining"} => Tuned(r)' /\ (Reaches(r)' \/ Doomed(r)')
    BY <2>1, <2>2, <2>3, <2>4 DEF Recovering
  <2>9. phase = "active" => Tuned(r)' /\ Reaches(r)'
    BY <2>1, <2>2, <2>3 DEF Recovering
  <2> QED
    BY <1>1, <2>5, <2>6, <2>7, <2>8, <2>9 DEF Recovering
<1> QED
    BY <1>1, <1>2, <1>3 DEF Follows

\* In which order it comes then.
LEMMA GrowsOrders ==
    ASSUME FeedInv, StaysPut, NEW evs, NEW rep, Growth(evs, rep),
           \A r \in Runs : Adds(r) /\ Passed(r)
    PROVE  Orders'
<1>1. FeedData /\ Orders
    BY DEF FeedInv, DeletionInv
<1>2. PICK l \in Nat, p \in Nat : l = Len(toClient) /\ p = Len(evs)
    BY <1>1, GrowthFrames
<1>3. /\ DOMAIN toClient = 1..l /\ DOMAIN evs = 1..p
      /\ \A i \in DOMAIN toClient' :
            \/ i \in DOMAIN toClient /\ toClient'[i] = toClient[i]
            \/ \E k \in DOMAIN evs : i = l + k /\ toClient'[i] = evs[k]
            \/ /\ i = l + p + 1 /\ 1 \in DOMAIN rep
               /\ toClient'[i] = rep[1] /\ rep[1] \in FeedFrames /\ Reply(rep[1])
    BY <1>1, <1>2, GrowthFrames
<1>4. /\ \A k \in DOMAIN evs : /\ evs[k] \in FeedEvents /\ evs[k].kind = "event" /\ evs[k].run \in Runs
                               /\ evs[k].seq = log[evs[k].run].seq + 1 /\ Present(evs[k].run)
      /\ \A k, j \in DOMAIN evs : evs[k].run = evs[j].run => k = j
    BY FeedEventKinds DEF Growth, Published
<1>5. \A k \in DOMAIN evs : Present(evs[k].run)' =>
          log'[evs[k].run].seq = log[evs[k].run].seq + 1
  <2>1. ASSUME NEW k \in DOMAIN evs, NEW r \in Runs, evs[k].run = r, Present(r)'
        PROVE  log'[r].seq = log[r].seq + 1
    <3>1. MoreLog(r)
        BY <2>1 DEF Growth
    <3> QED
        BY <3>1 DEF MoreLog
  <2>2. ASSUME NEW k \in DOMAIN evs, Present(evs[k].run)'
        PROVE  log'[evs[k].run].seq = log[evs[k].run].seq + 1
    <3>1. PICK r \in Runs : r = evs[k].run
        BY <1>4
    <3>2. Present(r)'
        BY <2>2, <3>1 DEF Present
    <3> QED
        BY <2>1, <3>1, <3>2
  <2> QED
    BY <2>2
\* What was under way is not ahead of the log.
<1>6. ASSUME NEW i \in DOMAIN toClient, NEW r \in Runs, toClient[i].run = r, Present(r)
      PROVE  /\ log[r].seq \in Nat
             /\ toClient[i].kind \in {"event", "accepted"} =>
                    toClient[i].seq \in Nat /\ toClient[i].seq <= log[r].seq
             /\ toClient[i].kind = "page" =>
                    \A e \in toClient[i].events : e.seq \in Nat /\ e.seq <= log[r].seq
  <2>1. PICK f : f = toClient[i]
    OBVIOUS
  <2>2. f \in Frames(r, f.kind)
    BY <1>6, <2>1 DEF Frames
  <2>3. Levels(r)
    BY DEF FeedInv, RunInv
  <2>4. f.kind = "event" => f.seq \in Nat /\ f.seq <= log[r].seq
    BY <1>1, <1>6, <2>2, <2>3, FramesAre DEF Levels
  <2>5. f.kind = "accepted" => f.seq \in Nat /\ f.seq <= log[r].seq
    BY <1>1, <1>6, <2>2, <2>3, FramesAre DEF Levels
  <2>6. f.kind = "page" => \A e \in f.events : e.seq \in Nat /\ e.seq <= log[r].seq
    <3>1. ASSUME f.kind = "page" PROVE \A e \in f.events : e.seq \in Nat /\ e.seq <= log[r].seq
      <4>1. f \in Frames(r, "page") /\ f \in FeedPages
        BY <1>1, <2>2, <3>1, FramesAre
      <4>2. \A e \in f.events : e.seq \in Nat
        BY <4>1, PageKindsAre, FeedEventKinds
      <4> QED
        BY <1>6, <2>3, <4>1, <4>2 DEF Levels
    <3> QED
        BY <3>1
  <2>7. log[r].seq \in Nat
    BY DEF Passed
  <2> QED
    BY <2>1, <2>4, <2>5, <2>6, <2>7
<1>7. ASSUME NEW i \in DOMAIN toClient, NEW k \in DOMAIN evs PROVE Before(toClient[i], evs[k])
  <2>1. PICK f, g : f = toClient[i] /\ g = evs[k]
    OBVIOUS
  <2>2. g.kind = "event" /\ g.run \in Runs /\ g.seq = log[g.run].seq + 1 /\ Present(g.run)
    BY <1>4, <2>1
  <2>3. f.run = g.run =>
            /\ log[g.run].seq \in Nat
            /\ f.kind \in {"event", "accepted"} => f.seq \in Nat /\ f.seq <= log[g.run].seq
            /\ f.kind = "page" => \A e \in f.events : e.seq \in Nat /\ e.seq <= log[g.run].seq
    <3>1. PICK r \in Runs : r = g.run
        BY <2>2
    <3>2. Present(r)
        BY <2>2, <3>1 DEF Present
    <3> QED
        BY <1>6, <2>1, <3>1, <3>2
  <2>4. f.run = g.run =>
            /\ f.kind \in {"event", "accepted"} => f.seq < g.seq
            /\ f.kind = "page" => \A e \in f.events : e.seq < g.seq
    BY ONLY <2>2, <2>3
  <2>5. g.kind # "accepted"
    BY <2>2
  <2>6. Before(f, g)
    BY <2>4, <2>5 DEF Before
  <2> QED
    BY <2>1, <2>6
<1>8. ASSUME NEW i \in DOMAIN toClient, NEW m \in FeedFrames, Reply(m) PROVE Before(toClient[i], m)
  <2>1. PICK f : f = toClient[i]
    OBVIOUS
  <2>2. ASSUME m.kind = "accepted", f.kind = "event", f.run = m.run PROVE f.seq <= m.seq
    <3>1. PICK r \in Runs : r = m.run
        BY <2>2, FeedKinds
    <3>2. m.seq = log'[r].seq /\ Present(r)'
        BY <1>8, <2>2, <3>1 DEF Reply
    <3>3. Present(r) /\ log[r].seq \in Nat /\ log'[r].seq \in Nat /\ log[r].seq <= log'[r].seq
        BY <3>2 DEF Passed
    <3>4. f.seq \in Nat /\ f.seq <= log[r].seq
        BY <1>6, <2>1, <2>2, <3>1, <3>3
    <3> QED
        BY <3>2, <3>3, <3>4
  <2>3. m.kind # "event"
    BY <1>8 DEF Reply
  <2>4. Before(f, m)
    BY <2>2, <2>3 DEF Before
  <2> QED
    BY <2>1, <2>4
<1>9. ASSUME NEW k \in DOMAIN evs, NEW m \in FeedFrames, Reply(m) PROVE Before(evs[k], m)
  <2>1. PICK f : f = evs[k]
    OBVIOUS
  <2>2. ASSUME m.kind = "accepted", f.run = m.run PROVE f.seq <= m.seq
    <3>1. PICK r \in Runs : r = m.run
        BY <2>2, FeedKinds
    <3>2. m.seq = log'[r].seq /\ Present(r)'
        BY <1>9, <2>2, <3>1 DEF Reply
    <3>3. f.seq = log[r].seq + 1
        BY <1>4, <2>1, <2>2, <3>1
    <3>4. Present(evs[k].run)'
        BY <2>1, <2>2, <3>1, <3>2 DEF Present
    <3>5. log'[r].seq = log[r].seq + 1 /\ log'[r].seq \in Nat
        BY <1>5, <2>1, <2>2, <3>1, <3>4 DEF Passed
    <3> QED
        BY <3>2, <3>3, <3>5
  <2>3. m.kind # "event"
    BY <1>9 DEF Reply
  <2>4. Before(f, m)
    BY <2>2, <2>3 DEF Before
  <2> QED
    BY <2>1, <2>4
<1>10. ASSUME NEW k \in DOMAIN evs, NEW j \in DOMAIN evs, k # j PROVE Before(evs[k], evs[j])
    BY <1>4, <1>10 DEF Before
<1>11. ASSUME NEW i \in DOMAIN toClient', NEW j \in DOMAIN toClient', i < j
       PROVE  Before(toClient'[i], toClient'[j])
  <2>1. \/ i \in 1..l /\ toClient'[i] = toClient[i]
        \/ \E k \in 1..p : i = l + k /\ toClient'[i] = evs[k]
        \/ i = l + p + 1
    BY <1>3
  <2>2. \/ j \in 1..l /\ toClient'[j] = toClient[j]
        \/ \E k \in 1..p : j = l + k /\ toClient'[j] = evs[k]
        \/ j = l + p + 1 /\ toClient'[j] \in FeedFrames /\ Reply(toClient'[j])
    BY <1>3
  <2>3. CASE i \in 1..l /\ toClient'[i] = toClient[i]
    <3>1. CASE j \in 1..l /\ toClient'[j] = toClient[j]
        BY <1>1, <1>3, <1>11, <2>3, <3>1 DEF Orders
    <3>2. CASE ~(j \in 1..l /\ toClient'[j] = toClient[j])
      <4>1. i \in DOMAIN toClient
        BY <1>3, <2>3
      <4> QED
        BY <1>3, <1>7, <1>8, <2>2, <2>3, <3>2, <4>1
    <3> QED
        BY <3>1, <3>2
  <2>4. ASSUME NEW k \in 1..p, i = l + k, toClient'[i] = evs[k]
        PROVE  Before(toClient'[i], toClient'[j])
    <3>1. k \in DOMAIN evs
        BY <1>3, <2>4
    <3>2. j \notin 1..l
        BY <1>11, <2>4
    <3>3. ASSUME NEW n \in 1..p, j = l + n, toClient'[j] = evs[n]
          PROVE  Before(toClient'[i], toClient'[j])
      <4>1. n # k /\ n \in DOMAIN evs
        BY <1>3, <1>11, <2>4, <3>3
      <4> QED
        BY <1>10, <2>4, <3>1, <3>3, <4>1
    <3> QED
        BY <1>9, <2>2, <2>4, <3>1, <3>2, <3>3
  <2>5. i # l + p + 1
    BY <1>11, <2>2
  <2> QED
    BY <2>1, <2>3, <2>4, <2>5
<1> QED
    BY <1>11 DEF Orders

LEMMA GrowsShown ==
    ASSUME FeedInv, Growing
    PROVE  ShownStep
<1>1. FeedData /\ LogInv /\ Quiet /\ ShownData
    BY DEF FeedInv, DeletionInv
<1>2. Unasked
  <2>1. \A r \in Runs : Wanted(r)
    BY DEF FeedInv, RunInv
  <2> QED
    BY <2>1, FeedAssumption DEF Unasked, Wanted
<1>3. ServerData' /\ LogInv' /\ Grows
    BY <1>1, GrowingAll
<1>4. Beside
    BY <1>1, <1>2, GrowingBeside
<1>5. StaysPut
    BY <1>3 DEF Grows
<1>6. PICK evs, rep : Growth(evs, rep)
    BY <1>3 DEF Grows
<1>7. \A r \in Runs : Adds(r)
    BY <1>1, <1>5, <1>6, GrowthAdds
<1>8. \A r \in Runs : Passed(r)
    BY <1>1, <1>3, <1>5, <1>7, AddsPassed
<1>9. ASSUME NEW r \in Runs PROVE RunInv(r)'
  <2>1. Wanted(r)' /\ Showing(r)' /\ Levels(r)'
    BY <1>4, <1>5, <1>7, <1>8, GrowsLevels DEF Beside
  <2>2. Stream(r)' /\ Answered(r)'
    BY <1>3, <1>5, <1>7, <1>8, GrowsStream, GrowsAnswered
  <2>3. Paging(r)' /\ Follows(r)'
    BY <1>3, <1>4, <1>5, <1>7, <1>8, GrowsPaging, GrowsFollows DEF Beside
  <2> QED
    BY <2>1, <2>2, <2>3 DEF RunInv
<1>10. Orders'
    BY <1>5, <1>6, <1>7, <1>8, GrowsOrders
<1>11. ShownData'
    BY <1>1, <1>5 DEF ShownData, StaysPut
<1> QED
    BY <1>9, <1>10, <1>11 DEF ShownStep

-----------------------------------------------------------------------------
(* Nothing is missing.                                                     *)

LEMMA FirstShown == ASSUME FeedInit PROVE FeedInv
<1>1. /\ log = [r \in Runs |-> [seq |-> 0, end |-> 0]]
      /\ toServer = {} /\ toClient = <<>> /\ phase = "down"
      /\ replayed = {} /\ paging = NoPage /\ provisional = {} /\ cursor = <<>> /\ unbound = {}
      /\ shown = [r \in Runs |-> <<>>] /\ sent = {}
    BY DEF FeedInit
<1>2. ShownData
  <2>1. cursor \in FeedCursors
    BY <1>1, CursorKinds
  <2>2. <<>> \in Seq(Nat)
    OBVIOUS
  <2> QED
    BY <1>1, <2>1, <2>2 DEF ShownData
<1>3. ASSUME NEW r \in Runs PROVE RunInv(r)
  <2>1. (\A k : Frames(r, k) = {}) /\ Coming(r) = {} /\ Kept(r) = {} /\ Waiting(r) = {}
    <3>1. \A k : Frames(r, k) = {}
        BY <1>1 DEF Frames
    <3> QED
        BY <1>1, <3>1 DEF Coming, Kept, Waiting, Seqs
  <2>2. ~Follow(r) /\ r \notin unbound /\ shown[r] = <<>> /\ log[r].seq = 0 /\ ~Pends(r)
    BY <1>1 DEF Follow, Pends
  <2>3. Wanted(r) /\ Levels(r)
    BY <1>1, <2>1, <2>2 DEF Wanted, Levels
  <2>4. Showing(r)
    BY <2>1, <2>2 DEF Showing, Consecutive, IsInterval
  <2>5. Stream(r) /\ Answered(r)
    BY <2>1 DEF Stream, Answered, Gapless
  <2>6. Paging(r) /\ Follows(r)
    BY <1>1, <2>1, <2>2 DEF Paging, Follows, Alive
  <2> QED
    BY <2>3, <2>4, <2>5, <2>6 DEF RunInv
<1>4. Orders
    BY <1>1 DEF Orders
<1> QED
    BY <1>2, <1>3, <1>4, FirstDeletions DEF FeedInv

LEMMA NextShown == ASSUME FeedInv, FeedNext PROVE FeedInv'
<1>1. ShownStep
  <2>1. CASE Growing
    BY <2>1, GrowsShown
  <2>2. CASE EventUnknown \/ RendererRefuses \/ ConnectionLost \/ (FailedArrives /\ phase # "active")
    BY <2>2, ClosingShown DEF ShownStep
  <2>3. CASE EventDropped \/ RetiredStaged \/ RetiredAsked \/ SubscribedArrives \/ RefusedArrives
             \/ (FailedArrives /\ phase = "active")
    BY <2>3, FrameShown
  <2>4. CASE MissingArrives \/ Acknowledged \/ ListArrives
    BY <2>4, MissingShown, AcknowledgedShown, ListShown
  <2>5. CASE Retires \/ Subscribes \/ Connect \/ (\E r \in Runs : Send(r))
    BY <2>5, NextPhaseShown, ConnectShown, SendShown
  <2>6. CASE AcceptedArrives \/ EventKept \/ EventDelivered \/ PageArrives \/ Replays \/ Drains
    BY <2>6, AcceptedShown, KeptShown, DeliveredShown, PageShown, FlushShown
  <2>7. Growing \/ Arrives \/ RendererRefuses \/ ConnectionLost \/ Connect \/ Acknowledged \/ Retires
        \/ Subscribes \/ (\E r \in Runs : Send(r)) \/ Replays \/ Drains
    BY DEF FeedNext, Recovers, Serves, Others, Growing
  <2> QED
    BY <2>1, <2>2, <2>3, <2>4, <2>5, <2>6, <2>7 DEF Arrives
<1>2. DeletionInv'
    BY NextDeletions DEF FeedInv
<1> QED
    BY <1>1, <1>2 DEF ShownStep, FeedInv

LEMMA StutterShown == ASSUME FeedInv, UNCHANGED feedVars PROVE FeedInv'
<1>1. /\ UNCHANGED <<server, hub, toClient, shown, provisional, replayed, paging, phase, todo>>
      /\ UNCHANGED <<toServer, cursor, unbound, retirement, sent>>
    BY DEF feedVars, channel, recovery, client, renderer, budget
<1>2. FeedData /\ ShownData /\ cursor' \in FeedCursors
    BY <1>1 DEF FeedInv, DeletionInv, ShownData
<1>3. \A r \in Runs : Forgets(r)
    BY <1>1 DEF Forgets, Follow, Heeded
<1>4. ShownStep
    BY <1>1, <1>2, <1>3, PlainShown
<1>5. DeletionInv'
    BY StutterDeletions DEF FeedInv
<1> QED
    BY <1>4, <1>5 DEF ShownStep, FeedInv

LEMMA ShownWhole == ASSUME FeedInv PROVE NothingMissing
<1>1. FeedData /\ ShownData /\ Quiet /\ Orders
    BY DEF FeedInv, DeletionInv
<1>2. ASSUME NEW r \in Runs PROVE Consecutive(shown[r])
    BY DEF FeedInv, RunInv, Showing
<1>3. ASSUME phase = "active", NEW r \in DOMAIN cursor, retirement[SessionOf[r]] = "none",
             SessionOf[r] \notin retired
      PROVE  /\ {toClient[i].seq : i \in UnderWay(r)} = (cursor[r].seq + 1)..Told(r)
             /\ \A i, j \in UnderWay(r) : i < j => toClient[i].seq < toClient[j].seq
             /\ log[r].end # 0 \/ (r \in executing /\ Heard(r))
  <2>1. r \in Runs
    BY <1>1, <1>3, CursorKinds DEF ShownData
  <2>2. Levels(r) /\ Follows(r)
    BY <2>1 DEF FeedInv, RunInv
  <2>3. Follow(r) /\ Alive(r)
    BY <1>3, <2>2 DEF Follow, Follows, Alive, Heeded, Present
  <2>4. Tuned(r) /\ Reaches(r)
    BY <1>3, <2>2, <2>3 DEF Follows, Recovering
  <2>5. provisional = {}
    BY <1>1, <1>3 DEF Quiet
  <2>6. Waiting(r) = Coming(r)
    BY <2>5 DEF Waiting, Kept, Seqs
  <2>7. cursor[r].seq \in Nat /\ Told(r) \in Nat
    BY <1>1, <2>1, <2>3, NumbersAre
  <2>8. \A i \in UnderWay(r) : /\ toClient[i].seq \in Coming(r) /\ toClient[i].seq <= Told(r)
                               /\ i \in DOMAIN toClient
                               /\ toClient[i].kind = "event" /\ toClient[i].run = r
    BY DEF UnderWay, Coming, Frames
  <2>9. Coming(r) \subseteq Nat /\ \A n \in Coming(r) : cursor[r].seq < n
    BY <1>1, <2>1, <2>2, <2>3, FramesAre DEF Levels
  <2>10. \A i \in UnderWay(r) : toClient[i].seq \in (cursor[r].seq + 1)..Told(r)
    BY <2>7, <2>8, <2>9
  <2>11. ASSUME NEW n \in (cursor[r].seq + 1)..Told(r)
         PROVE  \E i \in UnderWay(r) : toClient[i].seq = n
    <3>1. n \in Coming(r) /\ n <= Told(r)
        BY <2>4, <2>6, <2>7 DEF Reaches
    <3>2. PICK i \in DOMAIN toClient :
              toClient[i].kind = "event" /\ toClient[i].run = r /\ toClient[i].seq = n
        BY <3>1 DEF Coming, Frames
    <3> QED
        BY <3>1, <3>2 DEF UnderWay
  <2>12. {toClient[i].seq : i \in UnderWay(r)} = (cursor[r].seq + 1)..Told(r)
    BY <2>10, <2>11
  <2>13. \A i, j \in UnderWay(r) : i < j => toClient[i].seq < toClient[j].seq
    BY <1>1, <2>8 DEF Orders, Before
  <2> QED
    BY <2>4, <2>12, <2>13 DEF Tuned
<1> QED
    BY <1>2, <1>3 DEF NothingMissing, Followed

\* The renderer is shown the events of a Run one after the other, and of a Run that an
\* active Desktop follows the rest is under way, in order and without a gap, however
\* lost connections, recoveries, restarts, deletions and other clients interleave.
THEOREM NothingIsEverMissing == FeedSpec => []NothingMissing
<1>1. FeedInit => FeedInv
    BY FirstShown
<1>2. FeedInv /\ [FeedNext]_feedVars => FeedInv'
    BY NextShown, StutterShown
<1>3. FeedInv => NothingMissing
    BY ShownWhole
<1> QED
    BY <1>1, <1>2, <1>3, PTL DEF FeedSpec
==============================================================================
