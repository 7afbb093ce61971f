----------------------------- MODULE MobileChat -----------------------------
(***************************************************************************)
(* One chat on the screen of a mobile app: chat-session-controller.ts, the *)
(* screen that owns it, and the handlers of the agents server it calls.    *)
(*                                                                         *)
(* The app keeps nothing.  A controller lives as long as its screen and its*)
(* connection: it subscribes to the Session, reads every page of it, sets  *)
(* the events aside that come meanwhile and drains them, and from then on  *)
(* applies live events as they come.  An event of a Run it does not know   *)
(* has it read the Session again.  A message is sent under a request that  *)
(* is kept while its outcome is unknown, so that a retry asks for the same *)
(* Run.  The server publishes an event to the connection the Run's request *)
(* is bound to and to the device once it has subscribed.                   *)
(*                                                                         *)
(* The connection carries frames in order, both ways.  What a frame sets   *)
(* off without waiting for another comes before the next frame is read.    *)
(***************************************************************************)
EXTENDS Naturals, FiniteSets, Sequences, SequencesExt

CONSTANTS
    Runs,       \* a Run of the Session and the request that asks for it
    MaxSeq,     \* the events of a Run
    PageLimit,  \* SNAPSHOT_PAGE_LIMIT
    MaxScreens, \* how often the chat is opened
    MaxChatFaults   \* lost connections, requests that run out of time

ASSUME ChatAssumption ==
    /\ Runs \subseteq Nat \ {0} /\ IsFiniteSet(Runs)
    /\ MaxSeq \in Nat \ {0, 1}
    /\ PageLimit \in Nat \ {0}
    /\ MaxScreens \in Nat /\ MaxChatFaults \in Nat

VARIABLES
    log,         \* the events of each Run: how many, and which one ended it (0: none)
    made,        \* the Runs of the Session, in the order they were made
    alive,       \* #activeRuns of the server
    deleted,     \* whether the Session was deleted
    starting,    \* the send whose Project is being looked at, and who waits for it
    route,       \* #bindingsByRequestId: the requests bound to this connection
    subscribed,  \* #subscriptionsBySession: whether the device is
    toServer, toClient,
    screen,      \* which screen, the phase of its controller, why it failed
    view,        \* the Runs shown, the numbers of the events each has taken in
    provisional, \* events set aside
    batch,       \* those of them that are being drained
    draining,    \* whether a drain is under way (#liveDrain, or that of start)
    job,         \* what start or a drain waits for
    draft,       \* what the user has written, a number for each text
    asked,       \* the text each request of this device was for (0: none)
    pending,     \* #pendingSend
    sending,     \* whether the screen waits for the answer to a send
    chatFaults

session == <<log, made, alive, deleted, starting>>
hub     == <<route, subscribed>>
channel == <<toServer, toClient>>
work    == <<provisional, batch, draining, job>>
writing == <<draft, asked, pending, sending>>
chatVars    == <<session, hub, channel, screen, view, work, writing, chatFaults>>

Nobody    == 0
NoSend    == [run |-> 0, of |-> Nobody]
NoEvent   == [kind |-> "none"]
NoJob     == [kind |-> "none"]
NoReserve == [run |-> 0, draft |-> 0]

Event(r, n)            == [kind |-> "event", run |-> r, seq |-> n]
Subscribed(of)         == [kind |-> "subscribed", of |-> of]
Page(of, found, next)  == [kind |-> "page", of |-> of, found |-> found, next |-> next]
Missing(of)            == [kind |-> "missing", of |-> of]
Accepted(of, r, n)     == [kind |-> "accepted", of |-> of, run |-> r, seq |-> n]
Refused(of)            == [kind |-> "refused", of |-> of]
Failed(of)             == [kind |-> "failed", of |-> of]

Subscribing(of)        == [kind |-> "subscribe", of |-> of]
Unsubscribing          == [kind |-> "unsubscribe"]
Paging(of, after)      == [kind |-> "page", of |-> of, after |-> after]
Sending(of, r)         == [kind |-> "send", of |-> of, run |-> r]

ChatInit ==
    /\ log = [r \in Runs |-> [seq |-> 0, end |-> 0]]
    /\ made = <<>> /\ alive = {} /\ deleted = FALSE /\ starting = NoSend
    /\ route = {} /\ subscribed = FALSE
    /\ toServer = <<>> /\ toClient = <<>>
    /\ screen = [id |-> 0, phase |-> "none", why |-> "none"]
    /\ view = <<>>
    /\ provisional = {} /\ batch = {} /\ draining = FALSE /\ job = NoJob
    /\ draft = 1 /\ asked = [r \in Runs |-> 0] /\ pending = NoReserve /\ sending = FALSE
    /\ chatFaults = 0

ChatFault == chatFaults < MaxChatFaults /\ chatFaults' = chatFaults + 1

-----------------------------------------------------------------------------
(* The server.                                                             *)

Busy      == alive # {} \/ starting # NoSend
Orphan(r) == log[r].seq > 0 /\ log[r].end = 0 /\ r \notin alive
Orphans   == {r \in Runs : Orphan(r)}
Grown(l)  == [l EXCEPT !.seq = @ + 1]
Ended(l)  == [seq |-> l.seq + 1, end |-> l.seq + 1]

\* #finalizeOrphanedRun
Finalized(runs) == [r \in Runs |-> IF r \in runs /\ Orphan(r) THEN Ended(log[r]) ELSE log[r]]

\* ProductEventRouter.publish
Publish(r, n) == IF r \in route \/ subscribed THEN <<Event(r, n)>> ELSE <<>>
FinalEvents ==
    LET told == SetToSeq({r \in Orphans : r \in route \/ subscribed})
    IN  [i \in DOMAIN told |-> Event(told[i], log[told[i]].seq + 1)]

RunGoesOn(r) ==
    /\ r \in alive /\ log[r].seq < MaxSeq - 1
    /\ log' = [log EXCEPT ![r] = Grown(@)]
    /\ toClient' = toClient \o Publish(r, log[r].seq + 1)
    /\ UNCHANGED <<made, alive, deleted, starting, hub, toServer, screen, view, work,
                   writing, chatFaults>>

\* The Run ends by itself or is cancelled, by this device or by another.
RunEnds(r) ==
    /\ r \in alive
    /\ log' = [log EXCEPT ![r] = Ended(@)]
    /\ alive' = alive \ {r}
    /\ route' = route \ {r}
    /\ toClient' = toClient \o Publish(r, log[r].seq + 1)
    /\ UNCHANGED <<made, deleted, starting, subscribed, toServer, screen, view, work,
                   writing, chatFaults>>

\* The outcome of a Tool after the end of its Run: drainTimelineOutbox.
OutcomeComesLate(r) ==
    /\ ~deleted /\ log[r].end # 0 /\ log[r].seq < MaxSeq
    /\ log' = [log EXCEPT ![r] = Grown(@)]
    /\ toClient' = toClient \o Publish(r, log[r].seq + 1)
    /\ UNCHANGED <<made, alive, deleted, starting, hub, toServer, screen, view, work,
                   writing, chatFaults>>

\* What a restart left ends when another client cancels it or, untold, reads it.
OrphanEnds(r) ==
    /\ Orphan(r)
    /\ log' = [log EXCEPT ![r] = Ended(@)]
    /\ toClient' \in {toClient, toClient \o Publish(r, log[r].seq + 1)}
    /\ UNCHANGED <<made, alive, deleted, starting, hub, toServer, screen, view, work,
                   writing, chatFaults>>

\* #startReservedMessage: what is left of earlier Runs ends, the Run is made.
Makes(r) ==
    /\ log' = [Finalized(Runs) EXCEPT ![r] = Grown(@)]
    /\ made' = Append(made, r)
    /\ alive' = alive \union {r}

\* A request nobody has made yet.
Fresh(r) == asked[r] = 0 /\ log[r].seq = 0

ForeignSend(r) ==
    /\ Fresh(r) /\ ~deleted /\ ~Busy
    /\ Makes(r)
    /\ toClient' = toClient \o FinalEvents \o Publish(r, 1)
    /\ UNCHANGED <<deleted, starting, hub, toServer, screen, view, work, writing, chatFaults>>

\* deleteSession by another client; the chat's screen does not listen to the news.
Delete ==
    /\ ~deleted /\ ~Busy
    /\ deleted' = TRUE
    /\ log' = [r \in Runs |-> [seq |-> 0, end |-> 0]]
    /\ made' = <<>>
    /\ subscribed' = FALSE
    /\ toClient' = toClient \o FinalEvents
    /\ UNCHANGED <<alive, starting, route, toServer, screen, view, work, writing, chatFaults>>

Requested(kind) == toServer # <<>> /\ Head(toServer).kind = kind /\ toServer' = Tail(toServer)
Request == Head(toServer)
Replies(m) == toClient' = Append(toClient, m)

ServeSubscribe ==
    /\ Requested("subscribe")
    /\ IF deleted
       THEN Replies(Missing(Request.of)) /\ UNCHANGED subscribed
       ELSE Replies(Subscribed(Request.of)) /\ subscribed' = TRUE
    /\ UNCHANGED <<session, route, screen, view, work, writing, chatFaults>>

ServeUnsubscribe ==
    /\ Requested("unsubscribe")
    /\ subscribed' = FALSE
    /\ UNCHANGED <<session, route, toClient, screen, view, work, writing, chatFaults>>

\* getSessionPage: the orphans of the page end without being published.
ServePage ==
    LET upto  == IF Request.after + PageLimit < Len(made) THEN Request.after + PageLimit
                 ELSE Len(made)
        items == {made[i] : i \in (Request.after + 1)..upto}
    IN  /\ Requested("page")
        /\ IF deleted
           THEN Replies(Missing(Request.of)) /\ UNCHANGED log
           ELSE /\ log' = Finalized(items)
                /\ Replies(Page(Request.of, [r \in items |-> log'[r].seq],
                                IF upto < Len(made) THEN upto ELSE 0))
        /\ UNCHANGED <<made, alive, deleted, starting, hub, screen, view, work, writing, chatFaults>>

\* chat.send for a Run that exists: #restoreExistingSend.
SendKnown(r, of) ==
    /\ ~deleted /\ log[r].seq > 0 /\ (Orphan(r) => ~Busy)
    /\ log' = Finalized({r})
    /\ route' = IF log'[r].end = 0 THEN route \union {r} ELSE route \ {r}
    /\ toClient' = toClient
          \o (IF Orphan(r) THEN <<Event(r, log'[r].seq)>> ELSE <<>>)
          \o <<Accepted(of, r, log'[r].seq)>>
    /\ UNCHANGED <<made, alive, starting>>

\* chat.send that makes its Run at once.
SendNew(r, of) ==
    /\ ~deleted /\ log[r].seq = 0 /\ ~Busy
    /\ Makes(r)
    /\ route' = route \union {r}
    /\ toClient' = toClient \o FinalEvents \o <<Event(r, 1), Accepted(of, r, 1)>>
    /\ UNCHANGED starting

\* chat.send in a Project: the Session is reserved while the Project is looked at.
SendWaits(r, of) ==
    /\ ~deleted /\ log[r].seq = 0 /\ ~Busy
    /\ starting' = [run |-> r, of |-> of]
    /\ UNCHANGED <<log, made, alive, route, toClient>>

\* A refusal for good: no such Session, or its Box is not ready.
SendRefused(r, of) ==
    /\ deleted \/ (log[r].seq = 0 /\ ~Busy)
    /\ Replies(Refused(of))
    /\ UNCHANGED <<log, made, alive, starting, route>>

\* #reserveSessionStart, for a new Run or to end an orphan, while the Session has a Run
\* or is about to.
SendBusy(r, of) ==
    /\ ~deleted /\ (log[r].seq = 0 \/ Orphan(r)) /\ Busy
    /\ Replies(Failed(of))
    /\ UNCHANGED <<log, made, alive, starting, route>>

ServeSend ==
    /\ Requested("send")
    /\ \/ SendKnown(Request.run, Request.of)
       \/ SendNew(Request.run, Request.of)
       \/ SendWaits(Request.run, Request.of)
       \/ SendRefused(Request.run, Request.of)
       \/ SendBusy(Request.run, Request.of)
    /\ UNCHANGED <<deleted, subscribed, screen, view, work, writing, chatFaults>>

\* withRunPreflight is through, and makes the Run; or it throws.
Started ==
    LET r == starting.run
    IN  /\ starting # NoSend
        /\ starting' = NoSend
        /\ \/ /\ Makes(r)
              /\ route' = route \union {r}
              /\ toClient' = toClient \o FinalEvents
                                \o <<Event(r, 1), Accepted(starting.of, r, 1)>>
           \/ /\ toClient' \in {Append(toClient, Refused(starting.of)),
                                Append(toClient, Failed(starting.of))}
              /\ UNCHANGED <<log, made, alive, route>>
        /\ UNCHANGED <<deleted, subscribed, toServer, screen, view, work, writing, chatFaults>>

-----------------------------------------------------------------------------
(* The controller takes what comes.                                        *)

ShownRuns      == DOMAIN view
Old(e)     == e.run \in ShownRuns /\ e.seq <= Len(view[e.run])
NextUp(e)  == e.run \in ShownRuns /\ e.seq = Len(view[e.run]) + 1
Prefix(n)  == [i \in 1..n |-> i]

\* applyChatRunEvent
Delivered(e) == [view EXCEPT ![e.run] = Append(@, e.seq)]

\* A run of promises waits for no frame: it ends before the next one is read.
Running == draining /\ job = NoJob

First   == Head(toClient)
Holds(kinds) == toClient # <<>> /\ First.kind \in kinds /\ ~Running
Reads   == toClient' = Tail(toClient)
ForUs   == screen.phase # "none" /\ First.of = screen.id

\* start() and #startLiveDrain end in an error, which the screen shows.
Errs(why) ==
    /\ screen' = [screen EXCEPT !.phase = "error", !.why = why]
    /\ provisional' = {} /\ batch' = {} /\ draining' = FALSE /\ job' = NoJob

EventDropped ==
    /\ Holds({"event"}) /\ Reads
    /\ \/ screen.phase \in {"none", "error"}
       \/ screen.phase = "ready" /\ Old(First)
    /\ UNCHANGED <<session, hub, toServer, screen, view, work, writing, chatFaults>>

EventDelivered ==
    /\ Holds({"event"}) /\ Reads
    /\ screen.phase = "ready" /\ ~draining /\ NextUp(First)
    /\ view' = Delivered(First)
    /\ UNCHANGED <<session, hub, toServer, screen, work, writing, chatFaults>>

\* Set aside: until the drain of start, or for a drain of its own.
EventKept ==
    /\ Holds({"event"}) /\ Reads
    /\ \/ screen.phase = "loading"
       \/ screen.phase = "ready" /\ ~Old(First) /\ (draining \/ ~NextUp(First))
    /\ provisional' = provisional \union {First}
    /\ draining' = (draining \/ screen.phase = "ready")
    /\ UNCHANGED <<session, hub, toServer, screen, view, batch, job, writing, chatFaults>>

\* #loadFullSnapshot, for start or for an event of a Run that is not shown.
Loads(e) ==
    /\ job' = [kind |-> "paging", event |-> e, found |-> <<>>]
    /\ toServer' = Append(toServer, Paging(screen.id, 0))

SubscribedArrives ==
    /\ Holds({"subscribed"}) /\ ForUs /\ job.kind = "subscribing"
    /\ Reads
    /\ Loads(NoEvent)
    /\ UNCHANGED <<session, hub, screen, view, provisional, batch, draining, writing, chatFaults>>

\* Wrong variant: a page takes the place of those before it.
JoinedNever(f, g) == g

Joined(f, g) == [r \in DOMAIN f \union DOMAIN g |-> IF r \in DOMAIN g THEN g[r] ELSE f[r]]

\* The next page, or #replaceWithSnapshot and on with the drain.
PageArrives ==
    LET found == Joined(job.found, First.found)
    IN  /\ Holds({"page"}) /\ ForUs /\ job.kind = "paging"
        /\ Reads
        /\ IF First.next # 0
           THEN /\ job' = [job EXCEPT !.found = found]
                /\ toServer' = Append(toServer, Paging(screen.id, First.next))
                /\ UNCHANGED <<screen, view, provisional, batch, draining>>
           ELSE /\ view' = [r \in DOMAIN found |-> Prefix(found[r])]
                /\ UNCHANGED toServer
                /\ IF job.event = NoEvent
                   THEN /\ draining' = TRUE /\ job' = NoJob
                        /\ UNCHANGED <<screen, provisional, batch>>
                   ELSE IF job.event.run \in DOMAIN found
                   THEN /\ batch' = batch \union {job.event} /\ job' = NoJob
                        /\ UNCHANGED <<screen, provisional, draining>>
                   ELSE Errs("absent")
        /\ UNCHANGED <<session, hub, writing, chatFaults>>

MissingArrives ==
    /\ Holds({"missing"}) /\ ForUs /\ job # NoJob
    /\ Reads
    /\ Errs("request")
    /\ UNCHANGED <<session, hub, toServer, view, writing, chatFaults>>

\* An answer nobody waits for: its screen is gone, or has given up.
AnswerDropped ==
    /\ \/ Holds({"subscribed", "page", "missing"}) /\ (~ForUs \/ job = NoJob)
       \/ Holds({"accepted", "refused", "failed"}) /\ ~ForUs
    /\ Reads
    /\ UNCHANGED <<session, hub, toServer, screen, view, work, writing, chatFaults>>

\* #drainProvisional, #deliverWithGapFill.  The events of a connection leave no gap
\* (ErrorsHaveCause), so that what the code does about one is not modelled.
DrainsEvent(e) ==
    /\ Running /\ e \in batch /\ \A f \in batch : e.seq <= f.seq
    /\ IF e.run \notin ShownRuns
       THEN /\ Loads(e) /\ batch' = batch \ {e}
            /\ UNCHANGED <<screen, view, provisional, draining>>
       ELSE IF Old(e) \/ NextUp(e)
       THEN /\ view' = IF NextUp(e) THEN Delivered(e) ELSE view
            /\ batch' = batch \ {e}
            /\ UNCHANGED <<toServer, screen, provisional, draining, job>>
       ELSE Errs("gap") /\ UNCHANGED <<toServer, view>>
    /\ UNCHANGED <<session, hub, toClient, writing, chatFaults>>

DrainsNext ==
    /\ Running /\ batch = {} /\ provisional # {}
    /\ batch' = provisional /\ provisional' = {}
    /\ UNCHANGED <<session, hub, channel, screen, view, draining, job, writing, chatFaults>>

\* Wrong variant: what came during the drain waits for the next event.
DrainedOnce ==
    /\ Running /\ batch = {}
    /\ draining' = FALSE
    /\ screen' = [screen EXCEPT !.phase = "ready"]
    /\ UNCHANGED <<session, hub, channel, view, provisional, batch, job, writing, chatFaults>>

Drained ==
    /\ Running /\ batch = {} /\ provisional = {}
    /\ draining' = FALSE
    /\ screen' = [screen EXCEPT !.phase = "ready"]
    /\ UNCHANGED <<session, hub, channel, view, provisional, batch, job, writing, chatFaults>>

-----------------------------------------------------------------------------
(* Sending.                                                                *)

\* #reserveSend: the request that is kept, or a fresh one.
Reserved(r) ==
    IF pending # NoReserve /\ pending.draft = draft
    THEN r = pending.run
    ELSE Fresh(r) /\ \A q \in Runs : Fresh(q) => r <= q

Send(r) ==
    /\ screen.phase = "ready" /\ ~Running /\ ~sending
    /\ Reserved(r)
    /\ pending' = [run |-> r, draft |-> draft]
    /\ asked' = [asked EXCEPT ![r] = draft]
    /\ sending' = TRUE
    /\ toServer' = Append(toServer, Sending(screen.id, r))
    /\ UNCHANGED <<session, hub, toClient, screen, view, work, draft, chatFaults>>

\* The answer owns a Run: it is shown, unless more of it is shown already.
AcceptedArrives ==
    LET r == First.run
    IN  /\ Holds({"accepted"}) /\ ForUs
        /\ Reads
        /\ view' = IF r \in ShownRuns /\ Len(view[r]) >= First.seq THEN view
                   ELSE [q \in ShownRuns \union {r} |-> IF q = r THEN Prefix(First.seq) ELSE view[q]]
        /\ pending' = NoReserve /\ sending' = FALSE /\ draft' = draft + 1
        /\ UNCHANGED <<session, hub, toServer, screen, work, asked, chatFaults>>

\* isDefinitiveSendRejection: the next attempt is a request of its own.
RefusedArrives ==
    /\ Holds({"refused"}) /\ ForUs
    /\ Reads
    /\ pending' = NoReserve /\ sending' = FALSE
    /\ UNCHANGED <<session, hub, toServer, screen, view, work, draft, asked, chatFaults>>

FailedArrives ==
    /\ Holds({"failed"}) /\ ForUs
    /\ Reads
    /\ sending' = FALSE
    /\ UNCHANGED <<session, hub, toServer, screen, view, work, draft, asked, pending, chatFaults>>

\* Nobody waits for the answers to sends any longer.
Unawaited(q) ==
    [i \in DOMAIN q |-> IF q[i].kind \in {"send", "accepted", "refused", "failed"}
                        THEN [q[i] EXCEPT !.of = Nobody] ELSE q[i]]

SendLapses ==
    /\ sending /\ ChatFault
    /\ sending' = FALSE
    /\ toServer' = Unawaited(toServer) /\ toClient' = Unawaited(toClient)
    /\ starting' = [starting EXCEPT !.of = Nobody]

\* Wrong variant: a send that ran out of time is taken for one that was refused.
SendTimesOutRefused ==
    /\ SendLapses
    /\ pending' = NoReserve
    /\ UNCHANGED <<log, made, alive, deleted, hub, screen, view, work, draft, asked>>

\* The answer is late: the outcome is unknown, the reservation stays.
SendTimesOut ==
    /\ SendLapses
    /\ UNCHANGED <<log, made, alive, deleted, hub, screen, view, work, draft, asked, pending>>

\* The user writes something else instead.
Edit ==
    /\ screen.phase = "ready" /\ ~sending
    /\ \E r \in Runs : asked[r] = draft
    /\ draft' = draft + 1
    /\ UNCHANGED <<session, hub, channel, screen, view, work, asked, pending, sending, chatFaults>>

\* start() or a drain waits too long.
RequestTimesOut ==
    /\ job # NoJob /\ ChatFault
    /\ Errs("request")
    /\ UNCHANGED <<session, hub, channel, view, writing>>

-----------------------------------------------------------------------------
(* The screen.                                                             *)

\* Its text and its reservation go with the screen.
Forgets ==
    /\ view' = <<>>
    /\ provisional' = {} /\ batch' = {} /\ draining' = FALSE
    /\ draft' = IF \E r \in Runs : asked[r] = draft THEN draft + 1 ELSE draft
    /\ pending' = NoReserve /\ sending' = FALSE
    /\ UNCHANGED asked

\* ChatSessionScreen mounts: start() up to its first await.
Open ==
    /\ screen.phase = "none" /\ screen.id < MaxScreens
    /\ screen' = [id |-> screen.id + 1, phase |-> "loading", why |-> "none"]
    /\ job' = [kind |-> "subscribing"]
    /\ toServer' = Append(toServer, Subscribing(screen.id + 1))
    /\ UNCHANGED <<session, hub, toClient, view, provisional, batch, draining, writing, chatFaults>>

\* dispose()
Leave ==
    /\ screen.phase # "none" /\ ~Running
    /\ screen' = [screen EXCEPT !.phase = "none", !.why = "none"]
    /\ toServer' = Append(toServer, Unsubscribing)
    /\ Forgets /\ job' = NoJob
    /\ UNCHANGED <<session, hub, toClient, chatFaults>>

\* The connected screens unmount; what the server was at for it is aborted, or the
\* server has died and another is there, which knows no active Run.
ConnectionLost ==
    /\ ChatFault
    /\ screen' = [screen EXCEPT !.phase = "none", !.why = "none"]
    /\ Forgets /\ job' = NoJob
    /\ toServer' = <<>> /\ toClient' = <<>>
    /\ route' = {} /\ subscribed' = FALSE
    /\ starting' = NoSend
    /\ alive' \in {alive, {}}
    /\ UNCHANGED <<log, made, deleted>>

-----------------------------------------------------------------------------
Arrives ==
    \/ EventDropped \/ EventDelivered \/ EventKept
    \/ SubscribedArrives \/ PageArrives \/ MissingArrives \/ AnswerDropped
    \/ AcceptedArrives \/ RefusedArrives \/ FailedArrives

Drains == DrainsNext \/ Drained \/ \E e \in batch : DrainsEvent(e)

ChatServes == ServeSubscribe \/ ServeUnsubscribe \/ ServePage \/ ServeSend

Others ==
    \/ \E r \in Runs : RunGoesOn(r) \/ RunEnds(r) \/ OutcomeComesLate(r) \/ OrphanEnds(r)
                          \/ ForeignSend(r)
    \/ Delete \/ Started

ChatActs == Open \/ Leave \/ Edit \/ \E r \in Runs : Send(r)

ChatNext ==
    \/ Arrives \/ Drains \/ ChatServes \/ Others \/ ChatActs
    \/ SendTimesOut \/ RequestTimesOut \/ ConnectionLost

ChatSpec == ChatInit /\ [][ChatNext]_chatVars

\* As long as there is a frame to read or an event to drain, at either end, one is.
ChatFairness == WF_chatVars(Arrives \/ Drains \/ ChatServes)

FairChatSpec == ChatSpec /\ ChatFairness

-----------------------------------------------------------------------------
Numbers == 0..MaxSeq
Events  == [kind : {"event"}, run : Runs, seq : Numbers]

\* The type invariant.
ChatTypeOK ==
    /\ log \in [Runs -> [seq : Numbers, end : Numbers]]
    /\ made \in Seq(Runs) /\ alive \subseteq Runs /\ deleted \in BOOLEAN
    /\ starting \in [run : Runs \union {0}, of : 0..MaxScreens]
    /\ route \subseteq Runs /\ subscribed \in BOOLEAN
    /\ screen \in [id : 0..MaxScreens, phase : {"none", "loading", "ready", "error"},
                   why : {"none", "request", "absent", "gap"}]
    /\ ShownRuns \subseteq Runs /\ \A r \in ShownRuns : view[r] \in Seq(Numbers)
    /\ provisional \subseteq Events /\ batch \subseteq Events
    /\ draining \in BOOLEAN /\ job.kind \in {"none", "subscribing", "paging"}
    /\ draft \in 1..(Cardinality(Runs) + 1) /\ asked \in [Runs -> 0..Cardinality(Runs)]
    /\ pending \in [run : Runs \union {0}, draft : 0..Cardinality(Runs)]
    /\ sending \in BOOLEAN /\ chatFaults \in 0..MaxChatFaults

\* A chat fails only when a request of it did: subscribing first, reading all pages
\* and draining what came meanwhile leaves no gap in a Run and no Run unknown, with
\* sends and other clients at work (start and #deliverWithGapFill,
\* chat-session-controller.ts:134 and :249).
ErrorsHaveCause == screen.phase = "error" => screen.why = "request"

\* A text that is sent again and again, while its chat is open, makes one Run: a
\* refusal proves that there is none, and anything else keeps the request (#reserveSend
\* and isDefinitiveSendRejection).
RetriesMakeOneRun ==
    \A r, q \in Runs : r # q /\ asked[r] = asked[q] /\ asked[r] # 0 =>
        log[r].seq = 0 \/ log[q].seq = 0

UpToDate == \A r \in Runs : log[r].seq > 0 => r \in ShownRuns /\ Len(view[r]) = log[r].seq

\* A chat that stays open shows in the end all that its Session's Runs have logged,
\* or says that it could not be loaded; of a deleted one it keeps what it had.
ChatCatchesUp ==
    screen.phase \in {"loading", "ready"} ~>
        \/ screen.phase = "ready" /\ UpToDate
        \/ screen.phase \in {"none", "error"} \/ deleted
=============================================================================
