---------------------------- MODULE DesktopFeed ----------------------------
(***************************************************************************)
(* The feed of Run events to the Desktop: desktop-agents-client.ts and the *)
(* handlers of the agents server it depends on (product-event-hub.ts,      *)
(* product-rpc.ts, the replay and send of chat-application-service.ts).    *)
(*                                                                         *)
(* The server numbers the events of every Run and publishes each to the    *)
(* connection that sent the Run's request (its route) and to the clients   *)
(* subscribed to its Session.  Publication is not acknowledged: whatever   *)
(* was under way is gone with the connection.  The Desktop keeps a cursor  *)
(* for each Run it follows and a reservation for each send without an      *)
(* answer, and on a new connection it recovers before it is active again:  *)
(* it learns which Sessions were deleted, subscribes, replays each Run from*)
(* its cursor, sends the unanswered requests again, and drains what came   *)
(* meanwhile.  Deleting a Session waits for the renderer's acknowledgement.*)
(*                                                                         *)
(* The connection carries frames in order.  Its listener for chat events   *)
(* never waits, so a delivery is one step; answers and acknowledgements    *)
(* are awaited, and anything may happen meanwhile.                         *)
(***************************************************************************)
EXTENDS Naturals, FiniteSets, Sequences, SequencesExt

CONSTANTS
    Runs,      \* a Run and the request that asks for it
    Mine,      \* the Runs this Desktop sends; others come from another client
    Sessions,  \* identifiers, which the list of deleted Sessions is sorted by
    SessionOf,
    MaxSeq,    \* the events of a Run up to its end
    PageSize,  \* maxReplayEventsPerPage
    MaxFeedFaults  \* lost connections, refusals of the renderer

ASSUME FeedAssumption ==
    /\ IsFiniteSet(Runs) /\ 0 \notin Runs /\ Mine \subseteq Runs
    /\ Sessions \subseteq Nat \ {0}
    /\ SessionOf \in [Runs -> Sessions]
    /\ MaxSeq \in Nat \ {0, 1}
    /\ PageSize \in Nat \ {0}
    /\ MaxFeedFaults \in Nat

VARIABLES
    log,         \* the events of each Run: how many, and which one ended it (0: none)
    executing,       \* #activeRuns of the server
    retired,     \* the Sessions that were deleted
    route,       \* #bindingsByRequestId: the requests bound to this connection
    subs,        \* #subscriptionsBySession: those of the Desktop
    toServer,    \* sends under way
    toClient,    \* events and answers under way
    phase,       \* where connect() is
    listed,      \* the cursor of the list of deleted Sessions
    todo,        \* Sessions to subscribe to, then requests to send again
    replayed,    \* the Runs the replay has come to
    paging,      \* the Run whose replay goes on, and from where
    provisional, \* events that came before the connection is active
    cursor,      \* #activeRunCursors: the Runs followed, and how far
    unbound,     \* #sendReservations without a Run
    retirement,  \* #sessionRetirements
    asking,      \* the Session whose deletion the renderer is to acknowledge
    announced,      \* deletions announced behind it (retirementDeliveryTail)
    shown,       \* the numbers of the events the renderer was shown
    sent,        \* the requests the user has made
    feedFaults

server   == <<log, executing, retired>>
hub      == <<route, subs>>
channel  == <<toServer, toClient>>
recovery == <<phase, listed, todo, replayed, paging, provisional>>
client   == <<cursor, unbound, retirement>>
renderer == <<asking, announced, shown>>
budget   == <<sent, feedFaults>>
feedVars == <<server, hub, channel, recovery, client, renderer, budget>>

Nobody == 0
NoPage == [run |-> 0, from |-> 0]
Phases == {"down", "listing", "retiring", "subscribing", "replaying", "resending",
           "draining", "active"}

Event(r, n, last)    == [kind |-> "event", run |-> r, seq |-> n, last |-> last]
Retired(s)           == [kind |-> "retired", session |-> s]
Listed(found, more)  == [kind |-> "listed", found |-> found, more |-> more]
Subscribed           == [kind |-> "subscribed"]
Page(r, events, more) == [kind |-> "page", run |-> r, events |-> events, more |-> more]
Accepted(r, n, over) == [kind |-> "accepted", run |-> r, seq |-> n, over |-> over]
Refused(r)           == [kind |-> "refused", run |-> r]
Failed(r)            == [kind |-> "failed", run |-> r]
Denied(r)            == [kind |-> "denied", run |-> r]
Missing(s)           == [kind |-> "missing", session |-> s]

FeedInit ==
    /\ log = [r \in Runs |-> [seq |-> 0, end |-> 0]]
    /\ executing = {} /\ retired = {}
    /\ route = {} /\ subs = {}
    /\ toServer = {} /\ toClient = <<>>
    /\ phase = "down" /\ listed = 0 /\ todo = {} /\ replayed = {}
    /\ paging = NoPage /\ provisional = {}
    /\ cursor = <<>> /\ unbound = {}
    /\ retirement = [s \in Sessions |-> "none"]
    /\ asking = Nobody /\ announced = <<>>
    /\ shown = [r \in Runs |-> <<>>]
    /\ sent = {} /\ feedFaults = 0

FeedFault == feedFaults < MaxFeedFaults /\ feedFaults' = feedFaults + 1

-----------------------------------------------------------------------------
(* The server.                                                             *)

Of(s)     == {r \in Runs : SessionOf[r] = s}
Busy(s)   == Of(s) \cap executing # {}
Orphan(r) == log[r].seq > 0 /\ log[r].end = 0 /\ r \notin executing

\* ProductEventRouter.publish: to the connection of its request and to subscribers.
Heard(r) == r \in route \/ SessionOf[r] \in subs
Publish(r, n, last) == IF Heard(r) THEN <<Event(r, n, last)>> ELSE <<>>

Grown(l) == [l EXCEPT !.seq = @ + 1]
Ended(l) == [seq |-> l.seq + 1, end |-> l.seq + 1]

\* #finalizeOrphanedRun for what a restart left of a Session's Runs.
Finalized(s) == [r \in Runs |-> IF r \in Of(s) /\ Orphan(r) THEN Ended(log[r]) ELSE log[r]]
FinalEvents(s) ==
    LET told == SetToSeq({r \in Of(s) : Orphan(r) /\ Heard(r)})
    IN  [i \in DOMAIN told |-> Event(told[i], log[told[i]].seq + 1, TRUE)]

RunGoesOn(r) ==
    /\ r \in executing
    /\ log[r].seq < MaxSeq - 1
    /\ log' = [log EXCEPT ![r] = Grown(@)]
    /\ toClient' = toClient \o Publish(r, log[r].seq + 1, FALSE)
    /\ UNCHANGED <<executing, retired, hub, toServer, recovery, client, renderer, budget>>

RunEnds(r) ==
    /\ r \in executing
    /\ log' = [log EXCEPT ![r] = Ended(@)]
    /\ executing' = executing \ {r}
    /\ route' = route \ {r}
    /\ toClient' = toClient \o Publish(r, log[r].seq + 1, TRUE)
    /\ UNCHANGED <<retired, subs, toServer, recovery, client, renderer, budget>>

\* A Box tells the outcome of a Tool after its Run has ended: drainTimelineOutbox
\* adds the event to the log and the server publishes it.
OutcomeComesLate(r) ==
    /\ SessionOf[r] \notin retired
    /\ log[r].end # 0 /\ log[r].seq = log[r].end
    /\ log' = [log EXCEPT ![r] = Grown(@)]
    /\ toClient' = toClient \o Publish(r, log[r].seq + 1, FALSE)
    /\ UNCHANGED <<executing, retired, hub, toServer, recovery, client, renderer, budget>>

\* A Run starts for nobody who waits on this connection: another client's, or one
\* whose connection was lost while withRunPreflight looked at its Project.
ForeignSend(r) ==
    /\ r \notin Mine \/ r \in unbound \ toServer
    /\ log[r].seq = 0
    /\ SessionOf[r] \notin retired /\ ~Busy(SessionOf[r])
    /\ log' = [Finalized(SessionOf[r]) EXCEPT ![r] = Grown(@)]
    /\ executing' = executing \union {r}
    /\ toClient' = toClient \o FinalEvents(SessionOf[r]) \o Publish(r, 1, FALSE)
    /\ UNCHANGED <<retired, hub, toServer, recovery, client, renderer, budget>>

\* Reading a page of a Session ends its orphans without publishing anything.
ForeignRead(s) ==
    /\ \E r \in Of(s) : Orphan(r)
    /\ log' = Finalized(s)
    /\ UNCHANGED <<executing, retired, hub, channel, recovery, client, renderer, budget>>

\* Another client cancels a Run that a restart left.
ForeignCancel(r) ==
    /\ Orphan(r)
    /\ log' = [log EXCEPT ![r] = Ended(@)]
    /\ toClient' = toClient \o Publish(r, log[r].seq + 1, TRUE)
    /\ UNCHANGED <<executing, retired, hub, toServer, recovery, client, renderer, budget>>

\* deleteSession, by another client, and notifySessionsRetired.
Delete(s) ==
    /\ s \notin retired /\ ~Busy(s)
    /\ retired' = retired \union {s}
    /\ log' = [r \in Runs |-> IF r \in Of(s) THEN [seq |-> 0, end |-> 0] ELSE log[r]]
    /\ subs' = subs \ {s}
    /\ toClient' = toClient \o FinalEvents(s)
                            \o (IF phase = "down" THEN <<>> ELSE <<Retired(s)>>)
    /\ UNCHANGED <<executing, route, toServer, recovery, client, renderer, budget>>

\* chat.send for a Run that exists: its orphan ends, the connection is bound to it.
SendKnown(r) ==
    /\ SessionOf[r] \notin retired /\ log[r].seq > 0
    /\ log' = IF Orphan(r) THEN [log EXCEPT ![r] = Ended(@)] ELSE log
    /\ route' = IF log'[r].end = 0 THEN route \union {r} ELSE route \ {r}
    /\ toClient' = toClient
          \o (IF Orphan(r) THEN <<Event(r, log'[r].seq, TRUE)>> ELSE <<>>)
          \o <<Accepted(r, log'[r].seq, log'[r].end # 0)>>
    /\ UNCHANGED <<executing, feedFaults>>

\* chat.send for a new Run, if its Session is idle.  The preflight of a Project is
\* behind it, when the connection stood.
SendNew(r) ==
    /\ SessionOf[r] \notin retired /\ log[r].seq = 0 /\ ~Busy(SessionOf[r])
    /\ log' = [Finalized(SessionOf[r]) EXCEPT ![r] = Grown(@)]
    /\ executing' = executing \union {r}
    /\ route' = route \union {r}
    /\ toClient' = toClient \o FinalEvents(SessionOf[r])
          \o <<Event(r, 1, FALSE), Accepted(r, 1, FALSE)>>
    /\ UNCHANGED feedFaults

\* chat.send that fails.  RUNTIME_BOX_NOT_READY is definitive for the Desktop; a busy
\* Session, and one whose agent files are still being removed, get over it.  What is
\* denied may be denied for good, and the Desktop cannot know: an archived Session, a
\* provider or a Project that is not there (CHAT_REQUEST_FAILED, PROVIDER_NOT_FOUND,
\* PROJECT_...).  Orphans that it ends before it is denied are ForeignCancel's.
SendFails(r) ==
    /\ UNCHANGED <<log, executing, route>>
    /\ \/ /\ SessionOf[r] \in retired
          /\ toClient' = Append(toClient, Missing(SessionOf[r]))
          /\ UNCHANGED feedFaults
       \/ /\ SessionOf[r] \in retired
          /\ toClient' = Append(toClient, Failed(r))
          /\ FeedFault
       \/ /\ SessionOf[r] \notin retired /\ log[r].seq = 0 /\ Busy(SessionOf[r])
          /\ toClient' = Append(toClient, Failed(r))
          /\ UNCHANGED feedFaults
       \/ /\ SessionOf[r] \notin retired /\ log[r].seq = 0
          /\ \/ toClient' = Append(toClient, Refused(r))
             \/ toClient' = Append(toClient, Denied(r))
          /\ UNCHANGED feedFaults

ChatSend(r) == SendKnown(r) \/ SendNew(r) \/ SendFails(r)

SendArrives(r) ==
    /\ r \in toServer
    /\ toServer' = toServer \ {r}
    /\ ChatSend(r)
    /\ UNCHANGED <<retired, subs, recovery, client, renderer, sent>>

-----------------------------------------------------------------------------
(* What the Desktop does with an event.                                    *)

Followed(c) == DOMAIN c

\* #deliverThenCommit for a set of events, sorted: which of a Run's are new, and
\* which of those are delivered before a gap is met.
News(c, events, r) ==
    LET these == {e.seq : e \in {f \in events : f.run = r /\ retirement[SessionOf[r]] = "none"}}
    IN  IF r \in Followed(c) THEN {n \in these : n > c[r].seq} ELSE these
Taken(c, events, r) ==
    LET new == News(c, events, r)
    IN  IF r \in Followed(c) THEN {n \in new : (c[r].seq + 1)..n \subseteq new} ELSE new
Gap(c, events) == \E r \in Runs : Taken(c, events, r) # News(c, events, r)

Advanced(c, events) ==
    [r \in Followed(c) |->
        [seq  |-> c[r].seq + Cardinality(Taken(c, events, r)),
         over |-> c[r].over \/ \E e \in events : e.run = r /\ e.last /\ e.seq \in Taken(c, events, r)]]
InOrder(numbers) ==
    CHOOSE q \in [1..Cardinality(numbers) -> numbers] :
        \A i, j \in DOMAIN q : i < j => q[i] < q[j]
ShownAfter(c, events) == [r \in Runs |-> shown[r] \o InOrder(Taken(c, events, r))]

Without(c, runs) == [r \in Followed(c) \ runs |-> c[r]]
With(c, r, n) == [q \in Followed(c) \union {r} |->
                     IF q \in Followed(c) THEN c[q] ELSE [seq |-> n, over |-> FALSE]]
\* #deleteCommittedTerminalCursors
Following(c) == Without(c, {r \in Followed(c) : c[r].over})

\* closeExactPeer, and the server's releasePeer.
Closes ==
    /\ phase' = "down" /\ listed' = 0 /\ todo' = {} /\ replayed' = {}
    /\ paging' = NoPage /\ provisional' = {}
    /\ toServer' = {} /\ toClient' = <<>>
    /\ route' = {} /\ subs' = {}
    /\ asking' = Nobody /\ announced' = <<>>

\* #correlateDeliveryReservation
Known(r) == r \in Followed(cursor) \union unbound

\* #bindEventDelivery: an event of a deleted Session or of a finished Run is dropped.
Dropped(e) ==
    \/ retirement[SessionOf[e.run]] # "none"
    \/ e.run \in Followed(cursor) /\ cursor[e.run].over

First == Head(toClient)
Reads == toClient # <<>> /\ toClient' = Tail(toClient)
Holds(kind) == toClient # <<>> /\ First.kind = kind

EventDropped ==
    /\ Holds("event") /\ Dropped(First) /\ Reads
    /\ UNCHANGED <<server, hub, toServer, recovery, client, renderer, budget>>

\* The correlation throws: the connection is closed.
EventUnknown ==
    /\ Holds("event") /\ ~Dropped(First) /\ ~Known(First.run)
    /\ Closes
    /\ UNCHANGED <<server, client, shown, budget>>

\* enqueueProvisionalEvent
EventKept ==
    /\ Holds("event") /\ ~Dropped(First) /\ Known(First.run) /\ phase # "active"
    /\ Reads
    /\ cursor' = With(cursor, First.run, 0)
    /\ unbound' = unbound \ {First.run}
    /\ provisional' = provisional \union {First}
    /\ UNCHANGED <<server, hub, toServer, phase, listed, todo, replayed, paging,
                   retirement, renderer, budget>>

EventDelivered ==
    LET c == With(cursor, First.run, 0)
    IN  /\ Holds("event") /\ ~Dropped(First) /\ Known(First.run) /\ phase = "active"
        /\ unbound' = unbound \ {First.run}
        /\ cursor' = Following(Advanced(c, {First}))
        /\ shown' = ShownAfter(c, {First})
        /\ IF Gap(c, {First})
           THEN Closes
           ELSE Reads /\ UNCHANGED <<hub, toServer, recovery, asking, announced>>
        /\ UNCHANGED <<server, retirement, budget>>

-----------------------------------------------------------------------------
(* Deleted Sessions.                                                       *)

Pending(ret) == {s \in Sessions : ret[s] = "pending"}
\* #stagePendingSessionRetirementBatch
Staged(found) == [s \in Sessions |->
    IF s \in found /\ retirement[s] = "none" THEN "pending" ELSE retirement[s]]
\* #finalizeSessionRetirementState
ForgetsRuns(s) ==
    /\ cursor' = Without(cursor, Of(s))
    /\ unbound' = unbound \ Of(s)

\* #invalidatePendingSessionRetirement: the renderer is asked, unless it knows.
Asks(s, ret) == IF ret[s] = "pending" THEN s ELSE Nobody

\* #retryPendingSessionRetirements: the next one pending.
AsksNext(ret) == IF Pending(ret) = {} THEN asking' = Nobody ELSE asking' \in Pending(ret)

RetiredStaged ==
    /\ Holds("retired") /\ phase # "active" /\ Reads
    /\ retirement' = Staged({First.session})
    /\ UNCHANGED <<server, hub, toServer, recovery, cursor, unbound, renderer, budget>>

\* deliverRetirements, one after the other.
RetiredAsked ==
    /\ Holds("retired") /\ phase = "active" /\ Reads
    /\ IF asking = Nobody
       THEN /\ retirement' = Staged({First.session})
            /\ asking' = Asks(First.session, retirement')
            /\ UNCHANGED announced
       ELSE /\ announced' = Append(announced, First.session)
            /\ UNCHANGED <<retirement, asking>>
    /\ UNCHANGED <<server, hub, toServer, recovery, cursor, unbound, shown, budget>>

\* Whose turn is yet to come: who is final by then is passed over.
Turns(ret) == {i \in DOMAIN announced : ret[announced[i]] # "final"}

\* acknowledgeChatSessionInvalidation: accepted, and who is asked next.
Acknowledged ==
    /\ asking # Nobody
    /\ ForgetsRuns(asking)
    /\ LET done == [retirement EXCEPT ![asking] = "final"]
       IN  CASE phase \in {"retiring", "draining"} ->
                  /\ retirement' = done
                  /\ AsksNext(done)
                  /\ UNCHANGED announced
             [] phase = "active" /\ Turns(done) # {} ->
                  LET i == CHOOSE j \in Turns(done) : \A k \in Turns(done) : j <= k
                  IN  /\ retirement' = [done EXCEPT ![announced[i]] = "pending"]
                      /\ asking' = announced[i]
                      /\ announced' = SubSeq(announced, i + 1, Len(announced))
             [] OTHER ->
                  /\ retirement' = done
                  /\ asking' = Nobody
                  /\ announced' = <<>>
    /\ UNCHANGED <<server, hub, channel, recovery, shown, budget>>

\* The renderer could not refresh, or an awaited answer ran out of time.
RendererRefuses ==
    /\ asking # Nobody
    /\ FeedFault
    /\ Closes
    /\ UNCHANGED <<server, client, shown, sent>>

ConnectionLost ==
    /\ phase # "down"
    /\ FeedFault
    /\ Closes
    /\ UNCHANGED <<server, client, shown, sent>>

-----------------------------------------------------------------------------
(* connect(): one request at a time; a request and its handling are one    *)
(* step, its answer comes after the events published before it.            *)

Answers == {"listed", "subscribed", "page", "accepted", "refused", "failed",
            "denied", "missing"}
Idle == asking = Nobody /\ \A i \in DOMAIN toClient : toClient[i].kind \notin Answers

\* The same server is there still, or another one that knows no active Run.
Connect ==
    /\ phase = "down"
    /\ phase' = "listing"
    /\ executing' \in {executing, {}}
    /\ UNCHANGED <<log, retired, hub, channel, listed, todo, replayed, paging, provisional,
                   client, renderer, budget>>

\* #recoverRetiredSessions, a Session for each page.
List ==
    LET rest  == {s \in retired : s > listed}
        found == {s \in rest : \A t \in rest : s <= t}
    IN  /\ phase = "listing" /\ Idle
        /\ toClient' = Append(toClient, Listed(found, rest # found))
        /\ UNCHANGED <<server, hub, toServer, recovery, client, renderer, budget>>

ListArrives ==
    /\ Holds("listed") /\ Reads
    /\ retirement' = Staged(First.found)
    /\ listed' = IF First.more THEN CHOOSE s \in First.found : TRUE ELSE 0
    /\ phase' = IF First.more THEN phase ELSE "retiring"
    /\ asking' = IF First.found = {} THEN Nobody
                 ELSE Asks(CHOOSE s \in First.found : TRUE, retirement')
    /\ UNCHANGED <<server, hub, toServer, todo, replayed, paging, provisional,
                   cursor, unbound, announced, shown, budget>>

\* Wrong variant: no Session is subscribed to before the replay.
RetiresUnsubscribed ==
    /\ phase = "retiring" /\ Idle
    /\ IF Pending(retirement) # {}
       THEN AsksNext(retirement) /\ UNCHANGED phase
       ELSE phase' = "subscribing" /\ UNCHANGED asking
    /\ UNCHANGED <<server, hub, channel, listed, todo, replayed, paging, provisional,
                   client, announced, shown, budget>>

\* #retryPendingSessionRetirements until there is none, then the Sessions to follow.
Retires ==
    /\ phase = "retiring" /\ Idle
    /\ IF Pending(retirement) # {}
       THEN AsksNext(retirement) /\ UNCHANGED <<phase, todo>>
       ELSE /\ phase' = "subscribing"
            /\ todo' = {SessionOf[r] : r \in {q \in Followed(cursor) :
                                                 retirement[SessionOf[q]] = "none"}}
            /\ UNCHANGED asking
    /\ UNCHANGED <<server, hub, channel, listed, replayed, paging, provisional,
                   client, announced, shown, budget>>

\* #installLiveSubscriptions, and the handler of chat.subscribe.
Subscribe(s) ==
    /\ phase = "subscribing" /\ Idle /\ s \in todo
    /\ todo' = todo \ {s}
    /\ IF s \in retired
       THEN toClient' = Append(toClient, Missing(s)) /\ UNCHANGED subs
       ELSE toClient' = Append(toClient, Subscribed) /\ subs' = subs \union {s}
    /\ UNCHANGED <<server, route, toServer, phase, listed, replayed, paging, provisional,
                   client, renderer, budget>>

SubscribedArrives ==
    /\ Holds("subscribed") /\ Reads
    /\ UNCHANGED <<server, hub, toServer, recovery, client, renderer, budget>>

\* A request for a Session that is not there: active, it is retired at once.
MissingArrives ==
    LET s == First.session
    IN  /\ Holds("missing") /\ Reads
        /\ IF phase # "active"
           THEN /\ retirement' = Staged({s})
                /\ asking' = Asks(s, retirement')
                /\ UNCHANGED <<cursor, unbound>>
           ELSE /\ IF retirement[s] = "pending"
                   THEN UNCHANGED client
                   ELSE ForgetsRuns(s) /\ retirement' = [retirement EXCEPT ![s] = "final"]
                /\ UNCHANGED asking
        /\ UNCHANGED <<server, hub, toServer, recovery, announced, shown, budget>>

Subscribes ==
    /\ phase = "subscribing" /\ Idle /\ todo = {}
    /\ phase' = "replaying"
    /\ UNCHANGED <<server, hub, channel, listed, todo, replayed, paging, provisional,
                   client, renderer, budget>>

\* replayEvents: orphans end without being published, a page of the log.
PageOf(r, from, l) ==
    LET upto == IF l.seq <= from + PageSize THEN l.seq ELSE from + PageSize
    IN  Page(r, {Event(r, n, n = l.end) : n \in (from + 1)..upto}, l.seq > upto)

Replay(r, from) ==
    /\ phase = "replaying" /\ Idle
    /\ \/ paging = NoPage /\ r \in Followed(cursor) \ replayed /\ from = cursor[r].seq
       \/ paging = [run |-> r, from |-> from]
    /\ IF SessionOf[r] \in retired
       THEN toClient' = Append(toClient, Missing(SessionOf[r])) /\ UNCHANGED log
       ELSE /\ log' = IF Orphan(r) THEN [log EXCEPT ![r] = Ended(@)] ELSE log
            /\ toClient' = Append(toClient, PageOf(r, from, log'[r]))
    /\ replayed' = replayed \union {r}
    /\ paging' = NoPage
    /\ UNCHANGED <<executing, retired, hub, toServer, phase, listed, todo, provisional,
                   client, renderer, budget>>

\* #replayProgressively: the page is delivered before the next one is asked for.
PageArrives ==
    /\ Holds("page")
    /\ cursor' = Advanced(cursor, First.events)
    /\ shown' = ShownAfter(cursor, First.events)
    /\ IF Gap(cursor, First.events)
       THEN Closes
       ELSE /\ Reads
            /\ paging' = IF ~First.more THEN NoPage
                         ELSE [run |-> First.run,
                               from |-> CHOOSE n \in {e.seq : e \in First.events} :
                                            \A e \in First.events : e.seq <= n]
            /\ UNCHANGED <<hub, toServer, phase, listed, todo, replayed, provisional,
                           asking, announced>>
    /\ UNCHANGED <<server, unbound, retirement, budget>>

\* #flushProvisionalEvents and #deleteCommittedTerminalCursors
Flushes ==
    LET c == Advanced(cursor, provisional)
    IN  /\ shown' = ShownAfter(cursor, provisional)
        /\ cursor' = IF Gap(cursor, provisional) THEN c ELSE Following(c)

Replays ==
    /\ phase = "replaying" /\ Idle /\ paging = NoPage /\ Followed(cursor) \subseteq replayed
    /\ Flushes
    /\ IF Gap(cursor, provisional)
       THEN Closes
       ELSE /\ phase' = "resending" /\ replayed' = {} /\ todo' = unbound /\ provisional' = {}
            /\ UNCHANGED <<hub, channel, listed, paging, asking, announced>>
    /\ UNCHANGED <<server, unbound, retirement, budget>>

\* #reconcileUnboundReservations
Resend(r) ==
    /\ phase = "resending" /\ Idle /\ r \in todo \cap unbound
    /\ todo' = todo \ {r}
    /\ ChatSend(r)
    /\ UNCHANGED <<retired, subs, toServer, phase, listed, replayed, paging, provisional,
                   client, renderer, sent>>

\* #acceptSendResponse, unless the Session was deleted meanwhile.
AcceptedArrives ==
    LET r == First.run
    IN  /\ Holds("accepted") /\ Reads
        /\ IF retirement[SessionOf[r]] # "none" \/ ~Known(r)
           THEN UNCHANGED <<cursor, unbound>>
           ELSE /\ unbound' = unbound \ {r}
                /\ cursor' = IF First.over THEN Without(cursor, {r})
                             ELSE With(cursor, r, First.seq)
        /\ UNCHANGED <<server, hub, toServer, recovery, retirement, renderer, budget>>

\* Wrong variant: a rejection is definitive only while the Desktop is active.
RefusedAmbiguous ==
    /\ Holds("refused")
    /\ IF phase = "active"
       THEN /\ Reads
            /\ unbound' = IF retirement[SessionOf[First.run]] = "pending"
                          THEN unbound ELSE unbound \ {First.run}
            /\ UNCHANGED <<hub, toServer, recovery, asking, announced>>
       ELSE Closes /\ UNCHANGED unbound
    /\ UNCHANGED <<server, cursor, retirement, shown, budget>>

\* A definitive rejection: #discardSendReservation.
RefusedArrives ==
    /\ Holds("refused") /\ Reads
    /\ unbound' = IF phase = "active" /\ retirement[SessionOf[First.run]] = "pending"
                  THEN unbound ELSE unbound \ {First.run}
    /\ UNCHANGED <<server, hub, toServer, recovery, cursor, retirement, renderer, budget>>

\* An ambiguous error, of those that pass and of those that may not: the
\* reservation stays, and a recovery fails.
FailedArrives ==
    /\ Holds("failed") \/ Holds("denied")
    /\ IF phase = "active"
       THEN Reads /\ UNCHANGED <<hub, toServer, recovery, asking, announced>>
       ELSE Closes
    /\ UNCHANGED <<server, client, shown, budget>>

\* Wrong variant: the events are flushed once, a deletion meanwhile is left staged.
DrainsOnce ==
    /\ Idle /\ phase = "resending" /\ todo \cap unbound = {}
    /\ Flushes
    /\ IF Gap(cursor, provisional)
       THEN Closes
       ELSE /\ phase' = "active" /\ todo' = {} /\ provisional' = {}
            /\ UNCHANGED <<hub, channel, listed, replayed, paging, asking, announced>>
    /\ UNCHANGED <<server, unbound, retirement, budget>>

\* #drainRecoveryUntilQuiescent, and the flip to active in the same step.
Drains ==
    /\ Idle
    /\ \/ phase = "resending" /\ todo \cap unbound = {}
       \/ phase = "draining"
    /\ Flushes
    /\ IF Gap(cursor, provisional)
       THEN Closes
       ELSE /\ phase' = IF Pending(retirement) = {} THEN "active" ELSE "draining"
            /\ AsksNext(retirement)
            /\ todo' = {} /\ provisional' = {}
            /\ UNCHANGED <<hub, channel, listed, replayed, paging, announced>>
    /\ UNCHANGED <<server, unbound, retirement, budget>>

\* The user sends a message.
Send(r) ==
    /\ phase = "active" /\ r \in Mine \ sent
    /\ retirement[SessionOf[r]] # "final" /\ retirement[SessionOf[r]] # "pending"
    /\ sent' = sent \union {r}
    /\ unbound' = unbound \union {r}
    /\ toServer' = toServer \union {r}
    /\ UNCHANGED <<server, hub, toClient, recovery, cursor, retirement, renderer, feedFaults>>

-----------------------------------------------------------------------------
Arrives ==
    \/ EventDropped \/ EventUnknown \/ EventKept \/ EventDelivered
    \/ RetiredStaged \/ RetiredAsked
    \/ ListArrives \/ SubscribedArrives \/ MissingArrives \/ PageArrives
    \/ AcceptedArrives \/ RefusedArrives \/ FailedArrives

Recovers ==
    \/ Connect \/ List \/ Retires
    \/ \E s \in Sessions : Subscribe(s)
    \/ Subscribes
    \/ \E r \in Runs, from \in 0..(MaxSeq + 1) : Replay(r, from)
    \/ Replays
    \/ \E r \in Runs : Resend(r)
    \/ Drains

Serves ==
    \/ \E r \in Runs : RunGoesOn(r) \/ RunEnds(r) \/ OutcomeComesLate(r) \/ SendArrives(r)

Others ==
    \/ \E r \in Runs : ForeignSend(r) \/ ForeignCancel(r)
    \/ \E s \in Sessions : ForeignRead(s) \/ Delete(s)

FeedNext ==
    \/ Arrives \/ Recovers \/ Serves \/ Others
    \/ Acknowledged \/ RendererRefuses \/ ConnectionLost
    \/ \E r \in Runs : Send(r)

FeedSpec == FeedInit /\ [][FeedNext]_feedVars

\* Frames are read and connect() goes on, the renderer answers, and a Run ends.
FeedFairness ==
    /\ WF_feedVars(Arrives \/ Recovers)
    /\ WF_feedVars(Acknowledged)
    /\ \A r \in Runs : WF_feedVars(RunEnds(r))

FairFeedSpec == FeedSpec /\ FeedFairness

-----------------------------------------------------------------------------
Numbers == 0..(MaxSeq + 1)
Events == [kind : {"event"}, run : Runs, seq : Numbers, last : BOOLEAN]
Messages ==
    Events
    \union [kind : {"retired", "missing"}, session : Sessions]
    \union [kind : {"listed"}, found : SUBSET Sessions, more : BOOLEAN]
    \union [kind : {"subscribed"}]
    \union [kind : {"page"}, run : Runs, events : SUBSET Events, more : BOOLEAN]
    \union [kind : {"accepted"}, run : Runs, seq : Numbers, over : BOOLEAN]
    \union [kind : {"refused", "failed", "denied"}, run : Runs]

\* The type invariant.
FeedTypeOK ==
    /\ log \in [Runs -> [seq : Numbers, end : Numbers]]
    /\ executing \subseteq Runs /\ retired \subseteq Sessions
    /\ route \subseteq Runs /\ subs \subseteq Sessions
    /\ toServer \subseteq Runs /\ toClient \in Seq(Messages)
    /\ phase \in Phases /\ listed \in Sessions \union {0}
    /\ todo \subseteq Sessions \union Runs /\ replayed \subseteq Runs
    /\ paging \in [run : Runs \union {0}, from : Numbers]
    /\ provisional \subseteq Events
    /\ Followed(cursor) \subseteq Runs
    /\ \A r \in Followed(cursor) : cursor[r] \in [seq : Numbers, over : BOOLEAN]
    /\ unbound \subseteq Runs
    /\ retirement \in [Sessions -> {"none", "pending", "final"}]
    /\ asking \in Sessions \union {Nobody} /\ announced \in Seq(Sessions)
    /\ shown \in [Runs -> Seq(Numbers)]
    /\ sent \subseteq Mine /\ feedFaults \in 0..MaxFeedFaults

\* The events of a Run up to its end, and those on their way to the Desktop.
Told(r) == IF log[r].end = 0 THEN log[r].seq ELSE log[r].end
UnderWay(r) == {i \in DOMAIN toClient :
                    toClient[i].kind = "event" /\ toClient[i].run = r /\ toClient[i].seq <= Told(r)}

Consecutive(numbers) ==
    \A i \in 1..(Len(numbers) - 1) : numbers[i + 1] = numbers[i] + 1

\* The renderer is shown the events of a Run one after the other, none twice,
\* however often they come: live, replayed or both (#deliverThenCommit).  Of a Run
\* that an active Desktop follows nothing is missing: what the renderer was not
\* shown yet is under way, in order and without a gap, and the events to come
\* will reach this connection (installLiveSubscriptions before
\* replayProgressively, desktop-agents-client.ts:1102-1110).
NothingMissing ==
    /\ \A r \in Runs : Consecutive(shown[r])
    /\ phase = "active" =>
        \A r \in Followed(cursor) :
            retirement[SessionOf[r]] = "none" /\ SessionOf[r] \notin retired =>
                /\ {toClient[i].seq : i \in UnderWay(r)} = (cursor[r].seq + 1)..Told(r)
                /\ \A i, j \in UnderWay(r) : i < j => toClient[i].seq < toClient[j].seq
                /\ log[r].end # 0 \/ (r \in executing /\ Heard(r))

\* The deletion of a Session reaches the renderer, whenever it happened: once the
\* Desktop is active every deleted Session is forgotten, being asked about, or
\* announced (the drain-and-activate fence, desktop-agents-client.ts:1656-1680).
DeletionsReachTheRenderer ==
    phase = "active" =>
        \A s \in retired :
            \/ retirement[s] = "final"
            \/ asking = s
            \/ \E i \in DOMAIN announced : announced[i] = s
            \/ \E i \in DOMAIN toClient : toClient[i] = Retired(s)

\* The server has denied a request, maybe for good.
IsDenied == \E i \in DOMAIN toClient : toClient[i].kind = "denied"

\* A Desktop without its connection becomes active again (connect()), or one of its
\* unanswered requests is denied when it is sent again: nothing else keeps it from
\* its end, neither a gap, a deletion, the renderer, a busy Session nor a definitive
\* rejection.  A request that is denied for good does, every time: its reservation
\* stays (#reconcileUnboundReservations, desktop-agents-client.ts:1314).
RecoveryEnds == phase = "down" ~> phase = "active" \/ IsDenied
=============================================================================
