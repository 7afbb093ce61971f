----------------------------- MODULE ProcessRpc -----------------------------
(***************************************************************************)
(* One connection between two processes: the handshake                     *)
(* (packages/process-rpc/src/client.ts, server.ts) and the peer at each    *)
(* end of it, with its requests, its handlers, cancellation, deadlines,    *)
(* limits and heartbeat (packages/process-rpc-core/src/peer.ts).           *)
(*                                                                         *)
(* The frames to an end arrive in order.  An end that closes tells the     *)
(* other, and may take with it what it sent last; when the network goes    *)
(* silent nobody is told anything.  The identifiers of requests are new,   *)
(* so that DUPLICATE_REQUEST and a foreign trace do not occur.             *)
(***************************************************************************)
EXTENDS Integers, Sequences, FiniteSets, Functions

CONSTANTS
    Requests,
    CallerOf,
    Unserved,      \* requests the other end refuses: no such method for the
                   \* role, no handler, or a deadline beyond its limit
    MaxPending,    \* maxPendingRequests
    MaxConcurrent, \* maxConcurrentRequests
    MaxHandlers,   \* maxConcurrentEvents
    MaxEvents      \* bound on the events on their way to an end

Ends == {"client", "server"}

ASSUME ProcessRpcAssumption ==
    /\ CallerOf \in [Requests -> Ends]
    /\ Unserved \subseteq Requests
    /\ {MaxPending, MaxConcurrent, MaxHandlers, MaxEvents} \subseteq Nat

VARIABLES
    end,           \* each end: "opening" (handshake), "open", "closed"
    net,           \* the frames on their way to each end
    cut,           \* the network is silent
    outcome,       \* of each request, at its caller
    handler,       \* of each request, at the other end
    events         \* unsettled event handlers of each end

vars == <<end, net, cut, outcome, handler, events>>

-----------------------------------------------------------------------------
Other(p) == IF p = "client" THEN "server" ELSE "client"
Callee(r) == Other(CallerOf[r])

Hello == [type |-> "hello"]
Ack == [type |-> "hello-ack"]
Close == [type |-> "close"]
Event == [type |-> "event"]
Request(r) == [type |-> "request", id |-> r]
Cancel(r) == [type |-> "cancel", id |-> r]
Response(r, x) == [type |-> "response", id |-> r, result |-> x]

\* A handler that does not run.
Settled(s) == [state |-> s, aborted |-> FALSE, eligible |-> FALSE]
Started == [state |-> "running", aborted |-> FALSE, eligible |-> TRUE]

Init ==
    /\ end = [p \in Ends |-> "opening"]
    /\ net = [p \in Ends |-> IF p = "server" THEN <<Hello>> ELSE <<>>]
    /\ cut = FALSE
    /\ outcome = [r \in Requests |-> "none"]
    /\ handler = [r \in Requests |-> Settled("none")]
    /\ events = [p \in Ends |-> 0]

Pending(p) == {r \in Requests : CallerOf[r] = p /\ outcome[r] = "pending"}
Running(p) == {r \in Requests : Callee(r) = p /\ handler[r].state = "running"}
Answers(r) == {Response(r, x) : x \in {"ok", "failed", "refused", "deadline"}}

Holds(n, p, f) == f \in Range(n[p])
\* Nothing that is sent now reaches the end.
Deaf(n, p) == cut \/ end[p] = "closed" \/ Holds(n, p, Close)

\* The frames after p sent some: they follow what is on its way.
Conveyed(n, p, frames) ==
    IF Deaf(n, Other(p)) THEN n ELSE [n EXCEPT ![Other(p)] = @ \o frames]

\* A peer that closes rejects its requests and aborts its handlers.
Rejected(o, p) ==
    [r \in Requests |-> IF CallerOf[r] = p /\ o[r] = "pending" THEN "unknown" ELSE o[r]]
Suppressed(h) == [h EXCEPT !.aborted = TRUE, !.eligible = FALSE]
Aborted(h, p) ==
    [r \in Requests |->
        IF Callee(r) = p /\ h[r].state = "running" THEN Suppressed(h[r]) ELSE h[r]]

\* Of what is on its way to an end some is lost, and the close comes after it.
\* A silent network keeps the close, too.
Parted(n, q) ==
    IF Deaf(n, q) THEN {n[q]} ELSE {SubSeq(n[q], 1, k) \o <<Close>> : k \in 0..Len(n[q])}

\* handleTransportClose, and what the other end will see of it.
Shuts(p, n, o, h) ==
    /\ end' = [end EXCEPT ![p] = "closed"]
    /\ outcome' = Rejected(o, p)
    /\ handler' = Aborted(h, p)
    /\ \E rest \in Parted(n, Other(p)) : net' = [n EXCEPT ![p] = <<>>, ![Other(p)] = rest]

\* p sends frames, from what its step made of the state, or the transport
\* refuses them (closed, full) and the connection is terminated.
Sends(p, n, o, h, frames) ==
    \/ /\ net' = Conveyed(n, p, frames)
       /\ outcome' = o
       /\ handler' = h
       /\ end' = end
    \/ frames # <<>> /\ Shuts(p, n, o, h)

Arriving(p, type) == net[p] # <<>> /\ Head(net[p]).type = type
Read(p) == [net EXCEPT ![p] = Tail(@)]

-----------------------------------------------------------------------------
(* The handshake.                                                          *)

\* The server accepts the hello or rejects it (identity, protocol, role, fence).
HelloArrives ==
    /\ end["server"] = "opening"
    /\ Arriving("server", "hello")
    /\ \/ /\ end' = [end EXCEPT !["server"] = "open"]
          /\ net' = Conveyed(Read("server"), "server", <<Ack>>)
          /\ UNCHANGED <<outcome, handler>>
       \/ Shuts("server", Read("server"), outcome, handler)
    /\ UNCHANGED <<cut, events>>

AckArrives ==
    /\ end["client"] = "opening"
    /\ Arriving("client", "hello-ack")
    /\ end' = [end EXCEPT !["client"] = "open"]
    /\ net' = Read("client")
    /\ UNCHANGED <<cut, outcome, handler, events>>

HandshakeTimesOut(p) ==
    /\ end[p] = "opening"
    /\ Shuts(p, net, outcome, handler)
    /\ UNCHANGED <<cut, events>>

-----------------------------------------------------------------------------
(* The caller.                                                             *)

\* request: refused at once when the connection is closed, the limit is
\* reached or its signal is aborted.
Ask(r) ==
    /\ outcome[r] = "none"
    /\ end[CallerOf[r]] # "opening"
    /\ LET p == CallerOf[r]
       IN  \/ /\ outcome' = [outcome EXCEPT ![r] = "unsent"]
              /\ UNCHANGED <<end, net, handler>>
           \/ /\ end[p] = "open"
              /\ Cardinality(Pending(p)) < MaxPending
              /\ Sends(p, net, [outcome EXCEPT ![r] = "pending"], handler, <<Request(r)>>)
    /\ UNCHANGED <<cut, events>>

\* Wrong variant: the other end is not told.
CancelledSilently(r) ==
    /\ outcome' = [outcome EXCEPT ![r] = "unknown"]
    /\ UNCHANGED <<end, net, handler>>
Cancelled(r) ==
    Sends(CallerOf[r], net, [outcome EXCEPT ![r] = "unknown"], handler, <<Cancel(r)>>)

\* #cancelPendingRequest: by the timer of the request or by its signal.
GivesUp(r) ==
    /\ outcome[r] = "pending"
    /\ Cancelled(r)
    /\ UNCHANGED <<cut, events>>

\* #handleResponse: a late answer is ignored; "deadline" may or may not have
\* been carried out.
Meant(x) == IF x = "deadline" THEN "unknown" ELSE x
ResponseArrives(p) ==
    /\ end[p] = "open"
    /\ Arriving(p, "response")
    /\ LET f == Head(net[p])
       IN  outcome' = IF outcome[f.id] = "pending"
                      THEN [outcome EXCEPT ![f.id] = Meant(f.result)]
                      ELSE outcome
    /\ net' = Read(p)
    /\ UNCHANGED <<end, cut, handler, events>>

-----------------------------------------------------------------------------
(* The other end.                                                          *)

\* #handleRequest: refused, already late, or handed to its handler.
RequestArrives(q) ==
    /\ end[q] = "open"
    /\ Arriving(q, "request")
    /\ LET r == Head(net[q]).id
           refused == [handler EXCEPT ![r] = Settled("refused")]
       IN  \/ /\ r \in Unserved \/ Cardinality(Running(q)) >= MaxConcurrent
              /\ Sends(q, Read(q), outcome, refused, <<Response(r, "refused")>>)
           \/ /\ r \notin Unserved
              /\ Cardinality(Running(q)) < MaxConcurrent
              /\ \/ Sends(q, Read(q), outcome, refused, <<Response(r, "deadline")>>)
                 \/ Sends(q, Read(q), outcome, [handler EXCEPT ![r] = Started], <<>>)
    /\ UNCHANGED <<cut, events>>

\* What a handler that ran out of time is answered.
\* Wrong variant: as if it had been refused.
LateAsRefused(r) == Response(r, "refused")
Late(r) == Response(r, "deadline")

\* The deadline of a handler, unless the request is answered or cancelled.
DeadlinePasses(r) ==
    /\ handler[r].state = "running"
    /\ handler[r].eligible
    /\ Sends(Callee(r), net, outcome, [handler EXCEPT ![r] = Suppressed(@)], <<Late(r)>>)
    /\ UNCHANGED <<cut, events>>

\* #runRequestHandler: only an answer that is still due is sent; a result that
\* cannot be encoded is told as a failure.
\* Wrong variant: nothing is told of a failure.
FailureDropped(r, s) == IF s = "failed" THEN {<<>>} ELSE {<<Response(r, "ok")>>}
Told(r, s) ==
    {<<Response(r, x)>> : x \in IF s = "done" THEN {"ok", "failed"} ELSE {"failed"}}

HandlerReturns(r) ==
    /\ handler[r].state = "running"
    /\ \E s \in {"done", "failed"} :
          LET h == [handler EXCEPT ![r] = Settled(s)]
          IN  IF handler[r].eligible
              THEN \E frames \in Told(r, s) : Sends(Callee(r), net, outcome, h, frames)
              ELSE Sends(Callee(r), net, outcome, h, <<>>)
    /\ UNCHANGED <<cut, events>>

\* #handleCancel.
CancelArrives(q) ==
    /\ end[q] = "open"
    /\ Arriving(q, "cancel")
    /\ LET r == Head(net[q]).id
       IN  handler' = IF r \in Running(q) THEN [handler EXCEPT ![r] = Suppressed(@)] ELSE handler
    /\ net' = Read(q)
    /\ UNCHANGED <<end, cut, outcome, events>>

-----------------------------------------------------------------------------
(* Events.                                                                 *)

Emit(p) ==
    /\ end[p] = "open"
    /\ Cardinality({i \in DOMAIN net[Other(p)] : net[Other(p)][i] = Event}) < MaxEvents
    /\ Sends(p, net, outcome, handler, <<Event>>)
    /\ UNCHANGED <<cut, events>>

\* #handleEvent: too many unsettled handlers end the connection.  A handler
\* settles at once or later; its failure is reported and changes nothing.
EventArrives(p) ==
    /\ end[p] = "open"
    /\ Arriving(p, "event")
    /\ \/ /\ events[p] >= MaxHandlers
          /\ Shuts(p, Read(p), outcome, handler)
          /\ UNCHANGED events
       \/ /\ events[p] < MaxHandlers
          /\ net' = Read(p)
          /\ events' \in {events, [events EXCEPT ![p] = @ + 1]}
          /\ UNCHANGED <<end, outcome, handler>>
    /\ UNCHANGED cut

EventHandled(p) ==
    /\ events[p] > 0
    /\ events' = [events EXCEPT ![p] = @ - 1]
    /\ UNCHANGED <<end, net, cut, outcome, handler>>

-----------------------------------------------------------------------------
(* The end of the connection.                                              *)

\* close, terminate; a newer process takes over, or the server stops.
Closes(p) ==
    /\ end[p] = "open"
    /\ Shuts(p, net, outcome, handler)
    /\ UNCHANGED <<cut, events>>

CloseArrives(p) ==
    /\ end[p] # "closed"
    /\ Arriving(p, "close")
    /\ Shuts(p, net, outcome, handler)
    /\ UNCHANGED <<cut, events>>

\* The connection breaks, and both ends are told.
Breaks ==
    /\ ~cut
    /\ \E c \in Parted(net, "client"), s \in Parted(net, "server") :
          net' = [p \in Ends |-> IF p = "client" THEN c ELSE s]
    /\ UNCHANGED <<end, cut, outcome, handler, events>>

FallsSilent ==
    /\ ~cut
    /\ cut' = TRUE
    /\ net' = [p \in Ends |-> <<>>]
    /\ UNCHANGED <<end, outcome, handler, events>>

\* Wrong variant: the silence is only looked for while an answer is awaited.
HeartbeatWhileAsking(p) ==
    /\ cut
    /\ end[p] = "open"
    /\ Pending(p) # {}
    /\ Shuts(p, net, outcome, handler)
    /\ UNCHANGED <<cut, events>>
\* #startHeartbeat: nothing was received for heartbeatTimeoutMs.
HeartbeatTimesOut(p) ==
    /\ cut
    /\ end[p] = "open"
    /\ Shuts(p, net, outcome, handler)
    /\ UNCHANGED <<cut, events>>

-----------------------------------------------------------------------------
Arrives(p) ==
    \/ p = "server" /\ HelloArrives
    \/ p = "client" /\ AckArrives
    \/ RequestArrives(p)
    \/ ResponseArrives(p)
    \/ CancelArrives(p)
    \/ EventArrives(p)
    \/ CloseArrives(p)

Next ==
    \/ \E r \in Requests :
          Ask(r) \/ GivesUp(r) \/ DeadlinePasses(r) \/ HandlerReturns(r)
    \/ \E p \in Ends :
          \/ Arrives(p)
          \/ HandshakeTimesOut(p)
          \/ Emit(p)
          \/ EventHandled(p)
          \/ Closes(p)
          \/ HeartbeatTimesOut(p)
    \/ Breaks
    \/ FallsSilent

Spec == Init /\ [][Next]_vars

\* Frames that are not lost arrive, and the heartbeat notices a silent network.
\* Nothing is asked of deadlines and handlers: a handler need not return.
Fairness == \A p \in Ends : WF_vars(Arrives(p)) /\ WF_vars(HeartbeatTimesOut(p))

FairSpec == Spec /\ Fairness

-----------------------------------------------------------------------------
(* What a connection promises.                                             *)

Known(r) ==
    CASE outcome[r] \in {"none", "pending"} -> "nothing"
      [] outcome[r] = "unsent" -> "refused"
      [] OTHER -> outcome[r]
Fate(r) ==
    IF outcome[r] = "unsent" THEN "refused"
    ELSE IF handler[r].state = "none" THEN "open" ELSE handler[r].state

RC == INSTANCE RemoteCall WITH known <- [r \in Requests |-> Known(r)],
                               fate <- [r \in Requests |-> Fate(r)]

\* A call is carried out at most once; a result, a failure and a refusal are
\* the truth, whatever is lost, late or closed (request, #runRequestHandler).
CallsKeepPromise == RC!CallSpec

\* Exactly one thing is left to happen to a pending request: it is on its way,
\* or its handler is to answer, or its answer is on its way; unless the
\* connection is ending.  Nobody answers twice, nobody forgets to.
PendingIsServed ==
    \A r \in Requests :
        LET p == CallerOf[r]
            q == Callee(r)
            asked == {i \in DOMAIN net[q] : net[q][i] = Request(r)}
            answered == {i \in DOMAIN net[p] : net[p][i] \in Answers(r)}
            due == {h \in {handler[r]} : h.eligible}
            left == Cardinality(asked) + Cardinality(answered) + Cardinality(due)
        IN  /\ left <= 1
            /\ outcome[r] = "pending" => left = 1 \/ Deaf(net, p)

\* A handler whose caller has given up is aborted, or is about to be: the
\* cancellation or the close is on its way (#cancelPendingRequest).
AbandonedIsAborted ==
    \A r \in Requests :
        handler[r].state = "running" /\ ~handler[r].aborted =>
            \/ outcome[r] = "pending"
            \/ Holds(net, Callee(r), Cancel(r))
            \/ Deaf(net, Callee(r))

\* A handler whose caller has given up does not run on unawares: the cancellation,
\* the close or at last the heartbeat reaches it, whatever was lost on the way and
\* though neither its own deadline nor its caller's need fire.
AbandonedStop ==
    \A r \in Requests :
        handler[r].state = "running" /\ outcome[r] # "pending"
            ~> handler[r].aborted \/ handler[r].state # "running"
=============================================================================
