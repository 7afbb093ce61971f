----------------------------- MODULE MobileLink -----------------------------
(***************************************************************************)
(* The connection of the mobile app to the agents server, from the screen  *)
(* down to the server's peer.                                              *)
(*                                                                         *)
(* The app's ConnectionController (TypeScript) shows one state and, in     *)
(* "connected", hands a client to the rest of the app.  It calls the       *)
(* native transport (Swift), which serves the calls one at a time and      *)
(* answers them; answers, frames and closed sockets come back as news.     *)
(* The server authenticates a socket against the challenge it signed and   *)
(* accepts one generation of a device at a time.                           *)
(*                                                                         *)
(* A turn of the app's event loop is one step: other steps come in where   *)
(* it awaits a native call.  Adding and removing a listener is answered    *)
(* within the turn.  An attempt to connect is named by the token it takes; *)
(* attempts take generations and sockets in the same order.  There is one  *)
(* pairing code and so one device, the versions and identities of the two  *)
(* sides match, and the Keychain does not refuse to delete the binding.    *)
(***************************************************************************)
EXTENDS Naturals, Sequences, SequencesExt

CONSTANTS
    MaxToken,   \* attempts to connect
    MaxFaults,  \* lost connections, failed calls, restarts of the server
    MaxMoves    \* what the user does

ASSUME MobileAssumption == MaxToken \in Nat /\ MaxFaults \in Nat /\ MaxMoves \in Nat

VARIABLES
    phone,   \* the controller, its attempts, and the native calls it has made
    news,    \* what the native side has for the controller
    native,  \* MobileTransportEngine: the binding, the pairing, the active socket
    down,    \* what the server has sent on the active socket
    server,  \* the device's row and the challenges
    sock,    \* the server's end of each attempt's socket
    hello,   \* the attempts whose hello is sent
    faults, moves

served == <<down, server, sock, hello>>
vars   == <<phone, news, native, served, faults, moves>>

Tokens == 1..MaxToken

\* NativeRpcConnection, and what has become of its attempt: "opening" until it is
\* bound, "hello" until it is acknowledged, then "up", and "down" until disposed.
NoAttempt == [at |-> "none", fatal |-> FALSE, early |-> FALSE]

Init ==
    /\ \E paired \in BOOLEAN :
          /\ native = [paired |-> paired, pairing |-> FALSE, active |-> 0]
          /\ server = [revoked |-> FALSE, claim |-> IF paired THEN "approved" ELSE "none",
                       accepted |-> 0, asked |-> {}]
    /\ phone = [ui |-> "initializing", client |-> 0, token |-> 0, timer |-> FALSE,
                poll |-> FALSE, app |-> "launched", astray |-> FALSE, att |-> [t \in Tokens |-> NoAttempt],
                calls |-> <<[op |-> "status", att |-> 0]>>]
    /\ news = <<>> /\ down = <<>>
    /\ sock = [t \in Tokens |-> "none"] /\ hello = {}
    /\ faults = 0 /\ moves = 0

Fault == faults < MaxFaults /\ faults' = faults + 1
Move  == moves < MaxMoves /\ moves' = moves + 1

-----------------------------------------------------------------------------
(* What the controller does within a turn, from one record of it to another. *)

Show(p, kind) == [p EXCEPT !.ui = kind, !.client = 0]

Call(p, op, t) == [p EXCEPT !.calls = Append(@, [op |-> op, att |-> t])]

\* A call to close does nothing for a socket that is no longer the active one, or
\* behind another such call, and is left out then.
Closing(p, t) ==
    IF native.active # t \/ \E i \in DOMAIN p.calls : p.calls[i] = [op |-> "close", att |-> t]
    THEN p ELSE Call(p, "close", t)

\* Nothing is scheduled in the background.
Away(p)     == p.app = "background"
Schedule(p) == [p EXCEPT !.timer = ~Away(p)]

\* NativeRpcConnection.dispose closes the socket of a bound connection only.
Dispose(p, t) ==
    [(IF p.att[t].at \in {"none", "opening"} THEN p ELSE Closing(p, t))
        EXCEPT !.att[t] = NoAttempt]

\* #handlePeerClose: the peer of attempt t is closed.
PeerClosed(p, t) ==
    LET q == [p EXCEPT !.att[t].at = "down"]
    IN IF t # p.token THEN q
       ELSE IF p.att[t].fatal THEN Show(Dispose(q, t), "error")
       ELSE IF Away(p) THEN Show(Dispose(q, t), "offline")
       ELSE Call(q, "status", t)

Current(p) == {t \in Tokens : p.att[t].at \in {"up", "down"}}

\* #teardownConnection: closing the peer is told to #handlePeerClose as well.
Teardown(p) ==
    IF Current(p) = {} THEN p
    ELSE LET t == CHOOSE u \in Current(p) : TRUE
         IN Dispose(IF p.att[t].at = "up" THEN PeerClosed(Closing(p, t), t) ELSE p, t)

\* Wrong variant: the timer of the last retry goes on.
ConnectKeepsTimer(p, kind) ==
    LET q == Show(Teardown(p), kind)
        t == q.token + 1
    IN Call([q EXCEPT !.token = t, !.att[t].at = "opening"], "connect", t)

\* #connect, up to the answer of the native side.
Connect(p, kind) ==
    LET q == Show(Teardown([p EXCEPT !.timer = FALSE]), kind)
        t == q.token + 1
    IN Call([q EXCEPT !.token = t, !.att[t].at = "opening"], "connect", t)

\* #handleConnectFailure
ConnectFails(p, t) ==
    LET q == Dispose(p, t)
    IN IF t # p.token THEN q
       ELSE IF p.att[t].fatal THEN Show(q, "error")
       ELSE Schedule(Show(q, "offline"))

\* The handshake of attempt t fails, unless it is over.
HandshakeFails(p, t) ==
    IF p.att[t].at = "hello" THEN ConnectFails(Closing(p, t), t) ELSE p

-----------------------------------------------------------------------------
(* News for the controller.                                                *)

Hears(kind) == news # <<>> /\ Head(news).is = kind /\ news' = Tail(news)
Of          == Head(news).att
CanDial     == phone.token < MaxToken
Turns(p)    == phone' = p /\ UNCHANGED <<native, served, faults, moves>>

\* init and the check after a peer is closed (0 is init).
HearsPaired ==
    /\ Hears("paired") /\ CanDial
    /\ Turns(IF Of = 0 THEN Connect(phone, "connecting")
             ELSE IF Of = phone.token THEN Schedule(Show(phone, "reconnecting"))
             ELSE phone)

HearsUnpaired ==
    /\ Hears("unpaired")
    /\ Turns(IF Of = 0 THEN Show(phone, "unpaired")
             ELSE IF Of = phone.token THEN Show(Teardown(phone), "error")
             ELSE phone)

\* A check that failed is not compared with the token; "astray" remembers when
\* that makes a difference.
HearsUnread ==
    /\ Hears("unread")
    /\ Turns(IF Of = 0 THEN phone
             ELSE [Schedule(Show(phone, "offline")) EXCEPT !.astray = @ \/ Of # phone.token])

HearsOpened ==
    /\ Hears("opened")
    /\ Turns(IF Of # phone.token THEN Dispose(phone, Of)
             ELSE IF phone.att[Of].early
             THEN HandshakeFails([phone EXCEPT !.att[Of].at = "hello"], Of)
             ELSE Call([phone EXCEPT !.att[Of].at = "hello"], "hello", Of))

HearsFailed == Hears("failed") /\ Turns(ConnectFails(phone, Of))

\* Wrong variant: the client of a superseded attempt is shown.
AckedAnyway(p, t) == [p EXCEPT !.att[t].at = "up", !.ui = "connected", !.client = t]

\* A superseded attempt is closed as it succeeds.
Acked(p, t) ==
    IF t # p.token THEN Dispose(p, t)
    ELSE [p EXCEPT !.att[t].at = "up", !.ui = "connected", !.client = t]

HearsAck ==
    /\ Hears("acked")
    /\ Turns(IF phone.att[Of].at = "hello" THEN Acked(phone, Of) ELSE phone)

HearsUnsent == Hears("unsent") /\ Turns(HandshakeFails(phone, Of))

\* Every connection that listens takes note of a fatal reason, whoever is closed.
Noted(p, fatal) ==
    [p EXCEPT !.att = [t \in Tokens |->
        [p.att[t] EXCEPT !.fatal = @ \/ (fatal /\ p.att[t].at # "none")]]]

HearsClosed ==
    /\ Hears("closed")
    /\ LET p == Noted(phone, Head(news).fatal)
       IN Turns(CASE p.att[Of].at = "opening" -> [p EXCEPT !.att[Of].early = TRUE]
                  [] p.att[Of].at = "up" -> PeerClosed(p, Of)
                  [] OTHER -> HandshakeFails(p, Of))

HearsCleared == Hears("cleared") /\ Turns(Show(phone, "unpaired"))

HearsClaimed   == Hears("claimed") /\ Turns([Show(phone, "waiting") EXCEPT !.poll = TRUE])
HearsUnclaimed == Hears("unclaimed")
                  /\ Turns(Show(phone, IF Head(news).fatal THEN "refused" ELSE "unpaired"))

Polling(p) == IF p.ui = "waiting" THEN [p EXCEPT !.poll = TRUE] ELSE p

HearsPending  == Hears("pending") /\ Turns(Polling(phone))
HearsUnpolled == Hears("unpolled") /\ Turns([phone EXCEPT !.poll = TRUE])
HearsApproved ==
    /\ Hears("approved") /\ CanDial
    /\ Turns(IF phone.ui = "waiting" THEN Connect(phone, "connecting") ELSE phone)
HearsDeclined ==
    /\ \/ Hears("rejected") \/ Hears("expired")
    /\ Turns(IF phone.ui # "waiting" THEN phone
             ELSE Show(phone, IF Head(news).is = "rejected" THEN "refused" ELSE "unpaired"))

HearsCancelled == Hears("cancelled") /\ Turns(Show(phone, "unpaired"))

-----------------------------------------------------------------------------
(* Timers, the user, and the state of the app.                             *)

Acts(p)  == phone' = p /\ UNCHANGED <<news, native, served, faults>>
Fires(p) == Acts(p) /\ UNCHANGED moves
Does(p)  == Acts(p) /\ Move

TimerFires == phone.timer /\ CanDial /\ Fires(Connect(phone, "reconnecting"))

PollFires ==
    /\ phone.poll
    /\ LET p == [phone EXCEPT !.poll = FALSE]
       IN Fires(IF p.ui = "waiting" THEN Call(p, "poll", 0) ELSE p)

HelloTimesOut(t) ==
    /\ phone.att[t].at = "hello" /\ Fault
    /\ phone' = HandshakeFails(phone, t)
    /\ UNCHANGED <<news, native, served, moves>>

\* The peer's heartbeat is not answered in time.
PeerGivesUp(t) ==
    /\ phone.att[t].at = "up" /\ Fault
    /\ phone' = PeerClosed(Closing(phone, t), t)
    /\ UNCHANGED <<news, native, served, moves>>

\* Wrong variant: what was lost in the background is left to the timer.
ResumesIdle(p) == IF p.ui \in {"unpaired", "initializing"} THEN Call(p, "status", 0) ELSE p

\* onAppActive, with the app active again.
Resumes(p) ==
    CASE p.ui \in {"offline", "reconnecting"} -> Connect(p, "reconnecting")
      [] p.ui \in {"unpaired", "initializing"} -> Call(p, "status", 0)
      [] OTHER -> p

\* The app is told of a change, and may be told that it is active at launch.
Foreground ==
    /\ phone.app # "active" /\ CanDial
    /\ Does(Resumes([phone EXCEPT !.app = "active"]))

Background == ~Away(phone) /\ Does([phone EXCEPT !.app = "background", !.timer = FALSE])

Retry == phone.ui = "offline" /\ CanDial /\ Does(Connect(phone, "reconnecting"))

\* unpair, up to the answer of the native side.
Unpairs(p) ==
    Call(Teardown([p EXCEPT !.token = @ + 1, !.timer = FALSE, !.poll = FALSE]), "unpair", 0)

Unpair == phone.ui \in {"connected", "error", "refused"} /\ CanDial /\ Does(Unpairs(phone))

BeginPairing ==
    /\ phone.ui = "unpaired"
    /\ Does(Call(Show([phone EXCEPT !.poll = FALSE], "pairing"), "claim", 0))

CancelPairing ==
    /\ phone.ui = "waiting"
    /\ Does(Call([phone EXCEPT !.poll = FALSE], "cancel", 0))

-----------------------------------------------------------------------------
(* The native transport, a call at a time.                                 *)

Serves(op) ==
    /\ phone.calls # <<>> /\ Head(phone.calls).op = op
    /\ phone' = [phone EXCEPT !.calls = Tail(@)]
    /\ UNCHANGED moves

Told(n, kind, t, fatal) == Append(n, [is |-> kind, att |-> t, fatal |-> fatal])
Answers(kind)           == news' = Told(news, kind, Head(phone.calls).att, FALSE)

\* teardown of the active socket, by a call.
Closed(n) == IF native.active = 0 THEN n ELSE Told(n, "closed", native.active, FALSE)

\* teardown by an event: it may overtake the answer that opened the socket.
Overtakes(t, fatal) ==
    LET closed == [is |-> "closed", att |-> t, fatal |-> fatal]
    IN \/ news' = Append(news, closed)
       \/ /\ news # <<>> /\ Last(news).is = "opened" /\ Last(news).att = t
          /\ news' = Front(news) \o <<closed, Last(news)>>

ServeStatus ==
    /\ Serves("status")
    /\ \/ Answers(IF native.paired THEN "paired" ELSE "unpaired") /\ UNCHANGED faults
       \/ Answers("unread") /\ Fault
    /\ UNCHANGED <<native, served>>

\* connect: a generation, the signed challenge, and the socket that supersedes.
ServeConnect ==
    LET t == Head(phone.calls).att
    IN /\ Serves("connect")
       /\ \/ /\ Answers("failed")
             /\ IF native.paired THEN Fault ELSE UNCHANGED faults
             /\ UNCHANGED <<native, served>>
          \/ /\ native.paired
             /\ native' = [native EXCEPT !.active = t]
             /\ news' = Told(Closed(news), "opened", t, FALSE)
             /\ server' = [server EXCEPT !.asked = @ \union {t}]
             /\ sock' = [sock EXCEPT ![t] = "upgrading"] /\ down' = <<>>
             /\ UNCHANGED <<hello, faults>>

ServeHello ==
    LET t == Head(phone.calls).att
    IN /\ Serves("hello")
       /\ IF native.active = t
          THEN /\ hello' = IF sock[t] = "none" THEN hello ELSE hello \union {t}
               /\ UNCHANGED news
          ELSE Answers("unsent") /\ UNCHANGED hello
       /\ UNCHANGED <<native, down, server, sock, faults>>

ServeClose ==
    /\ Serves("close")
    /\ IF native.active = Head(phone.calls).att
       THEN /\ news' = Closed(news) /\ down' = <<>>
            /\ native' = [native EXCEPT !.active = 0]
       ELSE UNCHANGED <<news, native, down>>
    /\ UNCHANGED <<server, sock, hello, faults>>

ServeUnpair ==
    /\ Serves("unpair")
    /\ news' = Told(Closed(news), "cleared", 0, FALSE)
    /\ native' = [paired |-> FALSE, pairing |-> FALSE, active |-> 0] /\ down' = <<>>
    /\ UNCHANGED <<server, sock, hello, faults>>

\* beginPairing: a second binding and a used code are refused.
ServeClaim ==
    /\ Serves("claim")
    /\ \/ /\ native.paired
          /\ Answers("unclaimed") /\ UNCHANGED <<native, server, faults>>
       \/ /\ ~native.paired /\ server.claim # "none"
          /\ news' = Told(news, "unclaimed", 0, TRUE) /\ UNCHANGED <<native, server, faults>>
       \/ /\ ~native.paired /\ server.claim = "none"
          /\ Answers("claimed") /\ UNCHANGED faults
          /\ native' = [native EXCEPT !.pairing = TRUE]
          /\ server' = [server EXCEPT !.claim = "pending"]
       \/ /\ ~native.paired /\ Fault
          /\ Answers("unclaimed") /\ UNCHANGED native
          /\ \E claim \in {"none", "pending"} :
                server' = [server EXCEPT !.claim = IF @ = "none" THEN claim ELSE @]
    /\ UNCHANGED <<down, sock, hello>>

ServePoll ==
    /\ Serves("poll")
    /\ \/ /\ Answers("unpolled")
          /\ IF native.pairing THEN Fault ELSE UNCHANGED faults
          /\ UNCHANGED native
       \/ /\ native.pairing /\ Answers(server.claim) /\ UNCHANGED faults
          /\ native' = IF server.claim = "pending" THEN native
                       ELSE [native EXCEPT !.pairing = FALSE, !.paired = server.claim = "approved"]
    /\ UNCHANGED served

ServeCancel ==
    /\ Serves("cancel") /\ Answers("cancelled")
    /\ native' = [native EXCEPT !.pairing = FALSE]
    /\ UNCHANGED <<served, faults>>

EngineOnly == UNCHANGED <<phone, server, sock, hello, moves>>

Drops ==
    /\ native.active # 0 /\ Fault
    /\ Overtakes(native.active, FALSE)
    /\ native' = [native EXCEPT !.active = 0] /\ down' = <<>>
    /\ EngineOnly

\* The OS ends the background task; the socket goes with it.
Expires ==
    /\ Away(phone) /\ native.active # 0
    /\ Overtakes(native.active, FALSE)
    /\ native' = [native EXCEPT !.active = 0] /\ down' = <<>>
    /\ EngineOnly /\ UNCHANGED faults

\* What the server sent arrives: an acknowledgement, or the end of the socket,
\* which is fatal for code 1008 and for an upgrade refused with 401.
Delivers ==
    /\ down # <<>>
    /\ IF Head(down) = "ack"
       THEN /\ news' = Told(news, "acked", native.active, FALSE)
            /\ down' = Tail(down) /\ UNCHANGED native
       ELSE /\ Overtakes(native.active, Head(down) \in {"refused", "revoked"})
            /\ native' = [native EXCEPT !.active = 0] /\ down' = <<>>
    /\ EngineOnly /\ UNCHANGED faults

-----------------------------------------------------------------------------
(* The server.                                                             *)

ServerOnly == UNCHANGED <<phone, news, native, moves>>

\* The server closes these sockets, and the phone is told why.
Closes(S, why) ==
    /\ sock' = [t \in Tokens |-> IF t \in S THEN "none" ELSE sock[t]]
    /\ hello' = hello \ S
    /\ down' = IF native.active \in S THEN Append(down, why) ELSE down

\* authenticateDevice: a challenge is used once, by a device that is not revoked.
Authenticate(t) ==
    /\ sock[t] = "upgrading"
    /\ server' = [server EXCEPT !.asked = @ \ {t}]
    /\ IF t \in server.asked /\ ~server.revoked
       THEN sock' = [sock EXCEPT ![t] = "authenticated"] /\ UNCHANGED <<hello, down>>
       ELSE Closes({t}, "refused")
    /\ ServerOnly /\ UNCHANGED faults

\* Wrong variant: the peer it replaces is left alone.
FencedNever(t) == {}

\* MobileIngressGenerationFence: the peers a newer generation replaces.
Fenced(t) == {u \in Tokens : sock[u] = "peer" /\ u # t}

\* The hello of socket t.
Accept(t) ==
    /\ sock[t] = "authenticated" /\ t \in hello
    /\ IF server.revoked \/ t < server.accepted
       THEN Closes({t}, "bye") /\ UNCHANGED server
       ELSE /\ server' = [server EXCEPT !.accepted = t]
            /\ sock' = [u \in Tokens |-> IF u = t THEN "peer"
                                         ELSE IF u \in Fenced(t) THEN "none" ELSE sock[u]]
            /\ hello' = hello \ ({t} \union Fenced(t))
            /\ down' = IF native.active = t THEN Append(down, "ack") ELSE down
    /\ ServerOnly /\ UNCHANGED faults

\* The handshake's or the heartbeat's timeout.
ServerTimesOut(t) ==
    /\ sock[t] \in {"authenticated", "peer"} /\ Fault
    /\ Closes({t}, "bye") /\ UNCHANGED server
    /\ ServerOnly

\* The end of a socket that the phone has closed.
SeesEnd(t) ==
    /\ sock[t] # "none" /\ t # native.active
    /\ Closes({t}, "bye")
    /\ server' = [server EXCEPT !.asked = @ \ {t}]
    /\ ServerOnly /\ UNCHANGED faults

Revoke ==
    /\ server.claim = "approved" /\ ~server.revoked
    /\ server' = [server EXCEPT !.revoked = TRUE]
    /\ Closes({t \in Tokens : sock[t] = "peer"}, "revoked")
    /\ ServerOnly /\ UNCHANGED faults

Decide ==
    /\ server.claim = "pending"
    /\ \E claim \in {"approved", "rejected", "expired"} :
          server' = [server EXCEPT !.claim = claim]
    /\ UNCHANGED <<phone, news, native, down, sock, hello, faults, moves>>

\* The challenges are in memory only; requests on their way reach the new server.
ServerRestarts ==
    /\ Fault
    /\ server' = [server EXCEPT !.asked = {}]
    /\ Closes({t \in Tokens : sock[t] \in {"authenticated", "peer"}}, "bye")
    /\ ServerOnly

-----------------------------------------------------------------------------
HearsNews ==
    \/ HearsPaired \/ HearsUnpaired \/ HearsUnread \/ HearsOpened \/ HearsFailed
    \/ HearsAck \/ HearsUnsent \/ HearsClosed \/ HearsCleared
    \/ HearsClaimed \/ HearsUnclaimed \/ HearsPending \/ HearsUnpolled
    \/ HearsApproved \/ HearsDeclined \/ HearsCancelled

User == Foreground \/ Background \/ Retry \/ Unpair \/ BeginPairing \/ CancelPairing

ServesCalls ==
    \/ ServeStatus \/ ServeConnect \/ ServeHello \/ ServeClose \/ ServeUnpair
    \/ ServeClaim \/ ServePoll \/ ServeCancel

Next ==
    \/ HearsNews \/ TimerFires \/ PollFires \/ User
    \/ ServesCalls \/ Drops \/ Expires \/ Delivers
    \/ Revoke \/ Decide \/ ServerRestarts
    \/ \E t \in Tokens :
          \/ HelloTimesOut(t) \/ PeerGivesUp(t)
          \/ Authenticate(t) \/ Accept(t) \/ ServerTimesOut(t) \/ SeesEnd(t)

Spec == Init /\ [][Next]_vars

\* The event loop, the native queue and the server get on with what is there,
\* and the timer of a retry fires.
Fairness ==
    /\ WF_vars(HearsNews) /\ WF_vars(ServesCalls) /\ WF_vars(Delivers)
    /\ WF_vars(TimerFires)
    /\ \A t \in Tokens : WF_vars(Authenticate(t)) /\ WF_vars(Accept(t))

FairSpec == Spec /\ Fairness

-----------------------------------------------------------------------------
\* "error" is an error of a binding; one of a pairing, which has none, is "refused".
Kinds == {"initializing", "unpaired", "pairing", "waiting", "connecting",
          "reconnecting", "offline", "connected", "error", "refused"}

\* The type invariant.
TypeOK ==
    /\ phone \in [ui : Kinds, client : 0..MaxToken, token : 0..MaxToken, timer : BOOLEAN,
                  poll : BOOLEAN, astray : BOOLEAN,
                  app : {"launched", "active", "background"},
                  att : [Tokens -> [at : {"none", "opening", "hello", "up", "down"},
                                    fatal : BOOLEAN, early : BOOLEAN]],
                  calls : Seq([op : {"status", "connect", "hello", "close", "unpair",
                                     "claim", "poll", "cancel"}, att : 0..MaxToken])]
    /\ native \in [paired : BOOLEAN, pairing : BOOLEAN, active : 0..MaxToken]
    /\ server \in [revoked : BOOLEAN, accepted : 0..MaxToken, asked : SUBSET Tokens,
                   claim : {"none", "pending", "approved", "rejected", "expired"}]
    /\ sock \in [Tokens -> {"none", "upgrading", "authenticated", "peer"}]
    /\ hello \subseteq Tokens
    /\ \A i \in DOMAIN down : down[i] \in {"ack", "refused", "revoked", "bye"}
    /\ faults \in 0..MaxFaults /\ moves \in 0..MaxMoves

UnderWay(op, t) == \E i \in DOMAIN phone.calls : phone.calls[i] = [op |-> op, att |-> t]
Known(kinds, t) == \E i \in DOMAIN news : news[i].is \in kinds /\ news[i].att = t

\* The app is connected with a live client, or it is about to show otherwise: the
\* binding is being checked or deleted.  No superseded attempt, stale answer or
\* late acknowledgement leaves a dead client on the screen (connection-controller.ts).
ClientIsLive ==
    phone.client # 0 =>
        \/ phone.att[phone.client].at = "up" /\ phone.client = phone.token
        \/ UnderWay("status", phone.client)
        \/ Known({"paired", "unpaired", "unread"}, phone.client)
        \/ UnderWay("unpair", 0) \/ Known({"cleared"}, 0)

\* A fatal end is final until the user acts: nothing dials again behind it, no
\* timer and no attempt of the current token (fatalReasonMap, #handleConnectFailure).
\* The one exception is the timer set by a failed check that should not have counted.
FatalMeansQuiet ==
    phone.ui = "error" /\ ~phone.astray =>
        /\ ~phone.timer
        /\ phone.token \in Tokens => phone.att[phone.token].at = "none"

\* The server serves one socket of the device, the newest it accepted, and none
\* once the device is revoked (MobileIngressGenerationFence, disconnectMobileDevice).
OneServedSocket ==
    \A t \in Tokens : sock[t] = "peer" => t = server.accepted /\ ~server.revoked

\* A paired app that means to be connected.  Not the one that shows "initializing":
\* if its getStatus fails (init), no timer tries again, only a return to the foreground.
Trying ==
    /\ native.paired /\ ~Away(phone)
    /\ phone.ui \in {"connecting", "reconnecting", "offline", "connected"}
Online == phone.client # 0 /\ sock[phone.client] = "peer"

\* In the foreground a paired app gets its connection, or gets it back, or says why
\* it cannot; one whose device is revoked says so and stops trying.
ConnectionSettles ==
    /\ Trying /\ ~server.revoked ~> Online \/ server.revoked \/ ~Trying
    /\ Trying /\ server.revoked ~> ~Trying
=============================================================================
