-------------------------- MODULE MobileLink_proofs --------------------------
(***************************************************************************)
(* What holds of MobileLink for any number of attempts, faults and moves   *)
(* of the user.  On the server's side, a device has one served socket, the *)
(* newest accepted one, and an older generation never comes back.  On the  *)
(* app's side, who is shown as connected is, and a fatal end is final.     *)
(***************************************************************************)
EXTENDS MobileLink, SequenceTheorems, TLAPS

\* The fields of the device's row and the sockets by attempt, whatever they hold.
ServerShape ==
    /\ server = [revoked |-> server.revoked, claim |-> server.claim,
                 accepted |-> server.accepted, asked |-> server.asked]
    /\ server.accepted \in Nat
    /\ sock = [t \in Tokens |-> sock[t]]

ServerInv == ServerShape /\ OneServedSocket

\* A step that leaves the row of the device and the sockets alone.
Elsewhere == UNCHANGED <<server, sock>>

\* The server's generation fence: what it accepted only grows.
GenerationsGrow == [][server'.accepted >= server.accepted]_vars

\* Initially nothing is served.
LEMMA ServerInit == Init => ServerInv
BY DEF Init, ServerInv, ServerShape, OneServedSocket, Tokens

\* Closing sockets takes away peers and adds none.
LEMMA ClosingKeepsInv ==
    ASSUME ServerInv, NEW S, NEW why, Closes(S, why),
           server'.accepted = server.accepted, server'.revoked = server.revoked,
           server' = [revoked |-> server'.revoked, claim |-> server'.claim,
                      accepted |-> server'.accepted, asked |-> server'.asked]
    PROVE  ServerInv'
BY DEF Closes, ServerInv, ServerShape, OneServedSocket

\* A step taken elsewhere keeps what is said of the server.
LEMMA ElsewhereKeepsInv ==
    ASSUME ServerInv, Elsewhere
    PROVE  ServerInv' /\ server'.accepted >= server.accepted
BY DEF Elsewhere, ServerInv, ServerShape, OneServedSocket

\* What the app, its timers and its user do.
LEMMA PhoneIsElsewhere ==
    ASSUME \/ HearsNews \/ TimerFires \/ PollFires \/ User
           \/ \E t \in Tokens : HelloTimesOut(t) \/ PeerGivesUp(t)
    PROVE  Elsewhere
<1>1. CASE HearsNews
    BY <1>1 DEF HearsNews, HearsPaired, HearsUnpaired, HearsUnread, HearsOpened, HearsFailed,
       HearsAck, HearsUnsent, HearsClosed, HearsCleared, HearsClaimed, HearsUnclaimed,
       HearsPending, HearsUnpolled, HearsApproved, HearsDeclined, HearsCancelled,
       Turns, served, Elsewhere
<1>2. CASE TimerFires \/ PollFires \/ User
    BY <1>2 DEF TimerFires, PollFires, User, Foreground, Background, Retry, Unpair,
       BeginPairing, CancelPairing, Does, Fires, Acts, served, Elsewhere
<1>3. CASE \E t \in Tokens : HelloTimesOut(t) \/ PeerGivesUp(t)
    BY <1>3 DEF HelloTimesOut, PeerGivesUp, served, Elsewhere
<1> QED
    BY <1>1, <1>2, <1>3

\* What the native transport does, apart from opening a socket and claiming a code.
LEMMA NativeIsElsewhere ==
    ASSUME \/ ServeStatus \/ ServeHello \/ ServeClose \/ ServeUnpair \/ ServePoll
           \/ ServeCancel \/ Drops \/ Expires \/ Delivers
    PROVE  Elsewhere
BY DEF ServeStatus, ServeHello, ServeClose, ServeUnpair, ServePoll, ServeCancel,
   Drops, Expires, Delivers, EngineOnly, served, Elsewhere

\* One step of the system.
LEMMA ServerStep ==
    ASSUME ServerInv, [Next]_vars
    PROVE  ServerInv' /\ server'.accepted >= server.accepted
<1> USE DEF ServerShape
<1>1. CASE ServeConnect
    <2>1. CASE UNCHANGED <<native, served>>
        BY <2>1, ElsewhereKeepsInv DEF served, Elsewhere
    <2>2. CASE /\ server' = [server EXCEPT !.asked = @ \union {Head(phone.calls).att}]
               /\ sock' = [sock EXCEPT ![Head(phone.calls).att] = "upgrading"]
        BY <2>2 DEF ServerInv, OneServedSocket
    <2> QED
        BY <1>1, <2>1, <2>2 DEF ServeConnect
<1>2. CASE ServeClaim
    <2>1. sock' = sock /\ server'.accepted = server.accepted /\ server'.revoked = server.revoked
          /\ server' = [revoked |-> server'.revoked, claim |-> server'.claim,
                        accepted |-> server'.accepted, asked |-> server'.asked]
        BY <1>2 DEF ServeClaim, ServerInv
    <2> QED
        BY <2>1 DEF ServerInv, OneServedSocket
<1>3. ASSUME NEW t \in Tokens, Authenticate(t)
      PROVE  ServerInv' /\ server'.accepted >= server.accepted
    <2>1. server' = [server EXCEPT !.asked = @ \ {t}]
        BY <1>3 DEF Authenticate
    <2>2. CASE sock' = [sock EXCEPT ![t] = "authenticated"]
        BY <2>1, <2>2 DEF ServerInv, OneServedSocket
    <2>3. CASE Closes({t}, "refused")
        BY <2>1, <2>3, ClosingKeepsInv DEF ServerInv
    <2> QED
        BY <1>3, <2>2, <2>3 DEF Authenticate
<1>4. ASSUME NEW t \in Tokens, Accept(t)
      PROVE  ServerInv' /\ server'.accepted >= server.accepted
    <2>1. CASE Closes({t}, "bye") /\ UNCHANGED server
        BY <2>1, ClosingKeepsInv DEF ServerInv
    <2>2. CASE /\ ~(server.revoked \/ t < server.accepted)
               /\ server' = [server EXCEPT !.accepted = t]
               /\ sock' = [u \in Tokens |-> IF u = t THEN "peer"
                                            ELSE IF u \in Fenced(t) THEN "none" ELSE sock[u]]
        <3>1. server'.accepted = t /\ ~server'.revoked /\ t \in Nat /\ t >= server.accepted
            BY <2>2 DEF ServerInv, Tokens
        <3>2. \A u \in Tokens : sock'[u] = "peer" => u = t
            BY <2>2 DEF Fenced
        <3> QED
            BY <2>2, <3>1, <3>2 DEF ServerInv, OneServedSocket
    <2> QED
        BY <1>4, <2>1, <2>2 DEF Accept
<1>5. ASSUME NEW t \in Tokens, ServerTimesOut(t) \/ SeesEnd(t)
      PROVE  ServerInv' /\ server'.accepted >= server.accepted
    BY <1>5, ClosingKeepsInv DEF ServerTimesOut, SeesEnd, ServerInv
<1>6. CASE Revoke
    <2>1. \A t \in Tokens : sock'[t] # "peer"
        BY <1>6 DEF Revoke, Closes
    <2>2. /\ server' = [revoked |-> TRUE, claim |-> server.claim,
                         accepted |-> server.accepted, asked |-> server.asked]
          /\ server.accepted \in Nat
        BY <1>6 DEF Revoke, ServerInv
    <2>3. sock' = [t \in Tokens |-> sock'[t]]
        BY <1>6 DEF Revoke, Closes
    <2> QED
        BY <2>1, <2>2, <2>3 DEF ServerInv, OneServedSocket
<1>7. CASE Decide
    BY <1>7 DEF Decide, ServerInv, OneServedSocket
<1>8. CASE ServerRestarts
    BY <1>8, ClosingKeepsInv DEF ServerRestarts, ServerInv
<1>9. CASE UNCHANGED vars
    BY <1>9, ElsewhereKeepsInv DEF vars, served, Elsewhere
<1> QED
    BY <1>1, <1>2, <1>3, <1>4, <1>5, <1>6, <1>7, <1>8, <1>9,
       PhoneIsElsewhere, NativeIsElsewhere, ElsewhereKeepsInv DEF Next, ServesCalls

-----------------------------------------------------------------------------
\* Two sockets of a device are never served at once, none of a device that is
\* revoked, and the one that is served is the newest accepted (the generation fence).
THEOREM OneSocketIsServed == Spec => []OneServedSocket
<1>1. ServerInv => OneServedSocket
    BY DEF ServerInv
<1> QED
    BY <1>1, ServerInit, ServerStep, PTL DEF Spec

\* A late hello of an older generation never takes the device back.
THEOREM NoOlderGeneration == Spec => GenerationsGrow
<1>1. ServerInv /\ [Next]_vars => [server'.accepted >= server.accepted]_vars
    BY ServerStep
<1> QED
    BY <1>1, ServerInit, ServerStep, PTL DEF Spec, GenerationsGrow

-----------------------------------------------------------------------------
(* The app's side: what it has asked the native transport, and the answers. *)

Ops    == {"status", "connect", "hello", "close", "unpair", "claim", "poll", "cancel"}
Calls  == [op : Ops, att : 0..MaxToken]
Ends   == [at : {"none", "opening", "hello", "up", "down"}, fatal : BOOLEAN, early : BOOLEAN]
Phones == [ui : Kinds, client : 0..MaxToken, token : 0..MaxToken, timer : BOOLEAN,
           poll : BOOLEAN, astray : BOOLEAN, app : {"launched", "active", "background"},
           att : [Tokens -> Ends], calls : Seq(Calls)]

\* The answers to a question about the binding, to a dial, and the rest.
Checked == {"paired", "unpaired", "unread"}
Dialled == {"opened", "failed"}
Rest    == {"acked", "unsent", "closed", "cleared", "claimed", "unclaimed", "pending",
            "unpolled", "approved", "rejected", "expired", "cancelled", "none"}
News    == [is : Checked \union Dialled \union Rest, att : 0..MaxToken, fatal : BOOLEAN]

\* A call is on its way, once; an answer is.
Has(c, op, t)    == \E i \in DOMAIN c : c[i].op = op /\ c[i].att = t
Single(c, op, t) == \A i, j \in DOMAIN c :
    c[i].op = op /\ c[i].att = t /\ c[j].op = op /\ c[j].att = t => i = j
Hear(n, K, t)      == \E i \in DOMAIN n : n[i].is \in K /\ n[i].att = t
HearOnce(n, K, t)  == \A i, j \in DOMAIN n :
    n[i].is \in K /\ n[i].att = t /\ n[j].is \in K /\ n[j].att = t => i = j

\* Calls are added at the end.
LEMMA CallAdded ==
    ASSUME NEW c \in Seq(Calls), NEW x \in Calls, NEW d, d = Append(c, x), NEW op, NEW t
    PROVE  /\ d \in Seq(Calls)
           /\ Has(d, op, t) <=> Has(c, op, t) \/ (x.op = op /\ x.att = t)
           /\ Single(c, op, t) /\ ~(Has(c, op, t) /\ x.op = op /\ x.att = t) => Single(d, op, t)
<1>1. /\ d \in Seq(Calls) /\ Len(d) = Len(c) + 1 /\ DOMAIN d = 1..(Len(c) + 1)
      /\ DOMAIN c = 1..Len(c) /\ Len(c) \in Nat
      /\ d[Len(c) + 1] = x /\ \A i \in 1..Len(c) : d[i] = c[i]
    OBVIOUS
<1>2. Has(d, op, t) <=> Has(c, op, t) \/ (x.op = op /\ x.att = t)
    <2>1. ASSUME Has(c, op, t) PROVE Has(d, op, t)
        BY <1>1, <2>1 DEF Has
    <2>2. ASSUME x.op = op, x.att = t PROVE Has(d, op, t)
        <3>1. Len(c) + 1 \in DOMAIN d /\ d[Len(c) + 1] = x
            BY <1>1
        <3> QED
            BY <2>2, <3>1 DEF Has
    <2>3. ASSUME Has(d, op, t) PROVE Has(c, op, t) \/ (x.op = op /\ x.att = t)
        BY <1>1, <2>3 DEF Has
    <2> QED
        BY <2>1, <2>2, <2>3
<1>3. ASSUME Single(c, op, t), ~(Has(c, op, t) /\ x.op = op /\ x.att = t) PROVE Single(d, op, t)
    BY <1>1, <1>3 DEF Single, Has
<1> QED
    BY <1>1, <1>2, <1>3

\* The first call is served.
LEMMA CallServed ==
    ASSUME NEW c \in Seq(Calls), c # <<>>, NEW d, d = Tail(c), NEW op, NEW t
    PROVE  /\ d \in Seq(Calls) /\ Head(c) \in Calls
           /\ Has(c, op, t) <=> Has(d, op, t) \/ (Head(c).op = op /\ Head(c).att = t)
           /\ Single(c, op, t) => /\ Single(d, op, t)
                                  /\ Head(c).op = op /\ Head(c).att = t => ~Has(d, op, t)
<1>1. /\ d \in Seq(Calls) /\ DOMAIN d = 1..(Len(c) - 1) /\ DOMAIN c = 1..Len(c)
      /\ Len(c) \in Nat /\ Len(c) >= 1 /\ Head(c) = c[1] /\ c[1] \in Calls
      /\ \A i \in DOMAIN d : d[i] = c[i + 1] /\ i + 1 \in DOMAIN c
    OBVIOUS
<1>2. ASSUME Has(c, op, t) PROVE Has(d, op, t) \/ (Head(c).op = op /\ Head(c).att = t)
    <2>1. PICK i \in DOMAIN c : c[i].op = op /\ c[i].att = t
        BY <1>2 DEF Has
    <2>2. CASE i = 1
        BY <1>1, <2>1, <2>2
    <2>3. CASE i # 1
        <3>1. i - 1 \in DOMAIN d /\ d[i - 1] = c[i]
            BY <1>1, <2>3
        <3> QED
            BY <2>1, <3>1 DEF Has
    <2> QED
        BY <2>2, <2>3
<1>3. ASSUME Has(d, op, t) \/ (Head(c).op = op /\ Head(c).att = t) PROVE Has(c, op, t)
    BY <1>1, <1>3 DEF Has
<1>4. ASSUME Single(c, op, t)
      PROVE  Single(d, op, t) /\ (Head(c).op = op /\ Head(c).att = t => ~Has(d, op, t))
    BY <1>1, <1>4 DEF Single, Has
<1> QED
    BY <1>1, <1>2, <1>3, <1>4

\* News are added at the end, or before the last one.
LEMMA NewsAdded ==
    ASSUME NEW n \in Seq(News), NEW x \in News, NEW m, NEW K, NEW t,
           m = Append(n, x) \/ (n # <<>> /\ m = Front(n) \o <<x, Last(n)>>)
    PROVE  /\ m \in Seq(News)
           /\ Hear(m, K, t) <=> Hear(n, K, t) \/ (x.is \in K /\ x.att = t)
           /\ HearOnce(n, K, t) /\ ~(Hear(n, K, t) /\ x.is \in K /\ x.att = t)
                => HearOnce(m, K, t)
<1>1. CASE m = Append(n, x)
    <2>1. /\ m \in Seq(News) /\ DOMAIN m = 1..(Len(n) + 1) /\ DOMAIN n = 1..Len(n) /\ Len(n) \in Nat
          /\ m[Len(n) + 1] = x /\ \A i \in 1..Len(n) : m[i] = n[i]
        BY <1>1
    <2>2. ASSUME Hear(n, K, t) \/ (x.is \in K /\ x.att = t) PROVE Hear(m, K, t)
        <3>1. Len(n) + 1 \in DOMAIN m /\ m[Len(n) + 1] = x
            BY <2>1
        <3> QED
            BY <2>1, <2>2, <3>1 DEF Hear
    <2>3. ASSUME Hear(m, K, t) PROVE Hear(n, K, t) \/ (x.is \in K /\ x.att = t)
        BY <2>1, <2>3 DEF Hear
    <2>4. ASSUME HearOnce(n, K, t), ~(Hear(n, K, t) /\ x.is \in K /\ x.att = t)
          PROVE  HearOnce(m, K, t)
        BY <2>1, <2>4 DEF HearOnce, Hear
    <2> QED
        BY <2>1, <2>2, <2>3, <2>4
<1>2. CASE n # <<>> /\ m = Front(n) \o <<x, Last(n)>>
    <2>1. /\ Len(n) \in Nat \ {0} /\ DOMAIN n = 1..Len(n)
          /\ Last(n) = n[Len(n)] /\ n[Len(n)] \in News
          /\ Front(n) \in Seq(News) /\ Len(Front(n)) = Len(n) - 1
          /\ \A i \in 1..(Len(n) - 1) : Front(n)[i] = n[i]
        <3>1. Len(n) \in Nat /\ Len(n) # 0 /\ DOMAIN n = 1..Len(n) /\ n[Len(n)] \in News
            BY <1>2
        <3>2. Front(n) = SubSeq(n, 1, Len(n) - 1) /\ Last(n) = n[Len(n)]
            BY DEF Front, Last
        <3>3. /\ SubSeq(n, 1, Len(n) - 1) \in Seq(News)
              /\ Len(SubSeq(n, 1, Len(n) - 1)) = Len(n) - 1
              /\ \A i \in 1..(Len(n) - 1) : SubSeq(n, 1, Len(n) - 1)[i] = n[i]
            BY <3>1
        <3> QED
            BY <3>1, <3>2, <3>3
    <2>2. <<x, Last(n)>> \in Seq(News) /\ Len(<<x, Last(n)>>) = 2
          /\ <<x, Last(n)>>[1] = x /\ <<x, Last(n)>>[2] = Last(n)
        BY <2>1
    <2>3. /\ m \in Seq(News) /\ Len(m) = Len(n) + 1 /\ DOMAIN m = 1..(Len(n) + 1)
          /\ m[Len(n)] = x /\ m[Len(n) + 1] = n[Len(n)]
          /\ \A i \in 1..(Len(n) - 1) : m[i] = n[i]
        <3>1. PICK f, g : f = Front(n) /\ g = <<x, Last(n)>>
            OBVIOUS
        <3>2. /\ f \in Seq(News) /\ g \in Seq(News) /\ Len(f) = Len(n) - 1 /\ Len(g) = 2
              /\ g[1] = x /\ g[2] = n[Len(n)] /\ \A i \in 1..(Len(n) - 1) : f[i] = n[i]
            BY <2>1, <2>2, <3>1
        <3>3. /\ f \o g \in Seq(News) /\ Len(f \o g) = Len(f) + 2
              /\ \A i \in 1..Len(f) : (f \o g)[i] = f[i]
              /\ (f \o g)[Len(f) + 1] = g[1] /\ (f \o g)[Len(f) + 2] = g[2]
            <4>1. Len(f) \in Nat /\ Len(g) = 2
                BY <3>2
            <4>2. /\ f \o g \in Seq(News) /\ Len(f \o g) = Len(f) + Len(g)
                  /\ \A i \in 1..(Len(f) + Len(g)) :
                        (f \o g)[i] = IF i <= Len(f) THEN f[i] ELSE g[i - Len(f)]
                BY <3>2, ConcatProperties
            <4> QED
                BY <4>1, <4>2
        <3>4. m = f \o g /\ DOMAIN m = 1..Len(m)
            BY <1>2, <3>1, <3>3
        <3>5. Len(f) + 1 = Len(n) /\ Len(f) + 2 = Len(n) + 1 /\ Len(f) = Len(n) - 1
            BY <2>1, <3>2
        <3> QED
            BY <3>2, <3>3, <3>4, <3>5
    <2>4. ASSUME Hear(n, K, t) \/ (x.is \in K /\ x.att = t) PROVE Hear(m, K, t)
        <3>1. /\ Len(n) \in DOMAIN m /\ m[Len(n)] = x
              /\ Len(n) + 1 \in DOMAIN m /\ m[Len(n) + 1] = n[Len(n)]
            BY <2>1, <2>3
        <3>2. \A i \in DOMAIN n : \E j \in DOMAIN m : m[j] = n[i]
            <4> SUFFICES ASSUME NEW i \in DOMAIN n PROVE \E j \in DOMAIN m : m[j] = n[i]
                OBVIOUS
            <4>1. CASE i = Len(n)
                BY <3>1, <4>1
            <4>2. CASE i # Len(n)
                <5>1. i \in 1..(Len(n) - 1) /\ i \in DOMAIN m
                    BY <2>1, <2>3, <4>2
                <5> QED
                    BY <2>3, <5>1
            <4> QED
                BY <4>1, <4>2
        <3> QED
            BY <2>4, <3>1, <3>2 DEF Hear
    <2>5. ASSUME Hear(m, K, t) PROVE Hear(n, K, t) \/ (x.is \in K /\ x.att = t)
        <3>1. \A j \in DOMAIN m : m[j] = x \/ \E i \in DOMAIN n : m[j] = n[i]
            BY <2>1, <2>3
        <3> QED
            BY <2>5, <3>1 DEF Hear
    <2>6. ASSUME HearOnce(n, K, t), ~(Hear(n, K, t) /\ x.is \in K /\ x.att = t)
          PROVE  HearOnce(m, K, t)
        <3>1. SUFFICES ASSUME NEW i \in DOMAIN m, NEW j \in DOMAIN m,
                              m[i].is \in K, m[i].att = t, m[j].is \in K, m[j].att = t
                       PROVE  i = j
            BY DEF HearOnce
        <3>2. \A k \in DOMAIN m : \/ k = Len(n)
                                  \/ k \in 1..(Len(n) - 1) /\ m[k] = n[k] /\ k \in DOMAIN n
                                  \/ k = Len(n) + 1 /\ m[k] = n[Len(n)] /\ Len(n) \in DOMAIN n
            BY <2>1, <2>3
        <3>3. CASE x.is \in K /\ x.att = t
            <4>1. ~Hear(n, K, t)
                BY <2>6, <3>3
            <4> QED
                BY <3>1, <3>2, <4>1 DEF Hear
        <3>4. CASE ~(x.is \in K /\ x.att = t)
            <4>1. i # Len(n) /\ j # Len(n)
                BY <2>3, <3>1, <3>4
            <4> QED
                BY <2>1, <2>6, <3>1, <3>2, <4>1 DEF HearOnce
        <3> QED
            BY <3>3, <3>4
    <2> QED
        BY <2>3, <2>4, <2>5, <2>6
<1> QED
    BY <1>1, <1>2

\* The first of the news is heard.
LEMMA NewsHeard ==
    ASSUME NEW n \in Seq(News), n # <<>>, NEW m, m = Tail(n), NEW K, NEW t
    PROVE  /\ m \in Seq(News) /\ Head(n) \in News
           /\ Hear(n, K, t) <=> Hear(m, K, t) \/ (Head(n).is \in K /\ Head(n).att = t)
           /\ HearOnce(n, K, t) => /\ HearOnce(m, K, t)
                                   /\ Head(n).is \in K /\ Head(n).att = t => ~Hear(m, K, t)
<1>1. /\ m \in Seq(News) /\ DOMAIN m = 1..(Len(n) - 1) /\ DOMAIN n = 1..Len(n)
      /\ Len(n) \in Nat /\ Len(n) >= 1 /\ Head(n) = n[1] /\ n[1] \in News
      /\ \A i \in DOMAIN m : m[i] = n[i + 1] /\ i + 1 \in DOMAIN n
    OBVIOUS
<1>2. ASSUME Hear(n, K, t) PROVE Hear(m, K, t) \/ (Head(n).is \in K /\ Head(n).att = t)
    <2>1. PICK i \in DOMAIN n : n[i].is \in K /\ n[i].att = t
        BY <1>2 DEF Hear
    <2>2. CASE i = 1
        BY <1>1, <2>1, <2>2
    <2>3. CASE i # 1
        <3>1. i - 1 \in DOMAIN m /\ m[i - 1] = n[i]
            BY <1>1, <2>3
        <3> QED
            BY <2>1, <3>1 DEF Hear
    <2> QED
        BY <2>2, <2>3
<1>3. ASSUME Hear(m, K, t) \/ (Head(n).is \in K /\ Head(n).att = t) PROVE Hear(n, K, t)
    BY <1>1, <1>3 DEF Hear
<1>4. ASSUME HearOnce(n, K, t)
      PROVE  HearOnce(m, K, t) /\ (Head(n).is \in K /\ Head(n).att = t => ~Hear(m, K, t))
    BY <1>1, <1>4 DEF HearOnce, Hear
<1> QED
    BY <1>1, <1>2, <1>3, <1>4

-----------------------------------------------------------------------------
(* What the turns of the controller are made of.                           *)

Asks == {"status", "connect", "hello", "unpair"}

\* The calls in Asks are the same ones, or the call (o, u) is added to them.
SameAsks(c, d) == \A op \in Asks, t \in 0..MaxToken :
    (Has(d, op, t) <=> Has(c, op, t)) /\ (Single(c, op, t) => Single(d, op, t))
AddsAsk(c, d, o, u) == \A op \in Asks, t \in 0..MaxToken :
    /\ Has(d, op, t) <=> Has(c, op, t) \/ (op = o /\ t = u)
    /\ Single(c, op, t) /\ ~(Has(c, op, t) /\ op = o /\ t = u) => Single(d, op, t)

\* Nothing but what is shown, the calls and the attempt t may differ.
Alike(p, q) == q.token = p.token /\ q.timer = p.timer /\ q.astray = p.astray
Shown(p, q) == q.ui = p.ui /\ q.client = p.client

\* What is shown changes, and no client is shown.
LEMMA ShowIs ==
    ASSUME NEW p \in Phones, NEW kind \in Kinds, NEW q, q = Show(p, kind)
    PROVE  /\ q \in Phones /\ Alike(p, q) /\ q.att = p.att /\ q.calls = p.calls
           /\ q.ui = kind /\ q.client = 0
<1>1. 0 \in 0..MaxToken
    BY MobileAssumption
<1> QED
    BY <1>1 DEF Show, Phones, Alike

\* A call is made.
LEMMA CallIs ==
    ASSUME NEW p \in Phones, NEW op \in Ops, NEW t \in 0..MaxToken, NEW q, q = Call(p, op, t)
    PROVE  /\ q \in Phones /\ Alike(p, q) /\ Shown(p, q) /\ q.att = p.att
           /\ op \notin Asks => SameAsks(p.calls, q.calls)
           /\ AddsAsk(p.calls, q.calls, op, t)
<1>1. PICK x : x = [op |-> op, att |-> t]
    OBVIOUS
<1>2. x \in Calls /\ x.op = op /\ x.att = t
    BY <1>1 DEF Calls
<1>3. p.calls \in Seq(Calls)
    BY DEF Phones
<1>4. PICK d : d = Append(p.calls, x)
    OBVIOUS
<1>5. d \in Seq(Calls)
    BY <1>2, <1>3, <1>4
<1>6. q = [p EXCEPT !.calls = d]
    BY <1>1, <1>4 DEF Call
<1>7. q \in Phones /\ Alike(p, q) /\ Shown(p, q) /\ q.att = p.att /\ q.calls = d
    BY <1>5, <1>6 DEF Phones, Alike, Shown
<1>8. AddsAsk(p.calls, d, op, t)
    <2>1. \A o, u : /\ Has(d, o, u) <=> Has(p.calls, o, u) \/ (op = o /\ t = u)
                    /\ Single(p.calls, o, u) /\ ~(Has(p.calls, o, u) /\ op = o /\ t = u)
                          => Single(d, o, u)
        <3> SUFFICES ASSUME NEW o, NEW u
                     PROVE  /\ Has(d, o, u) <=> Has(p.calls, o, u) \/ (op = o /\ t = u)
                            /\ Single(p.calls, o, u) /\ ~(Has(p.calls, o, u) /\ op = o /\ t = u)
                                  => Single(d, o, u)
            OBVIOUS
        <3>1. /\ Has(d, o, u) <=> Has(p.calls, o, u) \/ (x.op = o /\ x.att = u)
              /\ Single(p.calls, o, u) /\ ~(Has(p.calls, o, u) /\ x.op = o /\ x.att = u)
                    => Single(d, o, u)
            <4>1. PICK c : c = p.calls
                OBVIOUS
            <4>2. c \in Seq(Calls) /\ x \in Calls /\ d = Append(c, x)
                BY <1>2, <1>3, <1>4, <4>1
            <4>3. /\ Has(d, o, u) <=> Has(c, o, u) \/ (x.op = o /\ x.att = u)
                  /\ Single(c, o, u) /\ ~(Has(c, o, u) /\ x.op = o /\ x.att = u)
                        => Single(d, o, u)
                BY <4>2, CallAdded
            <4> QED
                BY <4>1, <4>3
        <3> QED
            BY <1>2, <3>1
    <2> QED
        BY <2>1 DEF AddsAsk
<1>9. op \notin Asks => SameAsks(p.calls, d)
    BY <1>8 DEF AddsAsk, SameAsks
<1> QED
    BY <1>1, <1>4, <1>7, <1>8, <1>9

\* Turns that ask nothing compose, with one another and with one that asks.
LEMMA AsksAreSame ==
    /\ \A c : SameAsks(c, c)
    /\ \A c, d, e : SameAsks(c, d) /\ SameAsks(d, e) => SameAsks(c, e)
    /\ \A c, d, e, o, u : SameAsks(c, d) /\ AddsAsk(d, e, o, u) => AddsAsk(c, e, o, u)
    /\ \A c, d, e, o, u : AddsAsk(c, d, o, u) /\ SameAsks(d, e) => AddsAsk(c, e, o, u)
<1>1. \A c : SameAsks(c, c)
    BY DEF SameAsks
<1>2. \A c, d, e : SameAsks(c, d) /\ SameAsks(d, e) => SameAsks(c, e)
    BY DEF SameAsks
<1>3. ASSUME NEW c, NEW d, NEW e, NEW o, NEW u, SameAsks(c, d), AddsAsk(d, e, o, u)
      PROVE  AddsAsk(c, e, o, u)
    BY <1>3 DEF SameAsks, AddsAsk
<1>4. ASSUME NEW c, NEW d, NEW e, NEW o, NEW u, AddsAsk(c, d, o, u), SameAsks(d, e)
      PROVE  AddsAsk(c, e, o, u)
    BY <1>4 DEF SameAsks, AddsAsk
<1> QED
    BY <1>1, <1>2, <1>3, <1>4

\* A socket is closed, which asks nothing.
LEMMA ClosingIs ==
    ASSUME NEW p \in Phones, NEW t \in 0..MaxToken, NEW q, q = Closing(p, t)
    PROVE  /\ q \in Phones /\ Alike(p, q) /\ Shown(p, q) /\ q.att = p.att
           /\ SameAsks(p.calls, q.calls)
<1>1. CASE q = p
    BY <1>1, AsksAreSame DEF Alike, Shown
<1>2. CASE q = Call(p, "close", t)
    <2>1. "close" \in Ops /\ "close" \notin Asks
        BY DEF Ops, Asks
    <2> QED
        BY <1>2, <2>1, CallIs
<1> QED
    BY <1>1, <1>2 DEF Closing

\* An attempt is disposed of.
LEMMA DisposeIs ==
    ASSUME NEW p \in Phones, NEW t \in Tokens, NEW q, q = Dispose(p, t)
    PROVE  /\ q \in Phones /\ Alike(p, q) /\ Shown(p, q)
           /\ q.att[t].at = "none" /\ \A u \in Tokens : u # t => q.att[u] = p.att[u]
           /\ SameAsks(p.calls, q.calls)
<1>1. PICK r : /\ r = IF p.att[t].at \in {"none", "opening"} THEN p ELSE Closing(p, t)
               /\ q = [r EXCEPT !.att[t] = NoAttempt]
    BY DEF Dispose
<1>2. t \in 0..MaxToken
    BY DEF Tokens
<1>3. /\ r \in Phones /\ Alike(p, r) /\ Shown(p, r) /\ r.att = p.att
      /\ SameAsks(p.calls, r.calls)
    <2>1. CASE r = p
        BY <2>1, AsksAreSame DEF Alike, Shown
    <2>2. CASE r = Closing(p, t)
        BY <1>2, <2>2, ClosingIs
    <2> QED
        BY <1>1, <2>1, <2>2
<1>4. PICK a : a = [r.att EXCEPT ![t] = NoAttempt]
    OBVIOUS
<1>5. r.att \in [Tokens -> Ends] /\ NoAttempt \in Ends /\ NoAttempt.at = "none"
    BY <1>3 DEF Phones, Ends, NoAttempt
<1>6. /\ a \in [Tokens -> Ends] /\ a[t].at = "none"
      /\ \A u \in Tokens : u # t => a[u] = r.att[u]
    BY <1>4, <1>5
<1>7. q = [r EXCEPT !.att = a]
    BY <1>1, <1>4
<1>8. /\ q \in Phones /\ Alike(r, q) /\ Shown(r, q) /\ q.att = a /\ q.calls = r.calls
    BY <1>3, <1>6, <1>7 DEF Phones, Alike, Shown
<1> QED
    BY <1>3, <1>6, <1>8 DEF Alike, Shown

\* An attempt moves on.
LEMMA MovesOn ==
    ASSUME NEW p \in Phones, NEW t \in Tokens, NEW at, NEW q, q = [p EXCEPT !.att[t].at = at],
           at \in {"none", "opening", "hello", "up", "down"}
    PROVE  /\ q \in Phones /\ Alike(p, q) /\ Shown(p, q) /\ q.calls = p.calls
           /\ q.att[t].at = at /\ q.att[t].fatal = p.att[t].fatal
           /\ q.app = p.app
           /\ \A u \in Tokens : u # t => q.att[u] = p.att[u]
<1>1. p.att \in [Tokens -> Ends] /\ p.att[t] \in Ends
    BY DEF Phones
<1>2. PICK e : e = [p.att[t] EXCEPT !.at = at]
    OBVIOUS
<1>3. e \in Ends /\ e.at = at /\ e.fatal = p.att[t].fatal
    BY <1>1, <1>2 DEF Ends
<1>4. PICK a : a = [p.att EXCEPT ![t] = e]
    OBVIOUS
<1>5. a \in [Tokens -> Ends] /\ a[t] = e /\ \A u \in Tokens : u # t => a[u] = p.att[u]
    BY <1>1, <1>3, <1>4
<1>6. q = [p EXCEPT !.att = a]
    BY <1>2, <1>4
<1>7. q \in Phones /\ Alike(p, q) /\ Shown(p, q) /\ q.calls = p.calls /\ q.att = a /\ q.app = p.app
    BY <1>5, <1>6 DEF Phones, Alike, Shown
<1> QED
    BY <1>3, <1>5, <1>7

\* The timer is set, or not in the background.
LEMMA ScheduleIs ==
    ASSUME NEW p \in Phones, NEW q, q = Schedule(p)
    PROVE  /\ q \in Phones /\ Shown(p, q) /\ q.att = p.att /\ q.calls = p.calls
           /\ q.token = p.token /\ q.astray = p.astray
BY DEF Schedule, Away, Phones, Shown

\* The peer of attempt t is closed: what the current one shows, or asks.
LEMMA PeerClosedIs ==
    ASSUME NEW p \in Phones, NEW t \in Tokens, NEW q, q = PeerClosed(p, t)
    PROVE  /\ q \in Phones /\ Alike(p, q)
           /\ \A u \in Tokens : u # t => q.att[u] = p.att[u]
           /\ \/ /\ q.att[t].at = "none" /\ q.client = 0 /\ t = p.token
                 /\ q.ui \in {"error", "offline"} /\ SameAsks(p.calls, q.calls)
              \/ /\ q.att[t].at = "down" /\ Shown(p, q) /\ t = p.token
                 /\ AddsAsk(p.calls, q.calls, "status", t)
              \/ /\ q.att[t].at = "down" /\ Shown(p, q) /\ t # p.token
                 /\ q.calls = p.calls
<1>1. PICK r : r = [p EXCEPT !.att[t].at = "down"]
    OBVIOUS
<1>2. /\ r \in Phones /\ Alike(p, r) /\ Shown(p, r) /\ r.calls = p.calls /\ r.att[t].at = "down"
      /\ \A u \in Tokens : u # t => r.att[u] = p.att[u]
    BY <1>1, MovesOn
<1>3. PICK s : s = Dispose(r, t)
    OBVIOUS
<1>4. /\ s \in Phones /\ Alike(r, s) /\ s.att[t].at = "none" /\ SameAsks(r.calls, s.calls)
      /\ \A u \in Tokens : u # t => s.att[u] = r.att[u]
    BY <1>2, <1>3, DisposeIs
<1>5. \/ t # p.token /\ q = r
      \/ t = p.token /\ (q = Show(s, "error") \/ q = Show(s, "offline"))
      \/ t = p.token /\ q = Call(r, "status", t)
    BY <1>1, <1>3 DEF PeerClosed
<1>6. CASE t # p.token /\ q = r
    BY <1>2, <1>6
<1>7. CASE t = p.token /\ (q = Show(s, "error") \/ q = Show(s, "offline"))
    <2>1. PICK kind \in {"error", "offline"} : q = Show(s, kind)
        BY <1>7
    <2>2. kind \in Kinds
        BY DEF Kinds
    <2>3. /\ q \in Phones /\ Alike(s, q) /\ q.att = s.att /\ q.calls = s.calls
          /\ q.ui = kind /\ q.client = 0
        BY <1>4, <2>1, <2>2, ShowIs
    <2> QED
        BY <1>2, <1>4, <1>7, <2>3 DEF Alike
<1>8. CASE t = p.token /\ q = Call(r, "status", t)
    <2>1. t \in 0..MaxToken /\ "status" \in Ops
        BY DEF Tokens, Ops
    <2>2. /\ q \in Phones /\ Alike(r, q) /\ Shown(r, q) /\ q.att = r.att
          /\ AddsAsk(r.calls, q.calls, "status", t)
        BY <1>2, <1>8, <2>1, CallIs
    <2> QED
        BY <1>2, <1>8, <2>2 DEF Alike, Shown
<1> QED
    BY <1>5, <1>6, <1>7, <1>8

\* No attempt but c has a peer.
Sole(p, c) == \A u \in Tokens : p.att[u].at \in {"up", "down"} => u = c

\* What there is of a connection is taken down, and shows nothing afterwards
\* that would not be shown of a peer that is closed.
LEMMA TeardownIs ==
    ASSUME NEW p \in Phones, NEW c, Sole(p, c), NEW q, q = Teardown(p)
    PROVE  /\ q \in Phones /\ Alike(p, q)
           /\ \A u \in Tokens : IF p.att[u].at \in {"up", "down"} THEN q.att[u].at = "none"
                                ELSE q.att[u] = p.att[u]
           /\ \/ q.client = 0 /\ q.ui \in {"error", "offline"} /\ c = p.token
              \/ Shown(p, q)
           /\ \/ SameAsks(p.calls, q.calls)
              \/ /\ c \in Tokens /\ p.att[c].at = "up" /\ c = p.token
                 /\ AddsAsk(p.calls, q.calls, "status", c)
<1>1. CASE Current(p) = {}
    <2>1. q = p
        BY <1>1 DEF Teardown
    <2>2. \A u \in Tokens : p.att[u].at \notin {"up", "down"}
        BY <1>1 DEF Current
    <2> QED
        BY <2>1, <2>2, AsksAreSame DEF Alike, Shown
<1>2. CASE Current(p) # {}
    <2>1. PICK t : t = CHOOSE u \in Current(p) : TRUE
        OBVIOUS
    <2>2. t \in Tokens /\ p.att[t].at \in {"up", "down"} /\ t = c /\ t \in 0..MaxToken
        BY <1>2, <2>1 DEF Current, Sole, Tokens
    <2>3. \A u \in Tokens : u # t => p.att[u].at \notin {"up", "down"}
        BY <2>2 DEF Sole
    <2>4. PICK r : r = Closing(p, t)
        OBVIOUS
    <2>5. PICK s : s = PeerClosed(r, t)
        OBVIOUS
    <2>6. q = Dispose(IF p.att[t].at = "up" THEN s ELSE p, t)
        BY <1>2, <2>1, <2>4, <2>5 DEF Teardown
    <2>7. /\ r \in Phones /\ Alike(p, r) /\ Shown(p, r) /\ r.att = p.att
          /\ SameAsks(p.calls, r.calls)
        BY <2>2, <2>4, ClosingIs
    <2>8. /\ s \in Phones /\ Alike(r, s)
          /\ \A u \in Tokens : u # t => s.att[u] = r.att[u]
          /\ \/ s.client = 0 /\ s.ui \in {"error", "offline"} /\ t = r.token
                /\ SameAsks(r.calls, s.calls)
             \/ Shown(r, s) /\ t = r.token /\ AddsAsk(r.calls, s.calls, "status", t)
             \/ Shown(r, s) /\ s.calls = r.calls
        BY <2>2, <2>5, <2>7, PeerClosedIs
    <2>9. CASE p.att[t].at = "up"
        <3>1. /\ q \in Phones /\ Alike(s, q) /\ Shown(s, q) /\ q.att[t].at = "none"
              /\ \A u \in Tokens : u # t => q.att[u] = s.att[u]
              /\ SameAsks(s.calls, q.calls)
            BY <2>2, <2>6, <2>8, <2>9, DisposeIs
        <3>2. Alike(p, q) /\ r.token = p.token
            BY <2>7, <2>8, <3>1 DEF Alike
        <3>3. \A u \in Tokens : IF p.att[u].at \in {"up", "down"} THEN q.att[u].at = "none"
                                ELSE q.att[u] = p.att[u]
            BY <2>2, <2>3, <2>7, <2>8, <3>1
        <3>4. \/ q.client = 0 /\ q.ui \in {"error", "offline"} /\ c = p.token
              \/ Shown(p, q)
            BY <2>2, <2>7, <2>8, <3>1, <3>2 DEF Shown
        <3>5. \/ SameAsks(p.calls, q.calls)
              \/ c = p.token /\ AddsAsk(p.calls, q.calls, "status", c)
            BY <2>2, <2>7, <2>8, <3>1, <3>2, AsksAreSame
        <3> QED
            BY <2>2, <2>9, <3>1, <3>2, <3>3, <3>4, <3>5
    <2>10. CASE p.att[t].at # "up"
        <3>1. /\ q \in Phones /\ Alike(p, q) /\ Shown(p, q) /\ q.att[t].at = "none"
              /\ \A u \in Tokens : u # t => q.att[u] = p.att[u]
              /\ SameAsks(p.calls, q.calls)
            BY <2>2, <2>6, <2>10, DisposeIs
        <3> QED
            BY <2>2, <2>3, <3>1
    <2> QED
        BY <2>9, <2>10
<1> QED
    BY <1>1, <1>2

\* A new attempt takes the place of what there was.
LEMMA ConnectIs ==
    ASSUME NEW p \in Phones, Sole(p, p.token), p.token < MaxToken,
           NEW kind \in {"connecting", "reconnecting"}, NEW q, q = Connect(p, kind)
    PROVE  /\ q \in Phones /\ q.astray = p.astray /\ ~q.timer
           /\ q.token = p.token + 1 /\ q.token \in Tokens
           /\ q.ui = kind /\ q.client = 0
           /\ q.att[q.token].at = "opening"
           /\ \A u \in Tokens : u # q.token =>
                 IF p.att[u].at \in {"up", "down"} THEN q.att[u].at = "none"
                 ELSE q.att[u] = p.att[u]
           /\ \E c : /\ \/ SameAsks(p.calls, c)
                        \/ /\ p.token \in Tokens /\ p.att[p.token].at = "up"
                           /\ AddsAsk(p.calls, c, "status", p.token)
                     /\ AddsAsk(c, q.calls, "connect", q.token)
<1>1. PICK a : a = [p EXCEPT !.timer = FALSE]
    OBVIOUS
<1>2. /\ a \in Phones /\ a.token = p.token /\ ~a.timer /\ a.astray = p.astray
      /\ a.att = p.att /\ a.calls = p.calls
    BY <1>1 DEF Phones
<1>3. PICK b : b = Teardown(a)
    OBVIOUS
<1>4. Sole(a, p.token)
    BY <1>2 DEF Sole
<1>5. /\ b \in Phones /\ Alike(a, b)
      /\ \A u \in Tokens : IF a.att[u].at \in {"up", "down"} THEN b.att[u].at = "none"
                           ELSE b.att[u] = a.att[u]
      /\ \/ SameAsks(a.calls, b.calls)
         \/ /\ p.token \in Tokens /\ a.att[p.token].at = "up" /\ p.token = a.token
            /\ AddsAsk(a.calls, b.calls, "status", p.token)
    BY <1>2, <1>3, <1>4, TeardownIs
<1>6. PICK e : e = Show(b, kind)
    OBVIOUS
<1>7. kind \in Kinds
    BY DEF Kinds
<1>8. /\ e \in Phones /\ Alike(b, e) /\ e.att = b.att /\ e.calls = b.calls
      /\ e.ui = kind /\ e.client = 0
    BY <1>5, <1>6, <1>7, ShowIs
<1>9. PICK t : t = e.token + 1
    OBVIOUS
<1>10. t \in Tokens /\ t = p.token + 1 /\ t \in 0..MaxToken
    BY <1>2, <1>5, <1>8, <1>9, MobileAssumption DEF Alike, Tokens, Phones
<1>19. PICK f : f = [e EXCEPT !.token = t]
    OBVIOUS
<1>11. PICK g : g = [f EXCEPT !.att[t].at = "opening"]
    OBVIOUS
<1>12. /\ f \in Phones /\ f.token = t /\ f.timer = e.timer /\ f.astray = e.astray /\ f.ui = e.ui
       /\ f.client = e.client /\ f.att = e.att /\ f.calls = e.calls
    BY <1>8, <1>10, <1>19 DEF Phones
<1>13. /\ g \in Phones /\ Alike(f, g) /\ Shown(f, g) /\ g.calls = f.calls /\ g.att[t].at = "opening"
       /\ \A u \in Tokens : u # t => g.att[u] = f.att[u]
    <2>1. f \in Phones /\ t \in Tokens
        BY <1>10, <1>12
    <2> QED
        BY <1>11, <2>1, MovesOn
<1>14. q = Call(g, "connect", t)
    <2>1. g = [e EXCEPT !.token = t, !.att[t].at = "opening"]
        BY <1>8, <1>11, <1>19 DEF Phones
    <2> QED
        BY <2>1, <1>1, <1>3, <1>6, <1>9 DEF Connect
<1>15. /\ q \in Phones /\ Alike(g, q) /\ Shown(g, q) /\ q.att = g.att
       /\ AddsAsk(g.calls, q.calls, "connect", t)
    <2>1. "connect" \in Ops
        BY DEF Ops
    <2> QED
        BY <1>10, <1>13, <1>14, <2>1, CallIs
<1>16. /\ q.token = t /\ ~q.timer /\ q.astray = p.astray /\ q.ui = kind /\ q.client = 0
       /\ q.att[t].at = "opening"
    BY <1>2, <1>5, <1>8, <1>12, <1>13, <1>15 DEF Alike, Shown
<1>17. \A u \in Tokens : u # t => IF p.att[u].at \in {"up", "down"} THEN q.att[u].at = "none"
                                  ELSE q.att[u] = p.att[u]
    BY <1>2, <1>5, <1>8, <1>12, <1>13, <1>15
<1>18. /\ \/ SameAsks(p.calls, b.calls)
          \/ /\ p.token \in Tokens /\ p.att[p.token].at = "up"
             /\ AddsAsk(p.calls, b.calls, "status", p.token)
       /\ AddsAsk(b.calls, q.calls, "connect", t)
    BY <1>2, <1>5, <1>8, <1>12, <1>13, <1>15
<1> QED
    BY <1>10, <1>15, <1>16, <1>17, <1>18

\* An attempt fails: what the current one shows, with a timer or without.
LEMMA ConnectFailsIs ==
    ASSUME NEW p \in Phones, NEW t \in Tokens, NEW q, q = ConnectFails(p, t)
    PROVE  /\ q \in Phones /\ q.token = p.token /\ q.astray = p.astray
           /\ q.att[t].at = "none" /\ \A u \in Tokens : u # t => q.att[u] = p.att[u]
           /\ SameAsks(p.calls, q.calls)
           /\ \/ t # p.token /\ Shown(p, q) /\ q.timer = p.timer
              \/ t = p.token /\ q.client = 0 /\ q.ui = "error" /\ q.timer = p.timer
              \/ t = p.token /\ q.client = 0 /\ q.ui = "offline"
<1>1. PICK r : r = Dispose(p, t)
    OBVIOUS
<1>2. /\ r \in Phones /\ Alike(p, r) /\ Shown(p, r)
      /\ r.att[t].at = "none" /\ \A u \in Tokens : u # t => r.att[u] = p.att[u]
      /\ SameAsks(p.calls, r.calls)
    BY <1>1, DisposeIs
<1>3. \/ t # p.token /\ q = r
      \/ t = p.token /\ q = Show(r, "error")
      \/ t = p.token /\ q = Schedule(Show(r, "offline"))
    BY <1>1 DEF ConnectFails
<1>4. CASE t # p.token /\ q = r
    BY <1>2, <1>4 DEF Alike
<1>5. CASE t = p.token /\ q = Show(r, "error")
    <2>1. "error" \in Kinds
        BY DEF Kinds
    <2>2. /\ q \in Phones /\ Alike(r, q) /\ q.att = r.att /\ q.calls = r.calls
          /\ q.ui = "error" /\ q.client = 0
        BY <1>2, <1>5, <2>1, ShowIs
    <2> QED
        BY <1>2, <1>5, <2>2 DEF Alike
<1>6. CASE t = p.token /\ q = Schedule(Show(r, "offline"))
    <2>1. "offline" \in Kinds
        BY DEF Kinds
    <2>2. PICK s : s = Show(r, "offline")
        OBVIOUS
    <2>3. /\ s \in Phones /\ Alike(r, s) /\ s.att = r.att /\ s.calls = r.calls
          /\ s.ui = "offline" /\ s.client = 0
        BY <1>2, <2>1, <2>2, ShowIs
    <2>4. /\ q \in Phones /\ Shown(s, q) /\ q.att = s.att /\ q.calls = s.calls
          /\ q.token = s.token /\ q.astray = s.astray
        BY <1>6, <2>2, <2>3, ScheduleIs
    <2> QED
        BY <1>2, <1>6, <2>3, <2>4 DEF Alike, Shown
<1> QED
    BY <1>3, <1>4, <1>5, <1>6

-----------------------------------------------------------------------------
(* The invariant of the app's side, of the controller p and its news n.    *)

\* A question is open: it is asked, or answered and not heard; and it is once.
Asked(p, n, op, K, t) == Has(p.calls, op, t) \/ Hear(n, K, t)
Once(p, n, op, K, t) == /\ Single(p.calls, op, t) /\ HearOnce(n, K, t)
                        /\ ~(Has(p.calls, op, t) /\ Hear(n, K, t))

Checking(p, n, t) == Asked(p, n, "status", Checked, t)
Dialling(p, n, t) == Asked(p, n, "connect", Dialled, t)

\* An attempt dials once and is not opened before; only the latest one has a
\* peer; the binding is checked once, after its peer is closed.
AttInv(p, n) == \A t \in Tokens :
    /\ t > p.token => p.att[t].at = "none" /\ ~Checking(p, n, t) /\ ~Dialling(p, n, t)
    /\ p.att[t].at \in {"up", "down"} => t = p.token
    /\ Once(p, n, "status", Checked, t) /\ Once(p, n, "connect", Dialled, t)
    /\ Dialling(p, n, t) => p.att[t].at = "opening"
    /\ Checking(p, n, t) => /\ p.att[t].at \in {"none", "down"}
                            /\ t = p.token => p.att[t].at = "down"

\* A timer runs only where no attempt does and no answer can set it again.
TimerInv(p, n) ==
    p.timer /\ ~p.astray /\ p.token \in Tokens =>
        \/ p.att[p.token].at = "none"
        \/ p.att[p.token].at = "down" /\ ~Checking(p, n, p.token)

ErrorInv(p) == p.ui = "error" /\ ~p.astray =>
    ~p.timer /\ (p.token \in Tokens => p.att[p.token].at = "none")

\* Who is shown to be connected is, or the binding is being checked or deleted.
ClientInv(p, n) == p.client # 0 =>
    \/ Asked(p, n, "unpair", {"cleared"}, 0)
    \/ /\ p.client = p.token
       /\ p.att[p.client].at = "up" \/ (p.att[p.client].at = "down" /\ Checking(p, n, p.client))

\* What is about an attempt names one.
Sockets == {"opened", "failed", "acked", "unsent", "closed"}
NamedInv(p, n) == /\ ~Has(p.calls, "connect", 0) /\ ~Has(p.calls, "hello", 0)
                  /\ ~Hear(n, Sockets, 0)

Core(p, n) == /\ p \in Phones /\ n \in Seq(News)
              /\ AttInv(p, n) /\ TimerInv(p, n) /\ ErrorInv(p) /\ NamedInv(p, n)
PhoneInv(p, n) == Core(p, n) /\ ClientInv(p, n)

-----------------------------------------------------------------------------
(* Turns keep it.                                                          *)

\* The calls that matter, and the tokens among the numbers.
LEMMA AsksAre ==
    /\ {"status", "connect", "hello", "unpair"} \subseteq Asks
    /\ Tokens \subseteq 0..MaxToken /\ 0 \in 0..MaxToken /\ 0 \notin Tokens
    /\ "close" \notin Asks
BY MobileAssumption DEF Asks, Tokens

\* A turn that asks nothing and moves no attempt, and shows nothing of a client
\* or what it showed.
LEMMA SameTurn ==
    ASSUME NEW p, NEW n, Core(p, n), NEW q \in Phones, SameAsks(p.calls, q.calls),
           q.token = p.token, q.astray = p.astray, q.timer => p.timer,
           \A u \in Tokens : q.att[u].at = p.att[u].at,
           \/ q.client = 0 /\ q.ui # "error"
           \/ Shown(p, q) /\ ClientInv(p, n)
    PROVE  PhoneInv(q, n)
<1>1. n \in Seq(News) /\ p \in Phones
    BY DEF Core
<1>2. \A t \in Tokens :
          /\ Checking(q, n, t) <=> Checking(p, n, t)
          /\ Dialling(q, n, t) <=> Dialling(p, n, t)
          /\ Once(p, n, "status", Checked, t) => Once(q, n, "status", Checked, t)
          /\ Once(p, n, "connect", Dialled, t) => Once(q, n, "connect", Dialled, t)
    BY AsksAre DEF Checking, Dialling, Asked, Once, SameAsks
<1>3. AttInv(q, n)
    BY <1>2 DEF Core, AttInv
<1>4. TimerInv(q, n) /\ ErrorInv(q)
    BY <1>2 DEF Core, TimerInv, ErrorInv, Shown
<1>5. NamedInv(q, n)
    BY AsksAre DEF Core, NamedInv, SameAsks
<1>6. ClientInv(q, n)
    <2>1. CASE q.client = 0
        BY <2>1 DEF ClientInv
    <2>2. CASE Shown(p, q) /\ ClientInv(p, n) /\ q.client # 0
        <3>1. q.client \in Tokens /\ q.client = p.client
            BY <2>2 DEF Phones, Tokens, Shown
        <3>2. Asked(q, n, "unpair", {"cleared"}, 0) <=> Asked(p, n, "unpair", {"cleared"}, 0)
            BY AsksAre DEF Asked, SameAsks
        <3> QED
            BY <1>2, <2>2, <3>1, <3>2 DEF ClientInv
    <2> QED
        BY <2>1, <2>2
<1> QED
    BY <1>1, <1>3, <1>4, <1>5, <1>6 DEF PhoneInv, Core

\* Anything but an error may be shown, with no client.
LEMMA ShowTurn ==
    ASSUME NEW p, NEW n, Core(p, n), NEW kind \in Kinds \ {"error"}, NEW q, q = Show(p, kind)
    PROVE  PhoneInv(q, n)
<1>1. p \in Phones /\ kind \in Kinds /\ kind # "error"
    BY DEF Core
<1>2. /\ q \in Phones /\ Alike(p, q) /\ q.att = p.att /\ q.calls = p.calls
      /\ q.ui = kind /\ q.client = 0
    BY <1>1, ShowIs
<1>3. SameAsks(p.calls, q.calls)
    BY <1>2, AsksAreSame
<1> QED
    BY <1>1, <1>2, <1>3, SameTurn DEF Alike

\* A call that is none of Asks.
LEMMA CallTurn ==
    ASSUME NEW p, NEW n, PhoneInv(p, n), NEW op \in Ops \ Asks, NEW t \in 0..MaxToken,
           NEW q, q = Call(p, op, t)
    PROVE  PhoneInv(q, n)
<1>1. p \in Phones /\ op \in Ops /\ op \notin Asks /\ Core(p, n) /\ ClientInv(p, n)
    BY DEF PhoneInv, Core
<1>2. /\ q \in Phones /\ Alike(p, q) /\ Shown(p, q) /\ q.att = p.att
      /\ SameAsks(p.calls, q.calls)
    BY <1>1, CallIs
<1> QED
    BY <1>1, <1>2, SameTurn DEF Alike

\* A new attempt: its token is new, and what was before is no longer current.
LEMMA ConnectTurn ==
    ASSUME NEW p, NEW n, Core(p, n), p.token < MaxToken,
           NEW kind \in {"connecting", "reconnecting"}, NEW q, q = Connect(p, kind)
    PROVE  PhoneInv(q, n)
<1>1. p \in Phones /\ n \in Seq(News) /\ Sole(p, p.token)
    BY DEF Core, AttInv, Sole
<1>2. /\ q \in Phones /\ q.astray = p.astray /\ ~q.timer
      /\ q.token = p.token + 1 /\ q.token \in Tokens
      /\ q.ui = kind /\ q.client = 0
      /\ q.att[q.token].at = "opening"
      /\ \A u \in Tokens : u # q.token =>
            IF p.att[u].at \in {"up", "down"} THEN q.att[u].at = "none" ELSE q.att[u] = p.att[u]
    BY <1>1, ConnectIs
<1>3. PICK c : /\ \/ SameAsks(p.calls, c)
                  \/ /\ p.token \in Tokens /\ p.att[p.token].at = "up"
                     /\ AddsAsk(p.calls, c, "status", p.token)
               /\ AddsAsk(c, q.calls, "connect", q.token)
    BY <1>1, ConnectIs
<1>4. p.token \in Nat /\ p.token < q.token /\ q.token > p.token
    BY <1>1, <1>2 DEF Phones
<1>5. p.token \in Tokens /\ p.att[p.token].at = "up" => ~Checking(p, n, p.token)
    BY DEF Core, AttInv
<1>6. ~Dialling(p, n, q.token) /\ ~Checking(p, n, q.token)
    BY <1>2, <1>4 DEF Core, AttInv
<1>7. \A t \in Tokens :
          /\ Checking(q, n, t) => \/ Checking(p, n, t)
                                  \/ t = p.token /\ p.att[t].at = "up"
          /\ Dialling(q, n, t) => Dialling(p, n, t) \/ t = q.token
          /\ Once(q, n, "status", Checked, t) /\ Once(q, n, "connect", Dialled, t)
    <2> SUFFICES ASSUME NEW t \in Tokens
                 PROVE  /\ Checking(q, n, t) => \/ Checking(p, n, t)
                                                \/ t = p.token /\ p.att[t].at = "up"
                        /\ Dialling(q, n, t) => Dialling(p, n, t) \/ t = q.token
                        /\ Once(q, n, "status", Checked, t) /\ Once(q, n, "connect", Dialled, t)
        OBVIOUS
    <2>1. Once(p, n, "status", Checked, t) /\ Once(p, n, "connect", Dialled, t)
        BY DEF Core, AttInv
    <2>2. /\ Has(q.calls, "status", t) <=> Has(c, "status", t)
          /\ Single(c, "status", t) => Single(q.calls, "status", t)
          /\ Has(q.calls, "connect", t) <=> Has(c, "connect", t) \/ t = q.token
          /\ Single(c, "connect", t) /\ ~(Has(c, "connect", t) /\ t = q.token)
                => Single(q.calls, "connect", t)
        BY <1>3, AsksAre DEF AddsAsk
    <2>3. /\ Has(c, "connect", t) <=> Has(p.calls, "connect", t)
          /\ Single(p.calls, "connect", t) => Single(c, "connect", t)
          /\ Has(c, "status", t) => \/ Has(p.calls, "status", t)
                                    \/ t = p.token /\ p.att[t].at = "up"
          /\ Single(p.calls, "status", t) /\ ~(Has(p.calls, "status", t) /\ t = p.token
                 /\ p.att[t].at = "up") => Single(c, "status", t)
        BY <1>3, AsksAre DEF AddsAsk, SameAsks
    <2> QED
        BY <1>5, <1>6, <2>1, <2>2, <2>3 DEF Checking, Dialling, Asked, Once
<1>8. AttInv(q, n)
    BY <1>1, <1>2, <1>4, <1>6, <1>7 DEF Core, AttInv, Tokens
<1>9. TimerInv(q, n) /\ ErrorInv(q) /\ ClientInv(q, n)
    BY <1>2 DEF TimerInv, ErrorInv, ClientInv
<1>10. NamedInv(q, n)
    <2>1. /\ Has(c, "connect", 0) <=> Has(p.calls, "connect", 0)
          /\ Has(c, "hello", 0) <=> Has(p.calls, "hello", 0)
        BY <1>3, AsksAre DEF AddsAsk, SameAsks
    <2>2. /\ Has(q.calls, "connect", 0) <=> Has(c, "connect", 0)
          /\ Has(q.calls, "hello", 0) <=> Has(c, "hello", 0)
        BY <1>2, <1>3, AsksAre DEF AddsAsk
    <2> QED
        BY <2>1, <2>2 DEF Core, NamedInv
<1> QED
    BY <1>1, <1>2, <1>8, <1>9, <1>10 DEF PhoneInv, Core

\* A timer is set where no attempt is under way, or gone astray.
LEMMA ScheduleTurn ==
    ASSUME NEW p, NEW n, Core(p, n), NEW kind \in {"reconnecting", "offline"},
           NEW astray \in BOOLEAN, p.astray => astray,
           \/ astray
           \/ p.token \in Tokens => /\ p.att[p.token].at \in {"none", "down"}
                                    /\ ~Checking(p, n, p.token),
           NEW q, q = [Schedule(Show(p, kind)) EXCEPT !.astray = astray]
    PROVE  PhoneInv(q, n)
<1>1. p \in Phones /\ n \in Seq(News) /\ kind \in Kinds
    BY DEF Core, Kinds
<1>2. PICK r : r = Show(p, kind)
    OBVIOUS
<1>3. /\ r \in Phones /\ Alike(p, r) /\ r.att = p.att /\ r.calls = p.calls
      /\ r.ui = kind /\ r.client = 0
    BY <1>1, <1>2, ShowIs
<1>4. PICK s : s = Schedule(r)
    OBVIOUS
<1>5. /\ s \in Phones /\ Shown(r, s) /\ s.att = r.att /\ s.calls = r.calls
      /\ s.token = r.token /\ s.astray = r.astray
    BY <1>3, <1>4, ScheduleIs
<1>6. q = [s EXCEPT !.astray = astray]
    BY <1>2, <1>4
<1>7. /\ q \in Phones /\ q.ui = kind /\ q.client = 0 /\ q.att = p.att /\ q.calls = p.calls
      /\ q.token = p.token /\ q.astray = astray
    BY <1>3, <1>5, <1>6 DEF Phones, Shown, Alike
<1>8. AttInv(q, n) /\ NamedInv(q, n)
    BY <1>7 DEF Core, AttInv, NamedInv, Checking, Dialling, Asked, Once
<1>9. TimerInv(q, n) /\ ErrorInv(q) /\ ClientInv(q, n)
    BY <1>7 DEF TimerInv, ErrorInv, ClientInv, Checking, Asked
<1> QED
    BY <1>1, <1>7, <1>8, <1>9 DEF PhoneInv, Core

\* A failed attempt was dialling no more.
LEMMA ConnectFailsTurn ==
    ASSUME NEW p, NEW n, PhoneInv(p, n), NEW t \in Tokens, ~Dialling(p, n, t),
           p.att[t].at \in {"opening", "hello"}, NEW q, q = ConnectFails(p, t)
    PROVE  PhoneInv(q, n)
<1>1. p \in Phones /\ n \in Seq(News) /\ Core(p, n) /\ ClientInv(p, n)
    BY DEF PhoneInv, Core
<1>2. /\ q \in Phones /\ q.token = p.token /\ q.astray = p.astray
      /\ q.att[t].at = "none" /\ \A u \in Tokens : u # t => q.att[u] = p.att[u]
      /\ SameAsks(p.calls, q.calls)
      /\ \/ t # p.token /\ Shown(p, q) /\ q.timer = p.timer
         \/ t = p.token /\ q.client = 0 /\ q.ui = "error" /\ q.timer = p.timer
         \/ t = p.token /\ q.client = 0 /\ q.ui = "offline"
    BY <1>1, ConnectFailsIs
<1>3. \A u \in Tokens :
          /\ Checking(q, n, u) <=> Checking(p, n, u)
          /\ Dialling(q, n, u) <=> Dialling(p, n, u)
          /\ Once(p, n, "status", Checked, u) => Once(q, n, "status", Checked, u)
          /\ Once(p, n, "connect", Dialled, u) => Once(q, n, "connect", Dialled, u)
    BY <1>2, AsksAre DEF Checking, Dialling, Asked, Once, SameAsks
<1>4. AttInv(q, n)
    BY <1>1, <1>2, <1>3 DEF Core, AttInv
<1>5. TimerInv(q, n)
    BY <1>1, <1>2, <1>3 DEF Core, TimerInv
<1>6. ErrorInv(q)
    BY <1>1, <1>2 DEF Core, ErrorInv, TimerInv, Shown
<1>7. NamedInv(q, n)
    BY <1>1, <1>2, AsksAre DEF Core, NamedInv, SameAsks
<1>8. ClientInv(q, n)
    <2>1. CASE q.client = 0
        BY <2>1 DEF ClientInv
    <2>2. CASE t # p.token /\ Shown(p, q) /\ q.client # 0
        <3>1. q.client \in Tokens /\ q.client = p.client
            BY <1>2, <2>2 DEF Phones, Tokens, Shown
        <3>2. Asked(q, n, "unpair", {"cleared"}, 0) <=> Asked(p, n, "unpair", {"cleared"}, 0)
            BY <1>2, AsksAre DEF Asked, SameAsks
        <3> QED
            BY <1>1, <1>2, <1>3, <2>2, <3>1, <3>2 DEF ClientInv
    <2> QED
        BY <1>2, <2>1, <2>2
<1> QED
    BY <1>1, <1>2, <1>4, <1>5, <1>6, <1>7, <1>8 DEF PhoneInv, Core

\* An attempt that dials no more goes on to its handshake, or is disposed of.
LEMMA AttTurn ==
    ASSUME NEW p, NEW n, PhoneInv(p, n), NEW t \in Tokens, ~Dialling(p, n, t),
           p.att[t].at \in {"opening", "hello"}, NEW q \in Phones,
           Alike(p, q), Shown(p, q), SameAsks(p.calls, q.calls),
           \A u \in Tokens : u # t => q.att[u].at = p.att[u].at,
           \/ q.att[t].at = "hello"
           \/ q.att[t].at = "none" /\ t # p.token
    PROVE  PhoneInv(q, n)
<1>1. p \in Phones /\ n \in Seq(News) /\ Core(p, n) /\ ClientInv(p, n)
    BY DEF PhoneInv, Core
<1>2. \A u \in Tokens :
          /\ Checking(q, n, u) <=> Checking(p, n, u)
          /\ Dialling(q, n, u) <=> Dialling(p, n, u)
          /\ Once(p, n, "status", Checked, u) => Once(q, n, "status", Checked, u)
          /\ Once(p, n, "connect", Dialled, u) => Once(q, n, "connect", Dialled, u)
    BY AsksAre DEF Checking, Dialling, Asked, Once, SameAsks
<1>3. AttInv(q, n)
    BY <1>1, <1>2 DEF Core, AttInv, Alike
<1>4. TimerInv(q, n) /\ ErrorInv(q)
    BY <1>1, <1>2 DEF Core, TimerInv, ErrorInv, Alike, Shown
<1>5. NamedInv(q, n)
    BY <1>1, AsksAre DEF Core, NamedInv, SameAsks
<1>6. ClientInv(q, n)
    <2>1. CASE q.client = 0
        BY <2>1 DEF ClientInv
    <2>2. CASE q.client # 0
        <3>1. q.client \in Tokens /\ q.client = p.client
            BY <2>2 DEF Phones, Tokens, Shown
        <3>2. Asked(q, n, "unpair", {"cleared"}, 0) <=> Asked(p, n, "unpair", {"cleared"}, 0)
            BY AsksAre DEF Asked, SameAsks
        <3> QED
            BY <1>1, <1>2, <2>2, <3>1, <3>2 DEF ClientInv, Alike
    <2> QED
        BY <2>1, <2>2
<1> QED
    BY <1>1, <1>3, <1>4, <1>5, <1>6 DEF PhoneInv, Core

\* A handshake fails, or was over already.
LEMMA HandshakeFailsTurn ==
    ASSUME NEW p, NEW n, PhoneInv(p, n), NEW t \in Tokens, NEW q, q = HandshakeFails(p, t)
    PROVE  PhoneInv(q, n)
<1>1. CASE p.att[t].at # "hello"
    BY <1>1 DEF HandshakeFails
<1>2. CASE p.att[t].at = "hello"
    <2>1. p \in Phones /\ Core(p, n) /\ ClientInv(p, n) /\ t \in 0..MaxToken
        BY AsksAre DEF PhoneInv, Core
    <2>2. PICK r : r = Closing(p, t)
        OBVIOUS
    <2>3. /\ r \in Phones /\ Alike(p, r) /\ Shown(p, r) /\ r.att = p.att
          /\ SameAsks(p.calls, r.calls)
        BY <2>1, <2>2, ClosingIs
    <2>4. PhoneInv(r, n)
        BY <2>1, <2>3, SameTurn DEF Alike
    <2>5. ~Dialling(r, n, t) /\ r.att[t].at = "hello"
        BY <1>2, <2>3, <2>4 DEF PhoneInv, Core, AttInv
    <2>6. q = ConnectFails(r, t)
        BY <1>2, <2>2 DEF HandshakeFails
    <2> QED
        BY <2>4, <2>5, <2>6, ConnectFailsTurn
<1> QED
    BY <1>1, <1>2

\* The peer of the current attempt is closed: the binding is checked, or not if
\* nothing shows it any more.
LEMMA PeerClosedTurn ==
    ASSUME NEW p, NEW n, PhoneInv(p, n), NEW t \in Tokens, p.att[t].at = "up",
           NEW q, q = PeerClosed(p, t)
    PROVE  PhoneInv(q, n)
<1>1. p \in Phones /\ n \in Seq(News) /\ Core(p, n) /\ ClientInv(p, n)
    BY DEF PhoneInv, Core
<1>2. /\ t = p.token /\ ~Checking(p, n, t) /\ ~Dialling(p, n, t)
      /\ p.timer => p.astray
    BY <1>1 DEF Core, AttInv, TimerInv
<1>3. /\ q \in Phones /\ Alike(p, q)
      /\ \A u \in Tokens : u # t => q.att[u] = p.att[u]
      /\ \/ /\ q.att[t].at = "none" /\ q.client = 0 /\ q.ui \in {"error", "offline"}
            /\ SameAsks(p.calls, q.calls)
         \/ /\ q.att[t].at = "down" /\ Shown(p, q)
            /\ AddsAsk(p.calls, q.calls, "status", t)
    BY <1>1, <1>2, PeerClosedIs
<1>4. \A u \in Tokens :
          /\ Checking(q, n, u) => Checking(p, n, u) \/ (u = t /\ q.att[t].at = "down")
          /\ q.att[t].at = "down" => Checking(q, n, t)
          /\ Dialling(q, n, u) <=> Dialling(p, n, u)
          /\ Once(q, n, "status", Checked, u) /\ Once(q, n, "connect", Dialled, u)
    <2> SUFFICES ASSUME NEW u \in Tokens
                 PROVE  /\ Checking(q, n, u) => Checking(p, n, u) \/ (u = t /\ q.att[t].at = "down")
                        /\ q.att[t].at = "down" => Checking(q, n, t)
                        /\ Dialling(q, n, u) <=> Dialling(p, n, u)
                        /\ Once(q, n, "status", Checked, u) /\ Once(q, n, "connect", Dialled, u)
        OBVIOUS
    <2>1. Once(p, n, "status", Checked, u) /\ Once(p, n, "connect", Dialled, u)
        BY <1>1 DEF Core, AttInv
    <2>2. CASE q.att[t].at = "none" /\ SameAsks(p.calls, q.calls)
        BY <2>1, <2>2, AsksAre DEF Checking, Dialling, Asked, Once, SameAsks
    <2>3. CASE q.att[t].at = "down" /\ AddsAsk(p.calls, q.calls, "status", t)
        <3>1. /\ Has(q.calls, "status", u) <=> Has(p.calls, "status", u) \/ u = t
              /\ Single(p.calls, "status", u) /\ ~(Has(p.calls, "status", u) /\ u = t)
                    => Single(q.calls, "status", u)
              /\ Has(q.calls, "status", t)
              /\ Has(q.calls, "connect", u) <=> Has(p.calls, "connect", u)
              /\ Single(p.calls, "connect", u) => Single(q.calls, "connect", u)
            BY <2>3, AsksAre DEF AddsAsk
        <3> QED
            BY <1>2, <2>1, <2>3, <3>1 DEF Checking, Dialling, Asked, Once
    <2> QED
        BY <1>3, <2>2, <2>3
<1>5. AttInv(q, n)
    BY <1>1, <1>2, <1>3, <1>4 DEF Core, AttInv, Alike
<1>6. TimerInv(q, n) /\ ErrorInv(q)
    BY <1>1, <1>2, <1>3 DEF Core, TimerInv, ErrorInv, Alike, Shown
<1>7. NamedInv(q, n)
    <2>1. /\ Has(q.calls, "connect", 0) <=> Has(p.calls, "connect", 0)
          /\ Has(q.calls, "hello", 0) <=> Has(p.calls, "hello", 0)
        BY <1>3, AsksAre DEF AddsAsk, SameAsks
    <2> QED
        BY <1>1, <2>1 DEF Core, NamedInv
<1>8. ClientInv(q, n)
    <2>1. CASE q.client = 0
        BY <2>1 DEF ClientInv
    <2>2. CASE q.client # 0
        <3>1. /\ q.client = p.client /\ q.client \in Tokens /\ q.token = p.token
              /\ q.att[t].at = "down" /\ AddsAsk(p.calls, q.calls, "status", t)
            BY <1>3, <2>2 DEF Shown, Phones, Tokens, Alike
        <3>2. Asked(p, n, "unpair", {"cleared"}, 0) => Asked(q, n, "unpair", {"cleared"}, 0)
            BY <3>1, AsksAre DEF Asked, AddsAsk
        <3> QED
            BY <1>1, <1>2, <1>4, <2>2, <3>1, <3>2 DEF ClientInv
    <2> QED
        BY <2>1, <2>2
<1> QED
    BY <1>1, <1>3, <1>5, <1>6, <1>7, <1>8 DEF PhoneInv, Core

\* The acknowledgement of a handshake.
LEMMA AckedTurn ==
    ASSUME NEW p, NEW n, PhoneInv(p, n), NEW t \in Tokens, p.att[t].at = "hello",
           NEW q, q = Acked(p, t)
    PROVE  PhoneInv(q, n)
<1>1. p \in Phones /\ n \in Seq(News) /\ Core(p, n) /\ ClientInv(p, n)
    BY DEF PhoneInv, Core
<1>2. ~Dialling(p, n, t) /\ ~Checking(p, n, t)
    BY <1>1 DEF Core, AttInv
<1>3. CASE t # p.token
    <2>1. q = Dispose(p, t)
        BY <1>3 DEF Acked
    <2>2. /\ q \in Phones /\ Alike(p, q) /\ Shown(p, q)
          /\ q.att[t].at = "none" /\ \A u \in Tokens : u # t => q.att[u] = p.att[u]
          /\ SameAsks(p.calls, q.calls)
        BY <1>1, <2>1, DisposeIs
    <2>3. PhoneInv(p, n) /\ ~Dialling(p, n, t) /\ p.att[t].at \in {"opening", "hello"}
        BY <1>2
    <2> QED
        BY <1>3, <2>2, <2>3, AttTurn
<1>4. CASE t = p.token
    <2>0. p \in Phones
        BY <1>1
    <2>1. PICK r : r = [p EXCEPT !.att[t].at = "up"]
        OBVIOUS
    <2>2. /\ r \in Phones /\ Alike(p, r) /\ Shown(p, r) /\ r.calls = p.calls
          /\ r.att[t].at = "up"
          /\ \A u \in Tokens : u # t => r.att[u] = p.att[u]
        BY <2>0, <2>1, MovesOn
    <2>3. q = [r EXCEPT !.ui = "connected", !.client = t]
        BY <1>1, <1>4, <2>1 DEF Acked, Phones
    <2>4. /\ q \in Phones /\ Alike(r, q) /\ q.att = r.att /\ q.calls = r.calls
          /\ q.ui = "connected" /\ q.client = t
        <3>1. "connected" \in Kinds /\ t \in 0..MaxToken
            BY AsksAre DEF Kinds
        <3> QED
            BY <2>2, <2>3, <3>1 DEF Phones, Alike
    <2>5. /\ q.token = p.token /\ q.timer = p.timer /\ q.astray = p.astray /\ q.calls = p.calls
          /\ q.att[t].at = "up" /\ \A u \in Tokens : u # t => q.att[u] = p.att[u]
        BY <2>2, <2>4 DEF Alike
    <2>6. AttInv(q, n)
        BY <1>1, <1>2, <1>4, <2>5 DEF Core, AttInv, Checking, Dialling, Asked, Once
    <2>7. TimerInv(q, n) /\ ErrorInv(q) /\ NamedInv(q, n) /\ ClientInv(q, n)
        BY <1>1, <1>4, <2>4, <2>5 DEF Core, TimerInv, ErrorInv, NamedInv, ClientInv, Checking, Asked
    <2> QED
        BY <1>1, <2>4, <2>6, <2>7 DEF PhoneInv, Core
<1> QED
    BY <1>3, <1>4

\* The native side opened a socket.
LEMMA OpenedTurn ==
    ASSUME NEW p, NEW n, PhoneInv(p, n), NEW t \in Tokens, p.att[t].at = "opening",
           ~Dialling(p, n, t), NEW q,
           q = IF t # p.token THEN Dispose(p, t)
               ELSE IF p.att[t].early
               THEN HandshakeFails([p EXCEPT !.att[t].at = "hello"], t)
               ELSE Call([p EXCEPT !.att[t].at = "hello"], "hello", t)
    PROVE  PhoneInv(q, n)
<1>1. p \in Phones /\ n \in Seq(News) /\ Core(p, n) /\ p.att[t].at \in {"opening", "hello"}
    BY DEF PhoneInv, Core
<1>2. CASE t # p.token
    <2>1. q = Dispose(p, t)
        BY <1>2
    <2>2. /\ q \in Phones /\ Alike(p, q) /\ Shown(p, q)
          /\ q.att[t].at = "none" /\ \A u \in Tokens : u # t => q.att[u] = p.att[u]
          /\ SameAsks(p.calls, q.calls)
        BY <1>1, <2>1, DisposeIs
    <2> QED
        BY <1>1, <1>2, <2>2, AttTurn
<1>3. CASE t = p.token
    <2>0. p \in Phones
        BY <1>1
    <2>1. PICK r : r = [p EXCEPT !.att[t].at = "hello"]
        OBVIOUS
    <2>2. /\ r \in Phones /\ Alike(p, r) /\ Shown(p, r) /\ r.calls = p.calls
          /\ r.att[t].at = "hello"
          /\ \A u \in Tokens : u # t => r.att[u] = p.att[u]
        BY <2>0, <2>1, MovesOn
    <2>3. PhoneInv(r, n)
        <3>1. SameAsks(p.calls, r.calls)
            BY <2>2, AsksAreSame
        <3> QED
            BY <1>1, <2>2, <3>1, AttTurn
    <2>4. CASE q = HandshakeFails(r, t)
        BY <2>3, <2>4, HandshakeFailsTurn
    <2>5. CASE q = Call(r, "hello", t)
        <3>1. t \in 0..MaxToken /\ "hello" \in Ops /\ t # 0
            BY AsksAre DEF Ops
        <3>2. /\ q \in Phones /\ Alike(r, q) /\ Shown(r, q) /\ q.att = r.att
              /\ AddsAsk(r.calls, q.calls, "hello", t)
            BY <2>2, <2>5, <3>1, CallIs
        <3>3. \A u \in Tokens :
                  /\ Checking(q, n, u) <=> Checking(r, n, u)
                  /\ Dialling(q, n, u) <=> Dialling(r, n, u)
                  /\ Once(r, n, "status", Checked, u) => Once(q, n, "status", Checked, u)
                  /\ Once(r, n, "connect", Dialled, u) => Once(q, n, "connect", Dialled, u)
            BY <3>2, AsksAre DEF Checking, Dialling, Asked, Once, AddsAsk
        <3>4. AttInv(q, n) /\ TimerInv(q, n) /\ ErrorInv(q)
            <4>1. AttInv(q, n)
                BY <2>3, <3>2, <3>3 DEF PhoneInv, Core, AttInv, Alike
            <4>2. TimerInv(q, n)
                BY <2>3, <3>2, <3>3 DEF PhoneInv, Core, TimerInv, Alike
            <4>3. ErrorInv(q)
                BY <2>3, <3>2 DEF PhoneInv, Core, ErrorInv, Alike, Shown
            <4> QED
                BY <4>1, <4>2, <4>3
        <3>5. NamedInv(q, n)
            <4>1. /\ Has(q.calls, "connect", 0) <=> Has(r.calls, "connect", 0)
                  /\ Has(q.calls, "hello", 0) <=> Has(r.calls, "hello", 0)
                BY <3>1, <3>2, AsksAre DEF AddsAsk
            <4> QED
                BY <2>3, <4>1 DEF PhoneInv, Core, NamedInv
        <3>6. ClientInv(q, n)
            <4>1. CASE q.client = 0
                BY <4>1 DEF ClientInv
            <4>2. CASE q.client # 0
                <5>1. q.client \in Tokens
                    BY <3>2, <4>2 DEF Phones, Tokens
                <5>2. Asked(q, n, "unpair", {"cleared"}, 0)
                          <=> Asked(r, n, "unpair", {"cleared"}, 0)
                    BY <3>2, AsksAre DEF Asked, AddsAsk
                <5> QED
                    BY <2>3, <3>2, <3>3, <4>2, <5>1, <5>2 DEF PhoneInv, ClientInv, Alike, Shown
            <4> QED
                BY <4>1, <4>2
        <3> QED
            BY <1>1, <3>2, <3>4, <3>5, <3>6 DEF PhoneInv, Core
    <2> QED
        BY <1>3, <2>1, <2>4, <2>5
<1> QED
    BY <1>2, <1>3

\* Every attempt that listens takes note of why a socket was closed.
LEMMA NotedTurn ==
    ASSUME NEW p, NEW n, PhoneInv(p, n), NEW fatal \in BOOLEAN, NEW q, q = Noted(p, fatal)
    PROVE  PhoneInv(q, n) /\ \A u \in Tokens : q.att[u].at = p.att[u].at
<1>1. p \in Phones /\ Core(p, n) /\ ClientInv(p, n)
    BY DEF PhoneInv, Core
<1>2. p.att \in [Tokens -> Ends]
    BY <1>1 DEF Phones
<1>3. PICK a : a = [t \in Tokens |->
                      [p.att[t] EXCEPT !.fatal = @ \/ (fatal /\ p.att[t].at # "none")]]
    OBVIOUS
<1>4. ASSUME NEW u \in Tokens PROVE a[u] \in Ends /\ a[u].at = p.att[u].at
    <2>1. p.att[u] \in Ends
        BY <1>2
    <2>2. a[u] = [p.att[u] EXCEPT !.fatal = p.att[u].fatal \/ (fatal /\ p.att[u].at # "none")]
        BY <1>3
    <2>3. (p.att[u].fatal \/ (fatal /\ p.att[u].at # "none")) \in BOOLEAN
        OBVIOUS
    <2> QED
        BY <2>1, <2>2, <2>3 DEF Ends
<1>5. a \in [Tokens -> Ends]
    BY <1>3, <1>4
<1>6. q = [p EXCEPT !.att = a]
    BY <1>3 DEF Noted
<1>7. q \in Phones /\ Alike(p, q) /\ Shown(p, q) /\ q.att = a /\ q.calls = p.calls
    BY <1>1, <1>5, <1>6 DEF Phones, Alike, Shown
<1>8. SameAsks(p.calls, q.calls)
    BY <1>7, AsksAreSame
<1> QED
    BY <1>1, <1>4, <1>7, <1>8, SameTurn DEF Alike

\* The binding is found to be gone.
LEMMA UnpairedTurn ==
    ASSUME NEW p, NEW n, Core(p, n), p.token \in Tokens, p.att[p.token].at = "down",
           ~Checking(p, n, p.token), p.timer => p.astray, NEW q, q = Show(Teardown(p), "error")
    PROVE  PhoneInv(q, n)
<1>1. p \in Phones /\ n \in Seq(News) /\ Sole(p, p.token)
    BY DEF Core, AttInv, Sole
<1>2. PICK r : r = Teardown(p)
    OBVIOUS
<1>3. /\ r \in Phones /\ Alike(p, r)
      /\ \A u \in Tokens : IF p.att[u].at \in {"up", "down"} THEN r.att[u].at = "none"
                           ELSE r.att[u] = p.att[u]
      /\ SameAsks(p.calls, r.calls)
    BY <1>1, <1>2, TeardownIs
<1>4. "error" \in Kinds
    BY DEF Kinds
<1>5. /\ q \in Phones /\ Alike(r, q) /\ q.att = r.att /\ q.calls = r.calls
      /\ q.ui = "error" /\ q.client = 0
    BY <1>2, <1>3, <1>4, ShowIs
<1>6. \A u \in Tokens :
          /\ Checking(q, n, u) <=> Checking(p, n, u)
          /\ Dialling(q, n, u) <=> Dialling(p, n, u)
          /\ Once(p, n, "status", Checked, u) => Once(q, n, "status", Checked, u)
          /\ Once(p, n, "connect", Dialled, u) => Once(q, n, "connect", Dialled, u)
    BY <1>3, <1>5, AsksAre DEF Checking, Dialling, Asked, Once, SameAsks
<1>7. AttInv(q, n)
    BY <1>3, <1>5, <1>6 DEF Core, AttInv, Alike
<1>8. TimerInv(q, n) /\ ErrorInv(q) /\ ClientInv(q, n)
    BY <1>3, <1>5 DEF TimerInv, ErrorInv, ClientInv, Alike
<1>9. NamedInv(q, n)
    BY <1>3, <1>5, AsksAre DEF Core, NamedInv, SameAsks
<1> QED
    BY <1>1, <1>5, <1>7, <1>8, <1>9 DEF PhoneInv, Core

\* The user gives the binding up: nothing that is under way counts any more.
LEMMA UnpairsTurn ==
    ASSUME NEW p, NEW n, Core(p, n), p.token < MaxToken, NEW q, q = Unpairs(p)
    PROVE  PhoneInv(q, n)
<1>1. p \in Phones /\ n \in Seq(News) /\ Sole(p, p.token)
    BY DEF Core, AttInv, Sole
<1>2. PICK a : a = [p EXCEPT !.token = @ + 1, !.timer = FALSE, !.poll = FALSE]
    OBVIOUS
<1>3. p.token \in 0..MaxToken /\ p.token + 1 \in 0..MaxToken /\ p.token + 1 \in Tokens
    BY <1>1, MobileAssumption DEF Phones, Tokens
<1>4. /\ a \in Phones /\ a.token = p.token + 1 /\ ~a.timer /\ a.astray = p.astray
      /\ a.att = p.att /\ a.calls = p.calls /\ a.ui = p.ui /\ a.client = p.client
    BY <1>1, <1>2, <1>3 DEF Phones
<1>5. PICK b : b = Teardown(a)
    OBVIOUS
<1>6. Sole(a, p.token) /\ p.token # a.token
    BY <1>1, <1>3, <1>4 DEF Sole
<1>7. /\ b \in Phones /\ Alike(a, b) /\ Shown(a, b) /\ SameAsks(a.calls, b.calls)
      /\ \A u \in Tokens : IF a.att[u].at \in {"up", "down"} THEN b.att[u].at = "none"
                           ELSE b.att[u] = a.att[u]
    BY <1>4, <1>5, <1>6, TeardownIs
<1>8. q = Call(b, "unpair", 0) /\ "unpair" \in Ops /\ 0 \in 0..MaxToken
    BY <1>2, <1>5, AsksAre DEF Unpairs, Ops
<1>9. /\ q \in Phones /\ Alike(b, q) /\ Shown(b, q) /\ q.att = b.att
      /\ AddsAsk(b.calls, q.calls, "unpair", 0)
    BY <1>7, <1>8, CallIs
<1>10. /\ q.token = p.token + 1 /\ ~q.timer /\ q.astray = p.astray
       /\ AddsAsk(p.calls, q.calls, "unpair", 0)
       /\ \A u \in Tokens : IF p.att[u].at \in {"up", "down"} THEN q.att[u].at = "none"
                            ELSE q.att[u] = p.att[u]
    BY <1>4, <1>7, <1>9, AsksAreSame DEF Alike
<1>11. \A u \in Tokens :
          /\ Checking(q, n, u) <=> Checking(p, n, u)
          /\ Dialling(q, n, u) <=> Dialling(p, n, u)
          /\ Once(p, n, "status", Checked, u) => Once(q, n, "status", Checked, u)
          /\ Once(p, n, "connect", Dialled, u) => Once(q, n, "connect", Dialled, u)
    BY <1>10, AsksAre DEF Checking, Dialling, Asked, Once, AddsAsk
<1>12. AttInv(q, n)
    BY <1>3, <1>10, <1>11 DEF Core, AttInv, Tokens
<1>13. q.att[q.token].at = "none"
    BY <1>3, <1>10 DEF Core, AttInv
<1>14. TimerInv(q, n) /\ ErrorInv(q)
    BY <1>10, <1>13 DEF TimerInv, ErrorInv
<1>15. NamedInv(q, n)
    BY <1>10, AsksAre DEF Core, NamedInv, AddsAsk
<1>16. ClientInv(q, n)
    BY <1>10, AsksAre DEF ClientInv, Asked, AddsAsk
<1> QED
    BY <1>1, <1>9, <1>12, <1>14, <1>15, <1>16 DEF PhoneInv, Core

-----------------------------------------------------------------------------
(* Hearing the news.                                                       *)

\* What is known of the first of the news, and what holds once it is heard.
LEMMA HearingIs ==
    ASSUME NEW p, NEW n, PhoneInv(p, n), n # <<>>, NEW m, m = Tail(n)
    PROVE  /\ Core(p, m) /\ Head(n) \in News
           /\ Head(n).is \notin Checked \union {"cleared"} => PhoneInv(p, m)
           /\ Head(n).is \in Checked /\ Head(n).att # p.token => PhoneInv(p, m)
           /\ Head(n).is \in Checked /\ Head(n).att \in Tokens /\ Head(n).att = p.token =>
                 p.att[p.token].at = "down" /\ ~Checking(p, m, p.token) /\ (p.timer => p.astray)
           /\ Head(n).is \in Sockets => Head(n).att \in Tokens
           /\ Head(n).is \in Dialled =>
                 p.att[Head(n).att].at = "opening" /\ ~Dialling(p, m, Head(n).att)
<1>1. p \in Phones /\ n \in Seq(News) /\ Core(p, n) /\ ClientInv(p, n)
    BY DEF PhoneInv, Core
<1>2. PICK h : h = Head(n)
    OBVIOUS
<1>3. /\ m \in Seq(News) /\ h \in News
      /\ \A K, t : /\ Hear(n, K, t) <=> Hear(m, K, t) \/ (h.is \in K /\ h.att = t)
                   /\ HearOnce(n, K, t) => /\ HearOnce(m, K, t)
                                           /\ h.is \in K /\ h.att = t => ~Hear(m, K, t)
    BY <1>1, <1>2, NewsHeard
<1>4. \A t \in Tokens :
          /\ Checking(p, m, t) => Checking(p, n, t)
          /\ Checking(p, n, t) => Checking(p, m, t) \/ (h.is \in Checked /\ h.att = t)
          /\ Dialling(p, m, t) => Dialling(p, n, t)
          /\ Once(p, n, "status", Checked, t) => Once(p, m, "status", Checked, t)
          /\ Once(p, n, "connect", Dialled, t) => Once(p, m, "connect", Dialled, t)
    BY <1>3 DEF Checking, Dialling, Asked, Once
<1>5. Core(p, m)
    <2>1. AttInv(p, m)
        BY <1>1, <1>4 DEF Core, AttInv
    <2>2. TimerInv(p, m)
        BY <1>1, <1>4 DEF Core, TimerInv
    <2>3. NamedInv(p, m)
        BY <1>1, <1>3 DEF Core, NamedInv
    <2> QED
        BY <1>1, <1>3, <2>1, <2>2, <2>3 DEF Core
<1>6. ASSUME h.is # "cleared", h.is \in Checked => h.att # p.token PROVE PhoneInv(p, m)
    <2>1. ClientInv(p, m)
        <3>1. CASE p.client = 0
            BY <3>1 DEF ClientInv
        <3>2. CASE p.client # 0
            <4>1. p.client \in Tokens
                BY <1>1, <3>2 DEF Phones, Tokens
            <4>2. Asked(p, n, "unpair", {"cleared"}, 0) => Asked(p, m, "unpair", {"cleared"}, 0)
                BY <1>3, <1>6 DEF Asked
            <4> QED
                BY <1>1, <1>4, <1>6, <3>2, <4>1, <4>2 DEF ClientInv
        <3> QED
            BY <3>1, <3>2
    <2> QED
        BY <1>5, <2>1 DEF PhoneInv
<1>7. ASSUME h.is \in Checked, h.att \in Tokens, h.att = p.token
      PROVE  p.att[p.token].at = "down" /\ ~Checking(p, m, p.token) /\ (p.timer => p.astray)
    <2>1. /\ Hear(n, Checked, p.token) /\ ~Hear(m, Checked, p.token)
          /\ ~Has(p.calls, "status", p.token)
        BY <1>1, <1>3, <1>7 DEF Core, AttInv, Once
    <2>2. Checking(p, n, p.token) /\ ~Checking(p, m, p.token)
        BY <2>1 DEF Checking, Asked
    <2>3. p.att[p.token].at = "down"
        BY <1>1, <1>7, <2>2 DEF Core, AttInv
    <2> QED
        BY <1>1, <1>7, <2>2, <2>3 DEF Core, TimerInv
<1>8. ASSUME h.is \in Sockets PROVE h.att \in Tokens
    <2>1. h.att \in 0..MaxToken
        BY <1>3 DEF News
    <2>2. h.att # 0
        BY <1>1, <1>3, <1>8 DEF Core, NamedInv
    <2> QED
        BY <2>1, <2>2 DEF Tokens
<1>9. ASSUME h.is \in Dialled PROVE p.att[h.att].at = "opening" /\ ~Dialling(p, m, h.att)
    <2>1. h.att \in Tokens
        BY <1>8, <1>9 DEF Dialled, Sockets
    <2>2. Hear(n, Dialled, h.att) /\ ~Hear(m, Dialled, h.att) /\ ~Has(p.calls, "connect", h.att)
        BY <1>1, <1>3, <1>9, <2>1 DEF Core, AttInv, Once
    <2>3. Dialling(p, n, h.att) /\ ~Dialling(p, m, h.att)
        BY <2>2 DEF Dialling, Asked
    <2> QED
        BY <1>1, <2>1, <2>3 DEF Core, AttInv
<1>10. h.is \notin Checked \union {"cleared"} => PhoneInv(p, m)
    BY <1>6
<1>11. "cleared" \notin Checked
    BY DEF Checked
<1> QED
    BY <1>2, <1>3, <1>5, <1>6, <1>7, <1>8, <1>9, <1>10, <1>11

\* The answer to a question about the binding.
LEMMA CheckedIsHeard ==
    ASSUME PhoneInv(phone, news), HearsPaired \/ HearsUnpaired \/ HearsUnread
    PROVE  PhoneInv(phone', news')
<1>1. PICK p, m, h : p = phone /\ m = Tail(news) /\ h = Head(news)
    OBVIOUS
<1>2. h.is \in Checked /\ news' = m /\ news # <<>>
    BY <1>1 DEF HearsPaired, HearsUnpaired, HearsUnread, Hears, Checked
<1>3. /\ Core(p, m) /\ h \in News
      /\ h.att # p.token => PhoneInv(p, m)
      /\ h.att \in Tokens /\ h.att = p.token =>
            p.att[p.token].at = "down" /\ ~Checking(p, m, p.token) /\ (p.timer => p.astray)
    BY <1>1, <1>2, HearingIs
<1>4. p \in Phones /\ h.att \in 0..MaxToken
    BY <1>3 DEF Core, News
<1>5. CASE HearsPaired
    <2>1. /\ p.token < MaxToken
          /\ phone' = IF h.att = 0 THEN Connect(p, "connecting")
                      ELSE IF h.att = p.token THEN Schedule(Show(p, "reconnecting")) ELSE p
        BY <1>1, <1>5 DEF HearsPaired, Turns, Of, CanDial
    <2>2. CASE h.att = 0
        BY <1>2, <1>3, <2>1, <2>2, ConnectTurn
    <2>3. CASE h.att # 0 /\ h.att = p.token
        <3>1. PICK r, s : r = Show(p, "reconnecting") /\ s = Schedule(r)
            OBVIOUS
        <3>2. "reconnecting" \in Kinds
            BY DEF Kinds
        <3>3. r \in Phones /\ r.astray = p.astray
            BY <1>4, <3>1, <3>2, ShowIs DEF Alike
        <3>4. s \in Phones /\ s.astray = p.astray
            BY <3>1, <3>3, ScheduleIs
        <3>5. s = [Schedule(Show(p, "reconnecting")) EXCEPT !.astray = p.astray]
            BY <3>1, <3>4 DEF Phones
        <3>6. p.astray \in BOOLEAN /\ h.att \in Tokens
            BY <1>4, <2>3 DEF Phones, Tokens
        <3>7. p.token \in Tokens => /\ p.att[p.token].at \in {"none", "down"}
                                    /\ ~Checking(p, m, p.token)
            BY <1>3, <2>3
        <3>8. PhoneInv(s, m)
            BY <1>3, <3>5, <3>6, <3>7, ScheduleTurn
        <3> QED
            BY <1>2, <2>1, <2>3, <3>1, <3>8
    <2>4. CASE h.att # 0 /\ h.att # p.token
        BY <1>2, <1>3, <2>1, <2>4
    <2> QED
        BY <2>2, <2>3, <2>4
<1>6. CASE HearsUnpaired
    <2>1. phone' = IF h.att = 0 THEN Show(p, "unpaired")
                   ELSE IF h.att = p.token THEN Show(Teardown(p), "error") ELSE p
        BY <1>1, <1>6 DEF HearsUnpaired, Turns, Of
    <2>2. CASE h.att = 0
        <3>1. "unpaired" \in Kinds \ {"error"}
            BY DEF Kinds
        <3> QED
            BY <1>2, <1>3, <2>1, <2>2, <3>1, ShowTurn
    <2>3. CASE h.att # 0 /\ h.att = p.token
        <3>1. h.att \in Tokens
            BY <1>4, <2>3 DEF Tokens
        <3> QED
            BY <1>2, <1>3, <2>1, <2>3, <3>1, UnpairedTurn
    <2>4. CASE h.att # 0 /\ h.att # p.token
        BY <1>2, <1>3, <2>1, <2>4
    <2> QED
        BY <2>2, <2>3, <2>4
<1>7. CASE HearsUnread
    <2>1. phone' = IF h.att = 0 THEN p
                   ELSE [Schedule(Show(p, "offline")) EXCEPT !.astray = @ \/ h.att # p.token]
        BY <1>1, <1>7 DEF HearsUnread, Turns, Of
    <2>2. CASE h.att = 0
        <3>1. CASE p.token # 0
            BY <1>2, <1>3, <2>1, <2>2, <3>1
        <3>2. CASE p.token = 0
            <4>1. Core(p, m) /\ SameAsks(p.calls, p.calls)
                BY <1>3, AsksAreSame
            <4>2. ClientInv(p, news)
                BY <1>1 DEF PhoneInv
            <4>3. p.client # 0 => Asked(p, news, "unpair", {"cleared"}, 0)
                BY <3>2, <4>2 DEF ClientInv
            <4>4. Asked(p, news, "unpair", {"cleared"}, 0) => Asked(p, m, "unpair", {"cleared"}, 0)
                <5>1. news \in Seq(News)
                    BY DEF PhoneInv, Core
                <5>2. Hear(news, {"cleared"}, 0) <=> Hear(m, {"cleared"}, 0)
                                                    \/ (h.is \in {"cleared"} /\ h.att = 0)
                    BY <1>1, <1>2, <5>1, NewsHeard
                <5> QED
                    BY <1>2, <5>2 DEF Asked, Checked
            <4>5. ClientInv(p, m)
                BY <4>3, <4>4 DEF ClientInv
            <4> QED
                BY <1>2, <1>3, <2>1, <2>2, <4>5 DEF PhoneInv
        <3> QED
            BY <3>1, <3>2
    <2>3. CASE h.att # 0
        <3>1. PICK r, s : r = Show(p, "offline") /\ s = Schedule(r)
            OBVIOUS
        <3>2. "offline" \in Kinds
            BY DEF Kinds
        <3>3. r \in Phones /\ r.astray = p.astray
            BY <1>4, <3>1, <3>2, ShowIs DEF Alike
        <3>4. s \in Phones /\ s.astray = p.astray
            BY <3>1, <3>3, ScheduleIs
        <3>5. PICK a : a = (p.astray \/ h.att # p.token)
            OBVIOUS
        <3>6. a \in BOOLEAN /\ (p.astray => a) /\ p.astray \in BOOLEAN
            BY <1>4, <3>5 DEF Phones
        <3>7. phone' = [Schedule(Show(p, "offline")) EXCEPT !.astray = a]
            BY <2>1, <2>3, <3>1, <3>4, <3>5
        <3>8. h.att \in Tokens
            BY <1>4, <2>3 DEF Tokens
        <3>9. \/ a
              \/ p.token \in Tokens => /\ p.att[p.token].at \in {"none", "down"}
                                       /\ ~Checking(p, m, p.token)
            BY <1>3, <3>5, <3>8
        <3>10. PhoneInv(phone', m)
            BY <1>3, <3>6, <3>7, <3>9, ScheduleTurn
        <3> QED
            BY <1>2, <3>10
    <2> QED
        BY <2>2, <2>3
<1> QED
    BY <1>5, <1>6, <1>7

\* News of a socket.
LEMMA SocketIsHeard ==
    ASSUME PhoneInv(phone, news),
           HearsOpened \/ HearsFailed \/ HearsAck \/ HearsUnsent \/ HearsClosed
    PROVE  PhoneInv(phone', news')
<1>1. PICK p, m, h : p = phone /\ m = Tail(news) /\ h = Head(news)
    OBVIOUS
<1>2. h.is \in Sockets /\ h.is \notin Checked \union {"cleared"} /\ news' = m /\ news # <<>>
    BY <1>1 DEF HearsOpened, HearsFailed, HearsAck, HearsUnsent, HearsClosed, Hears,
       Checked, Sockets
<1>3. /\ PhoneInv(p, m) /\ h \in News /\ h.att \in Tokens
      /\ h.is \in Dialled => p.att[h.att].at = "opening" /\ ~Dialling(p, m, h.att)
    BY <1>1, <1>2, HearingIs
<1>4. p \in Phones
    BY <1>3 DEF PhoneInv, Core
<1>5. CASE HearsOpened
    <2>1. /\ p.att[h.att].at = "opening" /\ ~Dialling(p, m, h.att)
        BY <1>1, <1>3, <1>5 DEF HearsOpened, Hears, Dialled
    <2>2. phone' = IF h.att # p.token THEN Dispose(p, h.att)
                   ELSE IF p.att[h.att].early
                   THEN HandshakeFails([p EXCEPT !.att[h.att].at = "hello"], h.att)
                   ELSE Call([p EXCEPT !.att[h.att].at = "hello"], "hello", h.att)
        BY <1>1, <1>5 DEF HearsOpened, Turns, Of
    <2> QED
        BY <1>2, <1>3, <2>1, <2>2, OpenedTurn
<1>6. CASE HearsFailed
    <2>1. /\ p.att[h.att].at \in {"opening", "hello"} /\ ~Dialling(p, m, h.att)
          /\ phone' = ConnectFails(p, h.att)
        BY <1>1, <1>3, <1>6 DEF HearsFailed, Hears, Dialled, Turns, Of
    <2> QED
        BY <1>2, <1>3, <2>1, ConnectFailsTurn
<1>7. CASE HearsAck
    <2>1. phone' = IF p.att[h.att].at = "hello" THEN Acked(p, h.att) ELSE p
        BY <1>1, <1>7 DEF HearsAck, Turns, Of
    <2> QED
        BY <1>2, <1>3, <2>1, AckedTurn
<1>8. CASE HearsUnsent
    <2>1. phone' = HandshakeFails(p, h.att)
        BY <1>1, <1>8 DEF HearsUnsent, Turns, Of
    <2> QED
        BY <1>2, <1>3, <2>1, HandshakeFailsTurn
<1>9. CASE HearsClosed
    <2>1. PICK r : r = Noted(p, h.fatal)
        OBVIOUS
    <2>2. h.fatal \in BOOLEAN
        BY <1>3 DEF News
    <2>3. PhoneInv(r, m) /\ r \in Phones
        BY <1>3, <2>1, <2>2, NotedTurn DEF PhoneInv, Core
    <2>4. \/ phone' = [r EXCEPT !.att[h.att].early = TRUE]
          \/ r.att[h.att].at = "up" /\ phone' = PeerClosed(r, h.att)
          \/ phone' = HandshakeFails(r, h.att)
        BY <1>1, <1>9, <2>1 DEF HearsClosed, Turns, Of
    <2>5. CASE phone' = [r EXCEPT !.att[h.att].early = TRUE]
        <3>1. PICK t : t = h.att
            OBVIOUS
        <3>2. r.att \in [Tokens -> Ends] /\ t \in Tokens
            BY <1>3, <2>3, <3>1 DEF Phones
        <3>3. PICK e : e = [r.att[t] EXCEPT !.early = TRUE]
            OBVIOUS
        <3>4. e \in Ends /\ e.at = r.att[t].at
            <4>1. r.att[t] \in Ends
                BY <3>2
            <4> QED
                BY <3>3, <4>1 DEF Ends
        <3>5. PICK a : a = [r.att EXCEPT ![t] = e]
            OBVIOUS
        <3>6. a \in [Tokens -> Ends] /\ \A u \in Tokens : a[u].at = r.att[u].at
            BY <3>2, <3>4, <3>5
        <3>7. phone' = [r EXCEPT !.att = a]
            BY <2>5, <3>1, <3>3, <3>5
        <3>8. PICK q : q = phone'
            OBVIOUS
        <3>9. /\ q \in Phones /\ Alike(r, q) /\ Shown(r, q) /\ q.att = a /\ q.calls = r.calls
            BY <2>3, <3>6, <3>7, <3>8 DEF Phones, Alike, Shown
        <3>10. SameAsks(r.calls, q.calls)
            BY <3>9, AsksAreSame
        <3>11. PhoneInv(q, m)
            BY <2>3, <3>6, <3>9, <3>10, SameTurn DEF Alike, PhoneInv
        <3> QED
            BY <1>2, <3>8, <3>11
    <2>6. CASE r.att[h.att].at = "up" /\ phone' = PeerClosed(r, h.att)
        BY <1>2, <1>3, <2>3, <2>6, PeerClosedTurn
    <2>7. CASE phone' = HandshakeFails(r, h.att)
        BY <1>2, <1>3, <2>3, <2>7, HandshakeFailsTurn
    <2> QED
        BY <2>4, <2>5, <2>6, <2>7
<1> QED
    BY <1>5, <1>6, <1>7, <1>8, <1>9

\* News of the binding or of a pairing.
LEMMA BindingIsHeard ==
    ASSUME PhoneInv(phone, news),
           \/ HearsCleared \/ HearsClaimed \/ HearsUnclaimed \/ HearsPending \/ HearsUnpolled
           \/ HearsApproved \/ HearsDeclined \/ HearsCancelled
    PROVE  PhoneInv(phone', news')
<1>1. PICK p, m, h : p = phone /\ m = Tail(news) /\ h = Head(news)
    OBVIOUS
<1>2. /\ h.is \in {"cleared", "claimed", "unclaimed", "pending", "unpolled", "approved",
                   "rejected", "expired", "cancelled"}
      /\ news' = m /\ news # <<>>
    BY <1>1 DEF HearsCleared, HearsClaimed, HearsUnclaimed, HearsPending, HearsUnpolled,
       HearsApproved, HearsDeclined, HearsCancelled, Hears
<1>3. Core(p, m) /\ (h.is # "cleared" => PhoneInv(p, m))
    <2>1. h.is \notin Checked
        BY <1>2 DEF Checked
    <2> QED
        BY <1>1, <1>2, <2>1, HearingIs
<1>4. p \in Phones
    BY <1>3 DEF Core
<1>5. ASSUME NEW kind \in {"unpaired", "refused", "waiting"}, NEW poll \in BOOLEAN, NEW q,
             q = [Show(p, kind) EXCEPT !.poll = poll]
      PROVE  PhoneInv(q, m)
    <2>1. kind \in Kinds \ {"error"}
        BY DEF Kinds
    <2>2. PICK r : r = Show(p, kind)
        OBVIOUS
    <2>3. PhoneInv(r, m) /\ r \in Phones
        BY <1>3, <2>1, <2>2, ShowTurn DEF PhoneInv, Core
    <2>4. q = [r EXCEPT !.poll = poll]
        BY <1>5, <2>2
    <2>5. q \in Phones /\ Alike(r, q) /\ Shown(r, q) /\ q.att = r.att /\ q.calls = r.calls
        BY <2>3, <2>4 DEF Phones, Alike, Shown
    <2>6. SameAsks(r.calls, q.calls)
        BY <2>5, AsksAreSame
    <2> QED
        BY <2>3, <2>5, <2>6, SameTurn DEF Alike, PhoneInv
<1>6. ASSUME NEW kind \in {"unpaired", "refused", "waiting"} PROVE PhoneInv(Show(p, kind), m)
    <2>1. kind \in Kinds \ {"error"}
        BY DEF Kinds
    <2> QED
        BY <1>3, <2>1, ShowTurn
<1>7. ASSUME PhoneInv(p, m), NEW q, q = [p EXCEPT !.poll = TRUE] PROVE PhoneInv(q, m)
    <2>1. q \in Phones /\ Alike(p, q) /\ Shown(p, q) /\ q.att = p.att /\ q.calls = p.calls
        BY <1>4, <1>7 DEF Phones, Alike, Shown
    <2>2. SameAsks(p.calls, q.calls)
        BY <2>1, AsksAreSame
    <2> QED
        BY <1>7, <2>1, <2>2, SameTurn DEF Alike, PhoneInv
<1>8. CASE HearsCleared \/ HearsCancelled
    BY <1>1, <1>2, <1>6, <1>8 DEF HearsCleared, HearsCancelled, Turns
<1>9. CASE HearsClaimed
    BY <1>1, <1>2, <1>5, <1>9 DEF HearsClaimed, Turns
<1>10. CASE HearsUnclaimed
    BY <1>1, <1>2, <1>6, <1>10 DEF HearsUnclaimed, Turns
<1>11. CASE HearsPending \/ HearsUnpolled
    <2>1. PhoneInv(p, m)
        BY <1>1, <1>3, <1>11 DEF HearsPending, HearsUnpolled, Hears
    <2>2. phone' = p \/ phone' = [p EXCEPT !.poll = TRUE]
        BY <1>1, <1>11 DEF HearsPending, HearsUnpolled, Turns, Polling
    <2> QED
        BY <1>2, <1>7, <2>1, <2>2
<1>12. CASE HearsApproved
    <2>1. PhoneInv(p, m) /\ p.token < MaxToken
        BY <1>1, <1>3, <1>12 DEF HearsApproved, Hears, CanDial
    <2>2. phone' = p \/ phone' = Connect(p, "connecting")
        BY <1>1, <1>12 DEF HearsApproved, Turns
    <2> QED
        BY <1>2, <1>3, <2>1, <2>2, ConnectTurn
<1>13. CASE HearsDeclined
    <2>1. PhoneInv(p, m)
        BY <1>1, <1>3, <1>13 DEF HearsDeclined, Hears
    <2>2. phone' = p \/ \E kind \in {"unpaired", "refused", "waiting"} : phone' = Show(p, kind)
        BY <1>1, <1>13 DEF HearsDeclined, Turns
    <2> QED
        BY <1>2, <1>6, <2>1, <2>2
<1> QED
    BY <1>8, <1>9, <1>10, <1>11, <1>12, <1>13

-----------------------------------------------------------------------------
(* Timers and the user.                                                    *)

\* What neither asks nor shows anything.
LEMMA IdleTurn ==
    ASSUME NEW p, NEW n, PhoneInv(p, n), NEW q \in Phones, Shown(p, q), q.att = p.att,
           q.calls = p.calls, q.token = p.token, q.astray = p.astray, q.timer => p.timer
    PROVE  PhoneInv(q, n)
<1>1. SameAsks(p.calls, q.calls)
    BY AsksAreSame
<1> QED
    BY <1>1, SameTurn DEF PhoneInv

\* The binding is looked up at a resume.
LEMMA LookupTurn ==
    ASSUME NEW p, NEW n, PhoneInv(p, n), NEW q, q = Call(p, "status", 0)
    PROVE  PhoneInv(q, n)
<1>1. p \in Phones /\ n \in Seq(News) /\ Core(p, n) /\ ClientInv(p, n)
    BY DEF PhoneInv, Core
<1>2. "status" \in Ops /\ 0 \in 0..MaxToken
    BY AsksAre DEF Ops
<1>3. /\ q \in Phones /\ Alike(p, q) /\ Shown(p, q) /\ q.att = p.att
      /\ AddsAsk(p.calls, q.calls, "status", 0)
    BY <1>1, <1>2, CallIs
<1>4. \A u \in Tokens :
          /\ Checking(q, n, u) <=> Checking(p, n, u)
          /\ Dialling(q, n, u) <=> Dialling(p, n, u)
          /\ Once(p, n, "status", Checked, u) => Once(q, n, "status", Checked, u)
          /\ Once(p, n, "connect", Dialled, u) => Once(q, n, "connect", Dialled, u)
    <2> SUFFICES ASSUME NEW u \in Tokens
                 PROVE  /\ Checking(q, n, u) <=> Checking(p, n, u)
                        /\ Dialling(q, n, u) <=> Dialling(p, n, u)
                        /\ Once(p, n, "status", Checked, u) => Once(q, n, "status", Checked, u)
                        /\ Once(p, n, "connect", Dialled, u) => Once(q, n, "connect", Dialled, u)
        OBVIOUS
    <2>1. u # 0 /\ u \in 0..MaxToken
        BY AsksAre
    <2>2. /\ Has(q.calls, "status", u) <=> Has(p.calls, "status", u)
          /\ Single(p.calls, "status", u) => Single(q.calls, "status", u)
          /\ Has(q.calls, "connect", u) <=> Has(p.calls, "connect", u)
          /\ Single(p.calls, "connect", u) => Single(q.calls, "connect", u)
        BY <1>3, <2>1, AsksAre DEF AddsAsk
    <2> QED
        BY <2>2 DEF Checking, Dialling, Asked, Once
<1>5. AttInv(q, n)
    BY <1>1, <1>3, <1>4 DEF Core, AttInv, Alike
<1>6. TimerInv(q, n) /\ ErrorInv(q)
    BY <1>1, <1>3, <1>4 DEF Core, TimerInv, ErrorInv, Alike, Shown
<1>7. NamedInv(q, n)
    BY <1>1, <1>3, AsksAre DEF Core, NamedInv, AddsAsk
<1>8. ClientInv(q, n)
    <2>1. CASE q.client = 0
        BY <2>1 DEF ClientInv
    <2>2. CASE q.client # 0
        <3>1. q.client \in Tokens
            BY <1>3, <2>2 DEF Phones, Tokens
        <3>2. Asked(q, n, "unpair", {"cleared"}, 0) <=> Asked(p, n, "unpair", {"cleared"}, 0)
            BY <1>3, AsksAre DEF Asked, AddsAsk
        <3> QED
            BY <1>1, <1>3, <1>4, <2>2, <3>1, <3>2 DEF ClientInv, Alike, Shown
    <2> QED
        BY <2>1, <2>2
<1> QED
    BY <1>1, <1>3, <1>5, <1>6, <1>7, <1>8 DEF PhoneInv, Core

\* The timers: of a retry, a poll, a hello, a heartbeat.
LEMMA TimersTurn ==
    ASSUME PhoneInv(phone, news),
           TimerFires \/ PollFires \/ \E t \in Tokens : HelloTimesOut(t) \/ PeerGivesUp(t)
    PROVE  PhoneInv(phone', news')
<1>1. PICK p, q : p = phone /\ q = phone'
    OBVIOUS
<1>2. PhoneInv(p, news) /\ Core(p, news) /\ p \in Phones
    BY <1>1 DEF PhoneInv, Core
<1>3. CASE TimerFires
    <2>1. p.token < MaxToken /\ q = Connect(p, "reconnecting") /\ news' = news
        BY <1>1, <1>3 DEF TimerFires, CanDial, Fires, Acts
    <2> QED
        BY <1>1, <1>2, <2>1, ConnectTurn
<1>4. CASE PollFires
    <2>1. PICK r : r = [p EXCEPT !.poll = FALSE]
        OBVIOUS
    <2>2. /\ r \in Phones /\ Shown(p, r) /\ r.att = p.att /\ r.calls = p.calls
          /\ r.token = p.token /\ r.astray = p.astray /\ r.timer = p.timer
        BY <1>2, <2>1 DEF Phones, Shown
    <2>3. PhoneInv(r, news)
        BY <1>2, <2>2, IdleTurn
    <2>4. (q = r \/ q = Call(r, "poll", 0)) /\ news' = news
        BY <1>1, <1>4, <2>1 DEF PollFires, Fires, Acts
    <2>5. "poll" \in Ops \ Asks /\ 0 \in 0..MaxToken
        BY AsksAre DEF Ops, Asks
    <2> QED
        BY <1>1, <2>3, <2>4, <2>5, CallTurn
<1>5. ASSUME NEW t \in Tokens, HelloTimesOut(t) PROVE PhoneInv(phone', news')
    <2>1. q = HandshakeFails(p, t) /\ news' = news
        BY <1>1, <1>5 DEF HelloTimesOut
    <2> QED
        BY <1>1, <1>2, <2>1, HandshakeFailsTurn
<1>6. ASSUME NEW t \in Tokens, PeerGivesUp(t) PROVE PhoneInv(phone', news')
    <2>1. PICK r : r = Closing(p, t)
        OBVIOUS
    <2>2. q = PeerClosed(r, t) /\ news' = news /\ p.att[t].at = "up"
        BY <1>1, <1>6, <2>1 DEF PeerGivesUp
    <2>3. t \in 0..MaxToken
        BY AsksAre
    <2>4. /\ r \in Phones /\ Alike(p, r) /\ Shown(p, r) /\ r.att = p.att
          /\ SameAsks(p.calls, r.calls)
        BY <1>2, <2>1, <2>3, ClosingIs
    <2>5. PhoneInv(r, news)
        BY <1>2, <2>4, SameTurn DEF Alike, PhoneInv
    <2> QED
        BY <1>1, <2>2, <2>4, <2>5, PeerClosedTurn
<1> QED
    BY <1>3, <1>4, <1>5, <1>6

\* What the user does, and the state of the app.
LEMMA UserTurn ==
    ASSUME PhoneInv(phone, news), User
    PROVE  PhoneInv(phone', news')
<1>1. PICK p, q : p = phone /\ q = phone'
    OBVIOUS
<1>2. PhoneInv(p, news) /\ Core(p, news) /\ p \in Phones
    BY <1>1 DEF PhoneInv, Core
<1>3. CASE Foreground
    <2>1. PICK r : r = [p EXCEPT !.app = "active"]
        OBVIOUS
    <2>2. /\ r \in Phones /\ Shown(p, r) /\ r.att = p.att /\ r.calls = p.calls
          /\ r.token = p.token /\ r.astray = p.astray /\ r.timer = p.timer
        BY <1>2, <2>1 DEF Phones, Shown
    <2>3. PhoneInv(r, news) /\ Core(r, news)
        BY <1>2, <2>2, IdleTurn DEF PhoneInv
    <2>4. /\ news' = news /\ r.token < MaxToken
          /\ q = Connect(r, "reconnecting") \/ q = Call(r, "status", 0) \/ q = r
        BY <1>1, <1>3, <2>1, <2>2 DEF Foreground, Does, Acts, Resumes, CanDial
    <2> QED
        BY <1>1, <2>3, <2>4, ConnectTurn, LookupTurn
<1>4. CASE Background
    <2>1. news' = news /\ q = [p EXCEPT !.app = "background", !.timer = FALSE]
        BY <1>1, <1>4 DEF Background, Does, Acts
    <2>2. /\ q \in Phones /\ Shown(p, q) /\ q.att = p.att /\ q.calls = p.calls
          /\ q.token = p.token /\ q.astray = p.astray /\ ~q.timer
        BY <1>2, <2>1 DEF Phones, Shown
    <2> QED
        BY <1>1, <1>2, <2>1, <2>2, IdleTurn
<1>5. CASE Retry
    <2>1. p.token < MaxToken /\ q = Connect(p, "reconnecting") /\ news' = news
        BY <1>1, <1>5 DEF Retry, CanDial, Does, Acts
    <2> QED
        BY <1>1, <1>2, <2>1, ConnectTurn
<1>6. CASE Unpair
    <2>1. p.token < MaxToken /\ q = Unpairs(p) /\ news' = news
        BY <1>1, <1>6 DEF Unpair, CanDial, Does, Acts
    <2> QED
        BY <1>1, <1>2, <2>1, UnpairsTurn
<1>7. "claim" \in Ops \ Asks /\ "cancel" \in Ops \ Asks /\ 0 \in 0..MaxToken
    BY AsksAre DEF Ops, Asks
<1>8. PICK r : r = [p EXCEPT !.poll = FALSE]
    OBVIOUS
<1>9. /\ r \in Phones /\ Shown(p, r) /\ r.att = p.att /\ r.calls = p.calls
      /\ r.token = p.token /\ r.astray = p.astray /\ r.timer = p.timer
    BY <1>2, <1>8 DEF Phones, Shown
<1>10. PhoneInv(r, news) /\ Core(r, news)
    BY <1>2, <1>9, IdleTurn DEF PhoneInv
<1>11. CASE BeginPairing
    <2>1. PICK s : s = Show(r, "pairing")
        OBVIOUS
    <2>2. "pairing" \in Kinds \ {"error"}
        BY DEF Kinds
    <2>3. PhoneInv(s, news)
        BY <1>10, <2>1, <2>2, ShowTurn
    <2>4. q = Call(s, "claim", 0) /\ news' = news
        BY <1>1, <1>8, <1>11, <2>1 DEF BeginPairing, Does, Acts
    <2> QED
        BY <1>1, <1>7, <2>3, <2>4, CallTurn
<1>12. CASE CancelPairing
    <2>1. q = Call(r, "cancel", 0) /\ news' = news
        BY <1>1, <1>8, <1>12 DEF CancelPairing, Does, Acts
    <2> QED
        BY <1>1, <1>7, <1>10, <2>1, CallTurn
<1> QED
    BY <1>3, <1>4, <1>5, <1>6, <1>11, <1>12 DEF User

-----------------------------------------------------------------------------
(* The native transport serves calls, and has news of its own.             *)

\* What is asked is asked once still, and nothing else changes.
LEMMA KeptTurn ==
    ASSUME NEW p, NEW n, PhoneInv(p, n), NEW q \in Phones, NEW m \in Seq(News),
           Alike(p, q), Shown(p, q), q.att = p.att, NamedInv(q, m),
           Asked(p, n, "unpair", {"cleared"}, 0) => Asked(q, m, "unpair", {"cleared"}, 0),
           \A t \in Tokens :
               /\ Checking(q, m, t) <=> Checking(p, n, t)
               /\ Dialling(q, m, t) <=> Dialling(p, n, t)
               /\ Once(p, n, "status", Checked, t) => Once(q, m, "status", Checked, t)
               /\ Once(p, n, "connect", Dialled, t) => Once(q, m, "connect", Dialled, t)
    PROVE  PhoneInv(q, m)
<1>1. p \in Phones /\ Core(p, n) /\ ClientInv(p, n)
    BY DEF PhoneInv, Core
<1>2. AttInv(q, m)
    BY <1>1 DEF Core, AttInv, Alike
<1>3. TimerInv(q, m)
    BY <1>1 DEF Core, TimerInv, Alike
<1>4. ErrorInv(q)
    BY <1>1 DEF Core, ErrorInv, Alike, Shown
<1>5. ClientInv(q, m)
    <2>1. CASE q.client = 0
        BY <2>1 DEF ClientInv
    <2>2. CASE q.client # 0
        <3>1. q.client \in Tokens
            BY <2>2 DEF Phones, Tokens
        <3> QED
            BY <1>1, <2>2, <3>1 DEF ClientInv, Alike, Shown
    <2> QED
        BY <2>1, <2>2
<1> QED
    BY <1>2, <1>3, <1>4, <1>5 DEF PhoneInv, Core

\* News that answer no question, in the place they take.
Aside(n, m, x) == m = Append(n, x) \/ (n # <<>> /\ m = Front(n) \o <<x, Last(n)>>)

\* Such news change nothing of what is asked.
LEMMA AsideTurn ==
    ASSUME NEW p, NEW n, PhoneInv(p, n), NEW x \in News, x.is \in Rest,
           x.is \in Sockets => x.att # 0, NEW m, Aside(n, m, x)
    PROVE  PhoneInv(p, m)
<1>1. p \in Phones /\ n \in Seq(News) /\ Core(p, n)
    BY DEF PhoneInv, Core
<1>2. /\ m \in Seq(News)
      /\ \A K, t : /\ Hear(m, K, t) <=> Hear(n, K, t) \/ (x.is \in K /\ x.att = t)
                   /\ HearOnce(n, K, t) /\ ~(Hear(n, K, t) /\ x.is \in K /\ x.att = t)
                        => HearOnce(m, K, t)
    BY <1>1, NewsAdded DEF Aside
<1>3. x.is \notin Checked /\ x.is \notin Dialled
    BY DEF Rest, Checked, Dialled
<1>4. \A t \in Tokens :
          /\ Checking(p, m, t) <=> Checking(p, n, t)
          /\ Dialling(p, m, t) <=> Dialling(p, n, t)
          /\ Once(p, n, "status", Checked, t) => Once(p, m, "status", Checked, t)
          /\ Once(p, n, "connect", Dialled, t) => Once(p, m, "connect", Dialled, t)
    BY <1>2, <1>3 DEF Checking, Dialling, Asked, Once
<1>5. NamedInv(p, m)
    BY <1>1, <1>2 DEF Core, NamedInv
<1>6. Asked(p, n, "unpair", {"cleared"}, 0) => Asked(p, m, "unpair", {"cleared"}, 0)
    BY <1>2 DEF Asked
<1> QED
    BY <1>1, <1>2, <1>4, <1>5, <1>6, KeptTurn DEF Alike, Shown

\* A call is served, with the answer x or with none.
LEMMA ServedTurn ==
    ASSUME NEW p, NEW n, PhoneInv(p, n), p.calls # <<>>, NEW q, q = [p EXCEPT !.calls = Tail(@)],
           NEW h, h = Head(p.calls), NEW x \in News, NEW m,
           \/ m = n /\ h.op \notin {"status", "connect", "unpair"}
           \/ /\ m = Append(n, x)
              /\ h.op = "status" => x.is \in Checked /\ x.att = h.att
              /\ h.op = "connect" => x.is \in Dialled /\ x.att = h.att
              /\ h.op = "unpair" => x.is = "cleared" /\ x.att = 0
              /\ h.op \notin {"status", "connect"} => x.is \in Rest
              /\ x.is \in Sockets => x.att # 0
    PROVE  PhoneInv(q, m)
<1>1. p \in Phones /\ n \in Seq(News) /\ Core(p, n) /\ p.calls \in Seq(Calls)
    BY DEF PhoneInv, Core, Phones
<1>2. PICK c, d : c = p.calls /\ d = Tail(c)
    OBVIOUS
<1>3. /\ d \in Seq(Calls) /\ h \in Calls
      /\ \A op, t : /\ Has(c, op, t) <=> Has(d, op, t) \/ (h.op = op /\ h.att = t)
                    /\ Single(c, op, t) => /\ Single(d, op, t)
                                           /\ h.op = op /\ h.att = t => ~Has(d, op, t)
    BY <1>1, <1>2, CallServed
<1>4. q = [p EXCEPT !.calls = d]
    BY <1>2
<1>5. q \in Phones /\ Alike(p, q) /\ Shown(p, q) /\ q.att = p.att /\ q.calls = d
    BY <1>1, <1>3, <1>4 DEF Phones, Alike, Shown
<1>6. CASE m = n /\ h.op \notin {"status", "connect", "unpair"}
    <2>1. \A t \in Tokens :
              /\ Checking(q, m, t) <=> Checking(p, n, t)
              /\ Dialling(q, m, t) <=> Dialling(p, n, t)
              /\ Once(p, n, "status", Checked, t) => Once(q, m, "status", Checked, t)
              /\ Once(p, n, "connect", Dialled, t) => Once(q, m, "connect", Dialled, t)
        BY <1>2, <1>3, <1>5, <1>6 DEF Checking, Dialling, Asked, Once
    <2>2. NamedInv(q, m)
        BY <1>1, <1>2, <1>3, <1>5, <1>6 DEF Core, NamedInv
    <2>3. Asked(p, n, "unpair", {"cleared"}, 0) => Asked(q, m, "unpair", {"cleared"}, 0)
        BY <1>2, <1>3, <1>5, <1>6 DEF Asked
    <2> QED
        BY <1>1, <1>5, <1>6, <2>1, <2>2, <2>3, KeptTurn
<1>7. CASE /\ m = Append(n, x)
           /\ h.op = "status" => x.is \in Checked /\ x.att = h.att
           /\ h.op = "connect" => x.is \in Dialled /\ x.att = h.att
           /\ h.op = "unpair" => x.is = "cleared" /\ x.att = 0
           /\ h.op \notin {"status", "connect"} => x.is \in Rest
           /\ x.is \in Sockets => x.att # 0
    <2>1. /\ m \in Seq(News)
          /\ \A K, t : /\ Hear(m, K, t) <=> Hear(n, K, t) \/ (x.is \in K /\ x.att = t)
                       /\ HearOnce(n, K, t) /\ ~(Hear(n, K, t) /\ x.is \in K /\ x.att = t)
                            => HearOnce(m, K, t)
        BY <1>1, <1>7, NewsAdded
    <2>2. /\ x.is \in Checked => x.is \notin Dialled /\ x.is \notin Rest
          /\ x.is \in Dialled => x.is \notin Checked /\ x.is \notin Rest
        BY DEF Rest, Checked, Dialled
    <2>3. /\ x.is \in Checked <=> h.op = "status"
          /\ x.is \in Dialled <=> h.op = "connect"
          /\ h.op \in {"status", "connect"} => x.att = h.att
        BY <1>7, <2>2
    <2>4. ASSUME NEW t \in Tokens
          PROVE  /\ Checking(q, m, t) <=> Checking(p, n, t)
                 /\ Dialling(q, m, t) <=> Dialling(p, n, t)
                 /\ Once(p, n, "status", Checked, t) => Once(q, m, "status", Checked, t)
                 /\ Once(p, n, "connect", Dialled, t) => Once(q, m, "connect", Dialled, t)
        <3>1. /\ Has(c, "status", t) <=> Has(d, "status", t) \/ (h.op = "status" /\ h.att = t)
              /\ Hear(m, Checked, t) <=> Hear(n, Checked, t) \/ (h.op = "status" /\ h.att = t)
              /\ Has(c, "connect", t) <=> Has(d, "connect", t) \/ (h.op = "connect" /\ h.att = t)
              /\ Hear(m, Dialled, t) <=> Hear(n, Dialled, t) \/ (h.op = "connect" /\ h.att = t)
            BY <1>3, <2>1, <2>3
        <3>2. Checking(q, m, t) <=> Checking(p, n, t)
            BY <1>2, <1>5, <3>1 DEF Checking, Asked
        <3>3. Dialling(q, m, t) <=> Dialling(p, n, t)
            BY <1>2, <1>5, <3>1 DEF Dialling, Asked
        <3>4. ASSUME Once(p, n, "status", Checked, t) PROVE Once(q, m, "status", Checked, t)
            <4>1. /\ Single(d, "status", t)
                  /\ h.op = "status" /\ h.att = t => ~Has(d, "status", t) /\ ~Hear(n, Checked, t)
                BY <1>2, <1>3, <3>1, <3>4 DEF Once
            <4>2. HearOnce(m, Checked, t)
                BY <2>1, <2>3, <3>4, <4>1 DEF Once
            <4>3. ~(Has(d, "status", t) /\ Hear(m, Checked, t))
                BY <1>2, <3>1, <3>4, <4>1 DEF Once
            <4> QED
                BY <1>5, <4>1, <4>2, <4>3 DEF Once
        <3>5. ASSUME Once(p, n, "connect", Dialled, t) PROVE Once(q, m, "connect", Dialled, t)
            <4>1. /\ Single(d, "connect", t)
                  /\ h.op = "connect" /\ h.att = t => ~Has(d, "connect", t) /\ ~Hear(n, Dialled, t)
                BY <1>2, <1>3, <3>1, <3>5 DEF Once
            <4>2. HearOnce(m, Dialled, t)
                BY <2>1, <2>3, <3>5, <4>1 DEF Once
            <4>3. ~(Has(d, "connect", t) /\ Hear(m, Dialled, t))
                BY <1>2, <3>1, <3>5, <4>1 DEF Once
            <4> QED
                BY <1>5, <4>1, <4>2, <4>3 DEF Once
        <3> QED
            BY <3>2, <3>3, <3>4, <3>5
    <2>5. NamedInv(q, m)
        BY <1>1, <1>2, <1>3, <1>5, <1>7, <2>1 DEF Core, NamedInv
    <2>6. Asked(p, n, "unpair", {"cleared"}, 0) => Asked(q, m, "unpair", {"cleared"}, 0)
        <3>1. Has(c, "unpair", 0) => Has(d, "unpair", 0) \/ h.op = "unpair"
            BY <1>3
        <3>2. Hear(n, {"cleared"}, 0) \/ h.op = "unpair" => Hear(m, {"cleared"}, 0)
            BY <1>7, <2>1
        <3> QED
            BY <1>2, <1>5, <3>1, <3>2 DEF Asked
    <2> QED
        BY <1>1, <1>5, <2>1, <2>4, <2>5, <2>6, KeptTurn
<1> QED
    BY <1>6, <1>7

\* The head of the calls, and the news there can be.
LEMMA HeadOfCalls ==
    ASSUME NEW p, NEW n, PhoneInv(p, n), p.calls # <<>>, NEW h, h = Head(p.calls)
    PROVE  /\ h \in Calls /\ h.att \in 0..MaxToken
           /\ h.op \in {"connect", "hello"} => h.att # 0
<1>1. p.calls \in Seq(Calls) /\ NamedInv(p, n)
    BY DEF PhoneInv, Core, Phones
<1>2. PICK c : c = p.calls
    OBVIOUS
<1>3. c \in Seq(Calls) /\ c # <<>> /\ h = Head(c)
    BY <1>1, <1>2
<1>4. h \in Calls /\ 1 \in DOMAIN c /\ h = c[1]
    BY <1>3
<1>5. Has(c, h.op, h.att)
    BY <1>4 DEF Has
<1> QED
    BY <1>1, <1>2, <1>4, <1>5 DEF Calls, NamedInv

\* The rest of the state is well typed, and nothing arrives without a socket.
NetInv ==
    /\ native \in [paired : BOOLEAN, pairing : BOOLEAN, active : 0..MaxToken]
    /\ server \in [revoked : BOOLEAN, accepted : 0..MaxToken, asked : SUBSET Tokens,
                   claim : {"none", "pending", "approved", "rejected", "expired"}]
    /\ sock \in [Tokens -> {"none", "upgrading", "authenticated", "peer"}]
    /\ hello \subseteq Tokens
    /\ down \in Seq({"ack", "refused", "revoked", "bye"})
    /\ faults \in 0..MaxFaults /\ moves \in 0..MaxMoves
    /\ native.active = 0 => down = <<>>

\* What is told is a piece of news.
LEMMA NewsIs ==
    ASSUME NEW kind \in Checked \union Dialled \union Rest, NEW t \in 0..MaxToken,
           NEW fatal \in BOOLEAN, NEW x, x = [is |-> kind, att |-> t, fatal |-> fatal]
    PROVE  x \in News /\ x.is = kind /\ x.att = t /\ \A n : Told(n, kind, t, fatal) = Append(n, x)
BY DEF News, Told

\* The socket that a call closes is told to be closed.
LEMMA ClosedTurn ==
    ASSUME NEW p, NEW n, PhoneInv(p, n), NetInv
    PROVE  PhoneInv(p, Closed(n))
<1>1. CASE native.active = 0
    BY <1>1 DEF Closed
<1>2. CASE native.active # 0
    <2>1. PICK x : x = [is |-> "closed", att |-> native.active, fatal |-> FALSE]
        OBVIOUS
    <2>2. native.active \in 0..MaxToken /\ "closed" \in Rest
        BY DEF NetInv, Rest
    <2>3. /\ x \in News /\ x.is \in Rest /\ x.att # 0
          /\ Told(n, "closed", native.active, FALSE) = Append(n, x)
        BY <1>2, <2>1, <2>2 DEF News, Told
    <2>4. Closed(n) = Append(n, x)
        BY <1>2, <2>3 DEF Closed
    <2> QED
        BY <2>3, <2>4, AsideTurn DEF Aside
<1> QED
    BY <1>1, <1>2

\* Every call is served so that what it asked is answered, once.
LEMMA ServesTurn ==
    ASSUME PhoneInv(phone, news), NetInv, ServesCalls
    PROVE  PhoneInv(phone', news')
<1>1. PICK p, q, h, n, m : p = phone /\ q = phone' /\ h = Head(phone.calls) /\ n = news /\ m = news'
    OBVIOUS
<1>2. PhoneInv(p, n) /\ p.calls # <<>> /\ q = [p EXCEPT !.calls = Tail(@)]
    BY <1>1 DEF ServesCalls, ServeStatus, ServeConnect, ServeHello, ServeClose, ServeUnpair,
       ServeClaim, ServePoll, ServeCancel, Serves
<1>3. h \in Calls /\ h.att \in 0..MaxToken /\ (h.op \in {"connect", "hello"} => h.att # 0)
    BY <1>1, <1>2, HeadOfCalls
<1>4. ASSUME NEW kind \in Checked \union Dialled \union Rest, NEW t \in 0..MaxToken,
             NEW fatal \in BOOLEAN, NEW k, PhoneInv(p, k), m = Told(k, kind, t, fatal),
             h.op = "status" => kind \in Checked /\ t = h.att,
             h.op = "connect" => kind \in Dialled /\ t = h.att,
             h.op = "unpair" => kind = "cleared" /\ t = 0,
             h.op \notin {"status", "connect"} => kind \in Rest,
             kind \in Sockets => t # 0
      PROVE  PhoneInv(q, m)
    <2>1. PICK x : x = [is |-> kind, att |-> t, fatal |-> fatal]
        OBVIOUS
    <2>2. x \in News /\ x.is = kind /\ x.att = t /\ m = Append(k, x)
        BY <1>4, <2>1, NewsIs
    <2>3. /\ h.op = "status" => x.is \in Checked /\ x.att = h.att
          /\ h.op = "connect" => x.is \in Dialled /\ x.att = h.att
          /\ h.op = "unpair" => x.is = "cleared" /\ x.att = 0
          /\ h.op \notin {"status", "connect"} => x.is \in Rest
          /\ x.is \in Sockets => x.att # 0
        BY <1>4, <2>2
    <2>4. PhoneInv(p, k) /\ p.calls # <<>> /\ h = Head(p.calls) /\ q = [p EXCEPT !.calls = Tail(@)]
        BY <1>1, <1>2, <1>4
    <2> QED
        BY <2>2, <2>3, <2>4, ServedTurn
<1>5. CASE ServeStatus
    <2>1. h.op = "status" /\ \E kind \in {"paired", "unpaired", "unread"} :
             m = Told(n, kind, h.att, FALSE)
        BY <1>1, <1>5 DEF ServeStatus, Serves, Answers
    <2>2. PICK kind \in {"paired", "unpaired", "unread"} : m = Told(n, kind, h.att, FALSE)
        BY <2>1
    <2>3. kind \in Checked /\ kind \notin Sockets
        BY DEF Checked, Sockets
    <2> QED
        BY <1>1, <1>2, <1>3, <1>4, <2>1, <2>2, <2>3
<1>6. CASE ServeConnect
    <2>1. h.op = "connect" /\ h.att # 0
        BY <1>1, <1>3, <1>6 DEF ServeConnect, Serves
    <2>2. \/ m = Told(n, "failed", h.att, FALSE)
          \/ m = Told(Closed(n), "opened", h.att, FALSE)
        BY <1>1, <1>6 DEF ServeConnect, Answers
    <2>3. "failed" \in Dialled /\ "opened" \in Dialled
        BY DEF Dialled
    <2>4. PhoneInv(p, Closed(n))
        BY <1>2, ClosedTurn
    <2> QED
        BY <1>1, <1>2, <1>3, <1>4, <2>1, <2>2, <2>3, <2>4
<1>7. CASE ServeHello
    <2>1. h.op = "hello" /\ h.att # 0
        BY <1>1, <1>3, <1>7 DEF ServeHello, Serves
    <2>2. m = n \/ m = Told(n, "unsent", h.att, FALSE)
        BY <1>1, <1>7 DEF ServeHello, Answers
    <2>3. "unsent" \in Rest
        BY DEF Rest
    <2>4. PICK x : x = [is |-> "unsent", att |-> h.att, fatal |-> FALSE]
        OBVIOUS
    <2>5. x \in News
        BY <1>3, <2>3, <2>4 DEF News
    <2>6. CASE m = n
        BY <1>1, <1>2, <2>1, <2>5, <2>6, ServedTurn
    <2> QED
        BY <1>1, <1>2, <1>3, <1>4, <2>1, <2>2, <2>3, <2>6
<1>8. CASE ServeClose
    <2>1. h.op = "close"
        BY <1>1, <1>8 DEF ServeClose, Serves
    <2>2. m = n \/ m = Closed(n)
        BY <1>1, <1>8 DEF ServeClose
    <2>3. PhoneInv(p, m)
        BY <1>2, <2>2, ClosedTurn
    <2>4. PICK x : x = [is |-> "cancelled", att |-> h.att, fatal |-> FALSE]
        OBVIOUS
    <2>5. "cancelled" \in Rest
        BY DEF Rest
    <2>6. x \in News
        BY <1>3, <2>4, <2>5 DEF News
    <2> QED
        BY <1>1, <1>2, <2>1, <2>3, <2>6, ServedTurn
<1>9. CASE ServeUnpair
    <2>1. h.op = "unpair" /\ m = Told(Closed(n), "cleared", 0, FALSE)
        BY <1>1, <1>9 DEF ServeUnpair, Serves
    <2>2. "cleared" \in Rest /\ "cleared" \notin Sockets
        BY DEF Rest, Sockets
    <2>3. PhoneInv(p, Closed(n)) /\ 0 \in 0..MaxToken
        BY <1>2, ClosedTurn, AsksAre
    <2> QED
        BY <1>1, <1>4, <2>1, <2>2, <2>3
<1>10. CASE ServeClaim
    <2>1. h.op = "claim"
        BY <1>1, <1>10 DEF ServeClaim, Serves
    <2>2. \/ m = Told(n, "unclaimed", h.att, FALSE) \/ m = Told(n, "claimed", h.att, FALSE)
          \/ m = Told(n, "unclaimed", 0, TRUE)
        BY <1>1, <1>10 DEF ServeClaim, Answers
    <2>3. "unclaimed" \in Rest \ Sockets /\ "claimed" \in Rest \ Sockets /\ 0 \in 0..MaxToken
        BY AsksAre DEF Rest, Sockets
    <2> QED
        BY <1>1, <1>2, <1>3, <1>4, <2>1, <2>2, <2>3
<1>11. CASE ServePoll
    <2>1. h.op = "poll"
        BY <1>1, <1>11 DEF ServePoll, Serves
    <2>2. \E kind \in {"unpolled", server.claim} : m = Told(n, kind, h.att, FALSE)
        BY <1>1, <1>11 DEF ServePoll, Answers
    <2>3. PICK kind \in {"unpolled", server.claim} : m = Told(n, kind, h.att, FALSE)
        BY <2>2
    <2>4. kind \in Rest \ Sockets
        BY DEF NetInv, Rest, Sockets
    <2> QED
        BY <1>1, <1>2, <1>3, <1>4, <2>1, <2>3, <2>4
<1>12. CASE ServeCancel
    <2>1. h.op = "cancel" /\ m = Told(n, "cancelled", h.att, FALSE)
        BY <1>1, <1>12 DEF ServeCancel, Serves, Answers
    <2>2. "cancelled" \in Rest \ Sockets
        BY DEF Rest, Sockets
    <2> QED
        BY <1>1, <1>2, <1>3, <1>4, <2>1, <2>2
<1> QED
    BY <1>5, <1>6, <1>7, <1>8, <1>9, <1>10, <1>11, <1>12 DEF ServesCalls

\* The socket is lost, or brings something.
LEMMA EventTurn ==
    ASSUME PhoneInv(phone, news), NetInv, Drops \/ Expires \/ Delivers
    PROVE  PhoneInv(phone', news')
<1>1. phone' = phone
    BY DEF Drops, Expires, Delivers, EngineOnly
<1>2. native.active \in 0..MaxToken /\ native.active # 0
    BY DEF NetInv, Drops, Expires, Delivers
<1>3. \/ \E fatal \in BOOLEAN : Overtakes(native.active, fatal)
      \/ news' = Told(news, "acked", native.active, FALSE)
    <2>1. (Head(down) \in {"refused", "revoked"}) \in BOOLEAN
        OBVIOUS
    <2> QED
        BY <2>1 DEF Drops, Expires, Delivers
<1>4. ASSUME NEW fatal \in BOOLEAN, Overtakes(native.active, fatal) PROVE PhoneInv(phone, news')
    <2>1. PICK x : x = [is |-> "closed", att |-> native.active, fatal |-> fatal]
        OBVIOUS
    <2>2. "closed" \in Rest
        BY DEF Rest
    <2>3. x \in News /\ x.is \in Rest /\ x.att # 0
        BY <1>2, <2>1, <2>2, NewsIs
    <2>4. Aside(news, news', x)
        BY <1>4, <2>1 DEF Overtakes, Aside
    <2> QED
        BY <2>3, <2>4, AsideTurn
<1>5. CASE news' = Told(news, "acked", native.active, FALSE)
    <2>1. PICK x : x = [is |-> "acked", att |-> native.active, fatal |-> FALSE]
        OBVIOUS
    <2>2. "acked" \in Rest
        BY DEF Rest
    <2>3. x \in News /\ x.is \in Rest /\ x.att # 0
          /\ Told(news, "acked", native.active, FALSE) = Append(news, x)
        BY <1>2, <2>1, <2>2 DEF News, Told
    <2>4. Aside(news, news', x)
        BY <1>5, <2>3 DEF Aside
    <2>5. PhoneInv(phone, news')
        BY <2>3, <2>4, AsideTurn
    <2> QED
        BY <1>1, <2>5
<1> QED
    BY <1>1, <1>3, <1>4, <1>5

-----------------------------------------------------------------------------
(* The rest of the state.                                                  *)

LinkInv == PhoneInv(phone, news) /\ NetInv

\* Initially the binding is looked up, for no attempt.
LEMMA LinkInit == Init => LinkInv
<1> SUFFICES ASSUME Init PROVE LinkInv
    OBVIOUS
<1>1. NetInv
    <2>1. PICK paired \in BOOLEAN :
              /\ native = [paired |-> paired, pairing |-> FALSE, active |-> 0]
              /\ server = [revoked |-> FALSE, claim |-> IF paired THEN "approved" ELSE "none",
                           accepted |-> 0, asked |-> {}]
        BY DEF Init
    <2>2. down = <<>> /\ hello = {} /\ faults = 0 /\ moves = 0 /\ sock = [t \in Tokens |-> "none"]
        BY DEF Init
    <2>3. 0 \in 0..MaxToken /\ 0 \in 0..MaxFaults /\ 0 \in 0..MaxMoves
        BY MobileAssumption
    <2>4. native \in [paired : BOOLEAN, pairing : BOOLEAN, active : 0..MaxToken]
        BY <2>1, <2>3
    <2>5. server \in [revoked : BOOLEAN, accepted : 0..MaxToken, asked : SUBSET Tokens,
                      claim : {"none", "pending", "approved", "rejected", "expired"}]
        BY <2>1, <2>3
    <2> QED
        BY <2>2, <2>3, <2>4, <2>5 DEF NetInv
<1>2. PICK c, a, x : /\ x = [op |-> "status", att |-> 0] /\ c = <<x>>
                     /\ a = [t \in Tokens |-> NoAttempt]
    OBVIOUS
<1>3. /\ x \in Calls /\ x.op = "status" /\ x.att = 0
      /\ c \in Seq(Calls) /\ DOMAIN c = {1} /\ c[1] = x
    <2>1. x \in Calls /\ x.op = "status" /\ x.att = 0
        BY <1>2, AsksAre DEF Calls, Ops
    <2>2. DOMAIN c = {1} /\ c[1] = x
        BY <1>2
    <2> QED
        BY <1>2, <2>1, <2>2
<1>4. a \in [Tokens -> Ends] /\ \A t \in Tokens : a[t].at = "none"
    BY <1>2 DEF Ends, NoAttempt
<1>5. /\ phone.ui = "initializing" /\ phone.client = 0 /\ phone.token = 0 /\ ~phone.timer
      /\ phone.calls = c /\ phone.att = a /\ phone \in Phones
    <2>1. phone = [ui |-> "initializing", client |-> 0, token |-> 0, timer |-> FALSE,
                   poll |-> FALSE, app |-> "launched", astray |-> FALSE, att |-> a, calls |-> c]
        BY <1>2 DEF Init
    <2>2. "initializing" \in Kinds /\ 0 \in 0..MaxToken
        BY AsksAre DEF Kinds
    <2> QED
        BY <1>3, <1>4, <2>1, <2>2 DEF Phones
<1>6. news = <<>> /\ \A K, t : ~Hear(news, K, t) /\ HearOnce(news, K, t)
    BY DEF Init, Hear, HearOnce
<1>7. \A op, t : /\ Single(c, op, t)
                 /\ Has(c, op, t) => op = "status" /\ t = 0
    BY <1>3 DEF Single, Has
<1>8. AttInv(phone, news)
    BY <1>4, <1>5, <1>6, <1>7, AsksAre DEF AttInv, Checking, Dialling, Asked, Once
<1>9. TimerInv(phone, news) /\ ErrorInv(phone) /\ ClientInv(phone, news)
    BY <1>5 DEF TimerInv, ErrorInv, ClientInv
<1>10. NamedInv(phone, news)
    BY <1>5, <1>6, <1>7 DEF NamedInv
<1>11. news \in Seq(News)
    BY <1>6
<1> QED
    BY <1>1, <1>5, <1>8, <1>9, <1>10, <1>11 DEF LinkInv, PhoneInv, Core

\* The bounds.
LEMMA CountsAre ==
    /\ NetInv /\ (Fault \/ UNCHANGED faults) => faults' \in 0..MaxFaults
    /\ NetInv /\ (Move \/ UNCHANGED moves) => moves' \in 0..MaxMoves
BY MobileAssumption DEF NetInv, Fault, Move

\* The app leaves the rest alone.
LEMMA NetOfPhone ==
    ASSUME NetInv,
           \/ HearsNews \/ TimerFires \/ PollFires \/ User
           \/ \E t \in Tokens : HelloTimesOut(t) \/ PeerGivesUp(t)
    PROVE  NetInv'
<1>1. /\ UNCHANGED <<native, served>>
      /\ Fault \/ UNCHANGED faults
      /\ Move \/ UNCHANGED moves
    <2>1. CASE HearsNews
        BY <2>1 DEF HearsNews, HearsPaired, HearsUnpaired, HearsUnread, HearsOpened, HearsFailed,
           HearsAck, HearsUnsent, HearsClosed, HearsCleared, HearsClaimed, HearsUnclaimed,
           HearsPending, HearsUnpolled, HearsApproved, HearsDeclined, HearsCancelled, Turns
    <2>2. CASE TimerFires \/ PollFires \/ User
        BY <2>2 DEF TimerFires, PollFires, User, Foreground, Background, Retry, Unpair,
           BeginPairing, CancelPairing, Does, Fires, Acts
    <2>3. CASE \E t \in Tokens : HelloTimesOut(t) \/ PeerGivesUp(t)
        BY <2>3 DEF HelloTimesOut, PeerGivesUp
    <2> QED
        BY <2>1, <2>2, <2>3
<1> QED
    BY <1>1, CountsAre DEF NetInv, served

\* What the server closes.
LEMMA ClosesAre ==
    ASSUME NetInv, NEW S \in SUBSET Tokens, NEW why \in {"ack", "refused", "revoked", "bye"},
           Closes(S, why)
    PROVE  /\ sock' \in [Tokens -> {"none", "upgrading", "authenticated", "peer"}]
           /\ hello' \subseteq Tokens
           /\ down' \in Seq({"ack", "refused", "revoked", "bye"})
           /\ native.active = 0 => down' = <<>>
<1>1. down' = down \/ (native.active \in Tokens /\ down' = Append(down, why))
    BY DEF Closes
<1> QED
    BY <1>1, AsksAre DEF NetInv, Closes

\* The server's steps.
LEMMA NetOfServer ==
    ASSUME NetInv,
           \/ Revoke \/ Decide \/ ServerRestarts
           \/ \E t \in Tokens : Authenticate(t) \/ Accept(t) \/ ServerTimesOut(t) \/ SeesEnd(t)
    PROVE  NetInv'
<1> DEFINE Claims == {"none", "pending", "approved", "rejected", "expired"}
           Rows   == [revoked : BOOLEAN, accepted : 0..MaxToken, asked : SUBSET Tokens,
                      claim : Claims]
           Wire   == /\ sock' \in [Tokens -> {"none", "upgrading", "authenticated", "peer"}]
                     /\ hello' \subseteq Tokens
                     /\ down' \in Seq({"ack", "refused", "revoked", "bye"})
                     /\ native.active = 0 => down' = <<>>
<1>1. /\ native' = native /\ moves' = moves
      /\ Fault \/ UNCHANGED faults
    BY DEF Revoke, Decide, ServerRestarts, Authenticate, Accept, ServerTimesOut, SeesEnd, ServerOnly
<1>2. SUFFICES server' \in Rows /\ Wire
    BY <1>1, CountsAre DEF NetInv
<1>3. server \in Rows
    BY DEF NetInv
<1>4. ASSUME NEW S \in SUBSET Tokens, NEW why \in {"ack", "refused", "revoked", "bye"},
             Closes(S, why)
      PROVE  Wire
    BY <1>4, ClosesAre
<1>5. CASE Revoke
    <2>1. PICK S : S = {t \in Tokens : sock[t] = "peer"} /\ Closes(S, "revoked")
        BY <1>5 DEF Revoke
    <2>2. server' \in Rows
        BY <1>3, <1>5 DEF Revoke
    <2> QED
        BY <1>4, <2>1, <2>2
<1>6. CASE Decide
    <2>1. Wire
        BY <1>6 DEF Decide, NetInv
    <2>2. server' \in Rows
        BY <1>3, <1>6 DEF Decide
    <2> QED
        BY <2>1, <2>2
<1>7. CASE ServerRestarts
    <2>1. PICK S : S = {t \in Tokens : sock[t] \in {"authenticated", "peer"}} /\ Closes(S, "bye")
        BY <1>7 DEF ServerRestarts
    <2>2. server' \in Rows
        BY <1>3, <1>7 DEF ServerRestarts
    <2> QED
        BY <1>4, <2>1, <2>2
<1>8. ASSUME NEW t \in Tokens, Authenticate(t) PROVE server' \in Rows /\ Wire
    <2>1. server' \in Rows
        BY <1>3, <1>8 DEF Authenticate
    <2>2. CASE Closes({t}, "refused")
        BY <1>4, <2>1, <2>2
    <2>3. CASE sock' = [sock EXCEPT ![t] = "authenticated"] /\ UNCHANGED <<hello, down>>
        BY <2>1, <2>3 DEF NetInv
    <2> QED
        BY <1>8, <2>2, <2>3 DEF Authenticate
<1>9. ASSUME NEW t \in Tokens, Accept(t) PROVE server' \in Rows /\ Wire
    <2>1. CASE Closes({t}, "bye") /\ UNCHANGED server
        BY <1>3, <1>4, <2>1
    <2>2. CASE /\ server' = [server EXCEPT !.accepted = t]
               /\ sock' = [u \in Tokens |-> IF u = t THEN "peer"
                                            ELSE IF u \in Fenced(t) THEN "none" ELSE sock[u]]
               /\ hello' = hello \ ({t} \union Fenced(t))
               /\ down' = IF native.active = t THEN Append(down, "ack") ELSE down
        <3>1. server' \in Rows
            BY <1>3, <2>2, AsksAre
        <3>2. sock' \in [Tokens -> {"none", "upgrading", "authenticated", "peer"}]
              /\ hello' \subseteq Tokens
            BY <2>2 DEF NetInv
        <3>3. down' = down \/ (native.active \in Tokens /\ down' = Append(down, "ack"))
            BY <2>2
        <3>4. /\ down' \in Seq({"ack", "refused", "revoked", "bye"})
              /\ native.active = 0 => down' = <<>>
            BY <3>3, AsksAre DEF NetInv
        <3> QED
            BY <3>1, <3>2, <3>4
    <2> QED
        BY <1>9, <2>1, <2>2 DEF Accept
<1>10. ASSUME NEW t \in Tokens, ServerTimesOut(t) PROVE server' \in Rows /\ Wire
    BY <1>3, <1>4, <1>10 DEF ServerTimesOut
<1>11. ASSUME NEW t \in Tokens, SeesEnd(t) PROVE server' \in Rows /\ Wire
    BY <1>3, <1>4, <1>11 DEF SeesEnd
<1> QED
    BY <1>5, <1>6, <1>7, <1>8, <1>9, <1>10, <1>11

\* The native transport's steps.
LEMMA NetOfNative ==
    ASSUME NetInv, PhoneInv(phone, news), ServesCalls \/ Drops \/ Expires \/ Delivers
    PROVE  NetInv'
<1> DEFINE Natives == [paired : BOOLEAN, pairing : BOOLEAN, active : 0..MaxToken]
           Claims  == {"none", "pending", "approved", "rejected", "expired"}
           Rows    == [revoked : BOOLEAN, accepted : 0..MaxToken, asked : SUBSET Tokens,
                       claim : Claims]
           Socks   == [Tokens -> {"none", "upgrading", "authenticated", "peer"}]
           Downs   == Seq({"ack", "refused", "revoked", "bye"})
           Counts  == (Fault \/ UNCHANGED faults) /\ UNCHANGED moves
<1>1. PICK h : h = Head(phone.calls)
    OBVIOUS
<1>2. /\ native \in Natives /\ server \in Rows /\ sock \in Socks /\ hello \subseteq Tokens
      /\ down \in Downs /\ (native.active = 0 => down = <<>>) /\ <<>> \in Downs
      /\ 0 \in 0..MaxToken
    BY AsksAre DEF NetInv
<1>3. ASSUME Counts, native' \in Natives, server' \in Rows, sock' \in Socks,
             hello' \subseteq Tokens,
             down' \in Downs, native'.active = 0 => down' = <<>>
      PROVE  NetInv'
    BY <1>3, CountsAre DEF NetInv
<1>4. ASSUME Counts, UNCHANGED <<native, served>> PROVE NetInv'
    BY <1>2, <1>3, <1>4 DEF served
<1>5. CASE ServeStatus
    BY <1>4, <1>5 DEF ServeStatus, Serves
<1>6. CASE ServeConnect
    <2>1. phone.calls # <<>> /\ h.op = "connect" /\ Counts
        BY <1>1, <1>6 DEF ServeConnect, Serves
    <2>2. h.att \in Tokens /\ h.att \in 0..MaxToken /\ h.att # 0
        <3>1. h.att \in 0..MaxToken /\ h.att # 0
            BY <1>1, <2>1, HeadOfCalls
        <3> QED
            BY <3>1 DEF Tokens
    <2>3. CASE UNCHANGED <<native, served>>
        BY <1>4, <2>1, <2>3
    <2>4. CASE /\ native' = [native EXCEPT !.active = h.att]
               /\ server' = [server EXCEPT !.asked = @ \union {h.att}]
               /\ sock' = [sock EXCEPT ![h.att] = "upgrading"] /\ down' = <<>>
               /\ hello' = hello
        <3>1. native' \in Natives
            BY <1>2, <2>2, <2>4
        <3>2. server' \in Rows
            BY <1>2, <2>2, <2>4
        <3>3. sock' \in Socks /\ hello' \subseteq Tokens /\ down' \in Downs
            BY <1>2, <2>2, <2>4
        <3> QED
            BY <1>3, <2>1, <2>4, <3>1, <3>2, <3>3
    <2> QED
        BY <1>1, <1>6, <2>3, <2>4 DEF ServeConnect
<1>7. CASE ServeHello
    <2>1. phone.calls # <<>> /\ h.op = "hello" /\ Counts
        BY <1>1, <1>7 DEF ServeHello, Serves
    <2>2. h.att \in Tokens
        <3>1. h.att \in 0..MaxToken /\ h.att # 0
            BY <1>1, <2>1, HeadOfCalls
        <3> QED
            BY <3>1 DEF Tokens
    <2>3. /\ UNCHANGED <<native, down, server, sock>>
          /\ hello' = hello \/ hello' = hello \union {h.att}
        BY <1>1, <1>7 DEF ServeHello
    <2> QED
        BY <1>2, <1>3, <2>1, <2>2, <2>3
<1>8. CASE ServeClose
    <2>1. Counts /\ UNCHANGED <<server, sock, hello>>
        BY <1>8 DEF ServeClose, Serves
    <2>2. \/ UNCHANGED <<native, down>>
          \/ native' = [native EXCEPT !.active = 0] /\ down' = <<>>
        BY <1>8 DEF ServeClose
    <2>3. native' \in Natives /\ down' \in Downs /\ (native'.active = 0 => down' = <<>>)
        BY <1>2, <2>2
    <2> QED
        BY <1>2, <1>3, <2>1, <2>3
<1>9. CASE ServeUnpair
    <2>1. Counts /\ UNCHANGED <<server, sock, hello>>
        BY <1>9 DEF ServeUnpair, Serves
    <2>2. native' = [paired |-> FALSE, pairing |-> FALSE, active |-> 0] /\ down' = <<>>
        BY <1>9 DEF ServeUnpair
    <2>3. native' \in Natives
        BY <1>2, <2>2
    <2> QED
        BY <1>2, <1>3, <2>1, <2>2, <2>3
<1>10. CASE ServeClaim
    <2>1. Counts /\ UNCHANGED <<down, sock, hello>>
        BY <1>10 DEF ServeClaim, Serves
    <2>2. native' = native \/ native' = [native EXCEPT !.pairing = TRUE]
        BY <1>10 DEF ServeClaim
    <2>3. server' = server \/ \E claim \in Claims : server' = [server EXCEPT !.claim = claim]
        <3>1. CASE server' = server
            BY <3>1
        <3>2. CASE server' = [server EXCEPT !.claim = "pending"]
            BY <3>2
        <3>3. ASSUME NEW claim \in {"none", "pending"},
                     server' = [server EXCEPT !.claim = IF @ = "none" THEN claim ELSE @]
              PROVE  \E c \in Claims : server' = [server EXCEPT !.claim = c]
            <4>1. PICK c : c = IF server.claim = "none" THEN claim ELSE server.claim
                OBVIOUS
            <4>2. c \in Claims /\ server' = [server EXCEPT !.claim = c]
                BY <1>2, <3>3, <4>1
            <4> QED
                BY <4>2
        <3> QED
            BY <1>10, <3>1, <3>2, <3>3 DEF ServeClaim
    <2>4. native' \in Natives /\ native'.active = native.active
        BY <1>2, <2>2
    <2>5. server' \in Rows
        BY <1>2, <2>3
    <2> QED
        BY <1>2, <1>3, <2>1, <2>4, <2>5
<1>11. CASE ServePoll
    <2>1. Counts /\ UNCHANGED served
        BY <1>11 DEF ServePoll, Serves
    <2>2. native' = native \/
          native' = [native EXCEPT !.pairing = FALSE, !.paired = server.claim = "approved"]
        BY <1>11 DEF ServePoll
    <2>3. native' \in Natives /\ native'.active = native.active
        <3>1. (server.claim = "approved") \in BOOLEAN
            OBVIOUS
        <3> QED
            BY <1>2, <2>2, <3>1
    <2> QED
        BY <1>2, <1>3, <2>1, <2>3 DEF served
<1>12. CASE ServeCancel
    <2>1. Counts /\ UNCHANGED served /\ native' = [native EXCEPT !.pairing = FALSE]
        BY <1>12 DEF ServeCancel, Serves
    <2>2. native' \in Natives /\ native'.active = native.active
        BY <1>2, <2>1
    <2> QED
        BY <1>2, <1>3, <2>1, <2>2 DEF served
<1>13. CASE Drops \/ Expires \/ Delivers
    <2>1. Counts /\ UNCHANGED <<server, sock, hello>>
        BY <1>13 DEF Drops, Expires, Delivers, EngineOnly
    <2>2. \/ native' = [native EXCEPT !.active = 0] /\ down' = <<>>
          \/ native' = native /\ down # <<>> /\ down' = Tail(down)
        BY <1>13 DEF Drops, Expires, Delivers
    <2>3. CASE native' = [native EXCEPT !.active = 0] /\ down' = <<>>
        BY <1>2, <1>3, <2>1, <2>3
    <2>4. CASE native' = native /\ down # <<>> /\ down' = Tail(down)
        <3>1. down' \in Downs
            BY <1>2, <2>4
        <3> QED
            BY <1>2, <1>3, <2>1, <2>4, <3>1
    <2> QED
        BY <2>2, <2>3, <2>4
<1> QED
    BY <1>5, <1>6, <1>7, <1>8, <1>9, <1>10, <1>11, <1>12, <1>13 DEF ServesCalls

-----------------------------------------------------------------------------
\* Every step of the system.
LEMMA LinkStep == LinkInv /\ [Next]_vars => LinkInv'
<1> SUFFICES ASSUME PhoneInv(phone, news), NetInv, [Next]_vars
             PROVE  PhoneInv(phone', news') /\ NetInv'
    BY DEF LinkInv
<1>1. CASE HearsNews
    BY <1>1, CheckedIsHeard, SocketIsHeard, BindingIsHeard, NetOfPhone DEF HearsNews
<1>2. CASE TimerFires \/ PollFires \/ \E t \in Tokens : HelloTimesOut(t) \/ PeerGivesUp(t)
    BY <1>2, TimersTurn, NetOfPhone
<1>3. CASE User
    BY <1>3, UserTurn, NetOfPhone
<1>4. CASE ServesCalls
    BY <1>4, ServesTurn, NetOfNative
<1>5. CASE Drops \/ Expires \/ Delivers
    BY <1>5, EventTurn, NetOfNative
<1>6. CASE \/ Revoke \/ Decide \/ ServerRestarts
           \/ \E t \in Tokens : Authenticate(t) \/ Accept(t) \/ ServerTimesOut(t) \/ SeesEnd(t)
    <2>1. UNCHANGED <<phone, news>>
        BY <1>6 DEF Revoke, Decide, ServerRestarts, Authenticate, Accept, ServerTimesOut,
           SeesEnd, ServerOnly
    <2> QED
        BY <1>6, <2>1, NetOfServer
<1>7. CASE UNCHANGED vars
    BY <1>7, CountsAre DEF vars, served, NetInv
<1> QED
    BY <1>1, <1>2, <1>3, <1>4, <1>5, <1>6, <1>7 DEF Next

\* The types, and what the app shows.
LEMMA LinkTypes == LinkInv => TypeOK
BY DEF LinkInv, PhoneInv, Core, Phones, Calls, Ops, Ends, NetInv, TypeOK

\* The calls and the news of the model are those of the invariant.
LEMMA LinkClient == LinkInv => ClientIsLive
<1> SUFFICES ASSUME LinkInv, phone.client # 0
             PROVE  \/ phone.att[phone.client].at = "up" /\ phone.client = phone.token
                    \/ UnderWay("status", phone.client)
                    \/ Known({"paired", "unpaired", "unread"}, phone.client)
                    \/ UnderWay("unpair", 0) \/ Known({"cleared"}, 0)
    BY DEF ClientIsLive
<1>1. PICK c : c = phone.calls
    OBVIOUS
<1>2. c \in Seq(Calls)
    BY <1>1 DEF LinkInv, PhoneInv, Core, Phones
<1>3. ASSUME NEW op, NEW t, Has(c, op, t) PROVE UnderWay(op, t)
    <2>1. PICK i \in DOMAIN c : c[i].op = op /\ c[i].att = t
        BY <1>3 DEF Has
    <2>2. c[i] \in Calls
        BY <1>2
    <2>3. c[i] = [op |-> op, att |-> t]
        BY <2>1, <2>2 DEF Calls
    <2> QED
        BY <1>1, <2>3 DEF UnderWay
<1>4. \A K, t : Hear(news, K, t) => Known(K, t)
    BY DEF Hear, Known
<1>5. \/ Has(c, "unpair", 0) \/ Hear(news, {"cleared"}, 0)
      \/ phone.att[phone.client].at = "up" /\ phone.client = phone.token
      \/ Has(c, "status", phone.client) \/ Hear(news, Checked, phone.client)
    BY <1>1 DEF LinkInv, PhoneInv, ClientInv, Asked, Checking
<1> QED
    BY <1>3, <1>4, <1>5 DEF Checked

\* A fatal end is final by a part of the invariant.
LEMMA LinkQuiet == LinkInv => FatalMeansQuiet
BY DEF LinkInv, PhoneInv, Core, ErrorInv, FatalMeansQuiet

\* The invariant of the app's side and of what is on the wire is kept.
THEOREM LinkInvariant == Spec => []LinkInv
BY LinkInit, LinkStep, PTL DEF Spec

\* Every variable keeps its type.
THEOREM MobileTypeCorrect == Spec => []TypeOK
BY LinkInvariant, LinkTypes, PTL

\* Whoever is shown as connected has a live connection of the current attempt, or
\* the binding is being checked or deleted (connection-controller.ts).
THEOREM ClientAlwaysLive == Spec => []ClientIsLive
BY LinkInvariant, LinkClient, PTL

\* Behind a fatal end nothing dials again, for any number of attempts, lost
\* connections and moves of the user (#handleConnectFailure, #handlePeerClose).
THEOREM FatalAlwaysQuiet == Spec => []FatalMeansQuiet
BY LinkInvariant, LinkQuiet, PTL
=============================================================================
