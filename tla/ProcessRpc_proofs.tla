------------------------- MODULE ProcessRpc_proofs -------------------------
(***************************************************************************)
(* Proofs about a connection, for any number of requests in either         *)
(* direction and for any limits.                                           *)
(***************************************************************************)
EXTENDS ProcessRpc, SequenceTheorems, FiniteSetTheorems, TLAPS

-----------------------------------------------------------------------------
(* Types.                                                                  *)

AFrame ==
    {Hello, Ack, Close, Event} \union {Request(r) : r \in Requests}
        \union {Cancel(r) : r \in Requests} \union UNION {Answers(r) : r \in Requests}
Outcomes == {"none", "pending", "unsent", "ok", "failed", "refused", "unknown"}
AHandler ==
    [state : {"none", "running", "done", "failed", "refused"}, aborted : BOOLEAN,
     eligible : BOOLEAN]

LEMMA FrameTypes ==
    /\ \A r \in Requests : /\ Request(r) \in AFrame /\ Cancel(r) \in AFrame
                           /\ \A x \in {"ok", "failed", "refused", "deadline"} :
                                  Response(r, x) \in AFrame
    /\ {Hello, Ack, Close, Event} \subseteq AFrame
    /\ \A f \in AFrame :
          /\ f.type = "request" => f.id \in Requests /\ f = Request(f.id)
          /\ f.type = "cancel" => f.id \in Requests /\ f = Cancel(f.id)
          /\ f.type = "close" => f = Close
          /\ f.type = "response" => /\ f.id \in Requests
                                    /\ f.result \in {"ok", "failed", "refused", "deadline"}
                                    /\ f = Response(f.id, f.result)
<1>1. /\ \A r \in Requests :
            /\ Request(r) \in AFrame /\ Cancel(r) \in AFrame
            /\ \A x \in {"ok", "failed", "refused", "deadline"} : Response(r, x) \in AFrame
      /\ {Hello, Ack, Close, Event} \subseteq AFrame
  BY DEF AFrame, Answers
<1>2. ASSUME NEW f \in AFrame
      PROVE  \/ f \in {Hello, Ack, Close, Event}
             \/ \E r \in Requests : f = Request(r) \/ f = Cancel(r)
             \/ \E r \in Requests, x \in {"ok", "failed", "refused", "deadline"} :
                    f = Response(r, x)
  BY DEF AFrame, Answers
<1>3. /\ Hello.type = "hello" /\ Ack.type = "hello-ack" /\ Close.type = "close"
      /\ Event.type = "event"
  BY DEF Hello, Ack, Close, Event
<1>4. ASSUME NEW r, NEW x
      PROVE  /\ Request(r).type = "request" /\ Request(r).id = r
             /\ Cancel(r).type = "cancel" /\ Cancel(r).id = r
             /\ Response(r, x).type = "response" /\ Response(r, x).id = r
             /\ Response(r, x).result = x
  BY DEF Request, Cancel, Response
<1> QED
  BY <1>1, <1>2, <1>3, <1>4

LEMMA OtherEnd ==
    /\ \A p \in Ends : Other(p) \in Ends /\ Other(p) # p /\ Other(Other(p)) = p
    /\ \A r \in Requests : CallerOf[r] \in Ends /\ Callee(r) \in Ends
    /\ \A p, q \in Ends : q # p => q = Other(p)
BY ProcessRpcAssumption DEF Ends, Other, Callee

-----------------------------------------------------------------------------
(* What is on its way is true: a request has not been taken yet, and an    *)
(* answer says what its handler did.                                       *)

Once(s) == \A i, j \in 1..Len(s) : s[i].type = "request" /\ s[i] = s[j] => i = j

Fits(f, q, o, h) ==
    /\ f.type = "request" => /\ q = Callee(f.id)
                             /\ o[f.id] \notin {"none", "unsent"}
                             /\ h[f.id].state = "none"
    /\ f.type = "response" => /\ f.result = "ok" => h[f.id].state = "done"
                              /\ f.result = "failed" => h[f.id].state \in {"done", "failed"}
                              /\ f.result = "refused" => h[f.id].state = "refused"

NetFits(n, o, h) ==
    /\ n \in [Ends -> Seq(AFrame)]
    /\ \A q \in Ends : Once(n[q]) /\ \A f \in Range(n[q]) : Fits(f, q, o, h)

OutcomeFits(x, s) ==
    /\ x \in {"none", "unsent"} => s = "none"
    /\ x = "ok" => s = "done"
    /\ x = "failed" => s \in {"done", "failed"}
    /\ x = "refused" => s = "refused"

StateFits(n, o, h) ==
    /\ o \in [Requests -> Outcomes]
    /\ h \in [Requests -> AHandler]
    /\ \A r \in Requests : OutcomeFits(o[r], h[r].state)
    /\ NetFits(n, o, h)

-----------------------------------------------------------------------------
(* What is left of a queue.                                                *)

\* t has nothing that s has not, but for a close.
Within(t, s) ==
    /\ t \in Seq(AFrame)
    /\ Range(t) \subseteq Range(s) \union {Close}
    /\ Once(s) => Once(t)

LEMMA WithinTail ==
    ASSUME NEW s \in Seq(AFrame), s # <<>>
    PROVE  /\ Within(Tail(s), s) /\ Head(s) \in Range(s) /\ Head(s) \in AFrame
           /\ Once(s) /\ Head(s).type = "request" => Head(s) \notin Range(Tail(s))
<1>1. /\ Tail(s) \in Seq(AFrame) /\ Len(s) \in Nat /\ Len(Tail(s)) = Len(s) - 1
      /\ \A i \in 1..Len(Tail(s)) : Tail(s)[i] = s[i + 1]
      /\ Head(s) = s[1] /\ 1 \in 1..Len(s) /\ Head(s) \in AFrame
  BY HeadTailProperties, LenProperties, EmptySeq
<1>2. /\ Range(s) = {s[i] : i \in 1..Len(s)}
      /\ Range(Tail(s)) = {Tail(s)[i] : i \in 1..Len(Tail(s))}
  BY <1>1, RangeEquality
<1>3. \A i \in 1..Len(Tail(s)) : i + 1 \in 1..Len(s)
  BY <1>1
<1>4. Range(Tail(s)) \subseteq Range(s)
  BY <1>1, <1>2, <1>3
<1>5. Once(s) => Once(Tail(s))
  BY <1>1, <1>3 DEF Once
<1>6. ASSUME Once(s), Head(s).type = "request", Head(s) \in Range(Tail(s)) PROVE FALSE
  <2>1. PICK i \in 1..Len(Tail(s)) : Tail(s)[i] = s[1]
    BY <1>1, <1>2, <1>6
  <2>2. s[i + 1] = s[1] /\ i + 1 \in 1..Len(s) /\ s[1].type = "request"
    BY <1>1, <1>3, <1>6, <2>1
  <2> QED
    BY <1>1, <1>6, <2>2 DEF Once
<1> QED
  BY <1>1, <1>2, <1>4, <1>5, <1>6 DEF Within

LEMMA WithinPart ==
    ASSUME NEW s \in Seq(AFrame), NEW k \in 0..Len(s)
    PROVE  Within(SubSeq(s, 1, k) \o <<Close>>, s)
           /\ Close \in Range(SubSeq(s, 1, k) \o <<Close>>)
<1> DEFINE a == SubSeq(s, 1, k)
           t == a \o <<Close>>
<1>1. Len(s) \in Nat /\ k \in Nat /\ \A i \in 1..k : i \in 1..Len(s) /\ s[i] \in AFrame
  BY LenProperties, ElementOfSeq
<1>2. a \in Seq(AFrame) /\ Len(a) = k /\ \A i \in 1..k : a[i] = s[i]
  BY <1>1, SubSeqProperties
<1>3. <<Close>> \in Seq(AFrame) /\ Len(<<Close>>) = 1 /\ <<Close>>[1] = Close
  BY FrameTypes
<1> HIDE DEF a
<1>4. /\ t \in Seq(AFrame) /\ Len(t) = k + 1
      /\ \A i \in 1..k : t[i] = s[i]
      /\ t[k + 1] = Close
  BY <1>1, <1>2, <1>3, ConcatProperties
<1> HIDE DEF t
<1>5. Range(t) = {t[i] : i \in 1..Len(t)} /\ Range(s) = {s[i] : i \in 1..Len(s)}
  BY <1>4, RangeEquality
<1>6. Close.type # "request"
  BY DEF Close
<1>7. Once(s) => Once(t)
  BY <1>1, <1>4, <1>6 DEF Once
<1>8. Range(t) \subseteq Range(s) \union {Close} /\ Close \in Range(t)
  BY <1>1, <1>4, <1>5
<1> QED
  BY <1>4, <1>7, <1>8 DEF Within, t, a

\* One more frame, that is not a request that is already on its way.
LEMMA OnceMore ==
    ASSUME NEW s \in Seq(AFrame), NEW f \in AFrame, Once(s),
           f.type = "request" => f \notin Range(s)
    PROVE  /\ s \o <<f>> \in Seq(AFrame)
           /\ Range(s \o <<f>>) = Range(s) \union {f}
           /\ Once(s \o <<f>>)
<1> DEFINE t == s \o <<f>>
<1>1. <<f>> \in Seq(AFrame) /\ Len(<<f>>) = 1 /\ <<f>>[1] = f /\ Len(s) \in Nat
  BY LenProperties
<1>2. /\ t \in Seq(AFrame) /\ Len(t) = Len(s) + 1
      /\ \A i \in 1..Len(s) : t[i] = s[i]
      /\ t[Len(s) + 1] = f
  BY <1>1, ConcatProperties
<1> HIDE DEF t
<1>3. Range(t) = {t[i] : i \in 1..Len(t)} /\ Range(s) = {s[i] : i \in 1..Len(s)}
  BY <1>2, RangeEquality
<1>4. Range(t) = Range(s) \union {f}
  BY <1>1, <1>2, <1>3
<1>5. ASSUME NEW i \in 1..Len(t), NEW j \in 1..Len(t), t[i].type = "request", t[i] = t[j]
      PROVE  i = j
  <2>1. i \in 1..Len(s) \/ i = Len(s) + 1
    BY <1>1, <1>2
  <2>2. j \in 1..Len(s) \/ j = Len(s) + 1
    BY <1>1, <1>2
  <2>3. \A x \in 1..Len(s) : s[x] \in Range(s)
    BY <1>3
  <2> QED
    BY <1>2, <1>5, <2>1, <2>2, <2>3 DEF Once
<1> QED
  BY <1>2, <1>4, <1>5 DEF Once, t

-----------------------------------------------------------------------------
(* Sending and closing.                                                    *)

\* A peer that closes ends its requests in ignorance and lets no handler say
\* another thing.
LEMMA ClosedPeer ==
    ASSUME NEW o \in [Requests -> Outcomes], NEW h \in [Requests -> AHandler], NEW p \in Ends
    PROVE  /\ Rejected(o, p) \in [Requests -> Outcomes]
           /\ Aborted(h, p) \in [Requests -> AHandler]
           /\ \A r \in Requests :
                 /\ \/ Rejected(o, p)[r] = o[r]
                    \/ CallerOf[r] = p /\ o[r] = "pending" /\ Rejected(o, p)[r] = "unknown"
                 /\ Aborted(h, p)[r].state = h[r].state
<1>1. \A x \in AHandler : Suppressed(x) \in AHandler /\ Suppressed(x).state = x.state
  BY DEF Suppressed, AHandler
<1>2. Rejected(o, p) \in [Requests -> Outcomes]
  BY DEF Rejected, Outcomes
<1>3. Aborted(h, p) \in [Requests -> AHandler]
  BY <1>1 DEF Aborted
<1> QED
  BY <1>1, <1>2, <1>3 DEF Rejected, Aborted

LEMMA FitsLess ==
    ASSUME NEW n, NEW o, NEW h, NEW n2, NEW o2, NEW h2, StateFits(n, o, h),
           o2 \in [Requests -> Outcomes], h2 \in [Requests -> AHandler],
           \A r \in Requests : /\ o2[r] = o[r] \/ (o[r] = "pending" /\ o2[r] = "unknown")
                               /\ h2[r].state = h[r].state,
           n2 \in [Ends -> Seq(AFrame)],
           \A q \in Ends : Within(n2[q], n[q])
    PROVE  StateFits(n2, o2, h2)
<1>1. \A q \in Ends : Range(n[q]) \subseteq AFrame
  BY RangeOfSeq DEF StateFits, NetFits
<1>2. ASSUME NEW q \in Ends, NEW f \in Range(n2[q])
      PROVE  Fits(f, q, o2, h2)
  <2>1. f = Close \/ (f \in Range(n[q]) /\ f \in AFrame)
    BY <1>1 DEF Within
  <2>2. CASE f = Close
    BY <2>2 DEF Fits, Close
  <2>3. CASE f \in Range(n[q]) /\ f \in AFrame
    <3>1. Fits(f, q, o, h)
      BY <2>3 DEF StateFits, NetFits
    <3> QED
      BY <2>3, <3>1, FrameTypes DEF Fits
  <2> QED
    BY <2>1, <2>2, <2>3
<1>3. \A q \in Ends : Once(n2[q])
  BY DEF StateFits, NetFits, Within
<1>4. \A r \in Requests : OutcomeFits(o2[r], h2[r].state)
  BY DEF StateFits, OutcomeFits
<1> QED
  BY <1>2, <1>3, <1>4 DEF StateFits, NetFits

LEMMA WithinSame ==
    ASSUME NEW s \in Seq(AFrame)
    PROVE  Within(s, s) /\ Within(<<>>, s)
<1>1. Range(<<>>) = {}
  BY DEF Range
<1> QED
  BY <1>1 DEF Within, Once

LEMMA PartedWithin ==
    ASSUME NEW n \in [Ends -> Seq(AFrame)], NEW q \in Ends, NEW t \in Parted(n, q)
    PROVE  Within(t, n[q])
<1>1. CASE Deaf(n, q)
  BY <1>1, WithinSame DEF Parted
<1>2. CASE ~Deaf(n, q)
  <2>1. PICK k \in 0..Len(n[q]) : t = SubSeq(n[q], 1, k) \o <<Close>>
    BY <1>2 DEF Parted
  <2> QED
    BY <2>1, WithinPart
<1> QED
  BY <1>1, <1>2

\* What p's closing makes of the state.
LEMMA ShutsFits ==
    ASSUME NEW n, NEW o, NEW h, NEW p \in Ends, StateFits(n, o, h), Shuts(p, n, o, h)
    PROVE  StateFits(net', outcome', handler')
<1>1. /\ n \in [Ends -> Seq(AFrame)]
      /\ o \in [Requests -> Outcomes] /\ h \in [Requests -> AHandler]
  BY DEF StateFits, NetFits
<1>2. PICK rest \in Parted(n, Other(p)) : net' = [n EXCEPT ![p] = <<>>, ![Other(p)] = rest]
  BY DEF Shuts
<1>3. Within(rest, n[Other(p)])
  BY <1>1, OtherEnd, PartedWithin
<1>4. rest \in Seq(AFrame) /\ <<>> \in Seq(AFrame)
  BY <1>3 DEF Within
<1>5. \A q \in Ends : Within(net'[q], n[q])
  BY <1>1, <1>2, <1>3, OtherEnd, WithinSame
<1>6. net' \in [Ends -> Seq(AFrame)]
  BY <1>1, <1>2, <1>4
<1>7. outcome' = Rejected(o, p) /\ handler' = Aborted(h, p)
  BY DEF Shuts
<1>8. /\ outcome' \in [Requests -> Outcomes] /\ handler' \in [Requests -> AHandler]
      /\ \A r \in Requests :
            /\ outcome'[r] = o[r] \/ (o[r] = "pending" /\ outcome'[r] = "unknown")
            /\ handler'[r].state = h[r].state
  BY <1>1, <1>7, ClosedPeer
<1> QED
  BY <1>5, <1>6, <1>8, FitsLess

\* ... and what its sending makes of it.
LEMMA SendsFits ==
    ASSUME NEW n, NEW o, NEW h, NEW p \in Ends, NEW frames, StateFits(n, o, h),
           \/ frames = <<>>
           \/ \E f \in AFrame :
                 /\ frames = <<f>>
                 /\ Fits(f, Other(p), o, h)
                 /\ f.type = "request" => f \notin Range(n[Other(p)]),
           Sends(p, n, o, h, frames)
    PROVE  /\ StateFits(net', outcome', handler')
           /\ \A r \in Requests :
                 /\ \/ outcome'[r] = o[r]
                    \/ CallerOf[r] = p /\ o[r] = "pending" /\ outcome'[r] = "unknown"
                 /\ handler'[r].state = h[r].state
<1>1. /\ n \in [Ends -> Seq(AFrame)]
      /\ o \in [Requests -> Outcomes] /\ h \in [Requests -> AHandler]
  BY DEF StateFits, NetFits
<1>2. CASE Shuts(p, n, o, h)
  <2>1. outcome' = Rejected(o, p) /\ handler' = Aborted(h, p)
    BY <1>2 DEF Shuts
  <2>2. StateFits(net', outcome', handler')
    BY <1>2, ShutsFits
  <2> QED
    BY <1>1, <2>1, <2>2, ClosedPeer
<1>3. CASE net' = n /\ outcome' = o /\ handler' = h
  BY <1>3
<1>4. ASSUME NEW f \in AFrame, Fits(f, Other(p), o, h),
             f.type = "request" => f \notin Range(n[Other(p)]),
             net' = [n EXCEPT ![Other(p)] = @ \o <<f>>], outcome' = o, handler' = h
      PROVE  StateFits(net', outcome', handler')
  <2> DEFINE q == Other(p)
             t == n[q] \o <<f>>
  <2>1. q \in Ends /\ Once(n[q]) /\ n[q] \in Seq(AFrame)
    BY <1>1, OtherEnd DEF StateFits, NetFits
  <2>2. t \in Seq(AFrame) /\ Range(t) = Range(n[q]) \union {f} /\ Once(t)
    BY <1>4, <2>1, OnceMore
  <2>3. net' = [n EXCEPT ![q] = t]
    BY <1>4
  <2> HIDE DEF t, q
  <2>4. net' \in [Ends -> Seq(AFrame)]
    BY <1>1, <2>2, <2>3
  <2>5. ASSUME NEW e \in Ends
        PROVE  Once(net'[e]) /\ \A g \in Range(net'[e]) : Fits(g, e, o, h)
    <3>1. CASE e = q
      BY <1>1, <1>4, <2>1, <2>2, <2>3, <3>1 DEF StateFits, NetFits, q
    <3>2. CASE e # q
      BY <1>1, <2>3, <3>2 DEF StateFits, NetFits
    <3> QED
      BY <3>1, <3>2
  <2> QED
    BY <1>4, <2>4, <2>5 DEF StateFits, NetFits
<1>5. CASE frames = <<>> /\ ~Shuts(p, n, o, h)
  <2>1. net' = n
    <3>1. n[Other(p)] \o <<>> = n[Other(p)]
      BY <1>1, OtherEnd, ConcatEmptySeq
    <3> QED
      BY <1>1, <1>5, <3>1 DEF Sends, Conveyed
  <2> QED
    BY <1>3, <1>5, <2>1 DEF Sends
<1>6. CASE frames # <<>> /\ ~Shuts(p, n, o, h)
  <2>1. PICK f \in AFrame : /\ frames = <<f>> /\ Fits(f, Other(p), o, h)
                            /\ f.type = "request" => f \notin Range(n[Other(p)])
    BY <1>6
  <2>2. /\ outcome' = o /\ handler' = h
        /\ net' = n \/ net' = [n EXCEPT ![Other(p)] = @ \o <<f>>]
    BY <1>6, <2>1 DEF Sends, Conveyed
  <2> QED
    BY <1>3, <1>4, <2>1, <2>2
<1> QED
  BY <1>2, <1>5, <1>6

-----------------------------------------------------------------------------
(* One frame read, one handler or one outcome changed.                     *)

LEMMA ReadFits ==
    ASSUME NEW p \in Ends, StateFits(net, outcome, handler), net[p] # <<>>
    PROVE  /\ StateFits(Read(p), outcome, handler)
           /\ Head(net[p]) \in AFrame
           /\ Fits(Head(net[p]), p, outcome, handler)
           /\ Head(net[p]).type = "request" => Head(net[p]) \notin Range(Read(p)[p])
<1>1. /\ net \in [Ends -> Seq(AFrame)] /\ net[p] \in Seq(AFrame) /\ Once(net[p])
      /\ outcome \in [Requests -> Outcomes] /\ handler \in [Requests -> AHandler]
  BY DEF StateFits, NetFits
<1>2. /\ Within(Tail(net[p]), net[p]) /\ Head(net[p]) \in Range(net[p])
      /\ Head(net[p]) \in AFrame
      /\ Head(net[p]).type = "request" => Head(net[p]) \notin Range(Tail(net[p]))
  BY <1>1, WithinTail
<1>3. Read(p) \in [Ends -> Seq(AFrame)] /\ Read(p)[p] = Tail(net[p])
  BY <1>1, <1>2 DEF Read, Within
<1>4. \A q \in Ends : Within(Read(p)[q], net[q])
  BY <1>1, <1>2, WithinSame DEF Read
<1>5. StateFits(Read(p), outcome, handler)
  BY <1>1, <1>3, <1>4, FitsLess
<1>6. Fits(Head(net[p]), p, outcome, handler)
  BY <1>2 DEF StateFits, NetFits
<1> QED
  BY <1>2, <1>3, <1>5, <1>6

\* A handler starts once its request is off the network, or ends.
LEMMA HandlerFits ==
    ASSUME NEW n, NEW o, NEW h, NEW r \in Requests, NEW v \in AHandler, StateFits(n, o, h),
           OutcomeFits(o[r], v.state),
           \/ v.state = h[r].state
           \/ h[r].state = "running"
           \/ h[r].state = "none" /\ Request(r) \notin Range(n[Callee(r)])
    PROVE  StateFits(n, o, [h EXCEPT ![r] = v])
<1> DEFINE h2 == [h EXCEPT ![r] = v]
<1>1. /\ n \in [Ends -> Seq(AFrame)] /\ o \in [Requests -> Outcomes]
      /\ h \in [Requests -> AHandler] /\ h2 \in [Requests -> AHandler]
  BY DEF StateFits, NetFits
<1>2. /\ \A x \in Requests : x # r => h2[x] = h[x]
      /\ h2[r] = v
  BY <1>1
<1> HIDE DEF h2
<1>3. \A x \in Requests : OutcomeFits(o[x], h2[x].state)
  BY <1>2 DEF StateFits
<1>4. \A q \in Ends : Range(n[q]) \subseteq AFrame
  BY <1>1, RangeOfSeq
<1>5. ASSUME NEW q \in Ends, NEW f \in Range(n[q])
      PROVE  Fits(f, q, o, h2)
  <2>1. Fits(f, q, o, h) /\ f \in AFrame
    BY <1>4 DEF StateFits, NetFits
  <2>2. CASE f.type = "request"
    <3>1. f.id \in Requests /\ f = Request(f.id) /\ q = Callee(f.id) /\ h[f.id].state = "none"
      BY <2>1, <2>2, FrameTypes DEF Fits
    <3>2. f.id = r => v.state = "none"
      BY <3>1
    <3> QED
      BY <1>2, <2>1, <2>2, <3>1, <3>2 DEF Fits
  <2>3. CASE f.type = "response"
    BY <1>2, <2>1, <2>3, FrameTypes DEF Fits
  <2> QED
    BY <2>2, <2>3 DEF Fits
<1> QED
  BY <1>1, <1>3, <1>5 DEF StateFits, NetFits, h2

\* An outcome changes to one that the handler bears out.
LEMMA OutcomeMovesFits ==
    ASSUME NEW n, NEW o, NEW h, NEW r \in Requests, NEW x \in Outcomes, StateFits(n, o, h),
           OutcomeFits(x, h[r].state), o[r] = "none" \/ x \notin {"none", "unsent"}
    PROVE  StateFits(n, [o EXCEPT ![r] = x], h)
<1> DEFINE o2 == [o EXCEPT ![r] = x]
<1>1. /\ n \in [Ends -> Seq(AFrame)] /\ o \in [Requests -> Outcomes]
      /\ h \in [Requests -> AHandler] /\ o2 \in [Requests -> Outcomes]
  BY DEF StateFits, NetFits
<1>2. /\ \A y \in Requests : y # r => o2[y] = o[y]
      /\ o2[r] = x
  BY <1>1
<1> HIDE DEF o2
<1>3. \A y \in Requests : OutcomeFits(o2[y], h[y].state)
  BY <1>2 DEF StateFits
<1>4. \A q \in Ends : Range(n[q]) \subseteq AFrame
  BY <1>1, RangeOfSeq
<1>5. ASSUME NEW q \in Ends, NEW f \in Range(n[q])
      PROVE  Fits(f, q, o2, h)
  <2>1. Fits(f, q, o, h) /\ f \in AFrame
    BY <1>4 DEF StateFits, NetFits
  <2> QED
    BY <1>2, <2>1, FrameTypes DEF Fits
<1> QED
  BY <1>1, <1>3, <1>5 DEF StateFits, NetFits, o2

-----------------------------------------------------------------------------
(* What an action may do to one request is what RemoteCall allows.         *)

Turn(x, s, x2, s2) ==
    \/ s2 = s /\ (x2 = x \/ x \in {"none", "pending"})
    \/ x2 = x /\ x \notin {"none", "unsent"} /\ s = "none" /\ s2 \in {"running", "refused"}
    \/ x2 = x /\ s = "running" /\ s2 \in {"done", "failed"}

Turns(o, h, o2, h2) == \A r \in Requests : Turn(o[r], h[r].state, o2[r], h2[r].state)

StepFits ==
    /\ StateFits(net', outcome', handler')
    /\ Turns(outcome, handler, outcome', handler')

LEMMA StillFits ==
    ASSUME StateFits(net, outcome, handler), UNCHANGED <<net, outcome, handler>>
    PROVE  StepFits
BY DEF StepFits, Turns, Turn

\* A connection that closes, whatever was read before.
LEMMA ClosingFits ==
    ASSUME NEW n, NEW p \in Ends, StateFits(n, outcome, handler),
           Shuts(p, n, outcome, handler)
    PROVE  StepFits
<1>1. outcome \in [Requests -> Outcomes] /\ handler \in [Requests -> AHandler]
  BY DEF StateFits
<1>2. outcome' = Rejected(outcome, p) /\ handler' = Aborted(handler, p)
  BY DEF Shuts
<1>3. \A r \in Requests :
         /\ outcome'[r] = outcome[r] \/ outcome[r] = "pending"
         /\ handler'[r].state = handler[r].state
  BY <1>1, <1>2, ClosedPeer
<1>4. Turns(outcome, handler, outcome', handler')
  BY <1>3 DEF Turns, Turn
<1> QED
  BY <1>4, ShutsFits DEF StepFits

LEMMA HelloFits ==
    ASSUME StateFits(net, outcome, handler), HelloArrives
    PROVE  StepFits
<1>1. "server" \in Ends /\ "client" \in Ends
  BY DEF Ends
<1>2. StateFits(Read("server"), outcome, handler)
  BY <1>1, ReadFits DEF HelloArrives, Arriving
<1>3. CASE Shuts("server", Read("server"), outcome, handler)
  BY <1>1, <1>2, <1>3, ClosingFits
<1>4. CASE /\ net' = Conveyed(Read("server"), "server", <<Ack>>)
           /\ end' = [end EXCEPT !["server"] = "open"]
           /\ UNCHANGED <<outcome, handler>>
  <2> DEFINE n == Read("server")
             t == n["client"] \o <<Ack>>
  <2>1. n \in [Ends -> Seq(AFrame)] /\ \A q \in Ends : Once(n[q])
    BY <1>2 DEF StateFits, NetFits
  <2>2. Ack \in AFrame /\ Ack.type = "hello-ack" /\ Other("server") = "client"
    BY FrameTypes DEF Ack, Other
  <2>3. \A q \in Ends : \A f \in Range(n[q]) : Fits(f, q, outcome, handler)
    BY <1>2 DEF StateFits, NetFits
  <2>4. Fits(Ack, "client", outcome, handler)
    BY <2>2 DEF Fits
  <2>5. net' = n \/ net' = [n EXCEPT !["client"] = t]
    BY <1>4, <2>2 DEF Conveyed
  <2> HIDE DEF n
  <2>6. t \in Seq(AFrame) /\ Range(t) = Range(n["client"]) \union {Ack} /\ Once(t)
    BY <1>1, <2>1, <2>2, OnceMore
  <2> HIDE DEF t
  <2>7. NetFits(net', outcome, handler)
    BY <1>1, <2>1, <2>3, <2>4, <2>5, <2>6 DEF NetFits
  <2>8. StateFits(net', outcome', handler')
    BY <1>2, <1>4, <2>7 DEF StateFits
  <2> QED
    BY <1>4, <2>8 DEF StepFits, Turns, Turn
<1> QED
  BY <1>3, <1>4 DEF HelloArrives

LEMMA ReadingFits ==
    ASSUME NEW p \in Ends, StateFits(net, outcome, handler), net[p] # <<>>, net' = Read(p),
           UNCHANGED <<outcome, handler>>
    PROVE  StepFits
BY ReadFits DEF StepFits, Turns, Turn

\* A change of the state before p sends frames, and the turns it is.
LEMMA SendingFits ==
    ASSUME NEW n, NEW o, NEW h, NEW p \in Ends, NEW frames, StateFits(n, o, h),
           Turns(outcome, handler, o, h),
           \A r \in Requests : CallerOf[r] = p => h[r].state = handler[r].state,
           \/ frames = <<>>
           \/ \E f \in AFrame :
                 /\ frames = <<f>>
                 /\ Fits(f, Other(p), o, h)
                 /\ f.type = "request" => f \notin Range(n[Other(p)]),
           Sends(p, n, o, h, frames)
    PROVE  StepFits
<1>1. /\ StateFits(net', outcome', handler')
      /\ \A r \in Requests :
            /\ \/ outcome'[r] = o[r]
               \/ CallerOf[r] = p /\ o[r] = "pending" /\ outcome'[r] = "unknown"
            /\ handler'[r].state = h[r].state
  BY SendsFits
<1>2. ASSUME NEW r \in Requests
      PROVE  Turn(outcome[r], handler[r].state, outcome'[r], handler'[r].state)
  <2>1. Turn(outcome[r], handler[r].state, o[r], h[r].state)
    BY DEF Turns
  <2>2. CASE outcome'[r] = o[r]
    BY <1>1, <2>1, <2>2
  <2>3. CASE CallerOf[r] = p /\ o[r] = "pending" /\ outcome'[r] = "unknown"
    BY <1>1, <2>1, <2>3 DEF Turn
  <2> QED
    BY <1>1, <2>2, <2>3
<1> QED
  BY <1>1, <1>2 DEF StepFits, Turns

LEMMA SendingOneFits ==
    ASSUME NEW n, NEW o, NEW h, NEW p \in Ends, NEW e \in AFrame, StateFits(n, o, h),
           Turns(outcome, handler, o, h),
           \A r \in Requests : CallerOf[r] = p => h[r].state = handler[r].state,
           Fits(e, Other(p), o, h),
           e.type = "request" => e \notin Range(n[Other(p)]),
           Sends(p, n, o, h, <<e>>)
    PROVE  StepFits
<1>1. \E f \in AFrame : /\ <<e>> = <<f>>
                       /\ Fits(f, Other(p), o, h)
                       /\ f.type = "request" => f \notin Range(n[Other(p)])
  OBVIOUS
<1> QED
  BY <1>1, SendingFits

-----------------------------------------------------------------------------
(* The steps of the caller.                                                *)

LEMMA AskFits ==
    ASSUME NEW r \in Requests, StateFits(net, outcome, handler), Ask(r)
    PROVE  StepFits
<1> DEFINE p == CallerOf[r]
           o == [outcome EXCEPT ![r] = "pending"]
<1>1. /\ p \in Ends /\ Callee(r) \in Ends /\ Other(p) = Callee(r)
      /\ outcome \in [Requests -> Outcomes] /\ handler \in [Requests -> AHandler]
      /\ outcome[r] = "none" /\ handler[r].state = "none"
  BY OtherEnd DEF StateFits, Ask, OutcomeFits, Callee
<1>2. CASE outcome' = [outcome EXCEPT ![r] = "unsent"] /\ UNCHANGED <<end, net, handler>>
  <2>1. StateFits(net, outcome', handler)
    BY <1>1, <1>2, OutcomeMovesFits DEF Outcomes, OutcomeFits
  <2>2. Turns(outcome, handler, outcome', handler')
    BY <1>1, <1>2 DEF Turns, Turn
  <2> QED
    BY <1>2, <2>1, <2>2 DEF StepFits
<1>3. CASE Sends(p, net, o, handler, <<Request(r)>>)
  <2>1. StateFits(net, o, handler)
    BY <1>1, OutcomeMovesFits DEF Outcomes, OutcomeFits
  <2>2. Request(r) \in AFrame /\ Request(r).type = "request" /\ Request(r).id = r
    BY FrameTypes DEF Request
  <2>3. Request(r) \notin Range(net[Callee(r)])
    BY <1>1, <2>2 DEF StateFits, NetFits, Fits
  <2>4. Fits(Request(r), Callee(r), o, handler)
    BY <1>1, <2>2 DEF Fits
  <2>5. Turns(outcome, handler, o, handler)
    BY <1>1 DEF Turns, Turn
  <2>6. \E f \in AFrame : /\ <<Request(r)>> = <<f>>
                          /\ Fits(f, Other(p), o, handler)
                          /\ f.type = "request" => f \notin Range(net[Other(p)])
    BY <1>1, <2>2, <2>3, <2>4
  <2> HIDE DEF o, p
  <2> QED
    BY <1>1, <1>3, <2>1, <2>5, <2>6, SendingFits
<1> QED
  BY <1>2, <1>3 DEF Ask

LEMMA GivesUpFits ==
    ASSUME NEW r \in Requests, StateFits(net, outcome, handler), GivesUp(r)
    PROVE  StepFits
<1> DEFINE o == [outcome EXCEPT ![r] = "unknown"]
<1>1. /\ CallerOf[r] \in Ends
      /\ outcome \in [Requests -> Outcomes] /\ handler \in [Requests -> AHandler]
      /\ outcome[r] = "pending"
  BY OtherEnd DEF StateFits, GivesUp
<1>2. StateFits(net, o, handler)
  BY <1>1, OutcomeMovesFits DEF Outcomes, OutcomeFits
<1>3. Cancel(r) \in AFrame /\ Cancel(r).type = "cancel"
  BY FrameTypes DEF Cancel
<1>4. Fits(Cancel(r), Other(CallerOf[r]), o, handler)
  BY <1>3 DEF Fits
<1>5. Turns(outcome, handler, o, handler)
  BY <1>1 DEF Turns, Turn
<1>6. Sends(CallerOf[r], net, o, handler, <<Cancel(r)>>)
  BY DEF GivesUp, Cancelled
<1> HIDE DEF o
<1> QED
  BY <1>1, <1>2, <1>3, <1>4, <1>5, <1>6, SendingFits

LEMMA ResponseFits ==
    ASSUME NEW p \in Ends, StateFits(net, outcome, handler), ResponseArrives(p)
    PROVE  StepFits
<1> DEFINE f == Head(net[p])
<1>1. /\ StateFits(Read(p), outcome, handler) /\ f \in AFrame
      /\ Fits(f, p, outcome, handler)
  BY ReadFits DEF ResponseArrives, Arriving
<1>2. /\ f.type = "response" /\ f.id \in Requests
      /\ f.result \in {"ok", "failed", "refused", "deadline"}
      /\ outcome \in [Requests -> Outcomes] /\ handler \in [Requests -> AHandler]
  BY <1>1, FrameTypes DEF ResponseArrives, Arriving, StateFits
<1>3. /\ net' = Read(p) /\ handler' = handler
      /\ outcome' = IF outcome[f.id] = "pending"
                    THEN [outcome EXCEPT ![f.id] = Meant(f.result)] ELSE outcome
  BY DEF ResponseArrives
<1>4. OutcomeFits(Meant(f.result), handler[f.id].state)
  BY <1>1, <1>2 DEF Fits, OutcomeFits, Meant
<1>5. Meant(f.result) \in Outcomes \ {"none", "unsent"}
  BY <1>2 DEF Outcomes, Meant
<1> HIDE DEF f
<1>6. StateFits(net', outcome', handler')
  BY <1>1, <1>2, <1>3, <1>4, <1>5, OutcomeMovesFits
<1>7. Turns(outcome, handler, outcome', handler')
  BY <1>2, <1>3 DEF Turns, Turn
<1> QED
  BY <1>6, <1>7 DEF StepFits

-----------------------------------------------------------------------------
(* The steps of the other end.                                             *)

LEMMA RequestFits ==
    ASSUME NEW q \in Ends, StateFits(net, outcome, handler), RequestArrives(q)
    PROVE  StepFits
<1> DEFINE f == Head(net[q])
           r == f.id
           n == Read(q)
           refused == [handler EXCEPT ![r] = Settled("refused")]
           started == [handler EXCEPT ![r] = Started]
<1>1. /\ StateFits(n, outcome, handler) /\ f \in AFrame /\ Fits(f, q, outcome, handler)
      /\ f.type = "request" /\ f \notin Range(n[q])
  BY ReadFits DEF RequestArrives, Arriving
<1>2. /\ r \in Requests /\ f = Request(r) /\ q = Callee(r) /\ handler[r].state = "none"
      /\ outcome[r] \notin {"none", "unsent"}
      /\ Other(q) = CallerOf[r] /\ CallerOf[r] # q
      /\ outcome \in [Requests -> Outcomes] /\ handler \in [Requests -> AHandler]
  BY <1>1, FrameTypes, OtherEnd DEF Fits, Callee, StateFits
<1>3. /\ OutcomeFits(outcome[r], "none")
      /\ \A s \in {"running", "refused"} : OutcomeFits(outcome[r], s)
  <2>1. OutcomeFits(outcome[r], "none")
    BY <1>2 DEF StateFits
  <2> QED
    BY <1>2, <2>1 DEF OutcomeFits
<1>4. /\ Settled("refused") \in AHandler /\ Settled("refused").state = "refused"
      /\ Started \in AHandler /\ Started.state = "running"
  BY DEF Settled, Started, AHandler
<1>5. Request(r) \notin Range(n[Callee(r)])
  BY <1>1, <1>2
<1>6. \/ Sends(q, n, outcome, refused, <<Response(r, "refused")>>)
      \/ Sends(q, n, outcome, refused, <<Response(r, "deadline")>>)
      \/ Sends(q, n, outcome, started, <<>>)
  BY DEF RequestArrives
<1> HIDE DEF f, r, n
<1>7. StateFits(n, outcome, refused) /\ StateFits(n, outcome, started)
  BY <1>1, <1>2, <1>3, <1>4, <1>5, HandlerFits
<1>8. /\ Turns(outcome, handler, outcome, refused)
      /\ Turns(outcome, handler, outcome, started)
      /\ \A x \in Requests : CallerOf[x] = q => /\ refused[x].state = handler[x].state
                                                /\ started[x].state = handler[x].state
  BY <1>2, <1>4 DEF Turns, Turn
<1>9. /\ Response(r, "refused") \in AFrame /\ Response(r, "refused").type = "response"
      /\ Fits(Response(r, "refused"), Other(q), outcome, refused)
      /\ Response(r, "deadline") \in AFrame /\ Response(r, "deadline").type = "response"
      /\ Fits(Response(r, "deadline"), Other(q), outcome, refused)
  BY <1>2, <1>4, FrameTypes DEF Fits, Response
<1> HIDE DEF refused, started
<1>10. \A x \in {"refused", "deadline"} :
          \E e \in AFrame : /\ <<Response(r, x)>> = <<e>>
                            /\ Fits(e, Other(q), outcome, refused)
                            /\ e.type = "request" => e \notin Range(n[Other(q)])
  BY <1>9
<1>11. CASE Sends(q, n, outcome, started, <<>>)
  BY <1>7, <1>8, <1>11, SendingFits
<1>12. ASSUME NEW x \in {"refused", "deadline"},
              Sends(q, n, outcome, refused, <<Response(r, x)>>)
       PROVE  StepFits
  <2>1. PICK e \in AFrame : /\ <<Response(r, x)>> = <<e>>
                            /\ Fits(e, Other(q), outcome, refused)
                            /\ e.type = "request" => e \notin Range(n[Other(q)])
    BY <1>10
  <2>2. Sends(q, n, outcome, refused, <<e>>)
    BY <1>12, <2>1
  <2>3. \A y \in Requests : CallerOf[y] = q => refused[y].state = handler[y].state
    BY <1>8
  <2> QED
    BY <1>7, <1>8, <2>1, <2>2, <2>3, SendingOneFits
<1> QED
  BY <1>6, <1>11, <1>12

LEMMA DeadlineFits ==
    ASSUME NEW r \in Requests, StateFits(net, outcome, handler), DeadlinePasses(r)
    PROVE  StepFits
<1> DEFINE h == [handler EXCEPT ![r] = Suppressed(handler[r])]
<1>1. /\ Callee(r) \in Ends
      /\ outcome \in [Requests -> Outcomes] /\ handler \in [Requests -> AHandler]
      /\ OutcomeFits(outcome[r], handler[r].state)
  BY OtherEnd DEF StateFits
<1>2. Suppressed(handler[r]) \in AHandler /\ Suppressed(handler[r]).state = handler[r].state
  BY <1>1 DEF Suppressed, AHandler
<1>3. StateFits(net, outcome, h)
  BY <1>1, <1>2, HandlerFits
<1>4. \A x \in Requests : h[x].state = handler[x].state
  BY <1>1, <1>2
<1>5. /\ Late(r) \in AFrame /\ Late(r).type = "response" /\ Late(r).result = "deadline"
  BY FrameTypes DEF Late, Response
<1>6. Fits(Late(r), Other(Callee(r)), outcome, h)
  BY <1>5 DEF Fits
<1>7. Sends(Callee(r), net, outcome, h, <<Late(r)>>)
  BY DEF DeadlinePasses
<1> HIDE DEF h
<1>8. Turns(outcome, handler, outcome, h)
  BY <1>4 DEF Turns, Turn
<1>9. \E f \in AFrame : /\ <<Late(r)>> = <<f>>
                        /\ Fits(f, Other(Callee(r)), outcome, h)
                        /\ f.type = "request" => f \notin Range(net[Other(Callee(r))])
  BY <1>5, <1>6
<1> QED
  BY <1>1, <1>3, <1>4, <1>7, <1>8, <1>9, SendingFits

LEMMA ReturnFits ==
    ASSUME NEW r \in Requests, StateFits(net, outcome, handler), HandlerReturns(r)
    PROVE  StepFits
<1>1. /\ Callee(r) \in Ends /\ CallerOf[r] # Callee(r)
      /\ outcome \in [Requests -> Outcomes] /\ handler \in [Requests -> AHandler]
      /\ OutcomeFits(outcome[r], "running") /\ handler[r].state = "running"
  BY OtherEnd DEF StateFits, HandlerReturns, Callee
<1>0. PICK s \in {"done", "failed"} :
         \E frames \in Told(r, s) \union {<<>>} :
             Sends(Callee(r), net, outcome, [handler EXCEPT ![r] = Settled(s)], frames)
  BY DEF HandlerReturns
<1> DEFINE h == [handler EXCEPT ![r] = Settled(s)]
<1>2. PICK frames \in Told(r, s) \union {<<>>} : Sends(Callee(r), net, outcome, h, frames)
  BY <1>0
<1>3. Settled(s) \in AHandler /\ Settled(s).state = s
  BY DEF Settled, AHandler
<1>4. OutcomeFits(outcome[r], s)
  BY <1>1 DEF OutcomeFits
<1>5. StateFits(net, outcome, h)
  BY <1>1, <1>3, <1>4, HandlerFits
<1>6. /\ \A x \in Requests : x # r => h[x] = handler[x]
      /\ h[r].state = s
  BY <1>1, <1>3
<1>7. Turns(outcome, handler, outcome, h)
  BY <1>1, <1>6 DEF Turns, Turn, OutcomeFits
<1>8. \A x \in Requests : CallerOf[x] = Callee(r) => h[x].state = handler[x].state
  BY <1>1, <1>6
<1>9. frames = <<>> \/ \E f \in AFrame : /\ frames = <<f>> /\ f.type = "response"
                                         /\ Fits(f, Other(Callee(r)), outcome, h)
  <2>1. CASE frames = <<>>
    BY <2>1
  <2>2. CASE frames \in Told(r, s)
    <3>1. PICK x \in {"ok", "failed"} :
             frames = <<Response(r, x)>> /\ (x = "ok" => s = "done")
      BY <2>2 DEF Told
    <3>2. /\ Response(r, x) \in AFrame /\ Response(r, x).type = "response"
          /\ Response(r, x).id = r /\ Response(r, x).result = x
      BY FrameTypes DEF Response
    <3>3. Fits(Response(r, x), Other(Callee(r)), outcome, h)
      BY <1>6, <3>1, <3>2 DEF Fits
    <3> QED
      BY <3>1, <3>2, <3>3
  <2> QED
    BY <1>2, <2>1, <2>2
<1> HIDE DEF h
<1>10. Sends(Callee(r), net, outcome, h, frames)
  BY <1>2
<1> QED
  BY <1>1, <1>5, <1>7, <1>8, <1>9, <1>10, SendingFits

LEMMA CancelFits ==
    ASSUME NEW q \in Ends, StateFits(net, outcome, handler), CancelArrives(q)
    PROVE  StepFits
<1> DEFINE f == Head(net[q])
<1>1. StateFits(Read(q), outcome, handler) /\ f \in AFrame
  BY ReadFits DEF CancelArrives, Arriving
<1>2. /\ f.id \in Requests
      /\ outcome \in [Requests -> Outcomes] /\ handler \in [Requests -> AHandler]
      /\ OutcomeFits(outcome[f.id], handler[f.id].state)
  BY <1>1, FrameTypes DEF CancelArrives, Arriving, StateFits
<1>3. /\ net' = Read(q) /\ outcome' = outcome
      /\ handler' = handler
            \/ handler' = [handler EXCEPT ![f.id] = Suppressed(handler[f.id])]
  BY DEF CancelArrives
<1> HIDE DEF f
<1>4. /\ Suppressed(handler[f.id]) \in AHandler
      /\ Suppressed(handler[f.id]).state = handler[f.id].state
  BY <1>2 DEF Suppressed, AHandler
<1>5. StateFits(net', outcome', handler')
  BY <1>1, <1>2, <1>3, <1>4, HandlerFits
<1>6. Turns(outcome, handler, outcome', handler')
  BY <1>2, <1>3, <1>4 DEF Turns, Turn
<1> QED
  BY <1>5, <1>6 DEF StepFits

-----------------------------------------------------------------------------
(* Events and the end of the connection.                                   *)

LEMMA EmitFits ==
    ASSUME NEW p \in Ends, StateFits(net, outcome, handler), Emit(p)
    PROVE  StepFits
<1>1. Event \in AFrame /\ Event.type = "event"
  BY FrameTypes DEF Event
<1>2. Fits(Event, Other(p), outcome, handler)
  BY <1>1 DEF Fits
<1>3. Turns(outcome, handler, outcome, handler)
  BY DEF Turns, Turn
<1>4. Sends(p, net, outcome, handler, <<Event>>)
  BY DEF Emit
<1> QED
  BY <1>1, <1>2, <1>3, <1>4, SendingFits

LEMMA EventArrivesFits ==
    ASSUME NEW p \in Ends, StateFits(net, outcome, handler), EventArrives(p)
    PROVE  StepFits
<1>1. StateFits(Read(p), outcome, handler) /\ net[p] # <<>>
  BY ReadFits DEF EventArrives, Arriving
<1>2. \/ Shuts(p, Read(p), outcome, handler)
      \/ net' = Read(p) /\ UNCHANGED <<outcome, handler>>
  BY DEF EventArrives
<1> QED
  BY <1>1, <1>2, ClosingFits, ReadingFits

LEMMA BreaksFits ==
    ASSUME StateFits(net, outcome, handler), Breaks \/ FallsSilent
    PROVE  StepFits
<1>1. /\ net \in [Ends -> Seq(AFrame)] /\ UNCHANGED <<outcome, handler>>
      /\ outcome \in [Requests -> Outcomes] /\ handler \in [Requests -> AHandler]
      /\ Ends = {"client", "server"}
  BY DEF StateFits, NetFits, Breaks, FallsSilent, Ends
<1>2. net' \in [Ends -> Seq(AFrame)] /\ \A q \in Ends : Within(net'[q], net[q])
  <2>1. CASE Breaks
    <3>1. PICK c \in Parted(net, "client"), s \in Parted(net, "server") :
             net' = [p \in Ends |-> IF p = "client" THEN c ELSE s]
      BY <2>1 DEF Breaks
    <3>2. Within(c, net["client"]) /\ Within(s, net["server"])
      BY <1>1, PartedWithin
    <3> QED
      BY <1>1, <3>1, <3>2 DEF Within
  <2>2. CASE FallsSilent
    BY <1>1, <2>2, WithinSame DEF FallsSilent, Within
  <2> QED
    BY <2>1, <2>2
<1>3. StateFits(net', outcome', handler')
  BY <1>1, <1>2, FitsLess
<1> QED
  BY <1>1, <1>3 DEF StepFits, Turns, Turn

-----------------------------------------------------------------------------
(* The invariant, and the refinement.                                      *)

IInv == StateFits(net, outcome, handler)

LEMMA InitFits == Init => IInv
<1> SUFFICES ASSUME Init PROVE IInv
  OBVIOUS
<1>1. /\ net \in [Ends -> Seq(AFrame)] /\ Ends = {"client", "server"}
      /\ net["client"] = <<>> /\ net["server"] = <<Hello>>
  BY FrameTypes DEF Init, Ends
<1>2. Range(<<>>) = {} /\ Range(<<Hello>>) = {Hello}
  BY DEF Range
<1>3. \A q \in Ends : Once(net[q]) /\ \A f \in Range(net[q]) : Fits(f, q, outcome, handler)
  BY <1>1, <1>2 DEF Once, Fits, Hello
<1>4. Settled("none") \in AHandler /\ Settled("none").state = "none"
  BY DEF Settled, AHandler
<1>5. /\ outcome \in [Requests -> Outcomes] /\ handler \in [Requests -> AHandler]
      /\ \A r \in Requests : OutcomeFits(outcome[r], handler[r].state)
  BY <1>4 DEF Init, Outcomes, OutcomeFits
<1> QED
  BY <1>1, <1>3, <1>5 DEF IInv, StateFits, NetFits

LEMMA StepKeeps == IInv /\ [Next]_vars => StepFits
<1> SUFFICES ASSUME IInv, [Next]_vars PROVE StepFits
  OBVIOUS
<1>0. StateFits(net, outcome, handler)
  BY DEF IInv
<1>1. ASSUME NEW r \in Requests,
             Ask(r) \/ GivesUp(r) \/ DeadlinePasses(r) \/ HandlerReturns(r)
      PROVE  StepFits
  BY <1>0, <1>1, AskFits, GivesUpFits, DeadlineFits, ReturnFits
<1>2. ASSUME NEW p \in Ends, Arrives(p) PROVE StepFits
  <2>1. CASE p = "client" /\ AckArrives
    <3>1. net[p] # <<>> /\ net' = Read(p) /\ UNCHANGED <<outcome, handler>>
      BY <2>1 DEF AckArrives, Arriving
    <3> QED
      BY <1>0, <3>1, ReadingFits
  <2>2. CASE CloseArrives(p)
    BY <1>0, <2>2, ClosingFits DEF CloseArrives
  <2> QED
    BY <1>0, <1>2, <2>1, <2>2, HelloFits, RequestFits, ResponseFits, CancelFits,
       EventArrivesFits DEF Arrives
<1>3. ASSUME NEW p \in Ends, HandshakeTimesOut(p) \/ Closes(p) \/ HeartbeatTimesOut(p)
      PROVE  StepFits
  <2>1. Shuts(p, net, outcome, handler)
    BY <1>3 DEF HandshakeTimesOut, Closes, HeartbeatTimesOut
  <2> QED
    BY <1>0, <2>1, ClosingFits
<1>4. ASSUME NEW p \in Ends, Emit(p) PROVE StepFits
  BY <1>0, <1>4, EmitFits
<1>5. ASSUME NEW p \in Ends, EventHandled(p) PROVE StepFits
  BY <1>0, <1>5, StillFits DEF EventHandled
<1>6. CASE UNCHANGED vars
  BY <1>0, <1>6, StillFits DEF vars
<1>7. CASE Breaks \/ FallsSilent
  BY <1>0, <1>7, BreaksFits
<1> QED
  BY <1>1, <1>2, <1>3, <1>4, <1>5, <1>6, <1>7 DEF Next

\* What a turn looks like to the two that only know what they are told.
LEMMA TurnIsMove ==
    ASSUME IInv, StepFits, NEW r \in Requests
    PROVE  /\ RC!Move(Known(r), Fate(r), Known(r)', Fate(r)')
           /\ Known(r)' \in RC!Knowledge /\ Fate(r)' \in RC!Fates
<1> DEFINE K(x) == CASE x \in {"none", "pending"} -> "nothing"
                     [] x = "unsent" -> "refused"
                     [] OTHER -> x
           F(x, s) == IF x = "unsent" THEN "refused" ELSE IF s = "none" THEN "open" ELSE s
<1>1. ASSUME NEW x \in Outcomes, NEW x2 \in Outcomes,
             NEW s \in {"none", "running", "done", "failed", "refused"},
             NEW s2 \in {"none", "running", "done", "failed", "refused"},
             OutcomeFits(x, s), OutcomeFits(x2, s2), Turn(x, s, x2, s2)
      PROVE  /\ RC!Move(K(x), F(x, s), K(x2), F(x2, s2))
             /\ K(x2) \in RC!Knowledge /\ F(x2, s2) \in RC!Fates
  BY <1>1 DEF Outcomes, OutcomeFits, Turn, RC!Move, RC!Decided, RC!Finished, RC!Learnt,
     RC!Withheld, RC!GivenUp, RC!Knowledge, RC!Fates
<1>2. /\ outcome[r] \in Outcomes /\ outcome'[r] \in Outcomes
      /\ handler[r] \in AHandler /\ handler'[r] \in AHandler
      /\ OutcomeFits(outcome[r], handler[r].state)
      /\ OutcomeFits(outcome'[r], handler'[r].state)
      /\ Turn(outcome[r], handler[r].state, outcome'[r], handler'[r].state)
  BY DEF IInv, StepFits, StateFits, Turns
<1>3. /\ handler[r].state \in {"none", "running", "done", "failed", "refused"}
      /\ handler'[r].state \in {"none", "running", "done", "failed", "refused"}
  BY <1>2 DEF AHandler
<1>4. /\ Known(r) = K(outcome[r]) /\ Known(r)' = K(outcome'[r])
      /\ Fate(r) = F(outcome[r], handler[r].state)
      /\ Fate(r)' = F(outcome'[r], handler'[r].state)
  BY DEF Known, Fate
<1> HIDE DEF K, F
<1> QED
  BY <1>1, <1>2, <1>3, <1>4

LEMMA StepRefines == IInv /\ [Next]_vars => IInv' /\ [RC!CallNext]_(RC!callVars)
<1> SUFFICES ASSUME IInv, [Next]_vars PROVE IInv' /\ RC!CallNext
  OBVIOUS
<1>1. StepFits
  BY StepKeeps
<1>2. IInv'
  BY <1>1 DEF StepFits, IInv
<1>3. \A r \in Requests :
         /\ RC!Move(Known(r), Fate(r), Known(r)', Fate(r)')
         /\ Known(r)' \in RC!Knowledge /\ Fate(r)' \in RC!Fates
  BY <1>1, TurnIsMove
<1>4. RC!CallNext
  BY <1>3 DEF RC!CallNext
<1> QED
  BY <1>2, <1>4

LEMMA InitRefines == Init => RC!CallInit
BY DEF Init, RC!CallInit, Known, Fate, Settled

\* Whatever requests there are and however the connection ends, a call is
\* carried out at most once and what its caller is told of it is the truth: the
\* peers implement RemoteCall (request, #runRequestHandler, #handleResponse).
THEOREM CallsKeepPromiseAlways == Spec => CallsKeepPromise
<1>1. Init => IInv /\ RC!CallInit
  BY InitFits, InitRefines
<1>2. IInv /\ [Next]_vars => IInv' /\ [RC!CallNext]_(RC!callVars)
  BY StepRefines
<1> QED
  BY <1>1, <1>2, PTL DEF Spec, CallsKeepPromise, RC!CallSpec

\* No caller is told of a result that was not reached, of a failure of a call
\* that goes on, or of a refusal of one that was carried out.
THEOREM ToldTheTruth == Spec => []RC!KnowledgeIsTruth
<1>1. IInv => RC!KnowledgeIsTruth
  BY DEF IInv, StateFits, OutcomeFits, Outcomes, RC!KnowledgeIsTruth, Known, Fate
<1>2. Init => IInv
  BY InitFits
<1>3. IInv /\ [Next]_vars => IInv'
  BY StepRefines
<1> QED
  BY <1>1, <1>2, <1>3, PTL DEF Spec

-----------------------------------------------------------------------------
(* What is left to happen to a request.                                    *)

Answered(s, r) == \E f \in Range(s) : f \in Answers(r)
AnswerOnce(s, r) == \A i, j \in 1..Len(s) : s[i] \in Answers(r) /\ s[j] \in Answers(r) => i = j
InOrder(s, r) == \A i, j \in 1..Len(s) : s[i] = Cancel(r) /\ s[j] = Request(r) => j < i

\* Nothing reaches the end any more, or a close does after all the rest.
Off(n, e, c, p) == c \/ e[p] = "closed" \/ Close \in Range(n[p])

\* The frames of r are on the right side, and no two of them contradict each other
\* or what became of r at the two ends.
Sound(r, n, o, h) ==
    LET p == CallerOf[r]
        q == Callee(r)
    IN /\ h[r].eligible <=> h[r].state = "running" /\ ~h[r].aborted
       /\ Request(r) \notin Range(n[p]) /\ Cancel(r) \notin Range(n[p]) /\ ~Answered(n[q], r)
       /\ AnswerOnce(n[p], r) /\ InOrder(n[q], r)
       /\ Cancel(r) \in Range(n[q]) => o[r] \notin {"none", "pending"}
       /\ Request(r) \in Range(n[q]) => h[r].state = "none" /\ o[r] \notin {"none", "unsent"}
       /\ Answered(n[p], r) => h[r].state # "none" /\ ~h[r].eligible

\* A pending request is asked, being answered or answered; one that is given up is
\* cancelled; unless the connection is ending.
Live(r, n, e, c, o, h) ==
    LET p == CallerOf[r]
        q == Callee(r)
    IN /\ o[r] = "pending" => \/ Request(r) \in Range(n[q]) \/ Answered(n[p], r)
                              \/ h[r].eligible \/ Off(n, e, c, p)
       /\ h[r].eligible \/ Request(r) \in Range(n[q])
              => o[r] = "pending" \/ Cancel(r) \in Range(n[q]) \/ Off(n, e, c, q)

\* A connection ends at both ends.
Both(n, e, c) == Off(n, e, c, "client") <=> Off(n, e, c, "server")

AEnd == [Ends -> {"opening", "open", "closed"}]

Serves(n, e, c, o, h) ==
    /\ e \in AEnd /\ Both(n, e, c)
    /\ \A r \in Requests : Sound(r, n, o, h) /\ Live(r, n, e, c, o, h)

ServedInv == IInv /\ Serves(net, end, cut, outcome, handler)

-----------------------------------------------------------------------------
(* Frames and queues.                                                      *)

\* A frame that says nothing of r.
Foreign(f, r) == f # Request(r) /\ f # Cancel(r) /\ f \notin Answers(r)

\* Frames of different requests, and of different kinds, differ.
LEMMA FramesDiffer ==
    /\ \A r \in Requests : \A f \in {Hello, Ack, Close, Event} : Foreign(f, r)
    /\ \A r, s \in Requests : r # s => /\ Foreign(Request(r), s) /\ Foreign(Cancel(r), s)
                                       /\ \A f \in Answers(r) : Foreign(f, s)
    /\ \A r \in Requests : /\ Request(r) # Cancel(r)
                           /\ Request(r) \notin Answers(r) /\ Cancel(r) \notin Answers(r)
                           /\ Request(r) # Close /\ Cancel(r) # Close /\ Close \notin Answers(r)
<1>1. /\ Hello.type = "hello" /\ Ack.type = "hello-ack" /\ Close.type = "close"
      /\ Event.type = "event"
  BY DEF Hello, Ack, Close, Event
<1>2. ASSUME NEW r
      PROVE  /\ Request(r).type = "request" /\ Request(r).id = r
             /\ Cancel(r).type = "cancel" /\ Cancel(r).id = r
             /\ \A f \in Answers(r) : f.type = "response" /\ f.id = r
  BY DEF Request, Cancel, Response, Answers
<1> QED
  BY <1>1, <1>2 DEF Foreign

\* What is left of a queue keeps its answers and its order.
Less(t, s) ==
    /\ Within(t, s)
    /\ \A r \in Requests : /\ AnswerOnce(s, r) => AnswerOnce(t, r)
                           /\ InOrder(s, r) => InOrder(t, r)

\* What is in a queue stands at one of its places.
LEMMA RangeIs == \A s \in Seq(AFrame) : Range(s) = {s[i] : i \in 1..Len(s)}
BY RangeEquality

\* What a queue says after its first frame is read: the answer was the only one, and
\* no request comes after its cancellation.
LEMMA LessTail ==
    ASSUME NEW s \in Seq(AFrame), s # <<>>
    PROVE  /\ Less(Tail(s), s) /\ Range(s) = Range(Tail(s)) \union {Head(s)}
           /\ \A r \in Requests :
                 /\ AnswerOnce(s, r) /\ Head(s) \in Answers(r) => ~Answered(Tail(s), r)
                 /\ InOrder(s, r) /\ Head(s) = Cancel(r) => Request(r) \notin Range(Tail(s))
<1>1. /\ Tail(s) \in Seq(AFrame) /\ Len(s) \in Nat /\ Len(Tail(s)) = Len(s) - 1
      /\ \A i \in 1..Len(Tail(s)) : Tail(s)[i] = s[i + 1]
      /\ Head(s) = s[1] /\ 1 \in 1..Len(s) /\ Head(s) \in AFrame
  BY HeadTailProperties, LenProperties, EmptySeq
<1>2. PICK t : t = Tail(s)
  OBVIOUS
<1>3. /\ Range(s) = {s[i] : i \in 1..Len(s)}
      /\ Range(t) = {t[i] : i \in 1..Len(t)}
  <2>1. t \in Seq(AFrame)
    BY <1>1, <1>2
  <2>2. Range(t) = {t[i] : i \in 1..Len(t)}
    BY <2>1, RangeEquality
  <2> QED
    BY <2>2, RangeEquality
<1>4. \A i \in 1..Len(t) : i + 1 \in 1..Len(s) /\ t[i] = s[i + 1]
  BY <1>1, <1>2
<1>5. Within(t, s)
  BY <1>2, WithinTail
<1>6. Range(s) = Range(t) \union {Head(s)}
  <2>1. \A i \in 1..Len(s) : i = 1 \/ (i - 1 \in 1..Len(t) /\ t[i - 1] = s[i])
    BY <1>1, <1>2
  <2> QED
    BY <1>1, <1>3, <1>4, <2>1
<1>7. ASSUME NEW r \in Requests
      PROVE  /\ AnswerOnce(s, r) => AnswerOnce(t, r)
             /\ InOrder(s, r) => InOrder(t, r)
             /\ AnswerOnce(s, r) /\ Head(s) \in Answers(r) => ~Answered(t, r)
             /\ InOrder(s, r) /\ Head(s) = Cancel(r) => Request(r) \notin Range(t)
  <2>1. AnswerOnce(s, r) => AnswerOnce(t, r)
    BY <1>1, <1>2, <1>4 DEF AnswerOnce
  <2>2. InOrder(s, r) => InOrder(t, r)
    BY <1>1, <1>2, <1>4 DEF InOrder
  <2>3. ASSUME AnswerOnce(s, r), Head(s) \in Answers(r), Answered(t, r) PROVE FALSE
    <3>1. PICK i \in 1..Len(t) : t[i] \in Answers(r)
      BY <1>3, <2>3 DEF Answered
    <3>2. i + 1 = 1
      BY <1>1, <1>4, <2>3, <3>1 DEF AnswerOnce
    <3> QED
      BY <1>1, <1>2, <3>2
  <2>4. ASSUME InOrder(s, r), Head(s) = Cancel(r), Request(r) \in Range(t) PROVE FALSE
    <3>1. PICK i \in 1..Len(t) : t[i] = Request(r)
      BY <1>3, <2>4
    <3>2. i + 1 < 1
      BY <1>1, <1>4, <2>4, <3>1 DEF InOrder
    <3> QED
      BY <1>1, <1>2, <3>2
  <2> QED
    BY <2>1, <2>2, <2>3, <2>4
<1> QED
  BY <1>2, <1>5, <1>6, <1>7 DEF Less

LEMMA LessSame ==
    ASSUME NEW s \in Seq(AFrame)
    PROVE  Less(s, s) /\ Less(<<>>, s)
<1>1. Within(s, s) /\ Within(<<>>, s)
  BY WithinSame
<1>2. Len(<<>>) = 0 /\ 1..0 = {}
  OBVIOUS
<1> QED
  BY <1>1, <1>2 DEF Less, AnswerOnce, InOrder

\* What a broken connection leaves of a queue ends in a close, if it was not closed before.
LEMMA LessPart ==
    ASSUME NEW n \in [Ends -> Seq(AFrame)], NEW q \in Ends, NEW t \in Parted(n, q)
    PROVE  /\ Less(t, n[q]) /\ t \in Seq(AFrame)
           /\ Close \in Range(t) \/ (Off(n, end, cut, q) /\ t = n[q])
<1>1. CASE Deaf(n, q)
  <2>1. t = n[q] /\ Off(n, end, cut, q)
    BY <1>1 DEF Parted, Deaf, Holds, Off
  <2> QED
    BY <2>1, LessSame
<1>2. CASE ~Deaf(n, q)
  <2>1. PICK k \in 0..Len(n[q]) : t = SubSeq(n[q], 1, k) \o <<Close>>
    BY <1>2 DEF Parted
  <2>2. PICK s : s = n[q]
    OBVIOUS
  <2>3. Within(t, s) /\ Close \in Range(t) /\ s \in Seq(AFrame)
    BY <2>1, <2>2, WithinPart
  <2>4. Len(s) \in Nat /\ k \in Nat /\ k <= Len(s)
    BY <2>1, <2>2, <2>3, LenProperties
  <2>5. PICK a : a = SubSeq(s, 1, k)
    OBVIOUS
  <2>6. a \in Seq(AFrame) /\ Len(a) = k /\ \A i \in 1..k : a[i] = s[i]
    <3>1. \A i \in 1..k : s[i] \in AFrame
      BY <2>3, <2>4, ElementOfSeq
    <3> QED
      BY <2>4, <2>5, <3>1, SubSeqProperties
  <2>7. <<Close>> \in Seq(AFrame) /\ Len(<<Close>>) = 1 /\ <<Close>>[1] = Close
    BY FrameTypes
  <2>8. /\ t \in Seq(AFrame) /\ Len(t) = k + 1
        /\ \A i \in 1..k : t[i] = s[i]
        /\ t[k + 1] = Close
    BY <2>1, <2>2, <2>4, <2>5, <2>6, <2>7, ConcatProperties
  <2>9. ASSUME NEW r \in Requests
        PROVE  /\ AnswerOnce(s, r) => AnswerOnce(t, r)
               /\ InOrder(s, r) => InOrder(t, r)
    <3>1. Close \notin Answers(r) /\ Close # Cancel(r) /\ Close # Request(r)
      BY FramesDiffer
    <3>2. \A i \in 1..Len(t) : \/ i \in 1..Len(s) /\ t[i] = s[i]
                               \/ t[i] = Close
      BY <2>4, <2>8
    <3> QED
      BY <3>1, <3>2 DEF AnswerOnce, InOrder
  <2> QED
    BY <2>2, <2>3, <2>8, <2>9 DEF Less
<1> QED
  BY <1>1, <1>2

\* A frame is sent.
LEMMA MoreIs ==
    ASSUME NEW s \in Seq(AFrame), NEW f \in AFrame, NEW t, t = s \o <<f>>
    PROVE  /\ t \in Seq(AFrame) /\ Range(t) = Range(s) \union {f}
           /\ \A r \in Requests :
                 /\ AnswerOnce(s, r) /\ ~(f \in Answers(r) /\ Answered(s, r)) => AnswerOnce(t, r)
                 /\ InOrder(s, r) /\ ~(f = Request(r) /\ Cancel(r) \in Range(s)) => InOrder(t, r)
<1>1. <<f>> \in Seq(AFrame) /\ Len(<<f>>) = 1 /\ <<f>>[1] = f /\ Len(s) \in Nat
  BY LenProperties
<1>2. /\ t \in Seq(AFrame) /\ Len(t) = Len(s) + 1
      /\ \A i \in 1..Len(s) : t[i] = s[i]
      /\ t[Len(s) + 1] = f
  BY <1>1, ConcatProperties
<1>3. Range(t) = {t[i] : i \in 1..Len(t)} /\ Range(s) = {s[i] : i \in 1..Len(s)}
  <2>1. t \in Seq(AFrame)
    BY <1>2
  <2>2. Range(t) = {t[i] : i \in 1..Len(t)}
    BY <2>1, RangeIs
  <2> QED
    BY <2>2, RangeEquality
<1>4. Range(t) = Range(s) \union {f}
  BY <1>1, <1>2, <1>3
<1>5. \A i \in 1..Len(t) : \/ i \in 1..Len(s) /\ t[i] = s[i] /\ s[i] \in Range(s)
                           \/ i = Len(s) + 1 /\ t[i] = f
  BY <1>1, <1>2, <1>3
<1>6. ASSUME NEW r \in Requests, AnswerOnce(s, r), ~(f \in Answers(r) /\ Answered(s, r))
      PROVE  AnswerOnce(t, r)
  BY <1>5, <1>6 DEF AnswerOnce, Answered
<1>7. ASSUME NEW r \in Requests, InOrder(s, r), ~(f = Request(r) /\ Cancel(r) \in Range(s))
      PROVE  InOrder(t, r)
  <2>1. SUFFICES ASSUME NEW i \in 1..Len(t), NEW j \in 1..Len(t),
                        t[i] = Cancel(r), t[j] = Request(r)
                 PROVE  j < i
    BY DEF InOrder
  <2>2. Request(r) # Cancel(r)
    BY FramesDiffer
  <2>3. CASE j = Len(s) + 1 /\ t[j] = f
    BY <1>5, <1>7, <2>1, <2>2, <2>3
  <2>4. CASE j \in 1..Len(s) /\ t[j] = s[j]
    BY <1>1, <1>5, <1>7, <2>1, <2>4 DEF InOrder
  <2> QED
    BY <1>5, <2>3, <2>4
<1> QED
  BY <1>2, <1>4, <1>6, <1>7

\* Two queues that say the same of r.
Alike(r, s, t) ==
    /\ Request(r) \in Range(s) <=> Request(r) \in Range(t)
    /\ Cancel(r) \in Range(s) <=> Cancel(r) \in Range(t)
    /\ Answered(s, r) <=> Answered(t, r)
    /\ AnswerOnce(s, r) => AnswerOnce(t, r)
    /\ InOrder(s, r) => InOrder(t, r)

\* A step whose frames are about other requests.
LEMMA AlikeKeeps ==
    ASSUME NEW r \in Requests, NEW n, NEW e, NEW c, NEW o, NEW h,
           NEW n2, NEW e2, NEW o2, NEW h2,
           \A q \in Ends : /\ Alike(r, n[q], n2[q])
                           /\ Off(n2, e2, c, q) <=> Off(n, e, c, q),
           o2[r] = o[r], h2[r] = h[r]
    PROVE  /\ Sound(r, n, o, h) => Sound(r, n2, o2, h2)
           /\ Live(r, n, e, c, o, h) => Live(r, n2, e2, c, o2, h2)
<1>1. CallerOf[r] \in Ends /\ Callee(r) \in Ends
  BY OtherEnd
<1>2. PICK p \in Ends : p = CallerOf[r]
  BY <1>1
<1>3. PICK q \in Ends : q = Callee(r)
  BY <1>1
<1>4. Alike(r, n[p], n2[p]) /\ Alike(r, n[q], n2[q])
  OBVIOUS
<1>5. /\ Off(n2, e2, c, p) <=> Off(n, e, c, p)
      /\ Off(n2, e2, c, q) <=> Off(n, e, c, q)
  OBVIOUS
<1>6. ASSUME Sound(r, n, o, h) PROVE Sound(r, n2, o2, h2)
  BY <1>2, <1>3, <1>4, <1>6 DEF Sound, Alike
<1>7. ASSUME Live(r, n, e, c, o, h) PROVE Live(r, n2, e2, c, o2, h2)
  BY <1>2, <1>3, <1>4, <1>5, <1>7 DEF Live, Alike
<1> QED
  BY <1>6, <1>7

\* A step that is about no request at all.
LEMMA AlikeServes ==
    ASSUME NEW n, NEW e, NEW c, NEW o, NEW h, Serves(n, e, c, o, h),
           NEW n2, NEW e2 \in AEnd,
           \A q \in Ends : /\ \A r \in Requests : Alike(r, n[q], n2[q])
                           /\ Off(n2, e2, c, q) <=> Off(n, e, c, q)
    PROVE  Serves(n2, e2, c, o, h)
<1>1. Both(n2, e2, c)
  BY DEF Serves, Both, Ends
<1>2. ASSUME NEW r \in Requests PROVE Sound(r, n2, o, h) /\ Live(r, n2, e2, c, o, h)
  <2>1. Sound(r, n, o, h) /\ Live(r, n, e, c, o, h)
    BY DEF Serves
  <2>2. \A q \in Ends : Alike(r, n[q], n2[q]) /\ (Off(n2, e2, c, q) <=> Off(n, e, c, q))
    OBVIOUS
  <2> QED
    BY <2>1, <2>2, AlikeKeeps
<1> QED
  BY <1>1, <1>2 DEF Serves

\* A request that a step does not touch.
LEMMA SameKeeps ==
    ASSUME NEW r \in Requests, NEW n, NEW e, NEW c, NEW o, NEW h, NEW o2, NEW h2,
           o2[r] = o[r], h2[r] = h[r]
    PROVE  /\ Sound(r, n, o, h) => Sound(r, n, o2, h2)
           /\ Live(r, n, e, c, o, h) => Live(r, n, e, c, o2, h2)
BY DEF Sound, Live

LEMMA AlikeSound ==
    ASSUME NEW r \in Requests, NEW n, NEW o, NEW h, NEW n2, NEW o2, NEW h2,
           \A q \in Ends : Alike(r, n[q], n2[q]), o2[r] = o[r], h2[r] = h[r],
           Sound(r, n, o, h)
    PROVE  Sound(r, n2, o2, h2)
<1>1. CallerOf[r] \in Ends /\ Callee(r) \in Ends
  BY OtherEnd
<1>2. PICK p \in Ends, q \in Ends : p = CallerOf[r] /\ q = Callee(r)
  BY <1>1
<1>3. Alike(r, n[p], n2[p]) /\ Alike(r, n[q], n2[q])
  OBVIOUS
<1> QED
  BY <1>2, <1>3 DEF Sound, Alike

\* Less on its way, more given up: nothing becomes unsound.
LEMMA SoundLess ==
    ASSUME NEW r \in Requests, NEW n, NEW o, NEW h, NEW n2, NEW o2, NEW h2,
           Sound(r, n, o, h),
           \A q \in Ends : Less(n2[q], n[q]),
           o2[r] = o[r] \/ (o[r] = "pending" /\ o2[r] = "unknown"),
           h2[r] = h[r] \/ h2[r] = Suppressed(h[r]),
           h[r] \in AHandler
    PROVE  Sound(r, n2, o2, h2)
<1>1. CallerOf[r] \in Ends /\ Callee(r) \in Ends
  BY OtherEnd
<1>2. PICK p \in Ends : p = CallerOf[r]
  BY <1>1
<1>3. PICK q \in Ends : q = Callee(r)
  BY <1>1
<1>4. Less(n2[p], n[p]) /\ Less(n2[q], n[q])
  OBVIOUS
<1>5. Request(r) # Close /\ Cancel(r) # Close /\ Close \notin Answers(r)
  BY FramesDiffer
<1>6. ASSUME NEW e \in Ends, Less(n2[e], n[e])
      PROVE  /\ Request(r) \in Range(n2[e]) => Request(r) \in Range(n[e])
             /\ Cancel(r) \in Range(n2[e]) => Cancel(r) \in Range(n[e])
             /\ Answered(n2[e], r) => Answered(n[e], r)
             /\ AnswerOnce(n[e], r) => AnswerOnce(n2[e], r)
             /\ InOrder(n[e], r) => InOrder(n2[e], r)
  <2>1. Range(n2[e]) \subseteq Range(n[e]) \union {Close}
    BY <1>6 DEF Less, Within
  <2>2. /\ AnswerOnce(n[e], r) => AnswerOnce(n2[e], r)
        /\ InOrder(n[e], r) => InOrder(n2[e], r)
    BY <1>6 DEF Less
  <2>3. Answered(n2[e], r) => Answered(n[e], r)
    BY <1>5, <2>1 DEF Answered
  <2> QED
    BY <1>5, <2>1, <2>2, <2>3
<1>7. h2[r].state = h[r].state
  BY DEF Suppressed, AHandler
<1>8. /\ h2[r].eligible => h[r].eligible
      /\ (h[r].eligible <=> h[r].state = "running" /\ ~h[r].aborted)
         => (h2[r].eligible <=> h2[r].state = "running" /\ ~h2[r].aborted)
  BY DEF Suppressed, AHandler
<1>9. /\ o2[r] \in {"none", "pending"} => o[r] \in {"none", "pending"}
      /\ o2[r] \in {"none", "unsent"} => o[r] \in {"none", "unsent"}
  OBVIOUS
<1>10. /\ Request(r) \notin Range(n2[p]) /\ Cancel(r) \notin Range(n2[p]) /\ ~Answered(n2[q], r)
       /\ AnswerOnce(n2[p], r) /\ InOrder(n2[q], r)
  BY <1>2, <1>3, <1>4, <1>6 DEF Sound
<1>11. /\ h2[r].eligible <=> h2[r].state = "running" /\ ~h2[r].aborted
       /\ Cancel(r) \in Range(n2[q]) => o2[r] \notin {"none", "pending"}
       /\ Request(r) \in Range(n2[q]) => h2[r].state = "none" /\ o2[r] \notin {"none", "unsent"}
       /\ Answered(n2[p], r) => h2[r].state # "none" /\ ~h2[r].eligible
  BY <1>2, <1>3, <1>4, <1>6, <1>7, <1>8, <1>9 DEF Sound
<1> QED
  BY <1>2, <1>3, <1>10, <1>11 DEF Sound

\* A connection that ends owes nobody anything.
LEMMA OffIsLive ==
    ASSUME NEW n, NEW e, NEW c, \A q \in Ends : Off(n, e, c, q),
           NEW o, NEW h, NEW r \in Requests
    PROVE  Live(r, n, e, c, o, h)
BY OtherEnd DEF Live

\* A peer's closing ends the connection at both ends.
LEMMA ShutsServes ==
    ASSUME NEW n, NEW o, NEW h, NEW p \in Ends,
           n \in [Ends -> Seq(AFrame)], o \in [Requests -> Outcomes],
           h \in [Requests -> AHandler], end \in AEnd,
           \A r \in Requests : Sound(r, n, o, h),
           Shuts(p, n, o, h), cut' = cut
    PROVE  Serves(net, end, cut, outcome, handler)'
<1>1. PICK rest \in Parted(n, Other(p)) : net' = [n EXCEPT ![p] = <<>>, ![Other(p)] = rest]
  BY DEF Shuts
<1>2. Other(p) \in Ends /\ Other(p) # p /\ \A q \in Ends : q = p \/ q = Other(p)
  BY OtherEnd
<1>3. /\ Less(rest, n[Other(p)]) /\ rest \in Seq(AFrame)
      /\ Close \in Range(rest) \/ (Off(n, end, cut, Other(p)) /\ rest = n[Other(p)])
  BY <1>2, LessPart
<1>4. net'[p] = <<>> /\ net'[Other(p)] = rest
  BY <1>1, <1>2
<1>5. \A q \in Ends : Less(net'[q], n[q])
  BY <1>2, <1>3, <1>4, LessSame
<1>6. end' = [end EXCEPT ![p] = "closed"] /\ end' \in AEnd
  BY DEF Shuts, AEnd
<1>7. end'[p] = "closed" /\ end'[Other(p)] = end[Other(p)]
  BY <1>2, <1>6 DEF AEnd
<1>8. \A q \in Ends : Off(net', end', cut', q)
  BY <1>2, <1>3, <1>4, <1>7 DEF Off
<1>9. outcome' = Rejected(o, p) /\ handler' = Aborted(h, p)
  BY DEF Shuts
<1>10. ASSUME NEW r \in Requests
       PROVE  Sound(r, net', outcome', handler')
  <2>1. outcome'[r] = o[r] \/ (o[r] = "pending" /\ outcome'[r] = "unknown")
    <3>1. Rejected(o, p)[r] = o[r] \/ (o[r] = "pending" /\ Rejected(o, p)[r] = "unknown")
      BY DEF Rejected
    <3> QED
      BY <1>9, <3>1
  <2>2. handler'[r] = h[r] \/ handler'[r] = Suppressed(h[r])
    BY <1>9 DEF Aborted
  <2> QED
    BY <1>5, <2>1, <2>2, SoundLess
<1>11. \A r \in Requests : Live(r, net', end', cut', outcome', handler')
  BY <1>8, OffIsLive
<1>12. Both(net', end', cut')
  BY <1>8 DEF Both, Ends
<1> QED
  BY <1>6, <1>10, <1>11, <1>12 DEF Serves

-----------------------------------------------------------------------------
(* Reading and sending one frame.                                          *)

\* A frame about something else is read, or sent.
LEMMA AlikeTail ==
    ASSUME NEW r \in Requests, NEW s \in Seq(AFrame), s # <<>>, Foreign(Head(s), r)
    PROVE  Alike(r, s, Tail(s))
<1>1. Less(Tail(s), s) /\ Range(s) = Range(Tail(s)) \union {Head(s)}
  BY LessTail
<1>2. Answered(s, r) <=> Answered(Tail(s), r)
  BY <1>1 DEF Answered, Foreign
<1> QED
  BY <1>1, <1>2 DEF Alike, Foreign, Less

LEMMA AlikeMore ==
    ASSUME NEW r \in Requests, NEW s \in Seq(AFrame), NEW f \in AFrame, Foreign(f, r)
    PROVE  Alike(r, s, s \o <<f>>)
<1>1. PICK t : t = s \o <<f>>
  OBVIOUS
<1>2. /\ Range(t) = Range(s) \union {f}
      /\ AnswerOnce(s, r) /\ ~(f \in Answers(r) /\ Answered(s, r)) => AnswerOnce(t, r)
      /\ InOrder(s, r) /\ ~(f = Request(r) /\ Cancel(r) \in Range(s)) => InOrder(t, r)
  BY <1>1, MoreIs
<1>3. Answered(s, r) <=> Answered(t, r)
  BY <1>2 DEF Answered, Foreign
<1>4. Alike(r, s, t)
  BY <1>2, <1>3 DEF Alike, Foreign
<1> QED
  BY <1>1, <1>4

LEMMA AlikeSame == \A r, s : Alike(r, s, s)
BY DEF Alike

\* p has read f, which is not a close.
LEMMA ReadIs ==
    ASSUME NEW n \in [Ends -> Seq(AFrame)], NEW p \in Ends, n[p] # <<>>, Head(n[p]) # Close,
           NEW m, m = [n EXCEPT ![p] = Tail(@)]
    PROVE  /\ m \in [Ends -> Seq(AFrame)]
           /\ m[p] = Tail(n[p]) /\ m[Other(p)] = n[Other(p)]
           /\ Head(n[p]) \in Range(n[p]) /\ Head(n[p]) \in AFrame
           /\ \A q \in Ends : /\ Less(m[q], n[q])
                              /\ \A e, c : Off(m, e, c, q) <=> Off(n, e, c, q)
           /\ \A r \in Requests : Foreign(Head(n[p]), r) =>
                                      \A q \in Ends : Alike(r, n[q], m[q])
<1>1. n[p] \in Seq(AFrame) /\ Other(p) \in Ends /\ Other(p) # p
      /\ \A q \in Ends : q = p \/ q = Other(p)
  BY OtherEnd
<1>2. /\ Less(Tail(n[p]), n[p]) /\ Range(n[p]) = Range(Tail(n[p])) \union {Head(n[p])}
      /\ Tail(n[p]) \in Seq(AFrame) /\ Head(n[p]) \in AFrame
  BY <1>1, LessTail, WithinTail DEF Within
<1>3. m[p] = Tail(n[p]) /\ m[Other(p)] = n[Other(p)] /\ m \in [Ends -> Seq(AFrame)]
  BY <1>1, <1>2
<1>4. \A q \in Ends : Less(m[q], n[q])
  BY <1>1, <1>2, <1>3, LessSame
<1>5. \A q \in Ends : Close \in Range(m[q]) <=> Close \in Range(n[q])
  BY <1>1, <1>2, <1>3
<1>6. \A q \in Ends : \A e, c : Off(m, e, c, q) <=> Off(n, e, c, q)
  BY <1>5 DEF Off
<1>7. ASSUME NEW r \in Requests, Foreign(Head(n[p]), r), NEW q \in Ends
      PROVE  Alike(r, n[q], m[q])
  BY <1>1, <1>3, <1>7, AlikeTail, AlikeSame
<1> QED
  BY <1>2, <1>3, <1>4, <1>6, <1>7

Sent(n, q, f) == [n EXCEPT ![q] = @ \o <<f>>]

\* q is sent f, which is not a close.
LEMMA SentIs ==
    ASSUME NEW n \in [Ends -> Seq(AFrame)], NEW q \in Ends, NEW f \in AFrame, f # Close,
           NEW m, m = Sent(n, q, f)
    PROVE  /\ m \in [Ends -> Seq(AFrame)] /\ \A p \in Ends : p # q => m[p] = n[p]
           /\ Range(m[q]) = Range(n[q]) \union {f}
           /\ \A p \in Ends : \A e, c : Off(m, e, c, p) <=> Off(n, e, c, p)
           /\ \A r \in Requests :
                 /\ Foreign(f, r) => \A p \in Ends : Alike(r, n[p], m[p])
                 /\ AnswerOnce(n[q], r) /\ ~(f \in Answers(r) /\ Answered(n[q], r))
                       => AnswerOnce(m[q], r)
                 /\ InOrder(n[q], r) /\ ~(f = Request(r) /\ Cancel(r) \in Range(n[q]))
                       => InOrder(m[q], r)
<1>1. n[q] \in Seq(AFrame) /\ Other(q) \in Ends /\ Other(q) # q
      /\ \A p \in Ends : p = q \/ p = Other(q)
  BY OtherEnd
<1>2. PICK t : t = n[q] \o <<f>>
  OBVIOUS
<1>3. /\ t \in Seq(AFrame) /\ Range(t) = Range(n[q]) \union {f}
      /\ \A r \in Requests :
            /\ AnswerOnce(n[q], r) /\ ~(f \in Answers(r) /\ Answered(n[q], r)) => AnswerOnce(t, r)
            /\ InOrder(n[q], r) /\ ~(f = Request(r) /\ Cancel(r) \in Range(n[q])) => InOrder(t, r)
  BY <1>1, <1>2, MoreIs
<1>4. m[q] = t /\ m[Other(q)] = n[Other(q)] /\ m \in [Ends -> Seq(AFrame)]
  BY <1>1, <1>2, <1>3 DEF Sent
<1>5. \A p \in Ends : Close \in Range(m[p]) <=> Close \in Range(n[p])
  BY <1>1, <1>3, <1>4
<1>6. \A p \in Ends : \A e, c : Off(m, e, c, p) <=> Off(n, e, c, p)
  BY <1>5 DEF Off
<1>7. ASSUME NEW r \in Requests, Foreign(f, r), NEW p \in Ends
      PROVE  Alike(r, n[p], m[p])
  <2>1. Alike(r, n[q], t)
    BY <1>1, <1>2, <1>7, AlikeMore
  <2> QED
    BY <1>1, <1>4, <2>1, AlikeSame
<1>8. \A p \in Ends : p # q => m[p] = n[p]
  BY <1>1, <1>4
<1> QED
  BY <1>3, <1>4, <1>6, <1>7, <1>8

\* The queues after f is sent to q.
LEMMA SentQueues ==
    \A n \in [Ends -> Seq(AFrame)] : \A q \in Ends : \A f \in AFrame :
        \A p \in Ends : p # q => Sent(n, q, f)[p] = n[p]
BY DEF Sent

LEMMA SentRange ==
    \A n \in [Ends -> Seq(AFrame)] : \A q \in Ends : \A f \in AFrame : \A x :
        x \in Range(Sent(n, q, f)[q]) <=> x \in Range(n[q]) \/ x = f
<1>1. ASSUME NEW n \in [Ends -> Seq(AFrame)], NEW q \in Ends, NEW f \in AFrame, NEW x
      PROVE  x \in Range(Sent(n, q, f)[q]) <=> x \in Range(n[q]) \/ x = f
  <2>1. n[q] \in Seq(AFrame)
    OBVIOUS
  <2>2. PICK t : t = n[q] \o <<f>>
    OBVIOUS
  <2>3. Range(t) = Range(n[q]) \union {f}
    BY <2>1, <2>2, MoreIs
  <2>4. Sent(n, q, f)[q] = t
    BY <2>2 DEF Sent
  <2> QED
    BY <2>3, <2>4
<1> QED
  BY <1>1

\* What is left to happen after p has sent f, or could not.
LEMMA SendsServes ==
    ASSUME NEW n, NEW o, NEW h, NEW p \in Ends, NEW f \in AFrame, f # Close,
           n \in [Ends -> Seq(AFrame)], o \in [Requests -> Outcomes],
           h \in [Requests -> AHandler], end \in AEnd, Both(n, end, cut),
           \A r \in Requests : Sound(r, n, o, h),
           NEW m, m = Sent(n, Other(p), f),
           \A r \in Requests : Sound(r, m, o, h) /\ Live(r, m, end, cut, o, h),
           Sends(p, n, o, h, <<f>>), cut' = cut
    PROVE  Serves(net, end, cut, outcome, handler)'
<1>1. CASE Shuts(p, n, o, h)
  BY <1>1, ShutsServes
<1>2. CASE ~Shuts(p, n, o, h)
  <2>1. /\ net' = Conveyed(n, p, <<f>>) /\ outcome' = o /\ handler' = h /\ end' = end
    BY <1>2 DEF Sends
  <2>2. Other(p) \in Ends
    BY OtherEnd
  <2>3. CASE Deaf(n, Other(p))
    <3>1. net' = n
      BY <2>1, <2>3 DEF Conveyed
    <3>2. Off(n, end, cut, Other(p))
      BY <2>3 DEF Deaf, Holds, Off
    <3>3. \A q \in Ends : Off(n, end, cut, q)
      BY <2>2, <3>2 DEF Both, Ends
    <3>4. \A r \in Requests : Live(r, n, end, cut, o, h)
      BY <3>3, OffIsLive
    <3> QED
      BY <2>1, <3>1, <3>4 DEF Serves
  <2>4. CASE ~Deaf(n, Other(p))
    <3>1. net' = m
      BY <2>1, <2>4 DEF Conveyed, Sent
    <3>2. Both(m, end, cut)
      <4>1. PICK q \in Ends : q = Other(p)
        BY <2>2
      <4>2. m = Sent(n, q, f)
        BY <4>1
      <4>3. \A e \in Ends : \A x, c : Off(m, x, c, e) <=> Off(n, x, c, e)
        BY <4>2, SentIs
      <4>4. \A e \in Ends : Off(m, end, cut, e) <=> Off(n, end, cut, e)
        BY <4>3
      <4> QED
        BY <4>4 DEF Both, Ends
    <3> QED
      BY <2>1, <3>1, <3>2 DEF Serves
  <2> QED
    BY <2>3, <2>4
<1> QED
  BY <1>1, <1>2

\* ... and after p has sent nothing.
LEMMA SilenceServes ==
    ASSUME NEW n, NEW o, NEW h, NEW p \in Ends, n \in [Ends -> Seq(AFrame)],
           Serves(n, end, cut, o, h), Sends(p, n, o, h, <<>>), cut' = cut
    PROVE  Serves(net, end, cut, outcome, handler)'
<1>1. /\ net' = Conveyed(n, p, <<>>) /\ outcome' = o /\ handler' = h /\ end' = end
  BY DEF Sends
<1>2. n[Other(p)] \o <<>> = n[Other(p)] /\ Other(p) \in Ends
  BY OtherEnd, ConcatEmptySeq
<1>3. net' = n
  BY <1>1, <1>2 DEF Conveyed
<1> QED
  BY <1>1, <1>3

-----------------------------------------------------------------------------
(* Each step serves every request.                                         *)

\* The invariant, part by part.
LEMMA ServedIs ==
    ASSUME ServedInv
    PROVE  /\ StateFits(net, outcome, handler)
           /\ net \in [Ends -> Seq(AFrame)] /\ outcome \in [Requests -> Outcomes]
           /\ handler \in [Requests -> AHandler] /\ end \in AEnd /\ Both(net, end, cut)
           /\ Serves(net, end, cut, outcome, handler)
           /\ \A r \in Requests : /\ Sound(r, net, outcome, handler)
                                  /\ Live(r, net, end, cut, outcome, handler)
                                  /\ outcome[r] = "none" => handler[r].state = "none"
BY DEF ServedInv, IInv, StateFits, NetFits, Serves, OutcomeFits

\* A new request is on its way, and nothing else of it is.
LEMMA AskServes ==
    ASSUME ServedInv, NEW r \in Requests, Ask(r)
    PROVE  Serves(net, end, cut, outcome, handler)'
<1>0. PICK p \in Ends, q \in Ends :
         /\ p = CallerOf[r] /\ q = Callee(r) /\ p # q
         /\ q = Other(p) /\ p = Other(q)
  BY OtherEnd DEF Callee
<1>00. net \in [Ends -> Seq(AFrame)]
  BY ServedIs
<1>1. /\ outcome[r] = "none" /\ handler[r].state = "none" /\ cut' = cut
      /\ Sound(r, net, outcome, handler)
  BY ServedIs DEF Ask
<1>2. /\ Request(r) \notin Range(net[q]) /\ Cancel(r) \notin Range(net[q])
      /\ ~Answered(net[p], r) /\ ~handler[r].eligible
      /\ Request(r) \notin Range(net[p]) /\ Cancel(r) \notin Range(net[p])
      /\ ~Answered(net[q], r) /\ AnswerOnce(net[p], r) /\ InOrder(net[q], r)
  BY <1>0, <1>1 DEF Sound
<1>3. CASE outcome' = [outcome EXCEPT ![r] = "unsent"] /\ UNCHANGED <<end, net, handler>>
  <2>1. ASSUME NEW x \in Requests
        PROVE  Sound(x, net, outcome', handler) /\ Live(x, net, end, cut, outcome', handler)
    <3>1. Sound(x, net, outcome, handler) /\ Live(x, net, end, cut, outcome, handler)
      BY ServedIs
    <3>2. CASE x # r
      BY <1>3, <3>1, <3>2, SameKeeps, ServedIs
    <3>3. CASE x = r
      <4>1. outcome'[r] = "unsent"
        BY <1>3, ServedIs
      <4>2. Sound(r, net, outcome', handler)
        BY <1>0, <1>1, <1>2, <4>1 DEF Sound
      <4>3. Live(r, net, end, cut, outcome', handler)
        BY <1>0, <1>2, <4>1 DEF Live
      <4> QED
        BY <3>3, <4>2, <4>3
    <3> QED
      BY <3>2, <3>3
  <2> QED
    BY <1>1, <1>3, <2>1, ServedIs DEF Serves
<1>4. CASE Sends(p, net, [outcome EXCEPT ![r] = "pending"], handler, <<Request(r)>>)
  <2> DEFINE o == [outcome EXCEPT ![r] = "pending"]
             f == Request(r)
  <2>1. /\ o \in [Requests -> Outcomes] /\ o[r] = "pending"
        /\ \A x \in Requests : x # r => o[x] = outcome[x]
    BY ServedIs DEF Outcomes
  <2>2. f \in AFrame /\ f # Close /\ f \notin Answers(r) /\ f # Cancel(r)
        /\ \A x \in Requests : x # r => Foreign(f, x)
    BY FrameTypes, FramesDiffer
  <2>3. PICK m : m = Sent(net, q, f)
    OBVIOUS
  <2>4. /\ m[p] = net[p] /\ Range(m[q]) = Range(net[q]) \union {f}
        /\ \A e \in Ends : Off(m, end, cut, e) <=> Off(net, end, cut, e)
        /\ \A x \in Requests : x # r => \A e \in Ends : Alike(x, net[e], m[e])
        /\ InOrder(m[q], r)
    <3>1. /\ \A e \in Ends : \A y, c : Off(m, y, c, e) <=> Off(net, y, c, e)
          /\ m[p] = net[p] /\ Range(m[q]) = Range(net[q]) \union {f}
          /\ \A x \in Requests :
                /\ Foreign(f, x) => \A e \in Ends : Alike(x, net[e], m[e])
                /\ InOrder(net[q], x) /\ ~(f = Request(x) /\ Cancel(x) \in Range(net[q]))
                      => InOrder(m[q], x)
      <4>1. \A e \in Ends : \A y, c : Off(m, y, c, e) <=> Off(net, y, c, e)
        BY <1>0, <1>00, <2>2, <2>3, SentIs
      <4>2. m[p] = net[p]
        BY <1>0, <1>00, <2>2, <2>3, SentQueues
      <4>4. Range(m[q]) = Range(net[q]) \union {f}
        <5>1. f \in AFrame
          BY <2>2
        <5> HIDE DEF f
        <5> QED
          BY <1>00, <2>3, <5>1, SentRange
      <4>3. \A x \in Requests :
                /\ Foreign(f, x) => \A e \in Ends : Alike(x, net[e], m[e])
                /\ InOrder(net[q], x) /\ ~(f = Request(x) /\ Cancel(x) \in Range(net[q]))
                      => InOrder(m[q], x)
        BY <1>0, <1>00, <2>2, <2>3, SentIs
      <4> QED
        BY <4>1, <4>2, <4>3, <4>4
    <3> QED
      BY <1>2, <2>2, <3>1
  <2>5. Sends(p, net, o, handler, <<f>>)
    BY <1>4
  <2> HIDE DEF o, f
  <2>6. ASSUME NEW x \in Requests
        PROVE  /\ Sound(x, net, o, handler) /\ Sound(x, m, o, handler)
               /\ Live(x, m, end, cut, o, handler)
    <3>1. Sound(x, net, outcome, handler) /\ Live(x, net, end, cut, outcome, handler)
      BY ServedIs
    <3>2. CASE x # r
      <4>1. Sound(x, net, o, handler)
        BY <2>1, <3>1, <3>2, SameKeeps
      <4>2. \A e \in Ends : /\ Alike(x, net[e], m[e])
                            /\ Off(m, end, cut, e) <=> Off(net, end, cut, e)
        BY <2>4, <3>2
      <4> QED
        BY <2>1, <3>1, <3>2, <4>1, <4>2, AlikeKeeps
    <3>3. CASE x = r
      <4>1. Sound(r, net, o, handler)
        BY <1>0, <1>1, <1>2, <2>1 DEF Sound
      <4>2. /\ ~Answered(m[q], r) /\ Cancel(r) \notin Range(m[q]) /\ f \in Range(m[q])
        BY <1>2, <2>2, <2>4 DEF Answered
      <4>3. Sound(r, m, o, handler)
        BY <1>0, <1>1, <1>2, <2>1, <2>4, <4>1, <4>2 DEF Sound
      <4>4. Live(r, m, end, cut, o, handler)
        BY <1>0, <2>1, <4>2 DEF Live, f
      <4> QED
        BY <3>3, <4>1, <4>3, <4>4
    <3> QED
      BY <3>2, <3>3
  <2> QED
    <3>1. m = Sent(net, Other(p), f)
      BY <1>0, <2>3
    <3> QED
      BY <1>1, <2>1, <2>2, <2>5, <2>6, <3>1, SendsServes, ServedIs
<1> QED
  BY <1>0, <1>3, <1>4 DEF Ask

\* A request that is given up leaves its cancellation behind it.
LEMMA GivesUpServes ==
    ASSUME ServedInv, NEW r \in Requests, GivesUp(r)
    PROVE  Serves(net, end, cut, outcome, handler)'
<1>0. PICK p \in Ends, q \in Ends :
         /\ p = CallerOf[r] /\ q = Callee(r) /\ p # q
         /\ q = Other(p) /\ p = Other(q)
  BY OtherEnd DEF Callee
<1>00. net \in [Ends -> Seq(AFrame)]
  BY ServedIs
<1>1. /\ outcome[r] = "pending" /\ cut' = cut
      /\ Sound(r, net, outcome, handler)
  BY ServedIs DEF GivesUp
<1> DEFINE o == [outcome EXCEPT ![r] = "unknown"]
           f == Cancel(r)
<1>2. /\ o \in [Requests -> Outcomes] /\ o[r] = "unknown"
      /\ \A x \in Requests : x # r => o[x] = outcome[x]
  BY ServedIs DEF Outcomes
<1>3. f \in AFrame /\ f # Close /\ f \notin Answers(r) /\ f # Request(r)
      /\ \A x \in Requests : x # r => Foreign(f, x)
  BY FrameTypes, FramesDiffer
<1>4. PICK m : m = Sent(net, q, f)
  OBVIOUS
<1>5. /\ m[p] = net[p] /\ Range(m[q]) = Range(net[q]) \union {f}
      /\ \A e \in Ends : Off(m, end, cut, e) <=> Off(net, end, cut, e)
      /\ \A x \in Requests : x # r => \A e \in Ends : Alike(x, net[e], m[e])
      /\ InOrder(net[q], r) => InOrder(m[q], r)
  <2>1. /\ \A e \in Ends : \A y, c : Off(m, y, c, e) <=> Off(net, y, c, e)
        /\ m[p] = net[p] /\ Range(m[q]) = Range(net[q]) \union {f}
        /\ \A x \in Requests :
              /\ Foreign(f, x) => \A e \in Ends : Alike(x, net[e], m[e])
              /\ InOrder(net[q], x) /\ ~(f = Request(x) /\ Cancel(x) \in Range(net[q]))
                    => InOrder(m[q], x)
    <3>1. \A e \in Ends : \A y, c : Off(m, y, c, e) <=> Off(net, y, c, e)
      BY <1>0, <1>00, <1>3, <1>4, SentIs
    <3>2. m[p] = net[p]
      BY <1>0, <1>00, <1>3, <1>4, SentQueues
    <3>4. Range(m[q]) = Range(net[q]) \union {f}
      <4>1. f \in AFrame
        BY <1>3
      <4> HIDE DEF f
      <4> QED
        BY <1>00, <1>4, <4>1, SentRange
    <3>3. \A x \in Requests :
              /\ Foreign(f, x) => \A e \in Ends : Alike(x, net[e], m[e])
              /\ InOrder(net[q], x) /\ ~(f = Request(x) /\ Cancel(x) \in Range(net[q]))
                    => InOrder(m[q], x)
      BY <1>0, <1>00, <1>3, <1>4, SentIs
    <3> QED
      BY <3>1, <3>2, <3>3, <3>4
  <2> QED
    BY <1>3, <2>1
<1>6. Sends(p, net, o, handler, <<f>>)
  BY <1>0 DEF GivesUp, Cancelled
<1> HIDE DEF o, f
<1>7. ASSUME NEW x \in Requests
      PROVE  /\ Sound(x, net, o, handler) /\ Sound(x, m, o, handler)
             /\ Live(x, m, end, cut, o, handler)
  <2>1. Sound(x, net, outcome, handler) /\ Live(x, net, end, cut, outcome, handler)
    BY ServedIs
  <2>2. CASE x # r
    <3>1. Sound(x, net, o, handler)
      BY <1>2, <2>1, <2>2, SameKeeps
    <3>2. \A e \in Ends : /\ Alike(x, net[e], m[e])
                          /\ Off(m, end, cut, e) <=> Off(net, end, cut, e)
      BY <1>5, <2>2
    <3> QED
      BY <1>2, <2>1, <2>2, <3>1, <3>2, AlikeKeeps
  <2>3. CASE x = r
    <3>1. Sound(r, net, o, handler)
      BY <1>0, <1>1, <1>2 DEF Sound
    <3>2. (Answered(m[q], r) <=> Answered(net[q], r)) /\ Cancel(r) \in Range(m[q])
      BY <1>3, <1>5 DEF Answered, f
    <3>3. Request(r) \in Range(m[q]) <=> Request(r) \in Range(net[q])
      BY <1>3, <1>5
    <3>4. Sound(r, m, o, handler)
      BY <1>0, <1>2, <1>5, <3>1, <3>2, <3>3 DEF Sound
    <3>5. Live(r, m, end, cut, o, handler)
      BY <1>0, <1>2, <3>2 DEF Live
    <3> QED
      BY <2>3, <3>1, <3>4, <3>5
  <2> QED
    BY <2>2, <2>3
<1> QED
  <2>1. m = Sent(net, Other(p), f)
    BY <1>0, <1>4
  <2> QED
    BY <1>1, <1>2, <1>3, <1>6, <1>7, <2>1, SendsServes, ServedIs

\* The callee of r gives the one answer of r.
LEMMA AnswerServes ==
    ASSUME NEW n \in [Ends -> Seq(AFrame)], NEW r \in Requests, NEW k \in AHandler,
           outcome \in [Requests -> Outcomes], handler \in [Requests -> AHandler],
           end \in AEnd, Both(n, end, cut), cut' = cut,
           \A x \in Requests : Sound(x, n, outcome, handler),
           \A x \in Requests : x # r => Live(x, n, end, cut, outcome, handler),
           Request(r) \notin Range(n[Callee(r)]), ~Answered(n[CallerOf[r]], r),
           k.state # "none", ~k.eligible, k.state # "running" \/ k.aborted,
           NEW h, h = [handler EXCEPT ![r] = k],
           NEW f \in AFrame, f \in Answers(r), Sends(Callee(r), n, outcome, h, <<f>>)
    PROVE  Serves(net, end, cut, outcome, handler)'
<1>0. PICK p \in Ends, q \in Ends :
         /\ p = CallerOf[r] /\ q = Callee(r) /\ p # q
         /\ q = Other(p) /\ p = Other(q)
  BY OtherEnd DEF Callee
<1>1. /\ h \in [Requests -> AHandler] /\ h[r] = k
      /\ \A x \in Requests : x # r => h[x] = handler[x]
  OBVIOUS
<1>2. f \in AFrame /\ f # Close /\ f # Cancel(r) /\ f # Request(r)
      /\ \A x \in Requests : x # r => Foreign(f, x)
  BY FramesDiffer
<1>3. PICK m : m = Sent(n, p, f)
  OBVIOUS
<1>4. /\ m[q] = n[q] /\ Range(m[p]) = Range(n[p]) \union {f}
      /\ \A e \in Ends : Off(m, end, cut, e) <=> Off(n, end, cut, e)
      /\ \A x \in Requests : x # r => \A e \in Ends : Alike(x, n[e], m[e])
      /\ AnswerOnce(n[p], r) => AnswerOnce(m[p], r)
  <2>1. /\ \A e \in Ends : \A y, c : Off(m, y, c, e) <=> Off(n, y, c, e)
        /\ m[q] = n[q] /\ Range(m[p]) = Range(n[p]) \union {f}
        /\ \A x \in Requests :
              /\ Foreign(f, x) => \A e \in Ends : Alike(x, n[e], m[e])
              /\ AnswerOnce(n[p], x) /\ ~(f \in Answers(x) /\ Answered(n[p], x))
                    => AnswerOnce(m[p], x)
    <3>1. \A e \in Ends : \A y, c : Off(m, y, c, e) <=> Off(n, y, c, e)
      BY <1>0, <1>2, <1>3, SentIs
    <3>2. m[q] = n[q]
      BY <1>0, <1>2, <1>3, SentQueues
    <3>4. Range(m[p]) = Range(n[p]) \union {f}
      <4>1. f \in AFrame
        BY <1>2
      <4> QED
        BY <1>3, <4>1, SentRange
    <3>3. \A x \in Requests :
              /\ Foreign(f, x) => \A e \in Ends : Alike(x, n[e], m[e])
              /\ AnswerOnce(n[p], x) /\ ~(f \in Answers(x) /\ Answered(n[p], x))
                    => AnswerOnce(m[p], x)
      BY <1>0, <1>2, <1>3, SentIs
    <3> QED
      BY <3>1, <3>2, <3>3, <3>4
  <2> QED
    BY <1>0, <1>2, <2>1
<1>5. Sends(q, n, outcome, h, <<f>>)
  BY <1>0
<1>6. ASSUME NEW x \in Requests
      PROVE  /\ Sound(x, n, outcome, h) /\ Sound(x, m, outcome, h)
             /\ Live(x, m, end, cut, outcome, h)
  <2>1. Sound(x, n, outcome, handler)
    OBVIOUS
  <2>2. CASE x # r
    <3>1. Sound(x, n, outcome, h)
      BY <1>1, <2>1, <2>2, SameKeeps
    <3>2. \A e \in Ends : /\ Alike(x, n[e], m[e])
                          /\ Off(m, end, cut, e) <=> Off(n, end, cut, e)
      BY <1>4, <2>2
    <3>3. Live(x, n, end, cut, outcome, handler)
      BY <2>2
    <3>4. Sound(x, m, outcome, h)
      BY <1>1, <2>1, <2>2, <3>2, AlikeSound
    <3>5. Live(x, m, end, cut, outcome, h)
      BY <1>1, <2>2, <3>2, <3>3, AlikeKeeps
    <3> QED
      BY <3>1, <3>4, <3>5
  <2>3. CASE x = r
    <3>1. Sound(r, n, outcome, h)
      BY <1>0, <1>1, <2>1, <2>3 DEF Sound
    <3>2. Answered(m[p], r) /\ Request(r) \notin Range(m[q])
      BY <1>0, <1>4 DEF Answered
    <3>3. Sound(r, m, outcome, h)
      BY <1>0, <1>1, <1>2, <1>4, <3>1, <3>2 DEF Sound
    <3>4. Live(r, m, end, cut, outcome, h)
      BY <1>0, <1>1, <3>2 DEF Live
    <3> QED
      BY <2>3, <3>1, <3>3, <3>4
  <2> QED
    BY <2>2, <2>3
<1> QED
  <2>1. m = Sent(n, Other(q), f)
    BY <1>0, <1>3
  <2> QED
    BY <1>1, <1>2, <1>5, <1>6, <2>1, SendsServes

\* The handler that ran out of time gives its answer, and then has none to give.
LEMMA DeadlineServes ==
    ASSUME ServedInv, NEW r \in Requests, DeadlinePasses(r)
    PROVE  Serves(net, end, cut, outcome, handler)'
<1>1. /\ handler[r].state = "running" /\ handler[r].eligible /\ handler[r] \in AHandler
      /\ Sends(Callee(r), net, outcome, [handler EXCEPT ![r] = Suppressed(handler[r])],
               <<Late(r)>>)
      /\ Sound(r, net, outcome, handler) /\ cut' = cut
  BY ServedIs DEF DeadlinePasses
<1>2. Request(r) \notin Range(net[Callee(r)]) /\ ~Answered(net[CallerOf[r]], r)
  BY <1>1 DEF Sound
<1>3. PICK k : k = Suppressed(handler[r])
  OBVIOUS
<1>4. k \in AHandler /\ k.state # "none" /\ ~k.eligible /\ k.aborted
  BY <1>1, <1>3 DEF Suppressed, AHandler
<1>5. Late(r) \in Answers(r)
  BY DEF Late, Answers
<1>8. Late(r) \in AFrame
  BY <1>5 DEF AFrame
<1>6. PICK h : h = [handler EXCEPT ![r] = k]
  OBVIOUS
<1>7. Sends(Callee(r), net, outcome, h, <<Late(r)>>)
  BY <1>1, <1>3, <1>6
<1> QED
  BY <1>1, <1>2, <1>4, <1>5, <1>6, <1>7, <1>8, AnswerServes, ServedIs

\* A handler that returns gives the answer that is still due, and no other.
LEMMA ReturnServes ==
    ASSUME ServedInv, NEW r \in Requests, HandlerReturns(r)
    PROVE  Serves(net, end, cut, outcome, handler)'
<1>1. /\ handler[r].state = "running" /\ Sound(r, net, outcome, handler) /\ cut' = cut
      /\ Live(r, net, end, cut, outcome, handler)
  BY ServedIs DEF HandlerReturns
<1>2. PICK s \in {"done", "failed"} :
         IF handler[r].eligible
         THEN \E frames \in Told(r, s) :
                 Sends(Callee(r), net, outcome, [handler EXCEPT ![r] = Settled(s)], frames)
         ELSE Sends(Callee(r), net, outcome, [handler EXCEPT ![r] = Settled(s)], <<>>)
  BY DEF HandlerReturns
<1>3. PICK k : k = Settled(s)
  OBVIOUS
<1>4. k \in AHandler /\ k.state \notin {"none", "running"} /\ ~k.eligible
  BY <1>3 DEF Settled, AHandler
<1>5. PICK h : h = [handler EXCEPT ![r] = k]
  OBVIOUS
<1>6. CASE handler[r].eligible
  <2>1. PICK frames \in Told(r, s) : Sends(Callee(r), net, outcome, h, frames)
    BY <1>2, <1>3, <1>5, <1>6
  <2>2. PICK f \in Answers(r) : frames = <<f>>
    BY <2>1 DEF Told, Answers
  <2>5. f \in AFrame
    BY DEF AFrame
  <2>3. Request(r) \notin Range(net[Callee(r)]) /\ ~Answered(net[CallerOf[r]], r)
    BY <1>1, <1>6 DEF Sound
  <2>4. Sends(Callee(r), net, outcome, h, <<f>>)
    BY <2>1, <2>2
  <2> QED
    BY <1>1, <1>4, <1>5, <2>3, <2>4, <2>5, AnswerServes, ServedIs
<1>7. CASE ~handler[r].eligible
  <2>1. Sends(Callee(r), net, outcome, h, <<>>)
    BY <1>2, <1>3, <1>5, <1>7
  <2>2. h[r] = k /\ \A x \in Requests : x # r => h[x] = handler[x]
    BY <1>5, ServedIs
  <2>3. ASSUME NEW x \in Requests
        PROVE  Sound(x, net, outcome, h) /\ Live(x, net, end, cut, outcome, h)
    <3>1. CASE x = r
      <4>1. Sound(r, net, outcome, h)
        BY <1>1, <1>4, <2>2 DEF Sound
      <4>2. Live(r, net, end, cut, outcome, h)
        BY <1>1, <1>4, <1>7, <2>2 DEF Live
      <4> QED
        BY <3>1, <4>1, <4>2
    <3>2. CASE x # r
      <4>1. Sound(x, net, outcome, handler) /\ Live(x, net, end, cut, outcome, handler)
        BY ServedIs
      <4> QED
        BY <2>2, <3>2, <4>1, SameKeeps
    <3> QED
      BY <3>1, <3>2
  <2>4. Serves(net, end, cut, outcome, h)
    BY <2>3, ServedIs DEF Serves
  <2> QED
    BY <1>1, <2>1, <2>4, OtherEnd, SilenceServes, ServedIs
<1> QED
  BY <1>6, <1>7

\* What is left of the state when p has taken a frame.
LEMMA ReadServes ==
    ASSUME ServedInv, NEW p \in Ends, net[p] # <<>>, Head(net[p]) # Close,
           NEW n, n = Read(p)
    PROVE  /\ n \in [Ends -> Seq(AFrame)] /\ Both(n, end, cut)
           /\ n[p] = Tail(net[p]) /\ n[Other(p)] = net[Other(p)]
           /\ \A e \in Ends : Off(n, end, cut, e) <=> Off(net, end, cut, e)
           /\ \A x \in Requests :
                 /\ Sound(x, n, outcome, handler)
                 /\ Foreign(Head(net[p]), x) => Live(x, n, end, cut, outcome, handler)
<1>1. net \in [Ends -> Seq(AFrame)] /\ handler \in [Requests -> AHandler]
      /\ Both(net, end, cut)
  BY ServedIs
<1>2. n = [net EXCEPT ![p] = Tail(@)]
  BY DEF Read
<1>3. /\ n \in [Ends -> Seq(AFrame)]
      /\ n[p] = Tail(net[p]) /\ n[Other(p)] = net[Other(p)]
  BY <1>1, <1>2, ReadIs
<1>4. \A q \in Ends : Less(n[q], net[q])
  BY <1>1, <1>2, ReadIs
<1>5. \A q \in Ends : \A e, c : Off(n, e, c, q) <=> Off(net, e, c, q)
  BY <1>1, <1>2, ReadIs
<1>6. \A q \in Ends : Off(n, end, cut, q) <=> Off(net, end, cut, q)
  BY <1>5
<1>7. \A r \in Requests : Foreign(Head(net[p]), r) => \A q \in Ends : Alike(r, net[q], n[q])
  BY <1>1, <1>2, ReadIs
<1>8. Both(n, end, cut)
  BY <1>1, <1>6 DEF Both, Ends
<1>9. ASSUME NEW x \in Requests PROVE Sound(x, n, outcome, handler)
  <2>1. Sound(x, net, outcome, handler) /\ handler[x] \in AHandler
    BY ServedIs
  <2> QED
    BY <1>4, <2>1, SoundLess
<1>10. ASSUME NEW x \in Requests, Foreign(Head(net[p]), x)
       PROVE  Live(x, n, end, cut, outcome, handler)
  <2>1. Live(x, net, end, cut, outcome, handler)
    BY ServedIs
  <2>2. \A q \in Ends : /\ Alike(x, net[q], n[q])
                        /\ Off(n, end, cut, q) <=> Off(net, end, cut, q)
    BY <1>6, <1>7, <1>10
  <2> QED
    BY <2>1, <2>2, AlikeKeeps
<1> QED
  BY <1>3, <1>6, <1>8, <1>9, <1>10

\* A request taken is refused, late or running, and its cancellation still follows.
LEMMA RequestServes ==
    ASSUME ServedInv, NEW q \in Ends, RequestArrives(q)
    PROVE  Serves(net, end, cut, outcome, handler)'
<1>1. PICK n : n = Read(q)
  OBVIOUS
<1>2. PICK r : r = Head(net[q]).id
  OBVIOUS
<1>3. /\ net[q] # <<>> /\ Head(net[q]).type = "request" /\ cut' = cut
      /\ StateFits(net, outcome, handler)
  BY ServedIs DEF RequestArrives, Arriving
<1>4. /\ Head(net[q]) \in AFrame /\ Fits(Head(net[q]), q, outcome, handler)
      /\ Head(net[q]) \notin Range(n[q])
  BY <1>1, <1>3, ReadFits
<1>5. r \in Requests /\ Head(net[q]) = Request(r) /\ Request(r) # Close
  BY <1>2, <1>3, <1>4, FrameTypes, FramesDiffer
<1>6. q = Callee(r) /\ handler[r].state = "none"
  BY <1>2, <1>3, <1>4 DEF Fits
<1>7. /\ n \in [Ends -> Seq(AFrame)] /\ Both(n, end, cut)
      /\ n[q] = Tail(net[q]) /\ n[Other(q)] = net[Other(q)]
      /\ \A e \in Ends : Off(n, end, cut, e) <=> Off(net, end, cut, e)
      /\ \A x \in Requests :
            /\ Sound(x, n, outcome, handler)
            /\ Foreign(Head(net[q]), x) => Live(x, n, end, cut, outcome, handler)
  BY <1>1, <1>3, <1>5, ReadServes
<1>8. \A x \in Requests : x # r => Live(x, n, end, cut, outcome, handler)
  BY <1>5, <1>7, FramesDiffer
<1>9. Request(r) \notin Range(n[Callee(r)]) /\ ~Answered(n[CallerOf[r]], r)
  <2>1. Sound(r, n, outcome, handler)
    BY <1>5, <1>7
  <2> QED
    BY <1>4, <1>5, <1>6, <2>1 DEF Sound
<1>10. /\ outcome \in [Requests -> Outcomes] /\ handler \in [Requests -> AHandler]
       /\ end \in AEnd
  BY ServedIs
<1>11. ASSUME NEW x \in {"refused", "deadline"},
              Sends(q, n, outcome, [handler EXCEPT ![r] = Settled("refused")],
                    <<Response(r, x)>>)
       PROVE  Serves(net, end, cut, outcome, handler)'
  <2>1. PICK k : k = Settled("refused")
    OBVIOUS
  <2>2. k \in AHandler /\ k.state = "refused" /\ ~k.eligible
    BY <2>1 DEF Settled, AHandler
  <2>3. PICK h : h = [handler EXCEPT ![r] = k]
    OBVIOUS
  <2>4. PICK f : f = Response(r, x)
    OBVIOUS
  <2>5. f \in AFrame /\ f \in Answers(r)
    BY <1>5, <2>4, FrameTypes DEF Answers
  <2>6. Sends(Callee(r), n, outcome, h, <<f>>)
    BY <1>6, <1>11, <2>1, <2>3, <2>4
  <2> QED
    BY <1>3, <1>5, <1>7, <1>8, <1>9, <1>10, <2>2, <2>3, <2>5, <2>6, AnswerServes
<1>12. CASE Sends(q, n, outcome, [handler EXCEPT ![r] = Started], <<>>)
  <2>1. PICK h : h = [handler EXCEPT ![r] = Started]
    OBVIOUS
  <2>2. h[r] = Started /\ \A x \in Requests : x # r => h[x] = handler[x]
    BY <1>5, <1>10, <2>1
  <2>3. Started.state = "running" /\ ~Started.aborted /\ Started.eligible
    BY DEF Started
  <2>4. ASSUME NEW x \in Requests
        PROVE  Sound(x, n, outcome, h) /\ Live(x, n, end, cut, outcome, h)
    <3>1. CASE x # r
      BY <1>7, <1>8, <2>2, <3>1, SameKeeps
    <3>2. CASE x = r
      <4>1. Sound(r, n, outcome, handler)
        BY <1>5, <1>7
      <4>2. Sound(r, n, outcome, h)
        BY <1>9, <2>2, <2>3, <4>1 DEF Sound
      <4>3. Live(r, net, end, cut, outcome, handler) /\ Callee(r) \in Ends
        BY <1>5, ServedIs, OtherEnd
      <4>4. Request(r) \in Range(net[q])
        BY <1>3, <1>5, WithinTail, ServedIs
      <4>5. \/ outcome[r] = "pending" \/ Cancel(r) \in Range(net[q])
            \/ Off(net, end, cut, q)
        BY <1>6, <4>3, <4>4 DEF Live
      <4>6. Cancel(r) \in Range(net[q]) => Cancel(r) \in Range(n[q])
        <5>1. net[q] \in Seq(AFrame)
          BY ServedIs
        <5>2. Range(net[q]) = Range(n[q]) \union {Request(r)}
          BY <1>3, <1>5, <1>7, <5>1, LessTail
        <5> QED
          BY <1>5, <5>2, FramesDiffer
      <4>7. Live(r, n, end, cut, outcome, h)
        BY <1>6, <1>7, <2>2, <2>3, <4>5, <4>6 DEF Live
      <4> QED
        BY <3>2, <4>2, <4>7
    <3> QED
      BY <3>1, <3>2
  <2>5. Serves(n, end, cut, outcome, h)
    BY <1>7, <1>10, <2>4 DEF Serves
  <2>6. Sends(q, n, outcome, h, <<>>)
    BY <1>12, <2>1
  <2> QED
    BY <1>3, <1>7, <2>5, <2>6, SilenceServes
<1> QED
  BY <1>1, <1>2, <1>11, <1>12 DEF RequestArrives

\* The one answer settles the request, or finds it settled.
LEMMA ResponseServes ==
    ASSUME ServedInv, NEW p \in Ends, ResponseArrives(p)
    PROVE  Serves(net, end, cut, outcome, handler)'
<1>1. PICK n : n = Read(p)
  OBVIOUS
<1>2. PICK f : f = Head(net[p])
  OBVIOUS
<1>3. PICK r : r = f.id
  OBVIOUS
<1>4. /\ net[p] # <<>> /\ f.type = "response" /\ cut' = cut
      /\ net' = n /\ end' = end /\ handler' = handler
      /\ outcome' = IF outcome[r] = "pending"
                    THEN [outcome EXCEPT ![r] = Meant(f.result)] ELSE outcome
  BY <1>1, <1>2, <1>3 DEF ResponseArrives, Arriving
<1>5. net[p] \in Seq(AFrame) /\ f \in AFrame /\ f \in Range(net[p])
  BY <1>2, <1>4, WithinTail, ServedIs
<1>6. /\ r \in Requests /\ f.result \in {"ok", "failed", "refused", "deadline"}
      /\ f = Response(r, f.result)
  BY <1>3, <1>4, <1>5, FrameTypes
<1>7. f \in Answers(r) /\ f # Close
  BY <1>6, FramesDiffer DEF Answers
<1>8. /\ n \in [Ends -> Seq(AFrame)] /\ Both(n, end, cut) /\ n[p] = Tail(net[p])
      /\ \A x \in Requests :
            /\ Sound(x, n, outcome, handler)
            /\ Foreign(f, x) => Live(x, n, end, cut, outcome, handler)
  BY <1>1, <1>2, <1>4, <1>7, ReadServes
<1>9. Sound(r, net, outcome, handler) /\ Sound(r, n, outcome, handler)
  BY <1>6, <1>8, ServedIs
<1>10. Answered(net[p], r)
  BY <1>5, <1>7 DEF Answered
<1>11. p = CallerOf[r]
  <2>1. p = CallerOf[r] \/ p = Callee(r)
    BY <1>6, OtherEnd DEF Callee
  <2> QED
    BY <1>9, <1>10, <2>1 DEF Sound
<1>12. /\ handler[r].state # "none" /\ ~handler[r].eligible
       /\ Request(r) \notin Range(n[Callee(r)])
  BY <1>9, <1>10, <1>11 DEF Sound
<1>13. /\ outcome'[r] # "pending"
       /\ outcome'[r] = outcome[r] \/ outcome'[r] \notin {"none", "pending"}
       /\ \A x \in Requests : x # r => outcome'[x] = outcome[x]
  BY <1>4, <1>6, ServedIs DEF Meant
<1>14. ASSUME NEW x \in Requests
       PROVE  Sound(x, n, outcome', handler) /\ Live(x, n, end, cut, outcome', handler)
  <2>1. CASE x # r
    <3>1. Foreign(f, x)
      BY <1>6, <1>7, <2>1, FramesDiffer
    <3> QED
      BY <1>8, <1>13, <2>1, <3>1, SameKeeps
  <2>2. CASE x = r
    <3>1. Sound(r, n, outcome', handler)
      BY <1>9, <1>12, <1>13 DEF Sound
    <3>2. Live(r, n, end, cut, outcome', handler)
      BY <1>12, <1>13 DEF Live
    <3> QED
      BY <2>2, <3>1, <3>2
  <2> QED
    BY <2>1, <2>2
<1>15. end \in AEnd
  BY ServedIs
<1> QED
  BY <1>4, <1>8, <1>14, <1>15 DEF Serves

\* A cancellation finds its request taken already, and aborts its handler.
LEMMA CancelServes ==
    ASSUME ServedInv, NEW q \in Ends, CancelArrives(q)
    PROVE  Serves(net, end, cut, outcome, handler)'
<1>1. PICK n : n = Read(q)
  OBVIOUS
<1>2. PICK f : f = Head(net[q])
  OBVIOUS
<1>3. PICK r : r = f.id
  OBVIOUS
<1>4. /\ net[q] # <<>> /\ f.type = "cancel" /\ cut' = cut
      /\ net' = n /\ end' = end /\ outcome' = outcome
      /\ handler' = IF r \in Running(q)
                    THEN [handler EXCEPT ![r] = Suppressed(handler[r])] ELSE handler
  BY <1>1, <1>2, <1>3 DEF CancelArrives, Arriving
<1>5. net[q] \in Seq(AFrame) /\ f \in AFrame /\ f \in Range(net[q])
  BY <1>2, <1>4, WithinTail, ServedIs
<1>6. r \in Requests /\ f = Cancel(r) /\ f # Close
  BY <1>3, <1>4, <1>5, FrameTypes, FramesDiffer
<1>7. /\ n \in [Ends -> Seq(AFrame)] /\ Both(n, end, cut) /\ n[q] = Tail(net[q])
      /\ \A x \in Requests :
            /\ Sound(x, n, outcome, handler)
            /\ Foreign(f, x) => Live(x, n, end, cut, outcome, handler)
  BY <1>1, <1>2, <1>4, <1>6, ReadServes
<1>8. Sound(r, net, outcome, handler) /\ Sound(r, n, outcome, handler)
  BY <1>6, <1>7, ServedIs
<1>9. q = Callee(r)
  <2>1. q = CallerOf[r] \/ q = Callee(r)
    BY <1>6, OtherEnd DEF Callee
  <2> QED
    BY <1>5, <1>6, <1>8, <2>1 DEF Sound
<1>10. outcome[r] # "pending" /\ InOrder(net[q], r)
  BY <1>5, <1>6, <1>8, <1>9 DEF Sound
<1>11. Request(r) \notin Range(n[q])
  BY <1>2, <1>4, <1>5, <1>6, <1>7, <1>10, LessTail
<1>12. /\ \A x \in Requests : x # r => handler'[x] = handler[x]
       /\ handler'[r] = handler[r] \/ handler'[r] = Suppressed(handler[r])
       /\ handler[r].state = "running" => handler'[r] = Suppressed(handler[r])
  <2>1. handler[r].state = "running" => r \in Running(q)
    BY <1>6, <1>9 DEF Running
  <2> QED
    BY <1>4, <1>6, <2>1, ServedIs
<1>13. ~handler'[r].eligible
  <2>1. handler[r] \in AHandler
    BY <1>6, ServedIs
  <2>2. ~Suppressed(handler[r]).eligible
    BY <2>1 DEF Suppressed, AHandler
  <2>3. handler[r].state # "running" => ~handler[r].eligible
    BY <1>8 DEF Sound
  <2> QED
    BY <1>12, <2>2, <2>3
<1>14. ASSUME NEW x \in Requests
       PROVE  Sound(x, n, outcome, handler') /\ Live(x, n, end, cut, outcome, handler')
  <2>1. CASE x # r
    <3>1. Foreign(f, x)
      BY <1>6, <2>1, FramesDiffer
    <3> QED
      BY <1>7, <1>12, <2>1, <3>1, SameKeeps
  <2>2. CASE x = r
    <3>1. Sound(r, n, outcome, handler')
      <4>1. handler[r] \in AHandler /\ \A e \in Ends : Less(n[e], n[e])
        BY <1>6, <1>7, ServedIs, LessSame
      <4> QED
        BY <1>6, <1>8, <1>12, <4>1, SoundLess
    <3>2. Live(r, n, end, cut, outcome, handler')
      BY <1>9, <1>10, <1>11, <1>13 DEF Live
    <3> QED
      BY <2>2, <3>1, <3>2
  <2> QED
    BY <2>1, <2>2
<1>15. end \in AEnd
  BY ServedIs
<1> QED
  BY <1>4, <1>7, <1>14, <1>15 DEF Serves

LEMMA ClosingServes ==
    ASSUME ServedInv, NEW p \in Ends, Shuts(p, net, outcome, handler), cut' = cut
    PROVE  Serves(net, end, cut, outcome, handler)'
BY ShutsServes, ServedIs

\* An end takes a frame that is about no request.
LEMMA TakesServes ==
    ASSUME ServedInv, NEW p \in Ends, net[p] # <<>>,
           Head(net[p]) \in {Hello, Ack, Event}, cut' = cut,
           \/ Shuts(p, Read(p), outcome, handler)
           \/ /\ net' = Read(p) /\ outcome' = outcome /\ handler' = handler
              /\ end' = end \/ (end[p] = "opening" /\ end' = [end EXCEPT ![p] = "open"])
    PROVE  Serves(net, end, cut, outcome, handler)'
<1>1. PICK n : n = Read(p)
  OBVIOUS
<1>2. Head(net[p]) # Close /\ \A x \in Requests : Foreign(Head(net[p]), x)
  BY FramesDiffer DEF Hello, Ack, Event, Close
<1>3. /\ n \in [Ends -> Seq(AFrame)] /\ Both(n, end, cut)
      /\ \A x \in Requests :
            /\ Sound(x, n, outcome, handler)
            /\ Foreign(Head(net[p]), x) => Live(x, n, end, cut, outcome, handler)
  BY <1>1, <1>2, ReadServes
<1>4. /\ outcome \in [Requests -> Outcomes] /\ handler \in [Requests -> AHandler]
      /\ end \in AEnd
  BY ServedIs
<1>5. Serves(n, end, cut, outcome, handler)
  BY <1>2, <1>3, <1>4 DEF Serves
<1>6. CASE Shuts(p, Read(p), outcome, handler)
  BY <1>1, <1>3, <1>4, <1>6, ShutsServes
<1>7. CASE /\ net' = Read(p) /\ outcome' = outcome /\ handler' = handler
           /\ end' = end \/ (end[p] = "opening" /\ end' = [end EXCEPT ![p] = "open"])
  <2>1. end' \in AEnd /\ \A q \in Ends : end'[q] = "closed" <=> end[q] = "closed"
    BY <1>4, <1>7 DEF AEnd
  <2>2. \A q \in Ends : /\ \A r \in Requests : Alike(r, n[q], n[q])
                        /\ Off(n, end', cut, q) <=> Off(n, end, cut, q)
    BY <2>1, AlikeSame DEF Off
  <2>3. Serves(n, end', cut, outcome, handler)
    BY <1>5, <2>1, <2>2, AlikeServes
  <2> QED
    BY <1>1, <1>7, <2>3
<1> QED
  BY <1>6, <1>7

\* The handshake is about no request.
LEMMA HelloServes ==
    ASSUME ServedInv, HelloArrives
    PROVE  Serves(net, end, cut, outcome, handler)'
<1>1. PICK p \in Ends : p = "server"
  BY DEF Ends
<1>2. /\ net[p] # <<>> /\ Head(net[p]).type = "hello" /\ cut' = cut /\ end[p] = "opening"
      /\ \/ Shuts(p, Read(p), outcome, handler)
         \/ /\ end' = [end EXCEPT ![p] = "open"]
            /\ net' = Conveyed(Read(p), p, <<Ack>>)
            /\ outcome' = outcome /\ handler' = handler
  BY <1>1 DEF HelloArrives, Arriving
<1>3. Head(net[p]) = Hello
  <2>1. Head(net[p]) \in AFrame
    BY <1>2, WithinTail, ServedIs
  <2> QED
    BY <1>2, <2>1 DEF AFrame, Answers, Hello, Ack, Close, Event, Request, Cancel, Response
<1>4. CASE Shuts(p, Read(p), outcome, handler)
  BY <1>2, <1>3, <1>4, TakesServes
<1>5. CASE /\ end' = [end EXCEPT ![p] = "open"]
           /\ net' = Conveyed(Read(p), p, <<Ack>>)
           /\ outcome' = outcome /\ handler' = handler
  <2>1. PICK n : n = Read(p)
    OBVIOUS
  <2>2. Head(net[p]) # Close /\ \A x \in Requests : Foreign(Head(net[p]), x)
    BY <1>3, FramesDiffer DEF Hello, Close
  <2>3. /\ n \in [Ends -> Seq(AFrame)] /\ Both(n, end, cut)
        /\ \A x \in Requests :
              /\ Sound(x, n, outcome, handler)
              /\ Foreign(Head(net[p]), x) => Live(x, n, end, cut, outcome, handler)
    BY <1>2, <2>1, <2>2, ReadServes
  <2>4. end \in AEnd
    BY ServedIs
  <2>5. Serves(n, end, cut, outcome, handler)
    BY <2>2, <2>3, <2>4 DEF Serves
  <2>6. end' \in AEnd /\ \A q \in Ends : end'[q] = "closed" <=> end[q] = "closed"
    BY <1>2, <1>5, <2>4 DEF AEnd
  <2>7. PICK q \in Ends : q = Other(p)
    BY OtherEnd
  <2>8. Ack \in AFrame /\ Ack # Close /\ \A x \in Requests : Foreign(Ack, x)
    BY FrameTypes, FramesDiffer DEF Ack, Close
  <2>9. PICK m : m = Sent(n, q, Ack)
    OBVIOUS
  <2>10. /\ \A e \in Ends : \A y, c : Off(m, y, c, e) <=> Off(n, y, c, e)
         /\ \A x \in Requests : Foreign(Ack, x) => \A e \in Ends : Alike(x, n[e], m[e])
    BY <2>3, <2>8, <2>9, SentIs
  <2>11. net' = n \/ net' = m
    BY <1>5, <2>1, <2>7, <2>9 DEF Conveyed, Sent
  <2>12. \A e \in Ends : /\ \A r \in Requests : Alike(r, n[e], net'[e])
                         /\ Off(net', end, cut, e) <=> Off(n, end, cut, e)
    BY <2>8, <2>10, <2>11, AlikeSame
  <2>13. \A e \in Ends : Off(net', end', cut, e) <=> Off(n, end, cut, e)
    BY <2>6, <2>12 DEF Off
  <2>14. Serves(net', end', cut, outcome, handler)
    BY <2>5, <2>6, <2>12, <2>13, AlikeServes
  <2> QED
    BY <1>2, <1>5, <2>14
<1> QED
  BY <1>2, <1>4, <1>5

LEMMA AckServes ==
    ASSUME ServedInv, AckArrives
    PROVE  Serves(net, end, cut, outcome, handler)'
<1>1. PICK p \in Ends : p = "client"
  BY DEF Ends
<1>2. /\ net[p] # <<>> /\ Head(net[p]).type = "hello-ack" /\ cut' = cut /\ end[p] = "opening"
      /\ end' = [end EXCEPT ![p] = "open"] /\ net' = Read(p)
      /\ outcome' = outcome /\ handler' = handler
  BY <1>1 DEF AckArrives, Arriving
<1>3. Head(net[p]) = Ack
  <2>1. Head(net[p]) \in AFrame
    BY <1>2, WithinTail, ServedIs
  <2> QED
    BY <1>2, <2>1 DEF AFrame, Answers, Hello, Ack, Close, Event, Request, Cancel, Response
<1> QED
  BY <1>2, <1>3, TakesServes

\* Neither are the events, though too many of them close the connection.
LEMMA EventServes ==
    ASSUME ServedInv, NEW p \in Ends, EventArrives(p)
    PROVE  Serves(net, end, cut, outcome, handler)'
<1>1. /\ net[p] # <<>> /\ Head(net[p]).type = "event" /\ cut' = cut
      /\ \/ Shuts(p, Read(p), outcome, handler)
         \/ net' = Read(p) /\ outcome' = outcome /\ handler' = handler /\ end' = end
  BY DEF EventArrives, Arriving
<1>2. Head(net[p]) = Event
  <2>1. Head(net[p]) \in AFrame
    BY <1>1, WithinTail, ServedIs
  <2> QED
    BY <1>1, <2>1 DEF AFrame, Answers, Hello, Ack, Close, Event, Request, Cancel, Response
<1> QED
  BY <1>1, <1>2, TakesServes

LEMMA EmitServes ==
    ASSUME ServedInv, NEW p \in Ends, Emit(p)
    PROVE  Serves(net, end, cut, outcome, handler)'
<1>1. Sends(p, net, outcome, handler, <<Event>>) /\ cut' = cut
  BY DEF Emit
<1>2. PICK q \in Ends : q = Other(p)
  BY OtherEnd
<1>3. Event \in AFrame /\ Event # Close /\ \A x \in Requests : Foreign(Event, x)
  BY FrameTypes, FramesDiffer DEF Event, Close
<1>4. PICK m : m = Sent(net, q, Event)
  OBVIOUS
<1>5. net \in [Ends -> Seq(AFrame)]
  BY ServedIs
<1>6. /\ \A e \in Ends : \A y, c : Off(m, y, c, e) <=> Off(net, y, c, e)
      /\ \A x \in Requests : Foreign(Event, x) => \A e \in Ends : Alike(x, net[e], m[e])
  BY <1>3, <1>4, <1>5, SentIs
<1>7. \A e \in Ends : /\ \A r \in Requests : Alike(r, net[e], m[e])
                      /\ Off(m, end, cut, e) <=> Off(net, end, cut, e)
  BY <1>3, <1>6
<1>8. Serves(m, end, cut, outcome, handler)
  <2>1. Serves(net, end, cut, outcome, handler) /\ end \in AEnd
    BY ServedIs
  <2> QED
    BY <1>7, <2>1, AlikeServes
<1>9. \A r \in Requests : /\ Sound(r, m, outcome, handler)
                          /\ Live(r, m, end, cut, outcome, handler)
  BY <1>8 DEF Serves
<1>10. m = Sent(net, Other(p), Event)
  BY <1>2, <1>4
<1> QED
  BY <1>1, <1>3, <1>9, <1>10, SendsServes, ServedIs

\* The connection is over for both ends at once.
LEMMA LostServes ==
    ASSUME ServedInv, Breaks \/ FallsSilent
    PROVE  Serves(net, end, cut, outcome, handler)'
<1>1. /\ net \in [Ends -> Seq(AFrame)] /\ end \in AEnd
      /\ end' = end /\ outcome' = outcome /\ handler' = handler
      /\ \A r \in Requests : Sound(r, net, outcome, handler) /\ handler[r] \in AHandler
  BY ServedIs DEF Breaks, FallsSilent
<1>2. /\ \A q \in Ends : Less(net'[q], net[q])
      /\ \A q \in Ends : Off(net', end, cut', q)
  <2>1. CASE Breaks
    <3>1. PICK c \in Parted(net, "client"), s \in Parted(net, "server") :
             net' = [p \in Ends |-> IF p = "client" THEN c ELSE s]
      BY <2>1 DEF Breaks
    <3>2. "client" \in Ends /\ "server" \in Ends /\ cut' = cut
      BY <2>1 DEF Ends, Breaks
    <3>3. /\ Less(c, net["client"])
          /\ Close \in Range(c) \/ (Off(net, end, cut, "client") /\ c = net["client"])
      BY <1>1, <3>2, LessPart
    <3>4. /\ Less(s, net["server"])
          /\ Close \in Range(s) \/ (Off(net, end, cut, "server") /\ s = net["server"])
      BY <1>1, <3>2, LessPart
    <3>5. /\ net'["client"] = c /\ net'["server"] = s
          /\ \A q \in Ends : q = "client" \/ q = "server"
      BY <3>1 DEF Ends
    <3> QED
      BY <3>2, <3>3, <3>4, <3>5 DEF Off
  <2>2. CASE FallsSilent
    <3>1. cut' = TRUE /\ \A q \in Ends : net'[q] = <<>>
      BY <2>2 DEF FallsSilent
    <3> QED
      BY <1>1, <3>1, LessSame DEF Off
  <2> QED
    BY <2>1, <2>2
<1>3. ASSUME NEW r \in Requests
      PROVE  /\ Sound(r, net', outcome, handler)
             /\ Live(r, net', end, cut', outcome, handler)
  BY <1>1, <1>2, SoundLess, OffIsLive
<1>4. Both(net', end, cut')
  BY <1>2 DEF Both, Ends
<1> QED
  BY <1>1, <1>3, <1>4 DEF Serves

-----------------------------------------------------------------------------

\* Every step of the connection serves every request.
LEMMA InitServes == Init => ServedInv
<1> SUFFICES ASSUME Init PROVE ServedInv
  OBVIOUS
<1>1. IInv
  BY InitFits
<1>2. end \in AEnd /\ Ends = {"client", "server"}
  BY DEF Init, AEnd, Ends
<1>3. Range(<<>>) = {} /\ Range(<<Hello>>) = {Hello} /\ Len(<<>>) = 0 /\ Len(<<Hello>>) = 1
  BY DEF Range
<1>4. \A q \in Ends : /\ net[q] = <<>> \/ net[q] = <<Hello>>
                      /\ Len(net[q]) \in {0, 1} /\ Range(net[q]) \subseteq {Hello}
  BY <1>2, <1>3 DEF Init
<1>5. Close \notin {Hello} /\ ~cut /\ \A q \in Ends : end[q] = "opening"
  BY DEF Close, Hello, Init
<1>6. \A q \in Ends : ~Off(net, end, cut, q)
  BY <1>4, <1>5 DEF Off
<1>7. ASSUME NEW r \in Requests
      PROVE  /\ Sound(r, net, outcome, handler)
             /\ Live(r, net, end, cut, outcome, handler)
  <2>1. CallerOf[r] \in Ends /\ Callee(r) \in Ends
    BY OtherEnd
  <2>2. outcome[r] = "none" /\ handler[r] = Settled("none")
    BY DEF Init
  <2>3. Request(r) # Hello /\ Cancel(r) # Hello /\ Hello \notin Answers(r)
    BY FramesDiffer DEF Foreign
  <2>4. \A q \in Ends : /\ Request(r) \notin Range(net[q]) /\ Cancel(r) \notin Range(net[q])
                        /\ ~Answered(net[q], r)
    BY <1>4, <2>3 DEF Answered
  <2>5. \A q \in Ends : AnswerOnce(net[q], r) /\ InOrder(net[q], r)
    <3>1. ASSUME NEW q \in Ends, NEW i \in 1..Len(net[q]), NEW j \in 1..Len(net[q])
          PROVE  i = j /\ net[q][i] = Hello
      <4>1. CASE net[q] = <<>>
        <5>1. Len(net[q]) = 0
          BY <1>3, <4>1
        <5> QED
          BY <5>1
      <4>2. CASE net[q] = <<Hello>>
        <5>1. Len(net[q]) = 1 /\ net[q][1] = Hello
          BY <1>3, <4>2
        <5>2. i = 1 /\ j = 1
          BY <5>1
        <5> QED
          BY <5>1, <5>2
      <4> QED
        BY <1>4, <4>1, <4>2
    <3> QED
      BY <2>3, <3>1 DEF AnswerOnce, InOrder
  <2>6. Sound(r, net, outcome, handler)
    BY <2>1, <2>2, <2>4, <2>5 DEF Sound, Settled
  <2>7. Live(r, net, end, cut, outcome, handler)
    BY <2>1, <2>2, <2>4 DEF Live, Settled
  <2> QED
    BY <2>6, <2>7
<1>8. Both(net, end, cut)
  BY <1>6 DEF Both, Ends
<1> QED
  BY <1>1, <1>2, <1>7, <1>8 DEF ServedInv, Serves

LEMMA StepServes == ServedInv /\ [Next]_vars => ServedInv'
<1> SUFFICES ASSUME ServedInv, [Next]_vars PROVE ServedInv'
  OBVIOUS
<1>0. IInv'
  <2>1. IInv
    BY DEF ServedInv
  <2> QED
    BY <2>1, StepRefines
<1>1. ASSUME NEW r \in Requests,
             Ask(r) \/ GivesUp(r) \/ DeadlinePasses(r) \/ HandlerReturns(r)
      PROVE  Serves(net, end, cut, outcome, handler)'
  BY <1>1, AskServes, GivesUpServes, DeadlineServes, ReturnServes
<1>2. ASSUME NEW p \in Ends, Arrives(p)
      PROVE  Serves(net, end, cut, outcome, handler)'
  <2>1. CASE CloseArrives(p)
    BY <2>1, ClosingServes DEF CloseArrives
  <2> QED
    BY <1>2, <2>1, HelloServes, AckServes, RequestServes, ResponseServes, CancelServes,
       EventServes DEF Arrives
<1>3. ASSUME NEW p \in Ends, HandshakeTimesOut(p) \/ Closes(p) \/ HeartbeatTimesOut(p)
      PROVE  Serves(net, end, cut, outcome, handler)'
  BY <1>3, ClosingServes DEF HandshakeTimesOut, Closes, HeartbeatTimesOut
<1>4. ASSUME NEW p \in Ends, Emit(p)
      PROVE  Serves(net, end, cut, outcome, handler)'
  BY <1>4, EmitServes
<1>5. ASSUME UNCHANGED <<end, net, cut, outcome, handler>>
      PROVE  Serves(net, end, cut, outcome, handler)'
  <2>1. Serves(net, end, cut, outcome, handler)
    BY ServedIs
  <2> QED
    BY <1>5, <2>1
<1>6. ASSUME Breaks \/ FallsSilent
      PROVE  Serves(net, end, cut, outcome, handler)'
  BY <1>6, LostServes
<1>7. Serves(net, end, cut, outcome, handler)'
  <2>1. ASSUME NEW p \in Ends, EventHandled(p)
        PROVE  UNCHANGED <<end, net, cut, outcome, handler>>
    BY <2>1 DEF EventHandled
  <2> QED
    BY <1>1, <1>2, <1>3, <1>4, <1>5, <1>6, <2>1 DEF Next, vars
<1> QED
  BY <1>0, <1>7 DEF ServedInv

-----------------------------------------------------------------------------
(* What is promised of a request that is pending, and of one given up.     *)

\* Counting what there is at most one of.
LEMMA CountIs ==
    ASSUME NEW S, NEW P, P <=> S # {}, \A i, j \in S : i = j
    PROVE  Cardinality(S) = IF P THEN 1 ELSE 0
<1>1. CASE S = {}
  BY <1>1, FS_EmptySet
<1>2. CASE S # {}
  <2>1. PICK i : i \in S
    BY <1>2
  <2>2. S = {i}
    BY <2>1
  <2> QED
    BY <1>2, <2>2, FS_Singleton
<1> QED
  BY <1>1, <1>2

\* The promises of ProcessRpc, from the invariant.
LEMMA ServedIsPromised == ServedInv => PendingIsServed /\ AbandonedIsAborted
<1> SUFFICES ASSUME ServedInv PROVE PendingIsServed /\ AbandonedIsAborted
  OBVIOUS
<1>1. ASSUME NEW r \in Requests, NEW p, NEW q, p = CallerOf[r], q = Callee(r),
             NEW asked, asked = {i \in DOMAIN net[q] : net[q][i] = Request(r)},
             NEW answered, answered = {i \in DOMAIN net[p] : net[p][i] \in Answers(r)},
             NEW due, due = {h \in {handler[r]} : h.eligible},
             NEW left, left = Cardinality(asked) + Cardinality(answered) + Cardinality(due)
      PROVE  left <= 1 /\ (outcome[r] = "pending" => left = 1 \/ Deaf(net, p))
  <2>1. p \in Ends /\ q \in Ends
    BY <1>1, OtherEnd
  <2>2. /\ net[p] \in Seq(AFrame) /\ net[q] \in Seq(AFrame)
        /\ Sound(r, net, outcome, handler) /\ Live(r, net, end, cut, outcome, handler)
        /\ NetFits(net, outcome, handler)
    BY <2>1, ServedIs DEF StateFits
  <2>3. /\ DOMAIN net[p] = 1..Len(net[p]) /\ DOMAIN net[q] = 1..Len(net[q])
        /\ Range(net[p]) = {net[p][i] : i \in 1..Len(net[p])}
        /\ Range(net[q]) = {net[q][i] : i \in 1..Len(net[q])}
    BY <2>2, RangeIs, LenProperties
  <2>4. Cardinality(asked) = IF Request(r) \in Range(net[q]) THEN 1 ELSE 0
    <3>1. Once(net[q]) /\ Request(r).type = "request"
      BY <2>1, <2>2 DEF NetFits, Request
    <3>2. \A i, j \in asked : i = j
      BY <1>1, <2>3, <3>1 DEF Once
    <3>3. Request(r) \in Range(net[q]) <=> asked # {}
      BY <1>1, <2>3
    <3> QED
      BY <3>2, <3>3, CountIs
  <2>5. Cardinality(answered) = IF Answered(net[p], r) THEN 1 ELSE 0
    <3>1. \A i, j \in answered : i = j
      BY <1>1, <2>2, <2>3 DEF Sound, AnswerOnce
    <3>2. Answered(net[p], r) <=> answered # {}
      BY <1>1, <2>3 DEF Answered
    <3> QED
      BY <3>1, <3>2, CountIs
  <2>6. Cardinality(due) = IF handler[r].eligible THEN 1 ELSE 0
    <3>1. \A i, j \in due : i = j
      BY <1>1
    <3>2. handler[r].eligible <=> due # {}
      BY <1>1
    <3> QED
      BY <3>1, <3>2, CountIs
  <2>7. left = (IF Request(r) \in Range(net[q]) THEN 1 ELSE 0)
                 + (IF Answered(net[p], r) THEN 1 ELSE 0)
                 + (IF handler[r].eligible THEN 1 ELSE 0)
    BY <1>1, <2>4, <2>5, <2>6
  <2>8. /\ Request(r) \in Range(net[q]) => ~Answered(net[p], r) /\ ~handler[r].eligible
        /\ Answered(net[p], r) => ~handler[r].eligible
    BY <1>1, <2>2 DEF Sound
  <2>9. outcome[r] = "pending" => \/ Request(r) \in Range(net[q]) \/ Answered(net[p], r)
                                  \/ handler[r].eligible \/ Deaf(net, p)
    BY <1>1, <2>2 DEF Live, Off, Deaf, Holds
  <2> HIDE <1>1
  <2> QED
    BY <2>7, <2>8, <2>9
<1>2. PendingIsServed
  BY <1>1 DEF PendingIsServed
<1>3. ASSUME NEW r \in Requests, handler[r].state = "running", ~handler[r].aborted
      PROVE  \/ outcome[r] = "pending" \/ Holds(net, Callee(r), Cancel(r))
             \/ Deaf(net, Callee(r))
  <2>1. Sound(r, net, outcome, handler) /\ Live(r, net, end, cut, outcome, handler)
    BY ServedIs
  <2>2. handler[r].eligible
    BY <1>3, <2>1 DEF Sound
  <2> QED
    BY <2>1, <2>2 DEF Live, Off, Deaf, Holds
<1>4. AbandonedIsAborted
  BY <1>3 DEF AbandonedIsAborted
<1> QED
  BY <1>2, <1>4

\* Exactly one thing is left to happen to a pending request, unless the
\* connection is ending: no step of either end, of the network or of a timer
\* answers it twice or forgets it (#handleRequest, #runRequestHandler).
THEOREM PendingAlwaysServed == Spec => []PendingIsServed
<1>1. Init => ServedInv
  BY InitServes
<1>2. ServedInv /\ [Next]_vars => ServedInv'
  BY StepServes
<1>3. ServedInv => PendingIsServed
  BY ServedIsPromised
<1> QED
  BY <1>1, <1>2, <1>3, PTL DEF Spec

\* A handler whose caller has given up is aborted or is about to be, whatever
\* the order of the answer, the cancellation and the close (#handleCancel).
THEOREM AbandonedAlwaysAborted == Spec => []AbandonedIsAborted
<1>1. Init => ServedInv
  BY InitServes
<1>2. ServedInv /\ [Next]_vars => ServedInv'
  BY StepServes
<1>3. ServedInv => AbandonedIsAborted
  BY ServedIsPromised
<1> QED
  BY <1>1, <1>2, <1>3, PTL DEF Spec

=============================================================================
