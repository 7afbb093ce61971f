---------------------------- MODULE MobileChat_proofs ----------------------------
(***************************************************************************)
(* What holds of a chat on the mobile app for any number of Runs, events,  *)
(* openings of the chat and faults and any size of a page: one text makes  *)
(* one Run, whatever is lost and sent again, and a chat fails only when a  *)
(* request of it did.                                                      *)
(***************************************************************************)
EXTENDS MobileChat, SequenceTheorems, FiniteSetTheorems, TLAPS

-----------------------------------------------------------------------------
(* Types.                                                                  *)

Pages      == UNION {[S -> Nat] : S \in SUBSET Runs}
Views      == UNION {[S -> Seq(Nat)] : S \in SUBSET Runs}
ChatEvents == {Event(r, n) : r \in Runs, n \in Nat}
Frames ==
    ChatEvents
    \union {Subscribed(of) : of \in Nat} \union {Missing(of) : of \in Nat}
    \union {Refused(of) : of \in Nat} \union {Failed(of) : of \in Nat}
    \union {Page(of, f, n) : of \in Nat, f \in Pages, n \in Nat}
    \union {Accepted(of, r, n) : of \in Nat, r \in Runs, n \in Nat}
ChatAsks ==
    {Unsubscribing} \union {Subscribing(of) : of \in Nat}
    \union {Paging(of, n) : of \in Nat, n \in Nat}
    \union {Sending(of, r) : of \in Nat, r \in Runs}
PagingJob(e, f) == [kind |-> "paging", event |-> e, found |-> f]
Jobs == {NoJob, [kind |-> "subscribing"]}
            \union {PagingJob(e, f) : e \in ChatEvents \union {NoEvent}, f \in Pages}

LEMMA FrameKinds ==
    /\ \A m \in Frames :
          /\ m.kind \in {"event", "subscribed", "missing", "refused", "failed", "page", "accepted"}
          /\ m.kind = "event" => m \in ChatEvents /\ m.run \in Runs /\ m.seq \in Nat
                                 /\ m = Event(m.run, m.seq)
          /\ m.kind # "event" => m.of \in Nat
          /\ m.kind = "page" => m.found \in Pages /\ m.next \in Nat
                                /\ m = Page(m.of, m.found, m.next)
          /\ m.kind = "accepted" => m.run \in Runs /\ m.seq \in Nat
                                /\ m = Accepted(m.of, m.run, m.seq)
          /\ m.kind = "refused" => m = Refused(m.of)
          /\ m.kind = "failed" => m = Failed(m.of)
    /\ \A of, r, f, n :
         /\ Event(r, n).kind = "event" /\ Event(r, n).run = r /\ Event(r, n).seq = n
         /\ Subscribed(of).kind = "subscribed" /\ Subscribed(of).of = of
         /\ Missing(of).kind = "missing" /\ Missing(of).of = of
         /\ Refused(of).kind = "refused" /\ Refused(of).of = of
         /\ Failed(of).kind = "failed" /\ Failed(of).of = of
         /\ Page(of, f, n).kind = "page" /\ Page(of, f, n).of = of
         /\ Page(of, f, n).found = f /\ Page(of, f, n).next = n
         /\ Accepted(of, r, n).kind = "accepted" /\ Accepted(of, r, n).of = of
         /\ Accepted(of, r, n).run = r /\ Accepted(of, r, n).seq = n
    /\ \A r \in Runs, n \in Nat : Event(r, n) \in ChatEvents
    /\ ChatEvents \subseteq Frames
    /\ \A of \in Nat : /\ Subscribed(of) \in Frames /\ Missing(of) \in Frames
                     /\ Refused(of) \in Frames /\ Failed(of) \in Frames
    /\ \A of \in Nat, f \in Pages, n \in Nat : Page(of, f, n) \in Frames
    /\ \A of \in Nat, r \in Runs, n \in Nat : Accepted(of, r, n) \in Frames
<1>1. ASSUME NEW m \in Frames
      PROVE  \/ \E r \in Runs, n \in Nat : m = Event(r, n)
             \/ \E of \in Nat : \/ m = Subscribed(of) \/ m = Missing(of)
                               \/ m = Refused(of) \/ m = Failed(of)
             \/ \E of \in Nat, f \in Pages, n \in Nat : m = Page(of, f, n)
             \/ \E of \in Nat, r \in Runs, n \in Nat : m = Accepted(of, r, n)
    BY DEF Frames, ChatEvents
<1>2. ChatEvents \subseteq Frames /\ \A r \in Runs, n \in Nat : Event(r, n) \in ChatEvents
    BY DEF Frames, ChatEvents
<1>3. \A of \in Nat : /\ Subscribed(of) \in Frames /\ Missing(of) \in Frames
                     /\ Refused(of) \in Frames /\ Failed(of) \in Frames
    BY DEF Frames
<1>4. \A of \in Nat, f \in Pages, n \in Nat : Page(of, f, n) \in Frames
    BY DEF Frames
<1>5. \A of \in Nat, r \in Runs, n \in Nat : Accepted(of, r, n) \in Frames
    BY DEF Frames
<1>6. \A of, r, f, n :
         /\ Event(r, n).kind = "event" /\ Event(r, n).run = r /\ Event(r, n).seq = n
         /\ Subscribed(of).kind = "subscribed" /\ Subscribed(of).of = of
         /\ Missing(of).kind = "missing" /\ Missing(of).of = of
         /\ Refused(of).kind = "refused" /\ Refused(of).of = of
         /\ Failed(of).kind = "failed" /\ Failed(of).of = of
         /\ Page(of, f, n).kind = "page" /\ Page(of, f, n).of = of
         /\ Page(of, f, n).found = f /\ Page(of, f, n).next = n
         /\ Accepted(of, r, n).kind = "accepted" /\ Accepted(of, r, n).of = of
         /\ Accepted(of, r, n).run = r /\ Accepted(of, r, n).seq = n
    BY DEF Event, Subscribed, Missing, Refused, Failed, Page, Accepted
<1> HIDE DEF Frames, Pages, ChatEvents
<1>7. ASSUME NEW m \in Frames
      PROVE  /\ m.kind \in {"event", "subscribed", "missing", "refused", "failed", "page", "accepted"}
             /\ m.kind = "event" => m \in ChatEvents /\ m.run \in Runs /\ m.seq \in Nat
                                    /\ m = Event(m.run, m.seq)
             /\ m.kind # "event" => m.of \in Nat
             /\ m.kind = "page" => m.found \in Pages /\ m.next \in Nat
                                   /\ m = Page(m.of, m.found, m.next)
             /\ m.kind = "accepted" => m.run \in Runs /\ m.seq \in Nat
                                   /\ m = Accepted(m.of, m.run, m.seq)
             /\ m.kind = "refused" => m = Refused(m.of)
             /\ m.kind = "failed" => m = Failed(m.of)
    BY <1>1, <1>2, <1>6
<1> QED
    BY <1>2, <1>3, <1>4, <1>5, <1>6, <1>7

LEMMA EventKinds ==
    \A e \in ChatEvents : /\ e \in Frames /\ e.kind = "event" /\ e.run \in Runs /\ e.seq \in Nat
                          /\ e = Event(e.run, e.seq)
<1>1. ASSUME NEW e \in ChatEvents
      PROVE  \E r \in Runs, n \in Nat : e = Event(r, n)
    BY DEF ChatEvents
<1>2. \A r, n : Event(r, n).kind = "event" /\ Event(r, n).run = r /\ Event(r, n).seq = n
    BY DEF Event
<1>3. ChatEvents \subseteq Frames
    BY FrameKinds
<1> QED
    BY <1>1, <1>2, <1>3

LEMMA FrameMade ==
    ASSUME NEW of \in Nat, NEW r \in Runs, NEW n \in Nat
    PROVE  /\ Event(r, n) \in ChatEvents /\ Event(r, n).run = r /\ Event(r, n).seq = n
           /\ Event(r, n) \in Frames /\ Event(r, n).kind = "event"
           /\ Accepted(of, r, n) \in Frames /\ Accepted(of, r, n).kind = "accepted"
           /\ Accepted(of, r, n).of = of
           /\ Accepted(of, r, n).run = r /\ Accepted(of, r, n).seq = n
           /\ Seq(ChatEvents) \subseteq Seq(Frames)
<1>1. /\ Event(r, n) \in ChatEvents /\ Event(r, n).run = r /\ Event(r, n).seq = n
      /\ Event(r, n).kind = "event" /\ ChatEvents \subseteq Frames
    BY FrameKinds
<1>2. Accepted(of, r, n) \in Frames
    BY FrameKinds
<1>3. /\ Accepted(of, r, n).kind = "accepted" /\ Accepted(of, r, n).run = r
      /\ Accepted(of, r, n).seq = n /\ Accepted(of, r, n).of = of
    BY DEF Accepted
<1>4. Seq(ChatEvents) \subseteq Seq(Frames)
    BY <1>1, SeqMonotonic
<1> QED
    BY <1>1, <1>2, <1>3, <1>4

LEMMA AskKinds ==
    /\ \A m \in ChatAsks :
          /\ m.kind \in {"unsubscribe", "subscribe", "page", "send"}
          /\ m.kind # "unsubscribe" => m.of \in Nat
          /\ m.kind = "page" => m.after \in Nat /\ m = Paging(m.of, m.after)
          /\ m.kind = "send" => m.run \in Runs /\ m = Sending(m.of, m.run)
    /\ Unsubscribing \in ChatAsks /\ Unsubscribing.kind = "unsubscribe"
    /\ \A of, r, n :
         /\ Subscribing(of).kind = "subscribe" /\ Subscribing(of).of = of
         /\ Paging(of, n).kind = "page" /\ Paging(of, n).of = of /\ Paging(of, n).after = n
         /\ Sending(of, r).kind = "send" /\ Sending(of, r).of = of /\ Sending(of, r).run = r
    /\ \A of \in Nat : Subscribing(of) \in ChatAsks
    /\ \A of \in Nat, n \in Nat : Paging(of, n) \in ChatAsks
    /\ \A of \in Nat, r \in Runs : Sending(of, r) \in ChatAsks
<1>1. ASSUME NEW m \in ChatAsks
      PROVE  \/ m = Unsubscribing
             \/ \E of \in Nat : m = Subscribing(of)
             \/ \E of \in Nat, n \in Nat : m = Paging(of, n)
             \/ \E of \in Nat, r \in Runs : m = Sending(of, r)
    BY DEF ChatAsks
<1>2. /\ Unsubscribing \in ChatAsks /\ \A of \in Nat : Subscribing(of) \in ChatAsks
      /\ \A of \in Nat, n \in Nat : Paging(of, n) \in ChatAsks
      /\ \A of \in Nat, r \in Runs : Sending(of, r) \in ChatAsks
    BY DEF ChatAsks
<1>3. /\ Unsubscribing.kind = "unsubscribe"
      /\ \A of, r, n :
           /\ Subscribing(of).kind = "subscribe" /\ Subscribing(of).of = of
           /\ Paging(of, n).kind = "page" /\ Paging(of, n).of = of /\ Paging(of, n).after = n
           /\ Sending(of, r).kind = "send" /\ Sending(of, r).of = of /\ Sending(of, r).run = r
    BY DEF Unsubscribing, Subscribing, Paging, Sending
<1> HIDE DEF ChatAsks
<1>4. ASSUME NEW m \in ChatAsks
      PROVE  /\ m.kind \in {"unsubscribe", "subscribe", "page", "send"}
             /\ m.kind # "unsubscribe" => m.of \in Nat
             /\ m.kind = "page" => m.after \in Nat /\ m = Paging(m.of, m.after)
             /\ m.kind = "send" => m.run \in Runs /\ m = Sending(m.of, m.run)
    BY <1>1, <1>3
<1> QED
    BY <1>2, <1>3, <1>4

LEMMA JobKinds ==
    /\ \A j \in Jobs :
          /\ j.kind \in {"none", "subscribing", "paging"}
          /\ j.kind = "none" <=> j = NoJob
          /\ j.kind = "paging" => /\ j.event \in ChatEvents \union {NoEvent}
                                  /\ j.found \in Pages
                                  /\ j = PagingJob(j.event, j.found)
    /\ NoJob \in Jobs /\ [kind |-> "subscribing"] \in Jobs
    /\ \A e \in ChatEvents \union {NoEvent}, f \in Pages : PagingJob(e, f) \in Jobs
    /\ NoJob.kind = "none" /\ [kind |-> "subscribing"].kind = "subscribing"
    /\ \A e, f : /\ PagingJob(e, f).kind = "paging" /\ PagingJob(e, f).event = e
                 /\ PagingJob(e, f).found = f
<1> HIDE DEF Pages, ChatEvents, NoEvent
<1>1. ASSUME NEW j \in Jobs
      PROVE  \/ j = NoJob \/ j = [kind |-> "subscribing"]
             \/ \E e \in ChatEvents \union {NoEvent}, f \in Pages : j = PagingJob(e, f)
    BY DEF Jobs
<1>2. /\ NoJob \in Jobs /\ [kind |-> "subscribing"] \in Jobs
      /\ \A e \in ChatEvents \union {NoEvent}, f \in Pages : PagingJob(e, f) \in Jobs
    BY DEF Jobs
<1>3. /\ NoJob.kind = "none" /\ [kind |-> "subscribing"].kind = "subscribing"
      /\ \A e, f : /\ PagingJob(e, f).kind = "paging" /\ PagingJob(e, f).event = e
                   /\ PagingJob(e, f).found = f
    BY DEF NoJob, PagingJob
<1> HIDE DEF Jobs
<1> QED
    BY <1>1, <1>2, <1>3

LEMMA PageKinds ==
    /\ <<>> \in Pages /\ <<>> \in Views /\ DOMAIN <<>> = {}
    /\ \A f \in Pages : DOMAIN f \subseteq Runs /\ \A r \in DOMAIN f : f[r] \in Nat
    /\ \A f \in Views : DOMAIN f \subseteq Runs /\ \A r \in DOMAIN f : f[r] \in Seq(Nat)
<1>1. <<>> \in [{} -> Nat] /\ <<>> \in [{} -> Seq(Nat)] /\ DOMAIN <<>> = {}
    OBVIOUS
<1>2. <<>> \in Pages /\ <<>> \in Views
    BY <1>1 DEF Pages, Views
<1>3. ASSUME NEW f \in Pages PROVE DOMAIN f \subseteq Runs /\ \A r \in DOMAIN f : f[r] \in Nat
    BY DEF Pages
<1>4. ASSUME NEW f \in Views
      PROVE  DOMAIN f \subseteq Runs /\ \A r \in DOMAIN f : f[r] \in Seq(Nat)
    BY DEF Views
<1> QED
    BY <1>1, <1>2, <1>3, <1>4

ChatData ==
    /\ log \in [Runs -> [seq : Nat, end : Nat]]
    /\ made \in Seq(Runs) /\ alive \in SUBSET Runs /\ deleted \in BOOLEAN
    /\ starting \in [run : Runs \union {0}, of : Nat]
    /\ starting.run = 0 => starting = NoSend
    /\ route \in SUBSET Runs /\ subscribed \in BOOLEAN
    /\ toServer \in Seq(ChatAsks) /\ toClient \in Seq(Frames)
    /\ screen \in [id : Nat, phase : {"none", "loading", "ready", "error"},
                   why : {"none", "request", "absent", "gap"}]
    /\ view \in Views
    /\ provisional \in SUBSET ChatEvents /\ batch \in SUBSET ChatEvents
    /\ draining \in BOOLEAN /\ job \in Jobs
    /\ draft \in Nat /\ asked \in [Runs -> Nat]
    /\ pending \in [run : Runs \union {0}, draft : Nat]
    /\ pending.run = 0 => pending = NoReserve
    /\ sending \in BOOLEAN /\ chatFaults \in 0..MaxChatFaults

\* The queues.
LEMMA Added ==
    ASSUME NEW S, NEW q \in Seq(S), NEW p \in Seq(S), NEW t, t = q \o p
    PROVE  /\ t \in Seq(S)
           /\ \A i \in DOMAIN q : i \in DOMAIN t /\ t[i] = q[i]
           /\ \A i \in DOMAIN t : \/ i \in DOMAIN q /\ t[i] = q[i]
                                  \/ \E j \in DOMAIN p : i = Len(q) + j /\ t[i] = p[j]
           /\ \A j \in DOMAIN p : Len(q) + j \in DOMAIN t /\ t[Len(q) + j] = p[j]
           /\ DOMAIN t = 1..(Len(q) + Len(p)) /\ DOMAIN q = 1..Len(q) /\ DOMAIN p = 1..Len(p)
           /\ Len(q) \in Nat /\ Len(p) \in Nat
<1>1. /\ t \in Seq(S) /\ Len(t) = Len(q) + Len(p) /\ Len(q) \in Nat /\ Len(p) \in Nat
      /\ DOMAIN t = 1..(Len(q) + Len(p)) /\ DOMAIN q = 1..Len(q) /\ DOMAIN p = 1..Len(p)
      /\ \A i \in 1..(Len(q) + Len(p)) : t[i] = IF i <= Len(q) THEN q[i] ELSE p[i - Len(q)]
    BY ConcatProperties, LenProperties
<1>2. ASSUME NEW i \in DOMAIN t
      PROVE  \/ i \in DOMAIN q /\ t[i] = q[i]
             \/ \E j \in DOMAIN p : i = Len(q) + j /\ t[i] = p[j]
  <2>1. CASE i <= Len(q)
    BY <1>1, <2>1
  <2>2. CASE i > Len(q)
    <3>1. i - Len(q) \in DOMAIN p /\ i = Len(q) + (i - Len(q)) /\ t[i] = p[i - Len(q)]
      BY <1>1, <2>2
    <3> QED
      BY <3>1
  <2> QED
    BY <1>1, <2>1, <2>2
<1>3. \A j \in DOMAIN p : Len(q) + j \in DOMAIN t /\ t[Len(q) + j] = p[j]
  BY <1>1
<1>4. \A i \in DOMAIN q : i \in DOMAIN t /\ t[i] = q[i]
  BY <1>1
<1> QED
  BY <1>1, <1>2, <1>3, <1>4

LEMMA AddedOne ==
    ASSUME NEW S, NEW q \in Seq(S), NEW m \in S, NEW t, t = Append(q, m)
    PROVE  /\ t \in Seq(S) /\ t = q \o <<m>>
           /\ \A i \in DOMAIN q : i \in DOMAIN t /\ t[i] = q[i]
           /\ \A i \in DOMAIN t : i \in DOMAIN q \/ i = Len(q) + 1
           /\ Len(q) + 1 \in DOMAIN t /\ t[Len(q) + 1] = m
           /\ DOMAIN t = 1..(Len(q) + 1) /\ DOMAIN q = 1..Len(q) /\ Len(q) \in Nat
OBVIOUS

LEMMA Taken ==
    ASSUME NEW S, NEW q \in Seq(S), q # <<>>, NEW t, t = Tail(q)
    PROVE  /\ t \in Seq(S) /\ Head(q) \in S /\ Head(q) = q[1] /\ 1 \in DOMAIN q
           /\ \A i \in DOMAIN t : i \in Nat /\ i >= 1 /\ i + 1 \in DOMAIN q /\ t[i] = q[i + 1]
           /\ \A i \in DOMAIN q : i \in Nat /\ (i = 1 \/ (i > 1 /\ i - 1 \in DOMAIN t /\ t[i - 1] = q[i]))
<1>1. /\ t \in Seq(S) /\ Head(q) \in S /\ Len(t) = Len(q) - 1 /\ Len(q) \in Nat /\ Len(q) > 0
      /\ \A i \in 1..Len(t) : t[i] = q[i + 1]
    BY HeadTailProperties, EmptySeq, LenProperties
<1>2. DOMAIN t = 1..Len(t) /\ DOMAIN q = 1..Len(q) /\ Head(q) = q[1]
    BY <1>1
<1> QED
    BY <1>1, <1>2

-----------------------------------------------------------------------------
(* What the server publishes.                                              *)

\* A finite set in a sequence, each element once.
LEMMA InSequence ==
    ASSUME NEW S, IsFiniteSet(S), NEW f, f = SetToSeq(S)
    PROVE  /\ f \in Seq(S) /\ Cardinality(S) \in Nat /\ f \in [1..Cardinality(S) -> S]
           /\ \A i, j \in DOMAIN f : f[i] = f[j] => i = j
           /\ \A x \in S : \E i \in DOMAIN f : f[i] = x
<1> DEFINE n == Cardinality(S)
<1>1. n \in Nat /\ \E g : g \in Bijection(1..n, S)
    BY FS_CardinalityType DEF ExistsBijection
<1>2. \E g : g \in [1..n -> S] /\ IsInjective(g)
    BY <1>1 DEF Bijection, Injection
<1>3. f \in [1..n -> S] /\ IsInjective(f)
    BY <1>2 DEF SetToSeq
<1>4. f \in Injection(1..n, S) /\ IsFiniteSet(1..n) /\ Cardinality(1..n) = n
    BY <1>1, <1>3, FS_Interval DEF Injection
<1>5. f \in Surjection(1..n, S)
    BY <1>4, FS_Injection
<1> QED
    BY <1>1, <1>3, <1>5 DEF IsInjective, Surjection

\* The last events of Runs that a restart left: one of each.
LEMMA FinalEventsAre ==
    ASSUME ChatData
    PROVE  /\ FinalEvents \in Seq(ChatEvents)
           /\ \A i \in DOMAIN FinalEvents :
                 \E r \in Orphans : /\ r \in route \/ subscribed
                                    /\ FinalEvents[i] = Event(r, log[r].seq + 1)
           /\ \A i, j \in DOMAIN FinalEvents :
                 FinalEvents[i].run = FinalEvents[j].run => i = j
<1> DEFINE S == {r \in Orphans : r \in route \/ subscribed}
           f == SetToSeq(S)
<1>1. S \subseteq Runs /\ IsFiniteSet(S)
    BY ChatAssumption, FS_Subset DEF Orphans
<1>2. /\ f \in Seq(S) /\ Cardinality(S) \in Nat /\ f \in [1..Cardinality(S) -> S]
      /\ \A i, j \in DOMAIN f : f[i] = f[j] => i = j
    BY <1>1, InSequence
<1>3. FinalEvents = [i \in DOMAIN f |-> Event(f[i], log[f[i]].seq + 1)]
    BY DEF FinalEvents
<1> HIDE DEF f
<1>4. \A i \in DOMAIN f : f[i] \in S /\ FinalEvents[i] = Event(f[i], log[f[i]].seq + 1)
    BY <1>2, <1>3
<1>5. \A r \in S : r \in Runs /\ log[r].seq + 1 \in Nat
    BY <1>1 DEF ChatData
<1>6. \A i \in DOMAIN f : FinalEvents[i] \in ChatEvents /\ FinalEvents[i].run = f[i]
    BY <1>4, <1>5, FrameKinds
<1>7. DOMAIN f = 1..Cardinality(S)
    BY <1>2
<1>8. FinalEvents \in [1..Cardinality(S) -> ChatEvents]
    BY <1>3, <1>6, <1>7
<1>9. FinalEvents \in Seq(ChatEvents) /\ DOMAIN FinalEvents = DOMAIN f
    BY <1>2, <1>7, <1>8
<1> QED
    BY <1>2, <1>4, <1>6, <1>9

LEMMA PublishIs ==
    ASSUME ChatData, NEW r \in Runs, NEW n \in Nat
    PROVE  /\ Publish(r, n) \in Seq(Frames)
           /\ Publish(r, n) = IF r \in route \/ subscribed THEN <<Event(r, n)>> ELSE <<>>
BY FrameKinds DEF Publish

\* What is finalized.
LEMMA FinalizedIs ==
    ASSUME ChatData, NEW S
    PROVE  /\ Finalized(S) \in [Runs -> [seq : Nat, end : Nat]]
           /\ \A r \in Runs :
                 /\ r \in S /\ Orphan(r) =>
                        Finalized(S)[r].seq = log[r].seq + 1 /\ Finalized(S)[r].end = log[r].seq + 1
                 /\ ~(r \in S /\ Orphan(r)) => Finalized(S)[r] = log[r]
<1>1. \A r \in Runs : Ended(log[r]) \in [seq : Nat, end : Nat]
    BY DEF ChatData, Ended
<1> QED
    BY <1>1 DEF Finalized, ChatData, Ended

LEMMA MakesIs ==
    ASSUME ChatData, NEW r \in Runs, log[r].seq = 0, Makes(r)
    PROVE  /\ log' \in [Runs -> [seq : Nat, end : Nat]]
           /\ log'[r].seq = 1 /\ log'[r].end = log[r].end
           /\ \A q \in Runs \ {r} :
                 /\ Orphan(q) => log'[q].seq = log[q].seq + 1 /\ log'[q].end = log[q].seq + 1
                 /\ ~Orphan(q) => log'[q] = log[q]
           /\ made' = Append(made, r) /\ made' \in Seq(Runs)
           /\ alive' = alive \union {r}
<1>0. log \in [Runs -> [seq : Nat, end : Nat]] /\ made \in Seq(Runs)
    BY DEF ChatData
<1> DEFINE F == Finalized(Runs)
<1>1. ~Orphan(r)
    BY <1>0 DEF Orphan
<1>2. /\ F \in [Runs -> [seq : Nat, end : Nat]]
      /\ \A q \in Runs :
            /\ Orphan(q) => /\ F[q].seq = log[q].seq + 1
                            /\ F[q].end = log[q].seq + 1
            /\ ~Orphan(q) => F[q] = log[q]
    BY FinalizedIs
<1>3. log' = [F EXCEPT ![r] = Grown(@)]
    BY DEF Makes
<1> HIDE DEF F
<1>4. F[r] = log[r] /\ Grown(F[r]) = [seq |-> 1, end |-> log[r].end]
    BY <1>0, <1>1, <1>2 DEF Grown
<1>5. log' = [F EXCEPT ![r] = [seq |-> 1, end |-> log[r].end]]
    BY <1>3, <1>4
<1>6. /\ log' \in [Runs -> [seq : Nat, end : Nat]]
      /\ log'[r].seq = 1 /\ log'[r].end = log[r].end
      /\ \A q \in Runs \ {r} : log'[q] = F[q]
    BY <1>0, <1>2, <1>5
<1>7. made' = Append(made, r) /\ made' \in Seq(Runs) /\ alive' = alive \union {r}
    BY <1>0 DEF Makes
<1> QED
    BY <1>2, <1>6, <1>7

-----------------------------------------------------------------------------
(* Every step keeps the types.                                             *)

LEMMA ChatDataInit == ChatInit => ChatData
<1> SUFFICES ASSUME ChatInit PROVE ChatData
    OBVIOUS
<1>1. 0 \in 0..MaxChatFaults /\ <<>> \in Pages /\ <<>> \in Views /\ NoJob \in Jobs
    BY ChatAssumption, PageKinds, JobKinds
<1>2. /\ log \in [Runs -> [seq : Nat, end : Nat]] /\ asked \in [Runs -> Nat]
      /\ made \in Seq(Runs) /\ toServer \in Seq(ChatAsks) /\ toClient \in Seq(Frames)
    BY DEF ChatInit
<1>3. /\ starting \in [run : Runs \union {0}, of : Nat] /\ starting = NoSend
      /\ pending \in [run : Runs \union {0}, draft : Nat] /\ pending = NoReserve
    BY DEF ChatInit, NoSend, NoReserve, Nobody
<1> QED
    BY <1>1, <1>2, <1>3 DEF ChatInit, ChatData

\* What the controller and the screen hold.
ScreenData ==
    /\ screen \in [id : Nat, phase : {"none", "loading", "ready", "error"},
                   why : {"none", "request", "absent", "gap"}]
    /\ view \in Views
    /\ provisional \in SUBSET ChatEvents /\ batch \in SUBSET ChatEvents
    /\ draining \in BOOLEAN /\ job \in Jobs
WritingData ==
    /\ draft \in Nat /\ asked \in [Runs -> Nat]
    /\ pending \in [run : Runs \union {0}, draft : Nat]
    /\ pending.run = 0 => pending = NoReserve
    /\ sending \in BOOLEAN
SessionData ==
    /\ log \in [Runs -> [seq : Nat, end : Nat]]
    /\ made \in Seq(Runs) /\ alive \in SUBSET Runs /\ deleted \in BOOLEAN
    /\ starting \in [run : Runs \union {0}, of : Nat]
    /\ starting.run = 0 => starting = NoSend
    /\ route \in SUBSET Runs /\ subscribed \in BOOLEAN
QueueData == toServer \in Seq(ChatAsks) /\ toClient \in Seq(Frames)

LEMMA DataParts ==
    /\ ChatData <=> SessionData /\ QueueData /\ ScreenData /\ WritingData
                        /\ chatFaults \in 0..MaxChatFaults
    /\ ChatData' <=> SessionData' /\ QueueData' /\ ScreenData' /\ WritingData'
                        /\ chatFaults' \in 0..MaxChatFaults
BY DEF ChatData, SessionData, QueueData, ScreenData, WritingData

LEMMA SameScreen == ScreenData /\ UNCHANGED <<screen, view, work>> => ScreenData'
BY DEF ScreenData, work
LEMMA SameWriting == WritingData /\ UNCHANGED writing => WritingData'
BY DEF WritingData, writing

-----------------------------------------------------------------------------
(* What the server does to the Runs.                                       *)

\* The Runs of the Session are those that have events; no Run of it is missing, and
\* none is active once it has ended.
MadeInv ==
    /\ \A r \in Runs : log[r].seq > 0 <=> \E i \in DOMAIN made : made[i] = r
    /\ \A r \in Runs : log[r].end # 0 => log[r].seq > 0
    /\ \A r \in alive : log[r].seq > 0 /\ log[r].end = 0
    /\ starting # NoSend => log[starting.run].seq = 0 /\ alive = {}
    /\ deleted => alive = {} /\ starting = NoSend /\ \A r \in Runs : log[r].seq = 0

LEMMA StartingIs ==
    ASSUME ChatData
    PROVE  starting.of \in Nat /\ (starting # NoSend => starting.run \in Runs)
BY DEF ChatData

\* What every step of the server that lets a Run grow does: it publishes the next
\* event of some Runs, one of each, and may answer a send after them.  What grows
\* without being published was left by a restart.
Growth(evs, rep) ==
    /\ evs \in Seq(ChatEvents) /\ rep \in Seq(Frames)
    /\ toClient' = toClient \o (evs \o rep)
    /\ \A i \in DOMAIN evs : evs[i].seq = log[evs[i].run].seq + 1 /\ ~deleted
    /\ \A i, j \in DOMAIN evs : evs[i].run = evs[j].run => i = j
    /\ \A i \in DOMAIN rep :
          /\ rep[i].kind \in {"accepted", "refused", "failed"}
          /\ rep[i].kind = "accepted" => rep[i].seq = log'[rep[i].run].seq
    /\ ~deleted' => \A r \in Runs :
          \/ log'[r].seq = log[r].seq
          \/ /\ log'[r].seq = log[r].seq + 1
             /\ subscribed => Orphan(r) \/ \E i \in DOMAIN evs : evs[i].run = r
    /\ ~deleted' => \A i \in DOMAIN evs : log'[evs[i].run].seq = evs[i].seq
    /\ \A r \in Runs : Orphan(r)' => Orphan(r)
    /\ deleted => deleted'
    /\ subscribed' \/ deleted' \/ ~subscribed
    /\ ~deleted' => /\ Len(made) <= Len(made')
                    /\ \A k \in 1..Len(made) : made'[k] = made[k]
    /\ \/ toServer' = toServer
       \/ /\ toServer # <<>> /\ Head(toServer).kind = "send"
          /\ toServer' = Tail(toServer)
    /\ UNCHANGED <<screen, view, work, writing, chatFaults>>

\* What is answered, and to whom: nobody, the send whose Project was looked at, or the
\* next one.  A refusal tells that its Run does not exist.
Answer(rep) ==
    /\ \/ rep = <<>> /\ starting' = starting /\ toServer' = toServer
       \/ /\ starting # NoSend /\ starting' = NoSend /\ toServer' = toServer
          /\ \E m \in Frames : /\ rep = <<m>> /\ m.of = starting.of
                               /\ m.kind = "refused" => log' = log
       \/ /\ toServer # <<>> /\ Head(toServer).kind = "send" /\ toServer' = Tail(toServer)
          /\ \/ /\ rep = <<>> /\ starting = NoSend
                /\ starting' = [run |-> Head(toServer).run, of |-> Head(toServer).of]
             \/ /\ starting' = starting
                /\ \E m \in Frames :
                      /\ rep = <<m>> /\ m.of = Head(toServer).of
                      /\ m.kind = "refused" => log'[Head(toServer).run].seq = 0 /\ starting = NoSend
    /\ \A r \in Runs : log[r].seq = 0 /\ asked[r] # 0 /\ log'[r].seq # 0 =>
          \/ r = starting.run
          \/ toServer # <<>> /\ Head(toServer).kind = "send" /\ r = Head(toServer).run

Growing == \E evs, rep : Growth(evs, rep) /\ Answer(rep)

\* The parts of Growth that the queue to the client is about.
Publishes(evs, rep) ==
    /\ evs \in Seq(ChatEvents) /\ rep \in Seq(Frames)
    /\ \A i \in DOMAIN evs : evs[i].seq = log[evs[i].run].seq + 1 /\ ~deleted
    /\ \A i, j \in DOMAIN evs : evs[i].run = evs[j].run => i = j

LEMMA EventsAre ==
    ASSUME ChatData
    PROVE  \A r \in Runs : /\ log[r].seq \in Nat /\ log[r].end \in Nat /\ log[r].seq + 1 \in Nat
                           /\ log[r] \in [seq : Nat, end : Nat]
                           /\ Event(r, log[r].seq + 1) \in ChatEvents
                           /\ Event(r, log[r].seq + 1).run = r
                           /\ Event(r, log[r].seq + 1).seq = log[r].seq + 1
<1>1. \A r \in Runs : /\ log[r].seq \in Nat /\ log[r].end \in Nat /\ log[r].seq + 1 \in Nat
                      /\ log[r] \in [seq : Nat, end : Nat]
    BY DEF ChatData
<1> QED
    BY <1>1, FrameKinds

LEMMA OneEvent ==
    ASSUME ChatData, NEW r \in Runs, ~deleted
    PROVE  /\ Publishes(<<Event(r, log[r].seq + 1)>>, <<>>) /\ Publishes(<<>>, <<>>)
           /\ DOMAIN <<Event(r, log[r].seq + 1)>> = {1}
BY EventsAre DEF Publishes

\* The steps about one Run.
LEMMA GrowingRun ==
    ASSUME ChatData, MadeInv, NEW r \in Runs,
           RunGoesOn(r) \/ RunEnds(r) \/ OutcomeComesLate(r) \/ OrphanEnds(r)
    PROVE  SessionData' /\ MadeInv' /\ Growing
<1>1. /\ log \in [Runs -> [seq : Nat, end : Nat]] /\ log[r].seq + 1 \in Nat
      /\ made \in Seq(Runs) /\ Len(made) \in Nat /\ alive \in SUBSET Runs /\ toClient \in Seq(Frames)
    BY EventsAre, LenProperties DEF ChatData
<1>2. /\ Grown(log[r]) = [seq |-> log[r].seq + 1, end |-> log[r].end]
      /\ Ended(log[r]) = [seq |-> log[r].seq + 1, end |-> log[r].seq + 1]
    BY <1>1 DEF Grown, Ended
<1>3. /\ log' \in [Runs -> [seq : Nat, end : Nat]]
      /\ \A q \in Runs \ {r} : log'[q] = log[q]
      /\ log'[r].seq = log[r].seq + 1
      /\ log'[r].end = IF RunEnds(r) \/ OrphanEnds(r) THEN log[r].seq + 1 ELSE log[r].end
  <2>1. ASSUME NEW v \in [seq : Nat, end : Nat], log' = [log EXCEPT ![r] = v]
        PROVE  log' \in [Runs -> [seq : Nat, end : Nat]] /\ log'[r] = v
               /\ \A q \in Runs \ {r} : log'[q] = log[q]
    BY <1>1, <2>1
  <2>2. CASE RunEnds(r) \/ OrphanEnds(r)
    <3>1. log' = [log EXCEPT ![r] = Ended(log[r])]
        BY <1>1, <2>2 DEF RunEnds, OrphanEnds
    <3> QED
        BY <1>1, <1>2, <2>1, <2>2, <3>1
  <2>3. CASE ~(RunEnds(r) \/ OrphanEnds(r))
    <3>1. log' = [log EXCEPT ![r] = Grown(log[r])]
        BY <1>1, <2>3 DEF RunGoesOn, OutcomeComesLate
    <3> QED
        BY <1>1, <1>2, <2>1, <2>3, <3>1, EventsAre
  <2> QED
    BY <2>2, <2>3
<1>4. /\ UNCHANGED <<made, deleted, starting, subscribed, toServer, screen, view, work,
                     writing, chatFaults>>
      /\ alive' \in SUBSET alive /\ route' \in SUBSET route
      /\ toClient' \in {toClient, toClient \o Publish(r, log[r].seq + 1)}
      /\ ~RunEnds(r) => alive' = alive
      /\ RunEnds(r) => alive' = alive \ {r} /\ r \in alive
      /\ toClient' = toClient => Orphan(r) \/ toClient' = toClient \o Publish(r, log[r].seq + 1)
      /\ r \in alive \/ (log[r].end # 0 /\ ~deleted) \/ Orphan(r)
      /\ OrphanEnds(r) => Orphan(r)
    BY DEF RunGoesOn, RunEnds, OutcomeComesLate, OrphanEnds, hub
<1>5. SessionData'
    BY <1>3, <1>4 DEF ChatData, SessionData
<1>6. log[r].seq > 0 /\ ~deleted
    BY <1>1, <1>4, EventsAre DEF MadeInv, Orphan
<1>7. \A q \in Runs : (log[q].seq > 0 <=> log'[q].seq > 0) /\ (log[q].end # 0 => log'[q].end # 0)
    BY <1>3, <1>6, EventsAre
<1>8. MadeInv'
  <2>1. ASSUME NEW q \in alive' PROVE log'[q].seq > 0 /\ log'[q].end = 0
    <3>1. q \in alive /\ q \in Runs /\ log[q].end = 0 /\ log[q].seq > 0
        BY <1>1, <1>4 DEF MadeInv
    <3>2. q = r => ~RunEnds(r) /\ ~OrphanEnds(r)
        BY <1>4, <3>1 DEF Orphan
    <3> QED
        BY <1>3, <1>7, <3>1, <3>2
  <2>2. \A q \in Runs : log'[q].end # 0 => log'[q].seq > 0
    BY <1>1, <1>3, <1>7, EventsAre DEF MadeInv
  <2>3. starting # NoSend => starting.run # r /\ starting.run \in Runs /\ alive = {}
    BY <1>6, StartingIs DEF MadeInv
  <2>4. \A q \in Runs : log'[q].seq > 0 <=> \E i \in DOMAIN made' : made'[i] = q
    BY <1>4, <1>7 DEF MadeInv
  <2>5. starting' # NoSend => log'[starting'.run].seq = 0 /\ alive' = {}
    BY <1>3, <1>4, <2>3 DEF MadeInv
  <2> QED
    BY <1>4, <1>6, <2>1, <2>2, <2>4, <2>5 DEF MadeInv
<1>9. \A q \in Runs : Orphan(q)' => Orphan(q)
  <2>1. ASSUME NEW q \in Runs, Orphan(q)' PROVE Orphan(q)
    <3>1. log'[q].end = 0 /\ q \notin alive'
        BY <2>1 DEF Orphan
    <3>2. q = r => ~RunEnds(r) /\ ~OrphanEnds(r)
        BY <1>1, <1>3, <3>1
    <3>3. q \notin alive
        BY <1>4, <3>1, <3>2
    <3>4. log[q].seq > 0 /\ log[q].end = 0
        BY <1>7, <2>1, <3>1 DEF Orphan
    <3> QED
        BY <3>3, <3>4 DEF Orphan
  <2> QED
    BY <2>1
<1>10. PICK evs : /\ evs = <<>> \/ evs = <<Event(r, log[r].seq + 1)>>
                  /\ toClient' = toClient \o evs
                  /\ subscribed => Orphan(r) \/ evs = <<Event(r, log[r].seq + 1)>>
  <2>1. toClient = toClient \o <<>>
    BY <1>1, ConcatEmptySeq
  <2>2. /\ Publish(r, log[r].seq + 1) \in {<<>>, <<Event(r, log[r].seq + 1)>>}
        /\ subscribed => Publish(r, log[r].seq + 1) = <<Event(r, log[r].seq + 1)>>
    BY DEF Publish
  <2>3. CASE toClient' = toClient \o Publish(r, log[r].seq + 1)
    BY <2>2, <2>3
  <2>4. CASE toClient' = toClient /\ Orphan(r)
    BY <2>1, <2>4
  <2> QED
    BY <1>4, <2>3, <2>4
<1>11. /\ evs \in Seq(ChatEvents) /\ evs \o <<>> = evs
       /\ \A i \in DOMAIN evs : i = 1 /\ evs[i].run = r /\ evs[i].seq = log[r].seq + 1
       /\ evs = <<Event(r, log[r].seq + 1)>> => 1 \in DOMAIN evs /\ evs[1].run = r
  <2>1. CASE evs = <<>>
    BY <2>1
  <2>2. CASE evs = <<Event(r, log[r].seq + 1)>>
    <3> DEFINE e == Event(r, log[r].seq + 1)
    <3>1. e \in ChatEvents /\ e.run = r /\ e.seq = log[r].seq + 1
        BY EventsAre
    <3>0. evs = <<e>>
        BY <2>2
    <3> HIDE DEF e
    <3>2. evs \in Seq(ChatEvents) /\ DOMAIN evs = {1} /\ evs[1] = e
        BY <3>0, <3>1
    <3>3. evs \o <<>> = evs
        BY <3>2, ConcatEmptySeq
    <3> QED
        BY <3>1, <3>2, <3>3
  <2> QED
    BY <1>10, <2>1, <2>2
<1>12. Growth(evs, <<>>)
  <2>1. <<>> \in Seq(Frames) /\ DOMAIN <<>> = {}
    OBVIOUS
  <2>2. toClient' = toClient \o (evs \o <<>>)
    BY <1>10, <1>11
  <2>3. \A q \in Runs :
          \/ log'[q].seq = log[q].seq
          \/ /\ log'[q].seq = log[q].seq + 1
             /\ subscribed => Orphan(q) \/ \E i \in DOMAIN evs : evs[i].run = q
    BY <1>3, <1>10, <1>11
  <2>4. \A i \in DOMAIN evs : log'[evs[i].run].seq = evs[i].seq
    BY <1>3, <1>11
  <2>5. /\ Len(made) <= Len(made') /\ \A k \in 1..Len(made) : made'[k] = made[k]
    BY <1>1, <1>4
  <2>6. \A i, j \in DOMAIN evs : evs[i].run = evs[j].run => i = j
    BY <1>11
  <2>7. \A i \in DOMAIN evs : evs[i].seq = log[evs[i].run].seq + 1 /\ ~deleted
    BY <1>6, <1>11
  <2> QED
    BY <1>4, <1>9, <1>11, <2>1, <2>2, <2>3, <2>4, <2>5, <2>6, <2>7 DEF Growth
<1>13. Answer(<<>>)
  <2>1. \A q \in Runs : log[q].seq = 0 => log'[q].seq = 0
    BY <1>3, <1>7, EventsAre
  <2> QED
    BY <1>4, <2>1 DEF Answer
<1> QED
    BY <1>5, <1>8, <1>12, <1>13 DEF Growing

\* The steps that make a Run.
LEMMA MakesInv ==
    ASSUME ChatData, MadeInv, NEW r \in Runs, log[r].seq = 0, ~deleted, alive = {}, Makes(r),
           starting' = NoSend, deleted' = deleted
    PROVE  /\ MadeInv'
           /\ \A q \in Runs : ~Orphan(q)'
           /\ \A q \in Runs :
                 \/ log'[q].seq = log[q].seq /\ q # r
                 \/ log'[q].seq = log[q].seq + 1 /\ (Orphan(q) \/ q = r)
           /\ \A q \in Orphans \union {r} : log'[q].seq = log[q].seq + 1
           /\ Len(made) <= Len(made') /\ \A k \in 1..Len(made) : made'[k] = made[k]
           /\ Len(made) \in Nat
<1>1. /\ \A q \in Runs : log[q].seq \in Nat /\ log[q].end \in Nat
      /\ made \in Seq(Runs) /\ Len(made) \in Nat
    BY EventsAre, LenProperties DEF ChatData
<1>2. /\ log'[r].seq = 1 /\ log'[r].end = log[r].end
      /\ \A q \in Runs \ {r} :
            /\ Orphan(q) => log'[q].seq = log[q].seq + 1 /\ log'[q].end = log[q].seq + 1
            /\ ~Orphan(q) => log'[q] = log[q]
      /\ made' = Append(made, r) /\ alive' = {r}
    BY MakesIs
<1>3. /\ Len(made') = Len(made) + 1 /\ \A k \in 1..Len(made) : made'[k] = made[k]
      /\ made'[Len(made) + 1] = r /\ DOMAIN made = 1..Len(made) /\ DOMAIN made' = 1..(Len(made) + 1)
    BY <1>1, <1>2, AppendProperties
<1>4. \A q \in Runs : \/ log'[q].seq = log[q].seq /\ q # r
                      \/ log'[q].seq = log[q].seq + 1 /\ (Orphan(q) \/ q = r)
  <2>1. log'[r].seq = log[r].seq + 1
    BY <1>2
  <2>2. \A q \in Runs \ {r} : \/ log'[q].seq = log[q].seq
                              \/ log'[q].seq = log[q].seq + 1 /\ Orphan(q)
    BY <1>2
  <2> QED
    BY <2>1, <2>2
<1>5. \A q \in Orphans \union {r} : log'[q].seq = log[q].seq + 1
    BY <1>2 DEF Orphans
<1>6. log[r].end = 0
    BY <1>1 DEF MadeInv
<1>7. \A q \in Runs : ~Orphan(q)'
  <2>1. ASSUME NEW q \in Runs, Orphan(q)' PROVE FALSE
    <3>1. q # r /\ log'[q].seq > 0 /\ log'[q].end = 0
        BY <1>2, <2>1 DEF Orphan
    <3>2. ~Orphan(q) /\ log'[q] = log[q]
        BY <1>1, <1>2, <3>1
    <3> QED
        BY <3>1, <3>2 DEF Orphan
  <2> QED
    BY <2>1
<1>8. \A q \in Runs : q # r => (log'[q].seq > 0 <=> log[q].seq > 0)
    BY <1>1, <1>2 DEF Orphan
<1>9. MadeInv'
  <2>1. ASSUME NEW q \in Runs PROVE log'[q].seq > 0 <=> \E i \in DOMAIN made' : made'[i] = q
    <3>1. CASE q = r
        BY <1>1, <1>2, <1>3, <3>1
    <3>2. CASE q # r
      <4>1. log[q].seq > 0 <=> \E i \in DOMAIN made : made[i] = q
        BY DEF MadeInv
      <4>2. (\E i \in DOMAIN made : made[i] = q) <=> \E i \in DOMAIN made' : made'[i] = q
        BY <1>1, <1>3, <3>2
      <4> QED
        BY <1>8, <3>2, <4>1, <4>2
    <3> QED
        BY <3>1, <3>2
  <2>2. ASSUME NEW q \in Runs, log'[q].end # 0 PROVE log'[q].seq > 0
    <3>1. q # r
        BY <1>2, <1>6, <2>2
    <3> QED
        BY <1>1, <1>2, <1>8, <2>2, <3>1 DEF MadeInv
  <2>3. \A q \in alive' : log'[q].seq > 0 /\ log'[q].end = 0
    BY <1>2, <1>6
  <2> QED
    BY <2>1, <2>2, <2>3 DEF MadeInv
<1> QED
    BY <1>1, <1>3, <1>4, <1>5, <1>7, <1>9

\* What is published when a Run is made: the ends of the Runs left before, then its start.
LEMMA MakesEvents ==
    ASSUME ChatData, NEW r \in Runs, log[r].seq = 0, ~deleted
    PROVE  /\ Publishes(FinalEvents, <<>>) /\ Publishes(FinalEvents \o <<Event(r, 1)>>, <<>>)
           /\ \E i \in DOMAIN (FinalEvents \o <<Event(r, 1)>>) :
                 (FinalEvents \o <<Event(r, 1)>>)[i].run = r
           /\ \A i \in DOMAIN (FinalEvents \o <<Event(r, 1)>>) :
                 (FinalEvents \o <<Event(r, 1)>>)[i].run \in Orphans \union {r}
           /\ \A i \in DOMAIN FinalEvents : FinalEvents[i].run \in Orphans
<1> DEFINE F == FinalEvents
           e == Event(r, 1)
           t == F \o <<e>>
<1>1. /\ F \in Seq(ChatEvents)
      /\ \A i \in DOMAIN F : \E q \in Orphans : F[i] = Event(q, log[q].seq + 1)
      /\ \A i, j \in DOMAIN F : F[i].run = F[j].run => i = j
    BY FinalEventsAre
<1>2. \A q \in Orphans : /\ q \in Runs /\ q # r /\ log[q].seq + 1 \in Nat
                         /\ Event(q, log[q].seq + 1).run = q
                         /\ Event(q, log[q].seq + 1).seq = log[q].seq + 1
    BY EventsAre DEF Orphans, Orphan
<1>3. \A i \in DOMAIN F : F[i].run \in Orphans /\ F[i].seq = log[F[i].run].seq + 1
    BY <1>1, <1>2
<1>4. e \in ChatEvents /\ e.run = r /\ e.seq = log[r].seq + 1
    BY FrameKinds
<1> HIDE DEF F, e
<1>5. <<e>> \in Seq(ChatEvents) /\ DOMAIN <<e>> = {1} /\ <<e>>[1] = e
    BY <1>4
<1>6. /\ t \in Seq(ChatEvents)
      /\ \A i \in DOMAIN t : \/ i \in DOMAIN F /\ t[i] = F[i]
                             \/ i = Len(F) + 1 /\ t[i] = e
      /\ Len(F) + 1 \in DOMAIN t /\ t[Len(F) + 1] = e
  <2> DEFINE p == <<e>>
  <2>1. p \in Seq(ChatEvents) /\ DOMAIN p = {1} /\ p[1] = e
    BY <1>5
  <2> HIDE DEF p
  <2>2. /\ t \in Seq(ChatEvents)
        /\ \A i \in DOMAIN t : \/ i \in DOMAIN F /\ t[i] = F[i]
                               \/ \E j \in DOMAIN p : i = Len(F) + j /\ t[i] = p[j]
        /\ \A j \in DOMAIN p : Len(F) + j \in DOMAIN t /\ t[Len(F) + j] = p[j]
    <3>1. t = F \o p
        BY DEF p
    <3> QED
        BY <1>1, <2>1, <3>1, Added
  <2> QED
    BY <2>1, <2>2
<1> HIDE DEF t
<1>7. \A i \in DOMAIN t : t[i].run \in Orphans \union {r} /\ t[i].seq = log[t[i].run].seq + 1
    BY <1>3, <1>4, <1>6
<1>8. \A i, j \in DOMAIN t : t[i].run = t[j].run => i = j
    BY <1>1, <1>2, <1>3, <1>4, <1>6
<1>9. <<>> \in Seq(Frames)
    OBVIOUS
<1>10. Publishes(F, <<>>) /\ Publishes(t, <<>>)
    BY <1>1, <1>3, <1>6, <1>7, <1>8, <1>9 DEF Publishes
<1> QED
    BY <1>3, <1>4, <1>6, <1>7, <1>10 DEF F, e, t

LEMMA ForeignSendGrows ==
    ASSUME ChatData, MadeInv, NEW r \in Runs, ForeignSend(r)
    PROVE  SessionData' /\ MadeInv' /\ Growing
<1>1. /\ log[r].seq = 0 /\ ~deleted /\ alive = {} /\ starting = NoSend /\ Makes(r)
      /\ toClient' = toClient \o FinalEvents \o Publish(r, 1)
      /\ UNCHANGED <<deleted, starting, route, subscribed, toServer, screen, view, work,
                     writing, chatFaults>>
    BY DEF ForeignSend, Fresh, Busy, hub
<1>2. /\ MadeInv' /\ \A q \in Runs : ~Orphan(q)'
      /\ \A q \in Runs : \/ log'[q].seq = log[q].seq /\ q # r
                         \/ log'[q].seq = log[q].seq + 1 /\ (Orphan(q) \/ q = r)
      /\ \A q \in Orphans \union {r} : log'[q].seq = log[q].seq + 1
      /\ Len(made) <= Len(made') /\ \A k \in 1..Len(made) : made'[k] = made[k]
    BY <1>1, MakesInv
<1>3. SessionData'
    BY <1>1, MakesIs, DataParts DEF SessionData
<1>4. PICK evs : /\ evs \in {FinalEvents, FinalEvents \o <<Event(r, 1)>>}
                 /\ toClient' = toClient \o evs
                 /\ subscribed => evs = FinalEvents \o <<Event(r, 1)>>
  <2>1. FinalEvents \in Seq(Frames) /\ toClient \in Seq(Frames) /\ FinalEvents \o <<>> = FinalEvents
    BY FinalEventsAre, FrameKinds, ConcatEmptySeq, SeqMonotonic DEF ChatData
  <2>2. Publish(r, 1) \in Seq(Frames) /\ Publish(r, 1) \in {<<>>, <<Event(r, 1)>>}
        /\ (subscribed => Publish(r, 1) = <<Event(r, 1)>>)
    BY PublishIs
  <2>3. toClient' = toClient \o (FinalEvents \o Publish(r, 1))
    BY <1>1, <2>1, <2>2, ConcatAssociative
  <2> QED
    BY <2>1, <2>2, <2>3
<1>5. /\ Publishes(evs, <<>>)
      /\ \A i \in DOMAIN evs : evs[i].run \in Orphans \union {r}
      /\ subscribed => \E i \in DOMAIN evs : evs[i].run = r
    BY <1>1, <1>4, MakesEvents
<1>6. Growth(evs, <<>>)
  <2>1. <<>> \in Seq(Frames) /\ DOMAIN <<>> = {} /\ evs \o <<>> = evs /\ evs \in Seq(ChatEvents)
    BY <1>5, ConcatEmptySeq DEF Publishes
  <2>2. \A q \in Runs :
          \/ log'[q].seq = log[q].seq
          \/ /\ log'[q].seq = log[q].seq + 1
             /\ subscribed => Orphan(q) \/ \E i \in DOMAIN evs : evs[i].run = q
    BY <1>2, <1>5
  <2>3. \A i \in DOMAIN evs : log'[evs[i].run].seq = evs[i].seq
    BY <1>2, <1>5 DEF Publishes
  <2>4. toClient' = toClient \o (evs \o <<>>)
    BY <1>4, <2>1
  <2> QED
    BY <1>1, <1>2, <1>5, <2>1, <2>2, <2>3, <2>4 DEF Growth, Publishes
<1>7. Answer(<<>>)
  <2>1. \A q \in Runs : log[q].seq = 0 /\ asked[q] # 0 => log'[q].seq = 0
    BY <1>2 DEF Orphan, ForeignSend, Fresh
  <2> QED
    BY <1>1, <2>1 DEF Answer
<1> QED
    BY <1>2, <1>3, <1>6, <1>7 DEF Growing

LEMMA DeleteGrows ==
    ASSUME ChatData, MadeInv, Delete
    PROVE  SessionData' /\ MadeInv' /\ Growing
<1>1. /\ ~deleted /\ deleted' /\ alive = {} /\ starting = NoSend /\ made' = <<>> /\ subscribed' = FALSE
      /\ log' = [r \in Runs |-> [seq |-> 0, end |-> 0]]
      /\ toClient' = toClient \o FinalEvents
      /\ UNCHANGED <<alive, starting, route, toServer, screen, view, work, writing, chatFaults>>
      /\ deleted' \in BOOLEAN
    BY DEF Delete, Busy
<1>2. SessionData' /\ log' \in [Runs -> [seq : Nat, end : Nat]]
  <2>1. SessionData
    BY DataParts
  <2>2. log' \in [Runs -> [seq : Nat, end : Nat]]
    <3>1. [seq |-> 0, end |-> 0] \in [seq : Nat, end : Nat]
        OBVIOUS
    <3> QED
        BY <1>1, <3>1
  <2>3. <<>> \in Seq(Runs) /\ FALSE \in BOOLEAN
    OBVIOUS
  <2>4. made' \in Seq(Runs) /\ subscribed' \in BOOLEAN
    BY <1>1, <2>3, Zenon
  <2> QED
    BY <1>1, <2>1, <2>2, <2>4 DEF SessionData
<1>3. \A r \in Runs : log'[r].seq = 0 /\ log'[r].end = 0 /\ ~Orphan(r)'
    BY <1>1 DEF Orphan
<1>4. MadeInv'
    BY <1>1, <1>3 DEF MadeInv
<1>5. \A r \in Runs : log[r].seq >= 0
    BY EventsAre
<1>6. Publishes(FinalEvents, <<>>)
  <2>1. /\ FinalEvents \in Seq(ChatEvents)
        /\ \A i \in DOMAIN FinalEvents : \E q \in Orphans : FinalEvents[i] = Event(q, log[q].seq + 1)
        /\ \A i, j \in DOMAIN FinalEvents : FinalEvents[i].run = FinalEvents[j].run => i = j
    BY FinalEventsAre
  <2>2. \A q \in Orphans : /\ Event(q, log[q].seq + 1).run = q
                           /\ Event(q, log[q].seq + 1).seq = log[q].seq + 1
    BY EventsAre DEF Orphans
  <2>3. <<>> \in Seq(Frames)
    OBVIOUS
  <2> QED
    BY <1>1, <2>1, <2>2, <2>3 DEF Publishes
<1>7. FinalEvents \o <<>> = FinalEvents /\ DOMAIN <<>> = {}
    BY <1>6, ConcatEmptySeq DEF Publishes
<1>8. Growth(FinalEvents, <<>>)
    BY <1>1, <1>3, <1>6, <1>7 DEF Growth, Publishes
<1>9. Answer(<<>>)
    BY <1>1, <1>3 DEF Answer
<1> QED
    BY <1>2, <1>4, <1>8, <1>9 DEF Growing

LEMMA RepliesAre ==
    ASSUME NEW m \in Frames, m.kind # "accepted", m.kind \in {"refused", "failed"},
           ChatData, toClient' = Append(toClient, m), UNCHANGED <<log, made, alive, deleted>>,
           subscribed' = subscribed,
           \/ toServer' = toServer
           \/ /\ toServer # <<>> /\ Head(toServer).kind = "send"
              /\ toServer' = Tail(toServer),
           UNCHANGED <<screen, view, work, writing, chatFaults>>
    PROVE  Growth(<<>>, <<m>>)
<1>1. /\ <<>> \in Seq(ChatEvents) /\ <<m>> \in Seq(Frames) /\ <<>> \o <<m>> = <<m>>
      /\ DOMAIN <<>> = {} /\ DOMAIN <<m>> = {1} /\ <<m>>[1] = m /\ toClient' = toClient \o <<m>>
    BY ConcatEmptySeq, AddedOne DEF ChatData
<1>2. \A r \in Runs : Orphan(r)' => Orphan(r)
    BY DEF Orphan
<1>3. Len(made) <= Len(made') /\ \A k \in 1..Len(made) : made'[k] = made[k]
    BY LenProperties DEF ChatData
<1> HIDE DEF ChatData
<1> QED
    BY <1>1, <1>2, <1>3 DEF Growth

\* A Run is made and its send answered: at once, or after its Project was looked at.
LEMMA AnswersMade ==
    ASSUME ChatData, MadeInv, NEW r \in Runs, NEW of \in Nat, log[r].seq = 0, ~deleted, alive = {},
           Makes(r), route' = route \union {r}, starting' = NoSend,
           toClient' = toClient \o FinalEvents \o <<Event(r, 1), Accepted(of, r, 1)>>,
           UNCHANGED <<deleted, subscribed, screen, view, work, writing, chatFaults>>,
           \/ /\ toServer' = toServer /\ starting # NoSend
              /\ r = starting.run /\ of = starting.of
           \/ /\ toServer # <<>> /\ Head(toServer).kind = "send" /\ starting = NoSend
              /\ toServer' = Tail(toServer) /\ r = Head(toServer).run /\ of = Head(toServer).of
    PROVE  SessionData' /\ MadeInv' /\ Growing
<1> DEFINE evs == FinalEvents \o <<Event(r, 1)>>
           m == Accepted(of, r, 1)
<1>1. /\ MadeInv' /\ \A q \in Runs : ~Orphan(q)'
      /\ \A q \in Runs : \/ log'[q].seq = log[q].seq /\ q # r
                         \/ log'[q].seq = log[q].seq + 1 /\ (Orphan(q) \/ q = r)
      /\ \A q \in Orphans \union {r} : log'[q].seq = log[q].seq + 1
      /\ Len(made) <= Len(made') /\ \A k \in 1..Len(made) : made'[k] = made[k]
    BY MakesInv
<1>2. SessionData'
  <2>1. starting' \in [run : Runs \union {0}, of : Nat]
    BY DEF NoSend, Nobody
  <2>2. SessionData
    BY DataParts
  <2>3. /\ log' \in [Runs -> [seq : Nat, end : Nat]] /\ made' \in Seq(Runs) /\ alive' \in SUBSET Runs
    <3>1. alive' = alive \union {r}
        BY MakesIs
    <3> QED
        BY <2>2, <3>1, MakesIs DEF SessionData
  <2>4. route' \in SUBSET Runs
    BY <2>2 DEF SessionData
  <2> QED
    BY <2>1, <2>2, <2>3, <2>4 DEF SessionData
<1>3. /\ Publishes(evs, <<>>)
      /\ \A i \in DOMAIN evs : evs[i].run \in Orphans \union {r}
      /\ \E i \in DOMAIN evs : evs[i].run = r
    BY MakesEvents
<1>4. m \in Frames /\ m.kind = "accepted" /\ m.run = r /\ m.seq = 1 /\ m.of = of
  <2>1. 1 \in Nat
    OBVIOUS
  <2>2. m \in Frames
    BY <2>1, FrameKinds
  <2>3. m.kind = "accepted" /\ m.run = r /\ m.seq = 1 /\ m.of = of
    BY DEF Accepted
  <2> QED
    BY <2>2, <2>3
<1>5. toClient' = toClient \o (evs \o <<m>>)
  <2> HIDE DEF m
  <2>0. Event(r, 1) \in Frames /\ Seq(ChatEvents) \subseteq Seq(Frames)
    BY FrameMade
  <2>1. /\ FinalEvents \in Seq(Frames) /\ toClient \in Seq(Frames)
        /\ <<Event(r, 1)>> \in Seq(Frames) /\ <<m>> \in Seq(Frames)
        /\ <<Event(r, 1), m>> \in Seq(Frames)
    BY <1>4, <2>0, FinalEventsAre DEF ChatData
  <2>2. <<Event(r, 1), m>> = <<Event(r, 1)>> \o <<m>>
    OBVIOUS
  <2>3. toClient' = toClient \o (FinalEvents \o (<<Event(r, 1)>> \o <<m>>))
    BY <2>1, <2>2, ConcatAssociative DEF m
  <2>4. FinalEvents \o (<<Event(r, 1)>> \o <<m>>) = evs \o <<m>>
    BY <2>1, ConcatAssociative
  <2> QED
    BY <2>3, <2>4
<1> HIDE DEF evs, m
<1>6. Growth(evs, <<m>>)
  <2>1. <<m>> \in Seq(Frames) /\ DOMAIN <<m>> = {1} /\ <<m>>[1] = m /\ evs \in Seq(ChatEvents)
    BY <1>3, <1>4 DEF Publishes
  <2>2. \A q \in Runs :
          \/ log'[q].seq = log[q].seq
          \/ /\ log'[q].seq = log[q].seq + 1
             /\ subscribed => Orphan(q) \/ \E i \in DOMAIN evs : evs[i].run = q
    BY <1>1, <1>3
  <2>3. \A i \in DOMAIN evs : log'[evs[i].run].seq = evs[i].seq
    BY <1>1, <1>3 DEF Publishes
  <2>4. m.seq = log'[m.run].seq
    BY <1>1, <1>4
  <2> QED
    BY <1>1, <1>3, <1>4, <1>5, <2>1, <2>2, <2>3, <2>4 DEF Growth, Publishes
<1>7. Answer(<<m>>)
  <2>1. \A q \in Runs : log[q].seq = 0 => q = r \/ log'[q].seq = 0
    BY <1>1 DEF Orphan
  <2>2. \E n \in Frames : <<m>> = <<n>> /\ n.of = of /\ n.kind # "refused"
    BY <1>4
  <2> QED
    BY <2>1, <2>2 DEF Answer
<1> QED
    BY <1>1, <1>2, <1>6, <1>7 DEF Growing

LEMMA StartedGrows ==
    ASSUME ChatData, MadeInv, Started
    PROVE  SessionData' /\ MadeInv' /\ Growing
<1> DEFINE r == starting.run
<1>1. /\ starting # NoSend /\ starting' = NoSend
      /\ UNCHANGED <<deleted, subscribed, toServer, screen, view, work, writing, chatFaults>>
      /\ \/ /\ Makes(r) /\ route' = route \union {r}
            /\ toClient' = toClient \o FinalEvents \o <<Event(r, 1), Accepted(starting.of, r, 1)>>
         \/ /\ \/ toClient' = Append(toClient, Refused(starting.of))
               \/ toClient' = Append(toClient, Failed(starting.of))
            /\ UNCHANGED <<log, made, alive, route>>
    BY DEF Started
<1>2. r \in Runs /\ starting.of \in Nat /\ log[r].seq = 0 /\ alive = {} /\ ~deleted
    BY <1>1, StartingIs DEF MadeInv
<1>3. CASE Makes(r) /\ route' = route \union {r}
           /\ toClient' = toClient \o FinalEvents \o <<Event(r, 1), Accepted(starting.of, r, 1)>>
    BY <1>1, <1>2, <1>3, AnswersMade
<1>4. CASE /\ \/ toClient' = Append(toClient, Refused(starting.of))
              \/ toClient' = Append(toClient, Failed(starting.of))
           /\ UNCHANGED <<log, made, alive, route>>
  <2>1. PICK m \in Frames : /\ m.kind \in {"refused", "failed"} /\ m.kind # "accepted"
                            /\ toClient' = Append(toClient, m) /\ m.of = starting.of
    <3>1. /\ Refused(starting.of).of = starting.of /\ Failed(starting.of).of = starting.of
          /\ Refused(starting.of) \in Frames /\ Refused(starting.of).kind = "refused"
          /\ Failed(starting.of) \in Frames /\ Failed(starting.of).kind = "failed"
        BY <1>2, FrameKinds
    <3> QED
        BY <1>4, <3>1
  <2>2. Growing
    <3>1. Growth(<<>>, <<m>>)
        BY <1>1, <1>4, <2>1, RepliesAre
    <3>2. Answer(<<m>>)
        BY <1>1, <1>4, <2>1 DEF Answer
    <3> QED
        BY <3>1, <3>2 DEF Growing
  <2>3. SessionData'
    <3>1. NoSend \in [run : Runs \union {0}, of : Nat]
        BY DEF NoSend, Nobody
    <3> QED
        BY <1>1, <1>4, <3>1, DataParts DEF SessionData
  <2>4. MadeInv'
    BY <1>1, <1>4 DEF MadeInv
  <2> QED
    BY <2>2, <2>3, <2>4
<1> QED
    BY <1>1, <1>3, <1>4

LEMMA RequestIs ==
    ASSUME ChatData, NEW kind, Requested(kind)
    PROVE  /\ Request \in ChatAsks /\ Request = toServer[1] /\ 1 \in DOMAIN toServer /\ Request.kind = kind
           /\ toServer # <<>> /\ toServer' = Tail(toServer) /\ toServer' \in Seq(ChatAsks)
           /\ kind # "unsubscribe" => Request.of \in Nat
           /\ kind = "page" => Request.after \in Nat
           /\ kind = "send" => Request.run \in Runs
<1>1. /\ toServer \in Seq(ChatAsks) /\ toServer # <<>> /\ toServer' = Tail(toServer)
      /\ Head(toServer).kind = kind
    BY DEF ChatData, Requested
<1>2. /\ toServer' \in Seq(ChatAsks) /\ Head(toServer) \in ChatAsks /\ Head(toServer) = toServer[1]
      /\ 1 \in DOMAIN toServer
    BY <1>1, Taken
<1> QED
    BY <1>1, <1>2, AskKinds DEF Request

LEMMA KnownGrows ==
    ASSUME ChatData, MadeInv, Requested("send"), SendKnown(Request.run, Request.of),
           UNCHANGED <<deleted, subscribed, screen, view, work, writing, chatFaults>>
    PROVE  SessionData' /\ MadeInv' /\ Growing
<1> DEFINE r == Request.run
           of == Request.of
           e  == Event(r, log'[r].seq)
           m  == Accepted(of, r, log'[r].seq)
           evs == IF Orphan(r) THEN <<e>> ELSE <<>>
<1>1. /\ r \in Runs /\ of \in Nat /\ toServer # <<>> /\ Head(toServer).kind = "send"
      /\ toServer' = Tail(toServer)
    BY RequestIs DEF Requested
<1>2. /\ ~deleted /\ log[r].seq > 0 /\ (Orphan(r) => ~Busy)
      /\ log' = Finalized({r})
      /\ route' = IF log'[r].end = 0 THEN route \union {r} ELSE route \ {r}
      /\ toClient' = toClient \o evs \o <<m>>
      /\ UNCHANGED <<made, alive, starting>>
    BY DEF SendKnown
<1>3. /\ log' \in [Runs -> [seq : Nat, end : Nat]]
      /\ \A q \in Runs : q # r => log'[q] = log[q]
      /\ Orphan(r) => log'[r].seq = log[r].seq + 1 /\ log'[r].end = log[r].seq + 1
      /\ ~Orphan(r) => log'[r] = log[r]
    BY <1>1, <1>2, FinalizedIs
<1>4. /\ log[r].seq \in Nat /\ log'[r].seq \in Nat /\ log[r].end \in Nat
      /\ made \in Seq(Runs) /\ Len(made) \in Nat /\ toClient \in Seq(Frames)
    BY <1>1, <1>3, EventsAre, LenProperties DEF ChatData
<1>5. SessionData'
    BY <1>1, <1>2, <1>3, DataParts DEF SessionData
<1>6. \A q \in Runs : Orphan(q)' => Orphan(q)
  <2>1. ASSUME NEW q \in Runs, Orphan(q)' PROVE Orphan(q)
    <3>1. q = r /\ Orphan(r) => log'[q].end # 0
        BY <1>3, <1>4
    <3>2. log'[q] = log[q]
        BY <1>3, <2>1, <3>1 DEF Orphan
    <3> QED
        BY <1>2, <2>1, <3>2 DEF Orphan
  <2> QED
    BY <2>1
<1>7. MadeInv'
  <2>1. \A q \in Runs : (log'[q].seq > 0 <=> log[q].seq > 0)
    <3>1. log'[r].seq = log[r].seq \/ log'[r].seq = log[r].seq + 1
        BY <1>3
    <3>2. log'[r].seq > 0
        BY <1>2, <1>4, <3>1
    <3> QED
        BY <1>2, <1>3, <3>2
  <2>2. \A q \in alive : log'[q].seq > 0 /\ log'[q].end = 0
    <3>1. alive \in SUBSET Runs
        BY DEF ChatData
    <3>2. \A q \in alive : log'[q] = log[q]
        BY <1>3, <3>1 DEF Orphan
    <3> QED
        BY <3>1, <3>2 DEF MadeInv
  <2>3. \A q \in Runs : log'[q].end # 0 => log'[q].seq > 0
    BY <1>2, <1>3, <2>1 DEF MadeInv
  <2>4. starting # NoSend => log'[starting.run].seq = 0 /\ alive = {}
    <3>1. starting # NoSend => starting.run # r /\ starting.run \in Runs
        BY <1>2, StartingIs DEF MadeInv
    <3> QED
        BY <1>3, <3>1 DEF MadeInv
  <2> QED
    BY <1>2, <2>1, <2>2, <2>3, <2>4 DEF MadeInv
<1>8. /\ e \in ChatEvents /\ e.run = r /\ e.seq = log'[r].seq
      /\ m \in Frames /\ m.kind = "accepted" /\ m.run = r /\ m.seq = log'[r].seq /\ m.of = of
    BY <1>1, <1>4, FrameMade
<1> HIDE DEF e, m
<1>9. /\ <<m>> \in Seq(Frames) /\ DOMAIN <<m>> = {1} /\ <<m>>[1] = m
      /\ <<e>> \in Seq(ChatEvents) /\ DOMAIN <<e>> = {1} /\ <<e>>[1] = e
      /\ <<>> \in Seq(ChatEvents) /\ DOMAIN <<>> = {}
    BY <1>8
<1>10. /\ evs \in Seq(ChatEvents)
       /\ \A i \in DOMAIN evs : i = 1 /\ evs[i] = e /\ Orphan(r)
    BY <1>9
<1>11. toClient' = toClient \o (evs \o <<m>>)
  <2>1. evs \in Seq(Frames)
    BY <1>1, <1>10, FrameMade
  <2>2. toClient' = toClient \o evs \o <<m>>
    BY <1>2
  <2> HIDE DEF evs
  <2> QED
    BY <1>4, <1>9, <2>1, <2>2, ConcatAssociative
<1> HIDE DEF evs, r, of
<1>12. Growth(evs, <<m>>)
  <2>1. \A i \in DOMAIN evs : evs[i].seq = log[evs[i].run].seq + 1 /\ ~deleted
    BY <1>2, <1>3, <1>8, <1>10
  <2>2. \A q \in Runs :
          \/ log'[q].seq = log[q].seq
          \/ /\ log'[q].seq = log[q].seq + 1
             /\ subscribed => Orphan(q) \/ \E i \in DOMAIN evs : evs[i].run = q
    BY <1>3
  <2>3. \A i \in DOMAIN evs : log'[evs[i].run].seq = evs[i].seq
    BY <1>8, <1>10
  <2>4. \A i, j \in DOMAIN evs : evs[i].run = evs[j].run => i = j
    BY <1>10
  <2>5. \A i \in DOMAIN <<m>> :
          /\ <<m>>[i].kind \in {"accepted", "refused", "failed"}
          /\ <<m>>[i].kind = "accepted" => <<m>>[i].seq = log'[<<m>>[i].run].seq
    BY <1>8, <1>9
  <2>6. Len(made) <= Len(made') /\ \A k \in 1..Len(made) : made'[k] = made[k]
    BY <1>2, <1>4
  <2>7. (deleted => deleted') /\ (subscribed' \/ deleted' \/ ~subscribed)
    OBVIOUS
  <2> HIDE DEF r
  <2> QED
    BY <1>1, <1>6, <1>9, <1>10, <1>11, <2>1, <2>2, <2>3, <2>4, <2>5, <2>6, <2>7 DEF Growth
<1>13. Answer(<<m>>)
  <2>1. \A q \in Runs : log[q].seq = 0 => log'[q].seq = 0
    <3>1. ASSUME NEW q \in Runs, log[q].seq = 0 PROVE log'[q].seq = 0
      <4>1. q # r
        BY <1>2, <3>1
      <4> QED
        BY <1>3, <3>1, <4>1
    <3> QED
      BY <3>1
  <2>2. \E n \in Frames : <<m>> = <<n>> /\ n.of = Head(toServer).of /\ n.kind # "refused"
    BY <1>8 DEF of, Request
  <2> QED
    BY <1>1, <1>2, <2>1, <2>2 DEF Answer
<1> QED
    BY <1>5, <1>7, <1>12, <1>13 DEF Growing

LEMMA ServeSendGrows ==
    ASSUME ChatData, MadeInv, ServeSend
    PROVE  SessionData' /\ MadeInv' /\ Growing
<1> DEFINE r == Request.run
           of == Request.of
<1>1. /\ Requested("send")
      /\ \/ SendKnown(r, of) \/ SendNew(r, of) \/ SendWaits(r, of)
         \/ SendRefused(r, of) \/ SendBusy(r, of)
      /\ UNCHANGED <<deleted, subscribed, screen, view, work, writing, chatFaults>>
    BY DEF ServeSend
<1>2. /\ r \in Runs /\ of \in Nat /\ toServer # <<>> /\ Head(toServer).kind = "send"
      /\ toServer' = Tail(toServer)
    BY <1>1, RequestIs DEF Requested
<1>3. CASE SendKnown(r, of)
    BY <1>1, <1>3, KnownGrows
<1>4. CASE SendNew(r, of)
  <2>1. /\ ~deleted /\ log[r].seq = 0 /\ alive = {} /\ starting = NoSend /\ Makes(r)
        /\ route' = route \union {r} /\ starting' = starting
        /\ toClient' = toClient \o FinalEvents \o <<Event(r, 1), Accepted(of, r, 1)>>
    BY <1>4 DEF SendNew, Busy
  <2>2. r = Head(toServer).run /\ of = Head(toServer).of
    BY DEF Request
  <2> QED
    BY <1>1, <1>2, <2>1, <2>2, AnswersMade
<1>5. CASE SendWaits(r, of)
  <2>1. /\ ~deleted /\ log[r].seq = 0 /\ alive = {} /\ starting' = [run |-> r, of |-> of]
        /\ UNCHANGED <<log, made, alive, route, toClient>>
    BY <1>5 DEF SendWaits, Busy
  <2>2. SessionData'
    <3>1. r # 0
        BY <1>2, ChatAssumption
    <3> QED
        BY <1>1, <1>2, <2>1, <3>1, DataParts DEF SessionData
  <2>3. MadeInv'
    BY <1>1, <2>1 DEF MadeInv
  <2>4. Growth(<<>>, <<>>)
    <3>1. /\ <<>> \in Seq(ChatEvents) /\ <<>> \in Seq(Frames) /\ <<>> \o <<>> = <<>>
          /\ DOMAIN <<>> = {} /\ toClient = toClient \o <<>>
        BY ConcatEmptySeq DEF ChatData
    <3>2. \A q \in Runs : Orphan(q)' => Orphan(q)
        BY <2>1 DEF Orphan
    <3>3. Len(made) <= Len(made') /\ \A k \in 1..Len(made) : made'[k] = made[k]
        BY <2>1, LenProperties DEF ChatData
    <3> QED
        BY <1>1, <1>2, <2>1, <3>1, <3>2, <3>3 DEF Growth
  <2>5. Answer(<<>>)
    <3>1. starting = NoSend
        BY <1>5 DEF SendWaits, Busy
    <3> QED
        BY <1>2, <2>1, <3>1 DEF Answer, Request
  <2> QED
    BY <2>2, <2>3, <2>4, <2>5 DEF Growing
<1>6. CASE SendRefused(r, of) \/ SendBusy(r, of)
  <2>1. PICK m \in Frames : /\ m.kind \in {"refused", "failed"} /\ m.kind # "accepted"
                            /\ toClient' = Append(toClient, m) /\ m.of = of
                            /\ m.kind = "refused" => SendRefused(r, of)
    <3>1. /\ Refused(of).of = of /\ Failed(of).of = of
          /\ Refused(of) \in Frames /\ Refused(of).kind = "refused"
          /\ Failed(of) \in Frames /\ Failed(of).kind = "failed"
        BY <1>2, FrameKinds
    <3>2. \/ toClient' = Append(toClient, Refused(of)) /\ SendRefused(r, of)
          \/ toClient' = Append(toClient, Failed(of))
        BY <1>6 DEF SendRefused, SendBusy, Replies
    <3> QED
        BY <3>1, <3>2
  <2>2. UNCHANGED <<log, made, alive, starting, route>>
    BY <1>6 DEF SendRefused, SendBusy
  <2>3. Growing
    <3>1. Growth(<<>>, <<m>>)
        BY <1>1, <1>2, <2>1, <2>2, RepliesAre
    <3>2. m.kind = "refused" => log[r].seq = 0 /\ starting = NoSend
        BY <1>2, <2>1 DEF SendRefused, Busy, MadeInv
    <3>3. Answer(<<m>>)
        BY <1>2, <2>1, <2>2, <3>2 DEF Answer, Request
    <3> QED
        BY <3>1, <3>3 DEF Growing
  <2>4. SessionData'
    BY <1>1, <2>2, DataParts DEF SessionData
  <2>5. MadeInv'
    BY <1>1, <2>2 DEF MadeInv
  <2> QED
    BY <2>3, <2>4, <2>5
<1> QED
    BY <1>1, <1>3, <1>4, <1>5, <1>6

\* The steps of the server that Growth is about.
ServerGrows ==
    \/ \E r \in Runs : RunGoesOn(r) \/ RunEnds(r) \/ OutcomeComesLate(r) \/ OrphanEnds(r)
                          \/ ForeignSend(r)
    \/ Delete \/ Started \/ ServeSend

LEMMA ServerGrowing ==
    ASSUME ChatData, MadeInv, ServerGrows
    PROVE  ChatData' /\ MadeInv' /\ Growing
<1>1. SessionData' /\ MadeInv' /\ Growing
    BY GrowingRun, ForeignSendGrows, DeleteGrows, StartedGrows, ServeSendGrows DEF ServerGrows
<1>2. PICK evs, rep : Growth(evs, rep) /\ Answer(rep)
    BY <1>1 DEF Growing
<1>3. /\ evs \in Seq(ChatEvents) /\ rep \in Seq(Frames)
      /\ toClient' = toClient \o (evs \o rep)
      /\ UNCHANGED <<screen, view, work, writing, chatFaults>>
    BY <1>2 DEF Growth
<1>4. toServer \in Seq(ChatAsks) /\ toClient \in Seq(Frames)
    BY DEF ChatData
<1>5. toClient' \in Seq(Frames)
  <2>1. evs \in Seq(Frames)
    BY <1>3, FrameKinds, SeqMonotonic
  <2> QED
    BY <1>3, <1>4, <2>1, ConcatProperties
<1>6. toServer' \in Seq(ChatAsks)
  <2>1. toServer' = toServer \/ (toServer # <<>> /\ toServer' = Tail(toServer))
    BY <1>2 DEF Growth
  <2> QED
    BY <1>4, <2>1, Taken
<1> QED
    BY <1>1, <1>3, <1>5, <1>6, DataParts, SameScreen, SameWriting DEF QueueData

\* What a page of the Session holds.
PageServed(of, after, f, next) ==
    /\ toClient' = Append(toClient, Page(of, f, next))
    /\ of \in Nat /\ after \in Nat /\ f \in Pages /\ next \in Nat /\ ~deleted
    /\ next = 0 => \A k \in 1..Len(made) : k > after => made[k] \in DOMAIN f
    /\ next # 0 => /\ next <= Len(made)
                   /\ \A k \in 1..next : k > after => made[k] \in DOMAIN f
    /\ \A r \in DOMAIN f : f[r] = log'[r].seq /\ ~Orphan(r)'
    /\ \A r \in Runs : \/ log'[r].seq = log[r].seq
                       \/ log'[r].seq = log[r].seq + 1 /\ Orphan(r) /\ r \in DOMAIN f
    /\ \A r \in Runs : Orphan(r)' => Orphan(r)

LEMMA ServePageIs ==
    ASSUME ChatData, MadeInv, ServePage
    PROVE  /\ ChatData' /\ MadeInv'
           /\ UNCHANGED <<made, alive, deleted, starting, hub, screen, view, work, writing, chatFaults>>
           /\ Requested("page")
           /\ \/ deleted /\ toClient' = Append(toClient, Missing(Request.of)) /\ log' = log
              \/ \E f, next : PageServed(Request.of, Request.after, f, next)
<1> DEFINE of == Request.of
           after == Request.after
           upto  == IF after + PageLimit < Len(made) THEN after + PageLimit ELSE Len(made)
           items == {made[i] : i \in (after + 1)..upto}
           f     == [r \in items |-> log'[r].seq]
           next  == IF upto < Len(made) THEN upto ELSE 0
<1>1. /\ Requested("page")
      /\ \/ deleted /\ toClient' = Append(toClient, Missing(of)) /\ log' = log
         \/ ~deleted /\ log' = Finalized(items) /\ toClient' = Append(toClient, Page(of, f, next))
      /\ UNCHANGED <<made, alive, deleted, starting, hub, screen, view, work, writing, chatFaults>>
    BY DEF ServePage, Replies
<1>2. of \in Nat /\ after \in Nat /\ toServer' \in Seq(ChatAsks)
    BY <1>1, RequestIs
<1>3. /\ made \in Seq(Runs) /\ Len(made) \in Nat /\ toClient \in Seq(Frames) /\ PageLimit \in Nat
      /\ alive \in SUBSET Runs
    BY LenProperties, ChatAssumption DEF ChatData
<1>4. upto \in Nat /\ upto <= Len(made) /\ (upto < Len(made) => upto # 0)
  <2>1. PageLimit # 0
    BY ChatAssumption
  <2> QED
    BY <1>2, <1>3, <2>1
<1> HIDE DEF upto
<1>5. items \in SUBSET Runs /\ \A k \in 1..upto : k > after => made[k] \in items
    BY <1>2, <1>3, <1>4
<1> HIDE DEF items
<1>6. ~deleted => /\ log' \in [Runs -> [seq : Nat, end : Nat]]
                  /\ \A r \in Runs :
                       /\ r \in items /\ Orphan(r) =>
                            log'[r].seq = log[r].seq + 1 /\ log'[r].end = log[r].seq + 1
                       /\ ~(r \in items /\ Orphan(r)) => log'[r] = log[r]
    BY <1>1, FinalizedIs
<1>7. log' \in [Runs -> [seq : Nat, end : Nat]]
    BY <1>1, <1>6 DEF ChatData
<1>8. SessionData'
    BY <1>1, <1>7, DataParts DEF SessionData, hub
<1>9. ASSUME ~deleted
      PROVE  /\ \A r \in Runs : (log'[r].seq > 0 <=> log[r].seq > 0)
             /\ \A r \in Runs : Orphan(r)' => Orphan(r)
             /\ \A r \in items : ~Orphan(r)'
             /\ \A r \in Runs : log'[r] = log[r] \/ (Orphan(r) /\ r \in items /\ log'[r].seq = log[r].seq + 1
                                                      /\ log'[r].end = log[r].seq + 1)
  <2>1. \A r \in Runs : log'[r] = log[r] \/ (Orphan(r) /\ r \in items /\ log'[r].seq = log[r].seq + 1
                                                      /\ log'[r].end = log[r].seq + 1)
    BY <1>6, <1>9
  <2>2. \A r \in Runs : (log'[r].seq > 0 <=> log[r].seq > 0)
    BY <2>1, EventsAre DEF Orphan
  <2>3. \A r \in Runs : log'[r] # log[r] => log'[r].end # 0
    BY <2>1, EventsAre
  <2>4. \A r \in Runs : Orphan(r)' => Orphan(r)
    BY <1>1, <2>2, <2>3 DEF Orphan
  <2>5. \A r \in items : ~Orphan(r)'
    <3>1. ASSUME NEW r \in items PROVE ~Orphan(r)'
      <4>1. r \in Runs
        BY <1>5
      <4>2. CASE Orphan(r)
        <5>1. log'[r].end = log[r].seq + 1
          BY <1>6, <1>9, <4>1, <4>2
        <5> QED
          BY <4>1, <5>1, EventsAre DEF Orphan
      <4>3. CASE ~Orphan(r)
        BY <2>4, <4>1, <4>3
      <4> QED
        BY <4>2, <4>3
    <3> QED
      BY <3>1
  <2> QED
    BY <2>1, <2>2, <2>4, <2>5
<1>10. MadeInv'
  <2>1. CASE deleted
    BY <1>1, <2>1 DEF MadeInv
  <2>2. CASE ~deleted
    <3>1. \A r \in Runs : log'[r].end # 0 => log'[r].seq > 0
      BY <1>9, <2>2 DEF MadeInv, Orphan
    <3>2. \A r \in alive : log'[r].seq > 0 /\ log'[r].end = 0
      <4>1. \A r \in alive : r \in Runs /\ ~Orphan(r)
        BY <1>3 DEF Orphan
      <4>2. \A r \in alive : log'[r] = log[r]
        BY <1>9, <2>2, <4>1
      <4> QED
        BY <4>2 DEF MadeInv
    <3>3. starting # NoSend => log'[starting.run].seq = 0
      <4>1. starting # NoSend => starting.run \in Runs /\ log[starting.run].seq = 0
        BY StartingIs DEF MadeInv
      <4> QED
        BY <1>9, <2>2, <4>1 DEF Orphan
    <3>4. \A r \in Runs : log'[r].seq > 0 <=> \E i \in DOMAIN made' : made'[i] = r
      BY <1>1, <1>9, <2>2 DEF MadeInv
    <3> QED
      BY <1>1, <2>2, <3>1, <3>2, <3>3, <3>4 DEF MadeInv
  <2> QED
    BY <2>1, <2>2
<1>11. \A r \in items : log'[r].seq \in Nat
    BY <1>5, <1>7
<1>12. f \in Pages /\ DOMAIN f = items /\ next \in Nat /\ \A r \in items : f[r] = log'[r].seq
    BY <1>3, <1>4, <1>5, <1>11 DEF Pages
<1>13. ASSUME ~deleted, toClient' = Append(toClient, Page(of, f, next)) PROVE PageServed(of, after, f, next)
  <2>1. /\ next = 0 => upto = Len(made)
        /\ next # 0 => next = upto
    <3>1. Len(made) \in Nat /\ upto \in Nat /\ upto <= Len(made)
        BY <1>3, <1>4
    <3>2. CASE upto < Len(made)
        BY <1>4, <3>2
    <3>3. CASE ~(upto < Len(made))
        BY <3>1, <3>3
    <3> QED
        BY <3>2, <3>3
  <2> HIDE DEF f, next, of, after
  <2>2. /\ next = 0 => \A k \in 1..Len(made) : k > after => made[k] \in DOMAIN f
        /\ next # 0 => /\ next <= Len(made)
                       /\ \A k \in 1..next : k > after => made[k] \in DOMAIN f
    BY <1>4, <1>5, <1>12, <2>1
  <2>3. \A r \in Runs : \/ log'[r].seq = log[r].seq
                        \/ log'[r].seq = log[r].seq + 1 /\ Orphan(r) /\ r \in DOMAIN f
    BY <1>9, <1>12, <1>13
  <2> QED
    BY <1>2, <1>9, <1>12, <1>13, <2>2, <2>3 DEF PageServed
<1>14. toClient' \in Seq(Frames)
  <2>1. Missing(of) \in Frames /\ Page(of, f, next) \in Frames
    BY <1>2, <1>12, FrameKinds
  <2> HIDE DEF f, next
  <2> QED
    BY <1>1, <1>3, <2>1, AppendProperties
<1>15. ChatData'
    BY <1>1, <1>2, <1>8, <1>14, DataParts, SameScreen, SameWriting DEF QueueData
<1> HIDE DEF f, next
<1> QED
    BY <1>1, <1>10, <1>13, <1>15

-----------------------------------------------------------------------------
(* The other steps keep the types too.                                     *)

LEMMA FirstIs ==
    ASSUME ChatData, NEW kinds, Holds(kinds), Reads
    PROVE  /\ toClient # <<>> /\ First \in Frames /\ First = toClient[1] /\ 1 \in DOMAIN toClient
           /\ First.kind \in kinds /\ toClient' = Tail(toClient) /\ toClient' \in Seq(Frames)
           /\ ~Running
BY Taken DEF ChatData, Holds, Reads, First

LEMMA EventIs ==
    ASSUME ChatData, Holds({"event"}), Reads
    PROVE  First \in ChatEvents /\ First.run \in Runs /\ First.seq \in Nat
BY FirstIs, FrameKinds

LEMMA DeliveredIs ==
    ASSUME ChatData, NEW e \in ChatEvents, NextUp(e), view' = Delivered(e)
    PROVE  /\ view' \in Views /\ DOMAIN view' = DOMAIN view
           /\ e.run \in Runs /\ e.run \in ShownRuns
           /\ Len(view'[e.run]) = e.seq /\ Len(view[e.run]) + 1 = e.seq
           /\ \A r \in DOMAIN view : r # e.run => view'[r] = view[r]
<1>1. /\ e.run \in Runs /\ e.seq \in Nat
      /\ e.run \in DOMAIN view /\ e.seq = Len(view[e.run]) + 1
    BY EventKinds DEF NextUp, ShownRuns
<1>2. PICK S \in SUBSET Runs : view \in [S -> Seq(Nat)]
    BY DEF ChatData, Views
<1>3. Append(view[e.run], e.seq) \in Seq(Nat) /\ Len(Append(view[e.run], e.seq)) = Len(view[e.run]) + 1
    BY <1>1, <1>2, AppendProperties
<1>4. /\ view' \in [S -> Seq(Nat)] /\ view'[e.run] = Append(view[e.run], e.seq)
      /\ \A r \in S : r # e.run => view'[r] = view[r]
    BY <1>1, <1>2, <1>3 DEF Delivered
<1>5. view' \in Views
    BY <1>4 DEF Views
<1> QED
    BY <1>1, <1>2, <1>3, <1>4, <1>5 DEF ShownRuns

LEMMA PrefixIs ==
    \A n \in Nat : Prefix(n) \in Seq(Nat) /\ Len(Prefix(n)) = n
<1> SUFFICES ASSUME NEW n \in Nat PROVE Prefix(n) \in Seq(Nat) /\ Len(Prefix(n)) = n
    OBVIOUS
<1>1. Prefix(n) \in [1..n -> Nat]
    BY DEF Prefix
<1> QED
    BY <1>1

LEMMA SameSession ==
    /\ SessionData /\ UNCHANGED <<session, hub>> => SessionData'
    /\ MadeInv /\ UNCHANGED session => MadeInv'
BY DEF SessionData, MadeInv, session, hub

LEMMA ErrsData ==
    ASSUME ScreenData, view' = view, NEW why, why \in {"request", "absent", "gap"}, Errs(why)
    PROVE  ScreenData'
<1>1. screen' \in [id : Nat, phase : {"none", "loading", "ready", "error"},
                   why : {"none", "request", "absent", "gap"}]
    BY DEF ScreenData, Errs
<1> QED
    BY <1>1, JobKinds DEF ScreenData, Errs

LEMMA LoadsData ==
    ASSUME ChatData, NEW e \in ChatEvents \union {NoEvent}, Loads(e)
    PROVE  job' = PagingJob(e, <<>>) /\ job' \in Jobs /\ toServer' \in Seq(ChatAsks)
           /\ toServer' = Append(toServer, Paging(screen.id, 0))
<1>1. job' = PagingJob(e, <<>>) /\ toServer' = Append(toServer, Paging(screen.id, 0))
    BY DEF Loads, PagingJob
<1>2. screen.id \in Nat /\ toServer \in Seq(ChatAsks) /\ Paging(screen.id, 0) \in ChatAsks
    BY AskKinds DEF ChatData
<1> QED
    BY <1>1, <1>2, JobKinds, PageKinds, AppendProperties

LEMMA JoinedIs ==
    ASSUME NEW f \in Pages, NEW g \in Pages
    PROVE  /\ Joined(f, g) \in Pages /\ DOMAIN Joined(f, g) = DOMAIN f \union DOMAIN g
           /\ \A r \in DOMAIN g : Joined(f, g)[r] = g[r]
           /\ \A r \in DOMAIN f \ DOMAIN g : Joined(f, g)[r] = f[r]
<1>1. PICK S \in SUBSET Runs, T \in SUBSET Runs : f \in [S -> Nat] /\ g \in [T -> Nat]
    BY DEF Pages
<1>2. Joined(f, g) \in [S \union T -> Nat]
    BY <1>1 DEF Joined
<1>3. Joined(f, g) \in Pages
    BY <1>2 DEF Pages
<1> QED
    BY <1>1, <1>3 DEF Joined

\* Frames that come in.
LEMMA DataEvents ==
    ASSUME ChatData, MadeInv, EventDropped \/ EventDelivered \/ EventKept
    PROVE  ChatData' /\ MadeInv'
<1>1. /\ First \in ChatEvents /\ toClient' \in Seq(Frames) /\ UNCHANGED <<session, hub, toServer, writing, chatFaults>>
    BY EventIs, FirstIs DEF EventDropped, EventDelivered, EventKept
<1>2. ScreenData
    BY DataParts
<1>3. ScreenData'
  <2>1. CASE EventDropped
    BY <1>2, <2>1, SameScreen DEF EventDropped
  <2>2. CASE EventDelivered
    BY <1>1, <1>2, <2>2, DeliveredIs DEF EventDelivered, ScreenData, work
  <2>3. CASE EventKept
    BY <1>1, <1>2, <2>3 DEF EventKept, ScreenData
  <2> QED
    BY <2>1, <2>2, <2>3
<1> QED
    BY <1>1, <1>3, DataParts, SameSession, SameWriting DEF QueueData

LEMMA DataSubscribed ==
    ASSUME ChatData, MadeInv, SubscribedArrives \/ MissingArrives \/ AnswerDropped
    PROVE  ChatData' /\ MadeInv'
<1>1. /\ toClient' \in Seq(Frames) /\ UNCHANGED <<session, hub, writing, chatFaults>>
    BY FirstIs DEF SubscribedArrives, MissingArrives, AnswerDropped
<1>2. ScreenData /\ toServer \in Seq(ChatAsks)
    BY DataParts DEF QueueData
<1>3. ScreenData' /\ toServer' \in Seq(ChatAsks)
  <2>1. CASE SubscribedArrives
    BY <1>2, <2>1, LoadsData DEF SubscribedArrives, ScreenData
  <2>2. CASE MissingArrives
    BY <1>2, <2>2, ErrsData DEF MissingArrives
  <2>3. CASE AnswerDropped
    BY <1>2, <2>3, SameScreen DEF AnswerDropped
  <2> QED
    BY <2>1, <2>2, <2>3
<1> QED
    BY <1>1, <1>3, DataParts, SameSession, SameWriting DEF QueueData

\* The last page has come: what is shown of each Run is what the pages say.
Replaced(found) == [r \in DOMAIN found |-> Prefix(found[r])]

LEMMA ReplacedIs ==
    ASSUME NEW f \in Pages
    PROVE  /\ Replaced(f) \in Views /\ DOMAIN Replaced(f) = DOMAIN f
           /\ \A r \in DOMAIN f : Len(Replaced(f)[r]) = f[r]
<1>1. PICK S \in SUBSET Runs : f \in [S -> Nat]
    BY DEF Pages
<1>2. Replaced(f) \in [S -> Seq(Nat)]
    BY <1>1, PrefixIs DEF Replaced
<1>3. Replaced(f) \in Views
    BY <1>2 DEF Views
<1> QED
    BY <1>1, <1>3, PrefixIs DEF Replaced

LEMMA PageArrivesIs ==
    ASSUME ChatData, PageArrives
    PROVE  LET found == Joined(job.found, First.found) IN
           /\ First \in Frames /\ First = toClient[1] /\ First.kind = "page" /\ First.of = screen.id
           /\ First.found \in Pages /\ First.next \in Nat /\ job.found \in Pages /\ found \in Pages
           /\ job.event \in ChatEvents \union {NoEvent}
           /\ screen.phase # "none" /\ job.kind = "paging" /\ toClient # <<>> /\ toClient' = Tail(toClient)
           /\ \/ /\ First.next # 0
                 /\ job' = PagingJob(job.event, found)
                 /\ toServer' = Append(toServer, Paging(screen.id, First.next))
                 /\ UNCHANGED <<screen, view, provisional, batch, draining>>
              \/ /\ First.next = 0 /\ view' = Replaced(found) /\ toServer' = toServer
                 /\ \/ /\ job.event = NoEvent /\ draining' = TRUE /\ job' = NoJob
                       /\ UNCHANGED <<screen, provisional, batch>>
                    \/ /\ job.event # NoEvent /\ job.event.run \in DOMAIN found
                       /\ batch' = batch \union {job.event} /\ job' = NoJob
                       /\ UNCHANGED <<screen, provisional, draining>>
                    \/ /\ job.event # NoEvent /\ job.event.run \notin DOMAIN found /\ Errs("absent")
           /\ UNCHANGED <<session, hub, writing, chatFaults>>
<1> DEFINE found == Joined(job.found, First.found)
<1>1. /\ Holds({"page"}) /\ Reads /\ ForUs /\ job.kind = "paging"
      /\ UNCHANGED <<session, hub, writing, chatFaults>>
    BY DEF PageArrives
<1>2. /\ First \in Frames /\ First = toClient[1] /\ First.kind = "page" /\ First.of = screen.id
      /\ First.found \in Pages /\ First.next \in Nat /\ screen.phase # "none"
      /\ toClient # <<>> /\ toClient' = Tail(toClient)
    BY <1>1, FirstIs, FrameKinds DEF ForUs
<1>3. job \in Jobs
    BY DEF ChatData
<1>4. /\ job.found \in Pages /\ job.event \in ChatEvents \union {NoEvent}
      /\ job = PagingJob(job.event, job.found)
    BY <1>1, <1>3, JobKinds
<1>5. found \in Pages
    BY <1>2, <1>4, JoinedIs
<1> HIDE DEF found
<1>6. [job EXCEPT !.found = found] = PagingJob(job.event, found)
  <2> DEFINE e == job.event
             g == job.found
  <2>1. job = PagingJob(e, g)
    BY <1>4
  <2> HIDE DEF e, g
  <2>2. [PagingJob(e, g) EXCEPT !.found = found] = PagingJob(e, found)
    BY DEF PagingJob
  <2> QED
    BY <2>1, <2>2 DEF e
<1>7. \/ /\ First.next # 0
         /\ job' = PagingJob(job.event, found)
         /\ toServer' = Append(toServer, Paging(screen.id, First.next))
         /\ UNCHANGED <<screen, view, provisional, batch, draining>>
      \/ /\ First.next = 0 /\ view' = Replaced(found) /\ toServer' = toServer
         /\ \/ /\ job.event = NoEvent /\ draining' = TRUE /\ job' = NoJob
               /\ UNCHANGED <<screen, provisional, batch>>
            \/ /\ job.event # NoEvent /\ job.event.run \in DOMAIN found
               /\ batch' = batch \union {job.event} /\ job' = NoJob
               /\ UNCHANGED <<screen, provisional, draining>>
            \/ /\ job.event # NoEvent /\ job.event.run \notin DOMAIN found /\ Errs("absent")
    BY <1>6 DEF PageArrives, Replaced, found
<1> QED
    BY <1>1, <1>2, <1>4, <1>5, <1>7 DEF found

LEMMA DataPage ==
    ASSUME ChatData, MadeInv, PageArrives
    PROVE  ChatData' /\ MadeInv'
<1> DEFINE found == Joined(job.found, First.found)
<1>1. /\ First.next \in Nat /\ found \in Pages
      /\ job.event \in ChatEvents \union {NoEvent}
      /\ toClient # <<>> /\ toClient' = Tail(toClient)
      /\ \/ /\ job' = PagingJob(job.event, found)
            /\ toServer' = Append(toServer, Paging(screen.id, First.next))
            /\ UNCHANGED <<screen, view, provisional, batch, draining>>
         \/ /\ view' = Replaced(found) /\ toServer' = toServer
            /\ \/ /\ job.event = NoEvent /\ draining' = TRUE /\ job' = NoJob
                  /\ UNCHANGED <<screen, provisional, batch>>
               \/ /\ job.event # NoEvent /\ job.event.run \in DOMAIN found
                  /\ batch' = batch \union {job.event} /\ job' = NoJob
                  /\ UNCHANGED <<screen, provisional, draining>>
               \/ /\ job.event # NoEvent /\ job.event.run \notin DOMAIN found /\ Errs("absent")
      /\ UNCHANGED <<session, hub, writing, chatFaults>>
    BY PageArrivesIs
<1> HIDE DEF found
<1>2. ScreenData /\ toServer \in Seq(ChatAsks) /\ toClient \in Seq(Frames) /\ screen.id \in Nat
    BY DataParts DEF QueueData, ScreenData
<1>3. toClient' \in Seq(Frames) /\ Paging(screen.id, First.next) \in ChatAsks
    BY <1>1, <1>2, Taken, AskKinds
<1>4. toServer' \in Seq(ChatAsks)
  <2>1. toServer' = toServer \/ toServer' = Append(toServer, Paging(screen.id, First.next))
    BY <1>1
  <2> DEFINE m == Paging(screen.id, First.next)
  <2>2. m \in ChatAsks /\ (toServer' = toServer \/ toServer' = Append(toServer, m))
    BY <1>3, <2>1
  <2> HIDE DEF m
  <2>3. Append(toServer, m) \in Seq(ChatAsks)
    BY <1>2, <2>2, AppendProperties
  <2> QED
    BY <1>2, <2>2, <2>3
<1>5. /\ Replaced(found) \in Views /\ PagingJob(job.event, found) \in Jobs /\ NoJob \in Jobs
      /\ TRUE \in BOOLEAN
    BY <1>1, ReplacedIs, JobKinds
<1>6. screen' \in [id : Nat, phase : {"none", "loading", "ready", "error"},
                   why : {"none", "request", "absent", "gap"}]
    BY <1>1, <1>2 DEF ScreenData, Errs
<1>7. provisional' \in SUBSET ChatEvents /\ batch' \in SUBSET ChatEvents /\ draining' \in BOOLEAN
    BY <1>1, <1>2 DEF ScreenData, Errs
<1>8. view' \in Views /\ job' \in Jobs
    BY <1>1, <1>2, <1>5 DEF ScreenData, Errs
<1>9. ScreenData'
    BY <1>6, <1>7, <1>8 DEF ScreenData
<1> QED
    BY <1>1, <1>3, <1>4, <1>9, DataParts, SameSession, SameWriting DEF QueueData

LEMMA DataDrains ==
    ASSUME ChatData, MadeInv, Drains
    PROVE  ChatData' /\ MadeInv'
<1>1. UNCHANGED <<session, hub, toClient, writing, chatFaults>>
    BY DEF Drains, DrainsNext, Drained, DrainsEvent, channel
<1>2. ScreenData /\ toServer \in Seq(ChatAsks) /\ toClient \in Seq(Frames) /\ TRUE \in BOOLEAN /\ FALSE \in BOOLEAN
    BY DataParts DEF QueueData
<1>3. ScreenData' /\ toServer' \in Seq(ChatAsks)
  <2>1. CASE DrainsNext
    <3>1. /\ batch' = provisional /\ provisional' = {}
          /\ UNCHANGED <<toServer, screen, view, draining, job>>
        BY <2>1 DEF DrainsNext, channel
    <3> QED
        BY <1>2, <3>1 DEF ScreenData
  <2>2. CASE Drained
    <3>1. /\ screen' = [screen EXCEPT !.phase = "ready"] /\ draining' = FALSE
          /\ UNCHANGED <<toServer, view, provisional, batch, job>>
        BY <2>2 DEF Drained, channel
    <3>2. screen' \in [id : Nat, phase : {"none", "loading", "ready", "error"},
                       why : {"none", "request", "absent", "gap"}]
        BY <1>2, <3>1 DEF ScreenData
    <3> QED
        BY <1>2, <3>1, <3>2 DEF ScreenData
  <2>3. ASSUME NEW e \in batch, DrainsEvent(e) PROVE ScreenData' /\ toServer' \in Seq(ChatAsks)
    <3>1. e \in ChatEvents
        BY <1>2, <2>3 DEF ScreenData
    <3>2. CASE e.run \notin ShownRuns
      <4>1. /\ Loads(e) /\ batch' = batch \ {e} /\ UNCHANGED <<screen, view, provisional, draining>>
        BY <2>3, <3>2 DEF DrainsEvent
      <4> QED
        BY <1>2, <3>1, <4>1, LoadsData DEF ScreenData
    <3>3. CASE e.run \in ShownRuns /\ (Old(e) \/ NextUp(e))
      <4>1. /\ view' = IF NextUp(e) THEN Delivered(e) ELSE view
            /\ batch' = batch \ {e} /\ UNCHANGED <<toServer, screen, provisional, draining, job>>
        BY <2>3, <3>3 DEF DrainsEvent
      <4>2. view' \in Views
        BY <1>2, <3>1, <4>1, DeliveredIs DEF ScreenData
      <4> QED
        BY <1>2, <4>1, <4>2 DEF ScreenData
    <3>4. CASE e.run \in ShownRuns /\ ~(Old(e) \/ NextUp(e))
      <4>1. Errs("gap") /\ UNCHANGED <<toServer, view>>
        BY <2>3, <3>4 DEF DrainsEvent
      <4> QED
        BY <1>2, <4>1, ErrsData
    <3> QED
        BY <3>2, <3>3, <3>4
  <2> QED
    BY <2>1, <2>2, <2>3 DEF Drains
<1> QED
    BY <1>1, <1>2, <1>3, DataParts, SameSession, SameWriting DEF QueueData

LEMMA AcceptedIs ==
    ASSUME ChatData, NEW r \in Runs, NEW n \in Nat,
           view' = IF r \in ShownRuns /\ Len(view[r]) >= n THEN view
                   ELSE [q \in ShownRuns \union {r} |-> IF q = r THEN Prefix(n) ELSE view[q]]
    PROVE  /\ view' \in Views /\ r \in DOMAIN view' /\ DOMAIN view' = DOMAIN view \union {r}
           /\ \A q \in DOMAIN view \ {r} : view'[q] = view[q]
           /\ \/ r \in DOMAIN view /\ Len(view[r]) >= n /\ view' = view
              \/ Len(view'[r]) = n /\ (r \in DOMAIN view => ~(Len(view[r]) >= n))
<1>1. PICK S \in SUBSET Runs : view \in [S -> Seq(Nat)]
    BY DEF ChatData, Views
<1>2. Prefix(n) \in Seq(Nat) /\ Len(Prefix(n)) = n
    BY PrefixIs
<1>3. CASE r \in ShownRuns /\ Len(view[r]) >= n
    BY <1>3 DEF ChatData, ShownRuns
<1>4. CASE ~(r \in ShownRuns /\ Len(view[r]) >= n)
  <2>1. /\ view' \in [S \union {r} -> Seq(Nat)]
        /\ view'[r] = Prefix(n) /\ \A q \in S \ {r} : view'[q] = view[q]
    BY <1>1, <1>2, <1>4 DEF ShownRuns
  <2>2. view' \in Views /\ DOMAIN view = S /\ DOMAIN view' = S \union {r}
    BY <1>1, <2>1 DEF Views
  <2> QED
    BY <1>2, <1>4, <2>1, <2>2 DEF ShownRuns
<1> QED
    BY <1>3, <1>4

LEMMA DataAnswers ==
    ASSUME ChatData, MadeInv, AcceptedArrives \/ RefusedArrives \/ FailedArrives
    PROVE  ChatData' /\ MadeInv'
<1>1. /\ toClient' \in Seq(Frames) /\ UNCHANGED <<session, hub, toServer, screen, work, asked, chatFaults>>
      /\ sending' = FALSE /\ FALSE \in BOOLEAN
    BY FirstIs DEF AcceptedArrives, RefusedArrives, FailedArrives
<1>2. ScreenData /\ WritingData /\ toServer \in Seq(ChatAsks)
    BY DataParts DEF QueueData
<1>3. NoReserve \in [run : Runs \union {0}, draft : Nat]
    BY DEF NoReserve
<1>4. draft' \in Nat /\ pending' \in {pending, NoReserve}
    BY <1>2 DEF AcceptedArrives, RefusedArrives, FailedArrives, WritingData
<1>5. WritingData'
    BY <1>1, <1>2, <1>3, <1>4 DEF WritingData
<1>6. view' \in Views
  <2>1. CASE AcceptedArrives
    <3>1. First.run \in Runs /\ First.seq \in Nat
        BY <2>1, FirstIs, FrameKinds DEF AcceptedArrives
    <3> QED
        BY <2>1, <3>1, AcceptedIs DEF AcceptedArrives
  <2>2. CASE RefusedArrives \/ FailedArrives
    BY <1>2, <2>2 DEF RefusedArrives, FailedArrives, ScreenData
  <2> QED
    BY <2>1, <2>2
<1>7. ScreenData'
    BY <1>1, <1>2, <1>6 DEF ScreenData, work
<1> QED
    BY <1>1, <1>2, <1>5, <1>7, DataParts, SameSession DEF QueueData

\* Taking the waiting away changes nothing else in a queue.
LEMMA UnawaitedFrames ==
    ASSUME NEW q \in Seq(Frames)
    PROVE  /\ Unawaited(q) \in Seq(Frames) /\ DOMAIN Unawaited(q) = DOMAIN q
           /\ \A i \in DOMAIN q :
                 /\ Unawaited(q)[i].kind = q[i].kind
                 /\ q[i].kind \notin {"accepted", "refused", "failed"} => Unawaited(q)[i] = q[i]
                 /\ q[i].kind \in {"accepted", "refused", "failed"} => Unawaited(q)[i].of = Nobody
                 /\ q[i].kind = "accepted" => /\ Unawaited(q)[i].run = q[i].run
                                              /\ Unawaited(q)[i].seq = q[i].seq
<1> DEFINE t == Unawaited(q)
<1>1. DOMAIN t = DOMAIN q /\ \A i \in DOMAIN q : q[i] \in Frames
  BY DEF Unawaited
<1>2. ASSUME NEW i \in DOMAIN q
      PROVE  /\ t[i] \in Frames /\ t[i].kind = q[i].kind
             /\ q[i].kind \notin {"accepted", "refused", "failed"} => t[i] = q[i]
             /\ q[i].kind \in {"accepted", "refused", "failed"} => t[i].of = Nobody
             /\ q[i].kind = "accepted" => t[i].run = q[i].run /\ t[i].seq = q[i].seq
  <2> DEFINE m == q[i]
  <2>0. m \in Frames /\ t[i] = IF m.kind \in {"send", "accepted", "refused", "failed"}
                               THEN [m EXCEPT !.of = Nobody] ELSE m
      BY <1>1 DEF Unawaited
  <2> HIDE DEF m, t
  <2>1. CASE m.kind = "accepted"
    <3>1. PICK of, r, n : m = Accepted(of, r, n) /\ r \in Runs /\ n \in Nat
      BY <2>0, <2>1, FrameKinds
    <3>2. [Accepted(of, r, n) EXCEPT !.of = Nobody] = Accepted(Nobody, r, n)
      BY DEF Accepted
    <3>3. t[i] = Accepted(Nobody, r, n) /\ Nobody \in Nat
      BY <2>0, <2>1, <3>1, <3>2 DEF Nobody
    <3> QED
      BY <2>1, <3>1, <3>3, FrameMade DEF m, Accepted
  <2>2. CASE m.kind = "refused"
    <3>1. PICK of : m = Refused(of)
      BY <2>0, <2>2, FrameKinds
    <3>2. [Refused(of) EXCEPT !.of = Nobody] = Refused(Nobody)
      BY DEF Refused
    <3>3. t[i] = Refused(Nobody) /\ Nobody \in Nat
      BY <2>0, <2>2, <3>1, <3>2 DEF Nobody
    <3> QED
      BY <2>2, <3>3, FrameKinds DEF m
  <2>3. CASE m.kind = "failed"
    <3>1. PICK of : m = Failed(of)
      BY <2>0, <2>3, FrameKinds
    <3>2. [Failed(of) EXCEPT !.of = Nobody] = Failed(Nobody)
      BY DEF Failed
    <3>3. t[i] = Failed(Nobody) /\ Nobody \in Nat
      BY <2>0, <2>3, <3>1, <3>2 DEF Nobody
    <3> QED
      BY <2>3, <3>3, FrameKinds DEF m
  <2>4. CASE m.kind \notin {"accepted", "refused", "failed"}
    <3>1. m.kind # "send"
      BY <2>0, FrameKinds
    <3> QED
      BY <2>0, <2>4, <3>1 DEF m
  <2> QED
      BY <2>1, <2>2, <2>3, <2>4
<1>3. t \in Seq(Frames)
  <2>1. DOMAIN q = 1..Len(q) /\ Len(q) \in Nat
      OBVIOUS
  <2>2. t \in [1..Len(q) -> Frames]
      BY <1>2, <2>1 DEF Unawaited
  <2> QED
      BY <2>1, <2>2
<1> HIDE DEF t
<1> QED
  BY <1>1, <1>2, <1>3 DEF t

LEMMA UnawaitedAsks ==
    ASSUME NEW q \in Seq(ChatAsks)
    PROVE  /\ Unawaited(q) \in Seq(ChatAsks) /\ DOMAIN Unawaited(q) = DOMAIN q
           /\ \A i \in DOMAIN q :
                 /\ Unawaited(q)[i].kind = q[i].kind
                 /\ q[i].kind # "send" => Unawaited(q)[i] = q[i]
                 /\ q[i].kind = "send" => /\ Unawaited(q)[i].of = Nobody
                                          /\ Unawaited(q)[i].run = q[i].run
<1> DEFINE t == Unawaited(q)
<1>1. DOMAIN t = DOMAIN q /\ \A i \in DOMAIN q : q[i] \in ChatAsks
  BY DEF Unawaited
<1>2. ASSUME NEW i \in DOMAIN q
      PROVE  /\ t[i] \in ChatAsks /\ t[i].kind = q[i].kind
             /\ q[i].kind # "send" => t[i] = q[i]
             /\ q[i].kind = "send" => t[i].of = Nobody /\ t[i].run = q[i].run
  <2> DEFINE m == q[i]
  <2>0. m \in ChatAsks /\ t[i] = IF m.kind \in {"send", "accepted", "refused", "failed"}
                               THEN [m EXCEPT !.of = Nobody] ELSE m
      BY <1>1 DEF Unawaited
  <2> HIDE DEF m, t
  <2>1. CASE m.kind = "send"
    <3>1. PICK of, r : m = Sending(of, r) /\ r \in Runs
      BY <2>0, <2>1, AskKinds
    <3>2. [Sending(of, r) EXCEPT !.of = Nobody] = Sending(Nobody, r)
      BY DEF Sending
    <3>3. t[i] = Sending(Nobody, r) /\ Nobody \in Nat
      BY <2>0, <2>1, <3>1, <3>2 DEF Nobody
    <3> QED
      BY <2>1, <3>1, <3>3, AskKinds DEF m, Sending
  <2>2. CASE m.kind # "send"
    <3>1. m.kind \notin {"accepted", "refused", "failed"}
      BY <2>0, AskKinds
    <3> QED
      BY <2>0, <2>2, <3>1 DEF m
  <2> QED
      BY <2>1, <2>2
<1>3. t \in Seq(ChatAsks)
  <2>1. DOMAIN q = 1..Len(q) /\ Len(q) \in Nat
      OBVIOUS
  <2>2. t \in [1..Len(q) -> ChatAsks]
      BY <1>2, <2>1 DEF Unawaited
  <2> QED
      BY <2>1, <2>2
<1> HIDE DEF t
<1> QED
  BY <1>1, <1>2, <1>3 DEF t

LEMMA DataWriting ==
    ASSUME ChatData, MadeInv, (\E r \in Runs : Send(r)) \/ Edit
    PROVE  ChatData' /\ MadeInv'
<1>1. ScreenData /\ WritingData /\ toServer \in Seq(ChatAsks) /\ toClient \in Seq(Frames)
    BY DataParts DEF QueueData
<1>2. ASSUME NEW r \in Runs, Send(r) PROVE ChatData' /\ MadeInv'
  <2>1. /\ pending' = [run |-> r, draft |-> draft] /\ asked' = [asked EXCEPT ![r] = draft]
        /\ sending' = TRUE /\ draft' = draft
        /\ toServer' = Append(toServer, Sending(screen.id, r))
        /\ UNCHANGED <<session, hub, toClient, screen, view, work, chatFaults>>
    BY <1>2 DEF Send
  <2>2. Sending(screen.id, r) \in ChatAsks
    BY <1>1, AskKinds DEF ScreenData
  <2>3. toServer' \in Seq(ChatAsks)
    BY <1>1, <2>1, <2>2, AppendProperties
  <2>4. WritingData'
    <3>1. r # 0 /\ draft \in Nat /\ asked \in [Runs -> Nat]
        BY <1>1, ChatAssumption DEF WritingData
    <3>2. pending' \in [run : Runs \union {0}, draft : Nat] /\ pending'.run # 0
        BY <2>1, <3>1
    <3>3. asked' \in [Runs -> Nat]
        BY <2>1, <3>1
    <3> QED
        BY <2>1, <3>1, <3>2, <3>3 DEF WritingData
  <2> QED
    BY <1>1, <2>1, <2>3, <2>4, DataParts, SameSession, SameScreen DEF QueueData
<1>3. ASSUME Edit PROVE ChatData' /\ MadeInv'
  <2>1. /\ draft' = draft + 1
        /\ UNCHANGED <<session, hub, toServer, toClient, screen, view, work, asked, pending,
                       sending, chatFaults>>
    BY <1>3 DEF Edit, channel
  <2>2. WritingData'
    BY <1>1, <2>1 DEF WritingData
  <2> QED
    BY <1>1, <2>1, <2>2, DataParts, SameSession, SameScreen DEF QueueData
<1> QED
    BY <1>2, <1>3

LEMMA FaultData == ASSUME ChatData, ChatFault PROVE chatFaults' \in 0..MaxChatFaults
BY ChatAssumption DEF ChatData, ChatFault

LEMMA DataTimesOut ==
    ASSUME ChatData, MadeInv, SendTimesOut \/ RequestTimesOut
    PROVE  ChatData' /\ MadeInv'
<1>1. ScreenData /\ WritingData /\ SessionData /\ toServer \in Seq(ChatAsks) /\ toClient \in Seq(Frames)
    BY DataParts DEF QueueData
<1>2. CASE SendTimesOut
  <2>1. /\ ChatFault /\ sending' = FALSE
        /\ toServer' = Unawaited(toServer) /\ toClient' = Unawaited(toClient)
        /\ starting' = [starting EXCEPT !.of = Nobody]
        /\ UNCHANGED <<log, made, alive, deleted, hub, screen, view, work, draft, asked, pending>>
    BY <1>2 DEF SendTimesOut, SendLapses
  <2>2. toServer' \in Seq(ChatAsks) /\ toClient' \in Seq(Frames)
    BY <1>1, <2>1, UnawaitedFrames, UnawaitedAsks
  <2>3. WritingData'
    BY <1>1, <2>1 DEF WritingData
  <2>4. /\ starting' \in [run : Runs \union {0}, of : Nat] /\ starting'.run = starting.run
        /\ starting.run = 0 => starting' = starting
        /\ starting' # NoSend => starting # NoSend
    BY <1>1, <2>1 DEF SessionData, Nobody, NoSend
  <2>5. SessionData'
    BY <1>1, <2>1, <2>4 DEF SessionData, hub
  <2>6. MadeInv'
    <3>1. starting = NoSend => starting' = NoSend
        BY <2>4 DEF NoSend
    <3> QED
        BY <2>1, <2>4, <3>1 DEF MadeInv
  <2> QED
    BY <1>1, <2>1, <2>2, <2>3, <2>5, <2>6, FaultData, DataParts, SameScreen DEF QueueData
<1>3. CASE RequestTimesOut
  <2>1. Errs("request") /\ UNCHANGED <<session, hub, toServer, toClient, view, writing>> /\ ChatFault
    BY <1>3 DEF RequestTimesOut, channel
  <2> QED
    BY <1>1, <2>1, ErrsData, FaultData, DataParts, SameSession, SameWriting DEF QueueData
<1> QED
    BY <1>2, <1>3

LEMMA DataScreen ==
    ASSUME ChatData, MadeInv, Open \/ Leave \/ ConnectionLost
    PROVE  ChatData' /\ MadeInv'
<1>1. ScreenData /\ WritingData /\ SessionData /\ toServer \in Seq(ChatAsks) /\ toClient \in Seq(Frames)
    BY DataParts DEF QueueData
<1>2. CASE Open
  <2>1. /\ screen' = [id |-> screen.id + 1, phase |-> "loading", why |-> "none"]
        /\ job' = [kind |-> "subscribing"]
        /\ toServer' = Append(toServer, Subscribing(screen.id + 1))
        /\ UNCHANGED <<session, hub, toClient, view, provisional, batch, draining, writing, chatFaults>>
    BY <1>2 DEF Open
  <2>2. screen.id + 1 \in Nat /\ Subscribing(screen.id + 1) \in ChatAsks
    BY <1>1, AskKinds DEF ScreenData
  <2>3. toServer' \in Seq(ChatAsks)
    BY <1>1, <2>1, <2>2, AppendProperties
  <2>4. ScreenData'
    <3>1. screen' \in [id : Nat, phase : {"none", "loading", "ready", "error"},
                       why : {"none", "request", "absent", "gap"}]
        BY <2>1, <2>2
    <3> QED
        BY <1>1, <2>1, <3>1, JobKinds DEF ScreenData
  <2> QED
    BY <1>1, <2>1, <2>3, <2>4, DataParts, SameSession, SameWriting DEF QueueData
<1>3. ASSUME Forgets, job' = NoJob, screen' = [screen EXCEPT !.phase = "none", !.why = "none"]
      PROVE  ScreenData' /\ WritingData'
  <2>1. screen' \in [id : Nat, phase : {"none", "loading", "ready", "error"},
                     why : {"none", "request", "absent", "gap"}]
    BY <1>1, <1>3 DEF ScreenData
  <2>2. ScreenData'
    BY <1>1, <1>3, <2>1, PageKinds, JobKinds DEF ScreenData, Forgets
  <2>3. NoReserve \in [run : Runs \union {0}, draft : Nat]
    BY DEF NoReserve
  <2>4. draft' \in {draft, draft + 1} /\ pending' = NoReserve /\ sending' = FALSE /\ asked' = asked
    BY <1>3 DEF Forgets
  <2>5. draft \in Nat /\ asked \in [Runs -> Nat]
    BY <1>1 DEF WritingData
  <2>6. draft' \in Nat /\ FALSE \in BOOLEAN
    BY <2>4, <2>5
  <2>7. WritingData'
    BY <2>3, <2>4, <2>5, <2>6 DEF WritingData
  <2> QED
    BY <2>2, <2>7
<1>4. CASE Leave
  <2>1. /\ Forgets /\ job' = NoJob /\ screen' = [screen EXCEPT !.phase = "none", !.why = "none"]
        /\ toServer' = Append(toServer, Unsubscribing)
        /\ UNCHANGED <<session, hub, toClient, chatFaults>>
    BY <1>4 DEF Leave
  <2>2. toServer' \in Seq(ChatAsks)
    BY <1>1, <2>1, AskKinds, AppendProperties
  <2> QED
    BY <1>1, <1>3, <2>1, <2>2, DataParts, SameSession DEF QueueData
<1>5. CASE ConnectionLost
  <2>1. /\ Forgets /\ job' = NoJob /\ screen' = [screen EXCEPT !.phase = "none", !.why = "none"]
        /\ toServer' = <<>> /\ toClient' = <<>> /\ route' = {} /\ subscribed' = FALSE
        /\ starting' = NoSend /\ alive' \in {alive, {}} /\ UNCHANGED <<log, made, deleted>> /\ ChatFault
    BY <1>5 DEF ConnectionLost
  <2>2. NoSend \in [run : Runs \union {0}, of : Nat] /\ alive' \subseteq alive
    BY <2>1 DEF NoSend, Nobody
  <2>3. SessionData'
    <3>1. {} \in SUBSET Runs /\ FALSE \in BOOLEAN
        OBVIOUS
    <3> QED
        BY <1>1, <2>1, <2>2, <3>1 DEF SessionData
  <2>4. MadeInv'
    <3>1. deleted => alive' = {} /\ \A r \in Runs : log[r].seq = 0
        BY <2>2 DEF MadeInv
    <3> QED
        BY <2>1, <2>2, <3>1 DEF MadeInv
  <2>5. toServer' \in Seq(ChatAsks) /\ toClient' \in Seq(Frames)
    BY <2>1
  <2> QED
    BY <1>3, <2>1, <2>3, <2>4, <2>5, FaultData, DataParts DEF QueueData
<1> QED
    BY <1>2, <1>4, <1>5

LEMMA ServeSubscribeIs ==
    ASSUME ChatData, ServeSubscribe \/ ServeUnsubscribe
    PROVE  /\ ChatData'
           /\ UNCHANGED <<session, route, screen, view, work, writing, chatFaults>>
           /\ \/ /\ Requested("subscribe")
                 /\ \/ deleted /\ toClient' = Append(toClient, Missing(Request.of)) /\ subscribed' = subscribed
                    \/ ~deleted /\ toClient' = Append(toClient, Subscribed(Request.of)) /\ subscribed' = TRUE
              \/ Requested("unsubscribe") /\ toClient' = toClient /\ subscribed' = FALSE
<1>1. /\ UNCHANGED <<session, route, screen, view, work, writing, chatFaults>>
      /\ \/ /\ Requested("subscribe")
            /\ \/ deleted /\ toClient' = Append(toClient, Missing(Request.of)) /\ subscribed' = subscribed
               \/ ~deleted /\ toClient' = Append(toClient, Subscribed(Request.of)) /\ subscribed' = TRUE
         \/ Requested("unsubscribe") /\ toClient' = toClient /\ subscribed' = FALSE
    BY DEF ServeSubscribe, ServeUnsubscribe, Replies
<1>2. toServer' \in Seq(ChatAsks) /\ (Requested("subscribe") => Request.of \in Nat)
    BY <1>1, RequestIs
<1>3. toClient \in Seq(Frames) /\ SessionData /\ ScreenData /\ WritingData /\ TRUE \in BOOLEAN /\ FALSE \in BOOLEAN
    BY DataParts DEF QueueData
<1>4. toClient' \in Seq(Frames)
  <2>1. CASE Requested("subscribe")
    <3>1. Missing(Request.of) \in Frames /\ Subscribed(Request.of) \in Frames
        BY <1>2, <2>1, FrameKinds
    <3> QED
        BY <1>1, <1>3, <3>1, AppendProperties
  <2>2. CASE toClient' = toClient
    BY <1>3, <2>2
  <2> QED
    BY <1>1, <2>1, <2>2
<1>5. SessionData'
    BY <1>1, <1>3 DEF SessionData, session
<1> QED
    BY <1>1, <1>2, <1>3, <1>4, <1>5, DataParts, SameScreen, SameWriting DEF QueueData

LEMMA NextCases ==
    ChatNext => \/ ServerGrows \/ ServePage \/ ServeSubscribe \/ ServeUnsubscribe
                \/ Arrives \/ Drains \/ ChatActs
                \/ SendTimesOut \/ RequestTimesOut \/ ConnectionLost
BY DEF ChatNext, ChatServes, Others, ServerGrows

LEMMA ChatDataNext ==
    ASSUME ChatData, MadeInv, ChatNext PROVE ChatData' /\ MadeInv'
<1>1. CASE ServerGrows
    BY <1>1, ServerGrowing
<1>2. CASE ServePage
    BY <1>2, ServePageIs
<1>3. CASE ServeSubscribe \/ ServeUnsubscribe
    BY <1>3, ServeSubscribeIs, SameSession
<1>4. CASE Arrives
    BY <1>4, DataEvents, DataSubscribed, DataPage, DataAnswers DEF Arrives
<1>5. CASE Drains
    BY <1>5, DataDrains
<1>6. CASE ChatActs
    BY <1>6, DataWriting, DataScreen DEF ChatActs
<1>7. CASE SendTimesOut \/ RequestTimesOut \/ ConnectionLost
    BY <1>7, DataTimesOut, DataScreen
<1> QED
    BY <1>1, <1>2, <1>3, <1>4, <1>5, <1>6, <1>7, NextCases

-----------------------------------------------------------------------------
(* One Run for each text.                                                  *)

Idle == screen.phase = "none" /\ ~draining /\ job = NoJob

\* Nobody answers a screen that has not been opened yet.
OfInv ==
    /\ \A i \in DOMAIN toServer : toServer[i].kind # "unsubscribe" => toServer[i].of <= screen.id
    /\ \A i \in DOMAIN toClient : toClient[i].kind # "event" => toClient[i].of <= screen.id
    /\ starting.of <= screen.id
    /\ screen.id = 0 => Idle

LEMMA IdIs ==
    ASSUME ChatData
    PROVE  /\ screen.id \in Nat /\ starting.of \in Nat
           /\ toServer \in Seq(ChatAsks) /\ toClient \in Seq(Frames)
           /\ \A i \in DOMAIN toServer : toServer[i] \in ChatAsks
           /\ \A i \in DOMAIN toClient : toClient[i] \in Frames
<1>1. /\ screen.id \in Nat /\ starting.of \in Nat
      /\ toServer \in Seq(ChatAsks) /\ toClient \in Seq(Frames)
    BY DEF ChatData
<1> QED
    BY <1>1

\* The queue to the server loses its head or gains one request.
LEMMA OfAsks ==
    ASSUME ChatData, OfInv,
           \/ toServer' = toServer
           \/ toServer # <<>> /\ toServer' = Tail(toServer)
           \/ toServer' = Append(toServer, Unsubscribing)
           \/ \E m \in ChatAsks : toServer' = Append(toServer, m) /\ m.of <= screen'.id,
           screen'.id \in Nat, screen.id <= screen'.id
    PROVE  \A i \in DOMAIN toServer' : toServer'[i].kind # "unsubscribe" => toServer'[i].of <= screen'.id
<1>1. /\ toServer \in Seq(ChatAsks) /\ screen.id \in Nat /\ Unsubscribing \in ChatAsks
      /\ Unsubscribing.kind = "unsubscribe" /\ \A i \in DOMAIN toServer : toServer[i] \in ChatAsks
    BY IdIs, AskKinds
<1>2. ASSUME NEW m \in ChatAsks, m.kind # "unsubscribe"
      PROVE  m.of \in Nat
    BY <1>2, AskKinds
<1>3. ASSUME NEW i \in DOMAIN toServer, toServer[i].kind # "unsubscribe" PROVE toServer[i].of <= screen'.id
  <2>1. toServer[i].of \in Nat /\ toServer[i].of <= screen.id
    BY <1>1, <1>2, <1>3 DEF OfInv
  <2> QED
    BY <1>1, <2>1
<1>4. CASE toServer' = toServer
    BY <1>3, <1>4
<1>5. CASE toServer # <<>> /\ toServer' = Tail(toServer)
  <2>1. \A i \in DOMAIN toServer' : i + 1 \in DOMAIN toServer /\ toServer'[i] = toServer[i + 1]
    BY <1>1, <1>5, Taken
  <2> QED
    BY <1>3, <2>1
<1>6. ASSUME NEW m \in ChatAsks, toServer' = Append(toServer, m), m.kind = "unsubscribe" \/ m.of <= screen'.id
      PROVE  \A i \in DOMAIN toServer' : toServer'[i].kind # "unsubscribe" => toServer'[i].of <= screen'.id
  <2>1. /\ \A i \in DOMAIN toServer : toServer'[i] = toServer[i]
        /\ \A i \in DOMAIN toServer' : i \in DOMAIN toServer \/ i = Len(toServer) + 1
        /\ toServer'[Len(toServer) + 1] = m
    BY <1>1, <1>6, AddedOne
  <2> QED
    BY <1>3, <1>6, <2>1
<1> QED
    BY <1>1, <1>4, <1>5, <1>6

\* The queue to the client loses its head or gains answers.
LEMMA OfFrames ==
    ASSUME ChatData, OfInv, NEW p \in Seq(Frames),
           \A i \in DOMAIN p : p[i].kind # "event" => p[i].of <= screen'.id,
           \/ toClient' = toClient \o p
           \/ toClient # <<>> /\ toClient' = Tail(toClient),
           screen'.id \in Nat, screen.id <= screen'.id
    PROVE  \A i \in DOMAIN toClient' : toClient'[i].kind # "event" => toClient'[i].of <= screen'.id
<1>1. /\ toClient \in Seq(Frames) /\ screen.id \in Nat /\ \A i \in DOMAIN toClient : toClient[i] \in Frames
    BY IdIs
<1>2. ASSUME NEW m \in Frames, m.kind # "event" PROVE m.of \in Nat
    BY <1>2, FrameKinds
<1>3. ASSUME NEW i \in DOMAIN toClient, toClient[i].kind # "event" PROVE toClient[i].of <= screen'.id
  <2>1. toClient[i].of \in Nat /\ toClient[i].of <= screen.id
    BY <1>1, <1>2, <1>3 DEF OfInv
  <2> QED
    BY <1>1, <2>1
<1>4. CASE toClient # <<>> /\ toClient' = Tail(toClient)
  <2>1. \A i \in DOMAIN toClient' : i + 1 \in DOMAIN toClient /\ toClient'[i] = toClient[i + 1]
    BY <1>1, <1>4, Taken
  <2> QED
    BY <1>3, <2>1
<1>5. CASE toClient' = toClient \o p
  <2>1. \A i \in DOMAIN toClient' : \/ i \in DOMAIN toClient /\ toClient'[i] = toClient[i]
                                    \/ \E j \in DOMAIN p : i = Len(toClient) + j /\ toClient'[i] = p[j]
    BY <1>1, <1>5, Added
  <2> QED
    BY <1>3, <2>1
<1> QED
    BY <1>4, <1>5

LEMMA OfQuiet ==
    ASSUME ChatData
    PROVE  \A p \in Seq(Frames) : p = <<>> => toClient \o p = toClient /\ DOMAIN p = {}
BY IdIs, ConcatEmptySeq

LEMMA OfGrowing ==
    ASSUME ChatData, OfInv, Growing
    PROVE  OfInv'
<1>1. PICK evs, rep : Growth(evs, rep) /\ Answer(rep)
    BY DEF Growing
<1>2. /\ evs \in Seq(ChatEvents) /\ rep \in Seq(Frames) /\ toClient' = toClient \o (evs \o rep)
      /\ screen' = screen /\ (Idle => Idle') /\ screen.id \in Nat /\ starting.of \in Nat
      /\ toServer' = toServer \/ (toServer # <<>> /\ toServer' = Tail(toServer))
    BY <1>1, IdIs DEF Growth, work, Idle
<1>3. toServer # <<>> /\ Head(toServer).kind = "send" => Head(toServer).of <= screen.id
  <2>1. toServer # <<>> => Head(toServer) = toServer[1] /\ 1 \in DOMAIN toServer
    BY IdIs, Taken
  <2> QED
    BY <2>1 DEF OfInv
<1>4. \A i \in DOMAIN rep : rep[i].of <= screen.id
  <2>1. \A m : DOMAIN <<m>> = {1} /\ <<m>>[1] = m
    OBVIOUS
  <2>2. rep = <<>> \/ \E m \in Frames : rep = <<m>> /\ m.of <= screen.id
    BY <1>1, <1>3 DEF Answer, OfInv
  <2>3. rep = <<>> => DOMAIN rep = {}
    OBVIOUS
  <2> QED
    BY <2>1, <2>2, <2>3
<1>5. evs \in Seq(Frames) /\ \A i \in DOMAIN evs : evs[i].kind = "event"
  <2>1. ChatEvents \subseteq Frames
    BY FrameKinds
  <2> QED
    BY <1>2, <2>1, EventKinds, SeqMonotonic
<1>6. \A i \in DOMAIN (evs \o rep) : (evs \o rep)[i].kind # "event" => (evs \o rep)[i].of <= screen'.id
  <2>1. \A i \in DOMAIN (evs \o rep) : \/ i \in DOMAIN evs /\ (evs \o rep)[i] = evs[i]
                                       \/ \E j \in DOMAIN rep : (evs \o rep)[i] = rep[j]
    BY <1>2, <1>5, Added
  <2> QED
    BY <1>2, <1>4, <1>5, <2>1
<1>7. evs \o rep \in Seq(Frames)
    BY <1>2, <1>5, ConcatProperties
<1>8. starting'.of <= screen.id
    BY <1>1, <1>2, <1>3 DEF Answer, OfInv, NoSend, Nobody
<1>9. \A i \in DOMAIN toServer' : toServer'[i].kind # "unsubscribe" => toServer'[i].of <= screen'.id
    BY <1>2, OfAsks
<1>10. \A i \in DOMAIN toClient' : toClient'[i].kind # "event" => toClient'[i].of <= screen'.id
  <2> DEFINE p == evs \o rep
  <2>1. p \in Seq(Frames) /\ toClient' = toClient \o p
        /\ \A i \in DOMAIN p : p[i].kind # "event" => p[i].of <= screen'.id
    BY <1>2, <1>6, <1>7
  <2> HIDE DEF p
  <2>2. screen'.id \in Nat /\ screen.id <= screen'.id
    BY <1>2
  <2> QED
    BY <2>1, <2>2, OfFrames
<1> QED
    BY <1>2, <1>8, <1>9, <1>10 DEF OfInv

LEMMA OfServed ==
    ASSUME ChatData, OfInv, NEW kind, Requested(kind), kind # "unsubscribe", UNCHANGED <<starting, screen>>, Idle => Idle',
           NEW m \in Frames, toClient' = Append(toClient, m), m.of = Request.of
    PROVE  OfInv'
<1>1. screen'.id \in Nat /\ screen.id <= screen'.id /\ screen' = screen /\ starting' = starting
    BY IdIs
<1>2. /\ Request = toServer[1] /\ 1 \in DOMAIN toServer /\ Request.kind = kind
      /\ toServer # <<>> /\ toServer' = Tail(toServer)
    BY RequestIs
<1>3. m.of <= screen'.id
    BY <1>1, <1>2 DEF OfInv
<1>4. <<m>> \in Seq(Frames) /\ toClient' = toClient \o <<m>> /\ DOMAIN <<m>> = {1} /\ <<m>>[1] = m
    BY IdIs, AddedOne
<1>5. \A i \in DOMAIN toClient' : toClient'[i].kind # "event" => toClient'[i].of <= screen'.id
  <2> DEFINE p == <<m>>
  <2>1. p \in Seq(Frames) /\ toClient' = toClient \o p
        /\ \A i \in DOMAIN p : p[i].kind # "event" => p[i].of <= screen'.id
    BY <1>3, <1>4
  <2> HIDE DEF p
  <2> QED
    BY <1>1, <2>1, OfFrames
<1>6. \A i \in DOMAIN toServer' : toServer'[i].kind # "unsubscribe" => toServer'[i].of <= screen'.id
    BY <1>1, <1>2, OfAsks
<1> QED
    BY <1>1, <1>5, <1>6 DEF OfInv

LEMMA OfArrives ==
    ASSUME ChatData, OfInv, Arrives
    PROVE  OfInv'
<1>1. toClient # <<>> /\ toClient' = Tail(toClient) /\ UNCHANGED session
    BY FirstIs DEF Arrives, EventDropped, EventDelivered, EventKept, SubscribedArrives, PageArrives,
          MissingArrives, AnswerDropped, AcceptedArrives, RefusedArrives, FailedArrives
<1>2. /\ screen'.id = screen.id
      /\ Idle => Idle'
      /\ \/ toServer' = toServer
         \/ \E m \in ChatAsks : toServer' = Append(toServer, m) /\ m.of = screen.id
  <2>1. ASSUME NEW why, Errs(why), screen.phase # "none"
        PROVE  screen'.id = screen.id
    BY <2>1 DEF Errs, ChatData
  <2>2. CASE EventDropped \/ EventDelivered \/ EventKept
    BY <2>2 DEF EventDropped, EventDelivered, EventKept, work, Idle
  <2>3. CASE AnswerDropped \/ AcceptedArrives \/ RefusedArrives \/ FailedArrives
    BY <2>3 DEF AnswerDropped, AcceptedArrives, RefusedArrives, FailedArrives, work, Idle
  <2>4. CASE SubscribedArrives
    <3>1. Paging(screen.id, 0) \in ChatAsks /\ Paging(screen.id, 0).of = screen.id
        BY IdIs, AskKinds
    <3> QED
        BY <2>4, <3>1 DEF SubscribedArrives, Loads, ForUs, Idle
  <2>5. CASE MissingArrives
    BY <2>1, <2>5 DEF MissingArrives, ForUs, Idle
  <2>6. CASE PageArrives
    <3>1. Paging(screen.id, First.next) \in ChatAsks /\ Paging(screen.id, First.next).of = screen.id
        BY <2>6, IdIs, AskKinds, PageArrivesIs
    <3>3. screen.phase # "none"
        BY <2>6, PageArrivesIs
    <3>2. \/ toServer' = Append(toServer, Paging(screen.id, First.next)) /\ screen' = screen
          \/ toServer' = toServer /\ screen' = screen
          \/ toServer' = toServer /\ Errs("absent") /\ screen.phase # "none"
        BY <2>6, PageArrivesIs
    <3> QED
        BY <2>1, <3>1, <3>2, <3>3 DEF Idle
  <2> QED
    BY <2>2, <2>3, <2>4, <2>5, <2>6 DEF Arrives
<1>3. screen'.id \in Nat /\ screen.id <= screen'.id /\ starting' = starting
    BY <1>1, <1>2, IdIs DEF session
<1>4. <<>> \in Seq(Frames) /\ DOMAIN <<>> = {}
    OBVIOUS
<1>5. \A i \in DOMAIN toClient' : toClient'[i].kind # "event" => toClient'[i].of <= screen'.id
    BY <1>1, <1>3, <1>4, OfFrames
<1>6. \A i \in DOMAIN toServer' : toServer'[i].kind # "unsubscribe" => toServer'[i].of <= screen'.id
  <2>1. \/ toServer' = toServer
        \/ \E m \in ChatAsks : toServer' = Append(toServer, m) /\ m.of <= screen'.id
    BY <1>2, <1>3
  <2> QED
    BY <1>3, <2>1, OfAsks
<1> QED
    BY <1>2, <1>3, <1>5, <1>6 DEF OfInv

LEMMA OfNext ==
    ASSUME ChatData, MadeInv, OfInv, ChatNext
    PROVE  OfInv'
<1>1. CASE ServerGrows
    BY <1>1, ServerGrowing, OfGrowing
<1>2. CASE ServePage
  <2>1. Requested("page") /\ UNCHANGED <<starting, screen>> /\ (Idle => Idle')
    BY <1>2, ServePageIs DEF work, Idle
  <2>2. Request.of \in Nat
    BY <2>1, RequestIs
  <2>3. \E m \in Frames : toClient' = Append(toClient, m) /\ m.of = Request.of
    <3>1. CASE toClient' = Append(toClient, Missing(Request.of))
        BY <2>2, <3>1, FrameKinds
    <3>2. ASSUME NEW f, NEW next, PageServed(Request.of, Request.after, f, next)
          PROVE  \E m \in Frames : toClient' = Append(toClient, m) /\ m.of = Request.of
        BY <2>2, <3>2, FrameKinds DEF PageServed
    <3> QED
        BY <1>2, <3>1, <3>2, ServePageIs
  <2> QED
    BY <2>1, <2>3, OfServed
<1>3. CASE ServeSubscribe \/ ServeUnsubscribe
  <2>0. UNCHANGED <<session, screen, work>>
    BY <1>3, ServeSubscribeIs
  <2>1. UNCHANGED <<starting, screen>> /\ (Idle => Idle')
    BY <2>0 DEF session, work, Idle
  <2>2. CASE Requested("subscribe")
    <3>1. Request.of \in Nat
        BY <2>2, RequestIs
    <3>2. \/ toClient' = Append(toClient, Missing(Request.of))
          \/ toClient' = Append(toClient, Subscribed(Request.of))
      <4>1. ~Requested("unsubscribe")
        BY <2>2 DEF Requested
      <4> QED
        BY <1>3, <4>1, ServeSubscribeIs
    <3>3. \E m \in Frames : toClient' = Append(toClient, m) /\ m.of = Request.of
        BY <3>1, <3>2, FrameKinds
    <3> QED
        BY <2>1, <2>2, <3>3, OfServed
  <2>3. CASE Requested("unsubscribe") /\ toClient' = toClient
    <3>1. toServer # <<>> /\ toServer' = Tail(toServer)
        BY <2>3, RequestIs
    <3>2. screen'.id \in Nat /\ screen.id <= screen'.id
        BY <2>1, IdIs
    <3>3. \A i \in DOMAIN toServer' : toServer'[i].kind # "unsubscribe" => toServer'[i].of <= screen'.id
        BY <3>1, <3>2, OfAsks
    <3> QED
        BY <2>1, <2>3, <3>3 DEF OfInv
  <2> QED
    BY <1>3, <2>2, <2>3, ServeSubscribeIs
<1>4. CASE Arrives
    BY <1>4, OfArrives
<1>5. ASSUME toClient' = toClient, UNCHANGED session,
             \/ toServer' = toServer
             \/ toServer' = Append(toServer, Unsubscribing)
             \/ \E m \in ChatAsks : toServer' = Append(toServer, m) /\ m.of <= screen'.id,
             screen'.id \in Nat, screen.id <= screen'.id,
             screen'.id = 0 => Idle'
      PROVE  OfInv'
  <2>1. \A i \in DOMAIN toServer' : toServer'[i].kind # "unsubscribe" => toServer'[i].of <= screen'.id
    BY <1>5, OfAsks
  <2>2. \A i \in DOMAIN toClient' : toClient'[i].kind # "event" => toClient'[i].of <= screen'.id
    <3>1. <<>> \in Seq(Frames) /\ DOMAIN <<>> = {} /\ toClient' = toClient \o <<>>
        BY <1>5, OfQuiet
    <3> QED
        BY <1>5, <3>1, OfFrames
  <2>3. starting'.of <= screen'.id
    BY <1>5, IdIs DEF OfInv, session
  <2> QED
    BY <1>5, <2>1, <2>2, <2>3 DEF OfInv
<1>6. ASSUME NEW why, Errs(why)
      PROVE  screen'.id = screen.id /\ ~draining'
    BY <1>6 DEF Errs, ChatData
<1>7. CASE Drains
  <2>1. toClient' = toClient /\ UNCHANGED session
    BY <1>7 DEF Drains, DrainsNext, Drained, DrainsEvent, channel
  <2>2. draining
    BY <1>7 DEF Drains, DrainsNext, Drained, DrainsEvent, Running
  <2>3. screen'.id = screen.id
    BY <1>6, <1>7 DEF Drains, DrainsNext, Drained, DrainsEvent, ChatData
  <2>4. toServer' = toServer \/ \E e \in batch : Loads(e)
    BY <1>7 DEF Drains, DrainsNext, Drained, DrainsEvent, channel
  <2>5. toServer' = toServer \/ toServer' = Append(toServer, Paging(screen.id, 0))
    BY <2>4 DEF Loads
  <2>6. Paging(screen.id, 0) \in ChatAsks /\ Paging(screen.id, 0).of = screen.id /\ screen.id \in Nat
    BY IdIs, AskKinds
  <2>7. \/ toServer' = toServer
        \/ \E m \in ChatAsks : toServer' = Append(toServer, m) /\ m.of <= screen'.id
    BY <2>3, <2>5, <2>6
  <2>8. screen'.id # 0 /\ screen'.id \in Nat /\ screen.id <= screen'.id
    BY <2>2, <2>3, <2>6 DEF OfInv, Idle
  <2> QED
    BY <1>5, <2>1, <2>7, <2>8
<1>8. CASE Open
  <2>1. /\ screen' = [id |-> screen.id + 1, phase |-> "loading", why |-> "none"]
        /\ toServer' = Append(toServer, Subscribing(screen.id + 1))
        /\ toClient' = toClient /\ UNCHANGED session
    BY <1>8 DEF Open
  <2>2. screen.id \in Nat /\ screen.id + 1 \in Nat
    BY IdIs
  <2>3. /\ Subscribing(screen.id + 1) \in ChatAsks /\ Subscribing(screen.id + 1).of = screen.id + 1
        /\ screen'.id = screen.id + 1
    BY <2>1, <2>2, AskKinds
  <2>4. \E m \in ChatAsks : toServer' = Append(toServer, m) /\ m.of <= screen'.id
    BY <2>1, <2>2, <2>3
  <2> QED
    BY <1>5, <2>1, <2>2, <2>3, <2>4
<1>9. CASE Leave
  <2>1. /\ screen' = [screen EXCEPT !.phase = "none", !.why = "none"] /\ Idle'
        /\ toServer' = Append(toServer, Unsubscribing)
        /\ toClient' = toClient /\ UNCHANGED session
    BY <1>9 DEF Leave, Forgets, Idle, ChatData
  <2>2. screen'.id = screen.id /\ screen'.phase = "none" /\ screen.id \in Nat
    BY <2>1 DEF ChatData
  <2> QED
    BY <1>5, <2>1, <2>2
<1>10. ASSUME NEW r \in Runs, Send(r) PROVE OfInv'
  <2>1. /\ toServer' = Append(toServer, Sending(screen.id, r))
        /\ toClient' = toClient /\ UNCHANGED <<session, screen>> /\ (Idle => Idle')
    BY <1>10 DEF Send, work, Idle
  <2>2. screen.id \in Nat
    BY IdIs
  <2>3. Sending(screen.id, r) \in ChatAsks /\ Sending(screen.id, r).of = screen.id
    BY <2>2, AskKinds
  <2>4. \E m \in ChatAsks : toServer' = Append(toServer, m) /\ m.of <= screen'.id
    BY <2>1, <2>2, <2>3
  <2>5. screen'.id \in Nat /\ screen.id <= screen'.id /\ (screen'.id = 0 => Idle')
    BY <2>1, <2>2 DEF OfInv
  <2> QED
    BY <1>5, <2>1, <2>4, <2>5
<1>11. CASE Edit
  <2>1. toServer' = toServer /\ toClient' = toClient /\ UNCHANGED <<session, screen>> /\ (Idle => Idle')
    BY <1>11 DEF Edit, channel, work, Idle
  <2>2. screen'.id \in Nat /\ screen.id <= screen'.id /\ (screen'.id = 0 => Idle')
    BY <2>1, IdIs DEF OfInv
  <2> QED
    BY <1>5, <2>1, <2>2
<1>12. CASE SendTimesOut
  <2>1. /\ toServer' = Unawaited(toServer) /\ toClient' = Unawaited(toClient)
        /\ starting' = [starting EXCEPT !.of = Nobody] /\ UNCHANGED screen /\ (Idle => Idle')
    BY <1>12 DEF SendTimesOut, SendLapses, work, Idle
  <2>2. screen.id \in Nat /\ toServer \in Seq(ChatAsks) /\ toClient \in Seq(Frames) /\ Nobody <= screen.id
    BY IdIs DEF Nobody
  <2>3. starting'.of <= screen'.id
    BY <2>1, <2>2 DEF ChatData
  <2>4. \A i \in DOMAIN toServer' : toServer'[i].kind # "unsubscribe" => toServer'[i].of <= screen'.id
    BY <2>1, <2>2, UnawaitedAsks DEF OfInv
  <2>5. \A i \in DOMAIN toClient' : toClient'[i].kind # "event" => toClient'[i].of <= screen'.id
    BY <2>1, <2>2, UnawaitedFrames DEF OfInv
  <2> QED
    BY <2>1, <2>3, <2>4, <2>5 DEF OfInv
<1>13. CASE RequestTimesOut
  <2>1. Errs("request") /\ toServer' = toServer /\ toClient' = toClient /\ UNCHANGED session
    BY <1>13 DEF RequestTimesOut, channel
  <2>2. screen'.id = screen.id /\ ~draining' /\ screen.id \in Nat /\ screen'.phase = "error"
    BY <2>1, <1>6, IdIs DEF Errs, ChatData
  <2>3. job # NoJob
    BY <1>13 DEF RequestTimesOut
  <2>4. screen'.id # 0 /\ screen'.id \in Nat /\ screen.id <= screen'.id
    BY <2>2, <2>3 DEF OfInv, Idle
  <2> QED
    BY <1>5, <2>1, <2>4
<1>14. CASE ConnectionLost
  <2>1. /\ screen' = [screen EXCEPT !.phase = "none", !.why = "none"] /\ Idle'
        /\ toServer' = <<>> /\ toClient' = <<>> /\ starting' = NoSend
    BY <1>14 DEF ConnectionLost, Forgets, Idle, ChatData
  <2>2. screen'.id = screen.id /\ screen'.phase = "none" /\ screen.id \in Nat /\ starting'.of = 0
        /\ DOMAIN toServer' = {} /\ DOMAIN toClient' = {}
    BY <2>1 DEF ChatData, NoSend, Nobody
  <2> QED
    BY <2>1, <2>2 DEF OfInv
<1> QED
    BY <1>1, <1>2, <1>3, <1>4, <1>7, <1>8, <1>9, <1>10, <1>11, <1>12, <1>13, <1>14, NextCases DEF ChatActs

\* A Run that nobody is about to make.
Dead(r) ==
    /\ log[r].seq = 0 /\ starting.run # r
    /\ \A i \in DOMAIN toServer : toServer[i].kind = "send" => toServer[i].run # r

\* The request that is kept is for what is written, and every other request for it,
\* like all but one of those for an earlier text, makes no Run.
DraftInv ==
    /\ draft >= 1
    /\ \A r \in Runs : asked[r] <= draft
    /\ pending # NoReserve => asked[pending.run] = pending.draft /\ pending.draft >= 1
    /\ sending => pending # NoReserve /\ pending.draft = draft
    /\ \A r \in Runs : asked[r] = draft /\ r # pending.run => Dead(r)
    /\ \A r, q \in Runs : r # q /\ asked[r] = asked[q] /\ asked[r] # 0 => Dead(r) \/ Dead(q)

Replying == {"accepted", "refused", "failed"}
Reply(m) == m.kind \in Replying /\ m.of = screen.id

\* A send of the screen is on its way, being looked at or answered, never two of these;
\* and a refusal that has not come yet still tells the truth.
AwaitInv == screen.phase # "none" =>
    /\ \A i \in DOMAIN toServer : toServer[i].kind = "send" /\ toServer[i].of = screen.id =>
          /\ sending /\ toServer[i].run = pending.run /\ starting.of # screen.id
          /\ \A j \in DOMAIN toServer : j > i => toServer[j].kind # "send"
          /\ \A j \in DOMAIN toClient : ~Reply(toClient[j])
    /\ starting.of = screen.id =>
          /\ sending /\ starting.run = pending.run
          /\ \A j \in DOMAIN toServer : toServer[j].kind # "send"
          /\ \A j \in DOMAIN toClient : ~Reply(toClient[j])
    /\ \A i \in DOMAIN toClient : Reply(toClient[i]) =>
          /\ sending
          /\ \A j \in DOMAIN toClient : Reply(toClient[j]) => i = j
          /\ toClient[i].kind = "refused" => Dead(pending.run)

\* The entries of a queue that come from an earlier one, d further on.
SendsFrom(t, q, d) == \A i \in DOMAIN t : t[i].kind = "send" => i + d \in DOMAIN q /\ t[i] = q[i + d]
RepliesFrom(t, q, d) == \A i \in DOMAIN t : t[i].kind \in Replying => i + d \in DOMAIN q /\ t[i] = q[i + d]

LEMMA SendsSame ==
    ASSUME NEW q \in Seq(ChatAsks), NEW t
    PROVE  /\ t = q => SendsFrom(t, q, 0)
           /\ q # <<>> /\ t = Tail(q) => SendsFrom(t, q, 1)
           /\ \A m \in ChatAsks : t = Append(q, m) /\ m.kind # "send" => SendsFrom(t, q, 0)
<1>1. t = q => SendsFrom(t, q, 0)
  <2>1. \A i \in DOMAIN q : i + 0 = i
    OBVIOUS
  <2> QED
    BY <2>1 DEF SendsFrom
<1>2. q # <<>> /\ t = Tail(q) => SendsFrom(t, q, 1)
    BY Taken DEF SendsFrom
<1>3. ASSUME NEW m \in ChatAsks, t = Append(q, m), m.kind # "send" PROVE SendsFrom(t, q, 0)
  <2>1. /\ \A i \in DOMAIN q : i + 0 = i /\ t[i] = q[i]
        /\ \A i \in DOMAIN t : i \in DOMAIN q \/ i = Len(q) + 1
        /\ t[Len(q) + 1] = m
    BY <1>3, AddedOne
  <2> QED
    BY <1>3, <2>1 DEF SendsFrom
<1> QED
    BY <1>1, <1>2, <1>3

LEMMA RepliesSame ==
    ASSUME NEW q \in Seq(Frames), NEW t
    PROVE  /\ t = q => RepliesFrom(t, q, 0)
           /\ q # <<>> /\ t = Tail(q) => RepliesFrom(t, q, 1)
           /\ \A m \in Frames : t = Append(q, m) /\ m.kind \notin Replying => RepliesFrom(t, q, 0)
           /\ \A evs \in Seq(ChatEvents) : t = q \o evs => RepliesFrom(t, q, 0)
<1>1. t = q => RepliesFrom(t, q, 0)
  <2>1. \A i \in DOMAIN q : i + 0 = i
    OBVIOUS
  <2> QED
    BY <2>1 DEF RepliesFrom
<1>2. q # <<>> /\ t = Tail(q) => RepliesFrom(t, q, 1)
    BY Taken DEF RepliesFrom
<1>3. ASSUME NEW m \in Frames, t = Append(q, m), m.kind \notin Replying PROVE RepliesFrom(t, q, 0)
  <2>1. /\ \A i \in DOMAIN q : i + 0 = i /\ t[i] = q[i]
        /\ \A i \in DOMAIN t : i \in DOMAIN q \/ i = Len(q) + 1
        /\ t[Len(q) + 1] = m
    BY <1>3, AddedOne
  <2> QED
    BY <1>3, <2>1 DEF RepliesFrom
<1>4. ASSUME NEW evs \in Seq(ChatEvents), t = q \o evs PROVE RepliesFrom(t, q, 0)
  <2>1. evs \in Seq(Frames) /\ \A i \in DOMAIN evs : evs[i].kind \notin Replying
    <3>1. Seq(ChatEvents) \subseteq Seq(Frames)
        BY FrameKinds, SeqMonotonic
    <3>2. \A i \in DOMAIN evs : evs[i] \in ChatEvents
        OBVIOUS
    <3> QED
        BY <3>1, <3>2, EventKinds DEF Replying
  <2>2. \A i \in DOMAIN t : \/ i \in DOMAIN q /\ t[i] = q[i]
                            \/ \E j \in DOMAIN evs : t[i] = evs[j]
    BY <1>4, <2>1, Added
  <2>3. \A i \in DOMAIN q : i + 0 = i
    OBVIOUS
  <2> QED
    BY <2>1, <2>2, <2>3 DEF RepliesFrom
<1> QED
    BY <1>1, <1>2, <1>3, <1>4

LEMMA NobodyRun == \A r \in Runs : r # 0 /\ NoSend.run # r /\ NoReserve.run # r
BY ChatAssumption DEF NoSend, NoReserve

\* The head of the queue is a send, and it is taken.
LEMMA HeadIs ==
    ASSUME ChatData, toServer # <<>>
    PROVE  Head(toServer) = toServer[1] /\ 1 \in DOMAIN toServer /\ Head(toServer) \in ChatAsks
BY IdIs, Taken

\* What the server does makes no Run that nobody is about to make.
LEMMA DeadServer ==
    ASSUME ChatData, Growing, NEW r \in Runs, Dead(r), asked[r] # 0
    PROVE  Dead(r)'
<1>1. PICK evs, rep : Growth(evs, rep) /\ Answer(rep)
    BY DEF Growing
<1>2. /\ log[r].seq = 0 /\ starting.run # r
      /\ \A i \in DOMAIN toServer : toServer[i].kind = "send" => toServer[i].run # r
    BY DEF Dead
<1>3. toServer # <<>> /\ Head(toServer).kind = "send" => Head(toServer).run # r
    BY <1>2, HeadIs
<1>4. log'[r].seq = 0
    BY <1>1, <1>2, <1>3 DEF Answer
<1>5. starting'.run # r
    BY <1>1, <1>2, <1>3, NobodyRun DEF Answer
<1>6. \A i \in DOMAIN toServer' : toServer'[i].kind = "send" => toServer'[i].run # r
  <2>1. SendsFrom(toServer', toServer, 0) \/ SendsFrom(toServer', toServer, 1)
    BY <1>1, IdIs, SendsSame DEF Growth
  <2> QED
    BY <1>2, <2>1 DEF SendsFrom
<1> QED
    BY <1>4, <1>5, <1>6 DEF Dead

LEMMA DeadKept ==
    ASSUME NEW r \in Runs, Dead(r), log'[r].seq = 0, starting'.run = starting.run \/ starting' = NoSend,
           SendsFrom(toServer', toServer, 0) \/ SendsFrom(toServer', toServer, 1)
    PROVE  Dead(r)'
<1>1. \A i \in DOMAIN toServer' : toServer'[i].kind = "send" => toServer'[i].run # r
    BY DEF SendsFrom, Dead
<1>2. starting'.run # r
    BY NobodyRun DEF Dead
<1> QED
    BY <1>1, <1>2 DEF Dead

LEMMA AsksStay ==
    ASSUME ChatData, ChatNext, ~ServerGrows, ~SendTimesOut, ~ConnectionLost, \A r \in Runs : ~Send(r)
    PROVE  /\ SendsFrom(toServer', toServer, 0) \/ SendsFrom(toServer', toServer, 1)
           /\ starting' = starting
           /\ ~ServePage => UNCHANGED session
<1>1. toServer \in Seq(ChatAsks) /\ screen.id \in Nat
    BY IdIs
<1>2. CASE ServePage
  <2>1. toServer # <<>> /\ toServer' = Tail(toServer) /\ starting' = starting
    BY <1>2 DEF ServePage, Requested
  <2> QED
    BY <1>1, <1>2, <2>1, SendsSame
<1>3. CASE ServeSubscribe \/ ServeUnsubscribe
  <2>1. toServer # <<>> /\ toServer' = Tail(toServer) /\ UNCHANGED session
    BY <1>3 DEF ServeSubscribe, ServeUnsubscribe, Requested
  <2> QED
    BY <1>1, <2>1, SendsSame DEF session
<1>4. CASE Arrives
  <2>1. UNCHANGED session
    BY <1>4 DEF Arrives, EventDropped, EventDelivered, EventKept, SubscribedArrives, PageArrives,
          MissingArrives, AnswerDropped, AcceptedArrives, RefusedArrives, FailedArrives
  <2>2. \/ toServer' = toServer
        \/ \E n \in Nat : toServer' = Append(toServer, Paging(screen.id, n))
    <3>1. CASE PageArrives
        BY <3>1, PageArrivesIs
    <3>2. CASE SubscribedArrives
        BY <3>2 DEF SubscribedArrives, Loads
    <3> QED
        BY <1>4, <3>1, <3>2 DEF Arrives, EventDropped, EventDelivered, EventKept,
          MissingArrives, AnswerDropped, AcceptedArrives, RefusedArrives, FailedArrives
  <2>3. \A n \in Nat : Paging(screen.id, n) \in ChatAsks /\ Paging(screen.id, n).kind # "send"
    BY <1>1, AskKinds
  <2> QED
    BY <1>1, <2>1, <2>2, <2>3, SendsSame DEF session
<1>5. CASE Drains
  <2>1. UNCHANGED session
    BY <1>5 DEF Drains, DrainsNext, Drained, DrainsEvent
  <2>2. toServer' = toServer \/ toServer' = Append(toServer, Paging(screen.id, 0))
    BY <1>5 DEF Drains, DrainsNext, Drained, DrainsEvent, channel, Loads
  <2>3. Paging(screen.id, 0) \in ChatAsks /\ Paging(screen.id, 0).kind # "send"
    BY <1>1, AskKinds
  <2> QED
    BY <1>1, <2>1, <2>2, <2>3, SendsSame DEF session
<1>6. CASE Open \/ Leave \/ Edit \/ RequestTimesOut
  <2>1. UNCHANGED session
    BY <1>6 DEF Open, Leave, Edit, RequestTimesOut
  <2>2. \/ toServer' = toServer \/ toServer' = Append(toServer, Unsubscribing)
        \/ toServer' = Append(toServer, Subscribing(screen.id + 1))
    BY <1>6 DEF Open, Leave, Edit, RequestTimesOut, channel
  <2>3. /\ Unsubscribing \in ChatAsks /\ Unsubscribing.kind # "send"
        /\ Subscribing(screen.id + 1) \in ChatAsks /\ Subscribing(screen.id + 1).kind # "send"
    BY <1>1, AskKinds
  <2> QED
    BY <1>1, <2>1, <2>2, <2>3, SendsSame DEF session
<1> QED
    BY <1>2, <1>3, <1>4, <1>5, <1>6, NextCases DEF ChatActs

LEMMA DeadNext ==
    ASSUME ChatData, MadeInv, ChatNext, NEW r \in Runs, Dead(r), asked[r] # 0, ~Send(r)
    PROVE  Dead(r)'
<1>1. CASE ServerGrows
    BY <1>1, ServerGrowing, DeadServer
<1>2. CASE SendTimesOut
  <2>1. /\ toServer' = Unawaited(toServer) /\ log' = log
        /\ starting' = [starting EXCEPT !.of = Nobody]
    BY <1>2 DEF SendTimesOut, SendLapses
  <2>2. starting'.run = starting.run
    BY <2>1 DEF ChatData
  <2>3. \A i \in DOMAIN toServer' : toServer'[i].kind = "send" => toServer'[i].run # r
    BY <2>1, IdIs, UnawaitedAsks DEF Dead
  <2> QED
    BY <2>1, <2>2, <2>3 DEF Dead
<1>3. CASE ConnectionLost
  <2>1. toServer' = <<>> /\ log' = log /\ starting' = NoSend /\ DOMAIN toServer' = {}
    BY <1>3 DEF ConnectionLost
  <2> QED
    BY <2>1, NobodyRun DEF Dead
<1>4. ASSUME NEW q \in Runs, Send(q) PROVE Dead(r)'
  <2>1. toServer' = Append(toServer, Sending(screen.id, q)) /\ UNCHANGED <<log, starting>> /\ q # r
    BY <1>4 DEF Send, session
  <2>2. toServer \in Seq(ChatAsks) /\ Sending(screen.id, q) \in ChatAsks /\ Sending(screen.id, q).run = q
    BY IdIs, AskKinds
  <2>3. \A i \in DOMAIN toServer' : toServer'[i].kind = "send" => toServer'[i].run # r
    <3> DEFINE m == Sending(screen.id, q)
    <3>0. toServer' = Append(toServer, m) /\ m \in ChatAsks /\ m.run = q
        BY <2>1, <2>2
    <3> HIDE DEF m
    <3>1. /\ \A i \in DOMAIN toServer : toServer'[i] = toServer[i]
          /\ \A i \in DOMAIN toServer' : i \in DOMAIN toServer \/ i = Len(toServer) + 1
          /\ toServer'[Len(toServer) + 1] = m
        BY <2>2, <3>0, AddedOne
    <3> QED
        BY <2>1, <3>0, <3>1 DEF Dead
  <2> QED
    BY <2>1, <2>3 DEF Dead
<1>5. CASE ~ServerGrows /\ ~SendTimesOut /\ ~ConnectionLost /\ \A q \in Runs : ~Send(q)
  <2>1. /\ SendsFrom(toServer', toServer, 0) \/ SendsFrom(toServer', toServer, 1)
        /\ starting' = starting
        /\ ~ServePage => UNCHANGED session
    BY <1>5, AsksStay
  <2>2. log'[r].seq = 0
    <3>1. CASE ServePage
      <4>1. log'[r].seq = log[r].seq \/ Orphan(r)
        BY <3>1, ServePageIs DEF PageServed
      <4> QED
        BY <4>1 DEF Dead, Orphan
    <3>2. CASE ~ServePage
        BY <2>1, <3>2 DEF session, Dead
    <3> QED
        BY <3>1, <3>2
  <2> QED
    BY <2>1, <2>2, DeadKept
<1> QED
    BY <1>1, <1>2, <1>3, <1>4, <1>5

LEMMA DraftSame ==
    ASSUME ChatData, MadeInv, DraftInv, ChatNext, \A r \in Runs : ~Send(r),
           \/ UNCHANGED <<draft, asked, pending>>
           \/ UNCHANGED <<draft, asked>> /\ pending' = NoReserve
                /\ (pending.run \in Runs /\ asked[pending.run] = draft => Dead(pending.run))
           \/ /\ draft' = draft + 1 /\ asked' = asked /\ pending' \in {pending, NoReserve}
           \/ /\ draft' = IF \E r \in Runs : asked[r] = draft THEN draft + 1 ELSE draft
              /\ asked' = asked /\ pending' = NoReserve,
           ~sending' \/ (sending' = sending /\ UNCHANGED <<draft, asked, pending>>)
    PROVE  DraftInv'
<1>1. /\ draft \in Nat /\ draft >= 1 /\ \A r \in Runs : asked[r] \in Nat /\ asked[r] <= draft
      /\ asked' = asked
    BY DEF DraftInv, ChatData
<1>2. \A r \in Runs : asked[r] # 0 /\ Dead(r) => Dead(r)'
    BY DeadNext
<1>3. draft' \in {draft, draft + 1} /\ pending' \in {pending, NoReserve}
    OBVIOUS
<1>4. draft' >= 1 /\ \A r \in Runs : asked[r] <= draft'
    BY <1>1, <1>3
<1>5. pending' # NoReserve => asked'[pending'.run] = pending'.draft /\ pending'.draft >= 1
    BY <1>1, <1>3 DEF DraftInv
<1>6. sending' => pending' # NoReserve /\ pending'.draft = draft'
    BY DEF DraftInv
<1>7. \A r \in Runs : asked'[r] = draft' /\ r # pending'.run => Dead(r)'
  <2>1. SUFFICES ASSUME NEW r \in Runs, asked[r] = draft', r # pending'.run PROVE Dead(r)
    BY <1>1, <1>2, <1>4
  <2>2. draft' = draft
    BY <1>1, <1>3, <2>1
  <2>3. CASE r # pending.run
    BY <2>1, <2>2, <2>3 DEF DraftInv
  <2>4. CASE r = pending.run
    <3>1. pending' # pending
        BY <2>1, <2>4
    <3>2. asked[r] = draft
        BY <2>1, <2>2
    <3>3. draft' # draft + 1
        BY <1>1, <2>2
    <3> QED
        BY <2>4, <3>1, <3>2, <3>3
  <2> QED
    BY <2>3, <2>4
<1>8. \A r, q \in Runs : r # q /\ asked'[r] = asked'[q] /\ asked'[r] # 0 => Dead(r)' \/ Dead(q)'
    BY <1>1, <1>2 DEF DraftInv
<1> QED
    BY <1>4, <1>5, <1>6, <1>7, <1>8 DEF DraftInv

LEMMA DraftSend ==
    ASSUME ChatData, MadeInv, DraftInv, ChatNext, NEW r \in Runs, Send(r)
    PROVE  DraftInv'
<1>1. /\ draft \in Nat /\ draft >= 1 /\ \A q \in Runs : asked[q] \in Nat /\ asked[q] <= draft
      /\ asked \in [Runs -> Nat]
    BY DEF DraftInv, ChatData
<1>2. /\ Reserved(r) /\ pending' = [run |-> r, draft |-> draft]
      /\ asked' = [asked EXCEPT ![r] = draft] /\ sending' = TRUE /\ draft' = draft
    BY DEF Send
<1>3. asked'[r] = draft /\ \A q \in Runs \ {r} : asked'[q] = asked[q]
    BY <1>1, <1>2
<1>4. \A q \in Runs \ {r} : asked[q] # 0 /\ Dead(q) => Dead(q)'
  <2>1. ASSUME NEW q \in Runs \ {r} PROVE ~Send(q)
    <3>1. CASE Send(q)
      <4>1. pending' = [run |-> q, draft |-> draft]
        BY <3>1 DEF Send
      <4> QED
        BY <1>2, <4>1
    <3> QED
      BY <3>1
  <2> QED
    BY <2>1, DeadNext
<1>5. \A q \in Runs \ {r} : asked[q] = draft => Dead(q)
  <2>1. CASE pending # NoReserve /\ pending.draft = draft
    <3>1. r = pending.run
        BY <1>2, <2>1 DEF Reserved
    <3> QED
        BY <3>1 DEF DraftInv
  <2>2. CASE ~(pending # NoReserve /\ pending.draft = draft)
    <3>1. ASSUME NEW q \in Runs, asked[q] = draft PROVE q # pending.run
      <4>1. CASE q = pending.run
        <5>1. pending # NoReserve /\ pending.draft = asked[q]
          BY <4>1, NobodyRun DEF DraftInv
        <5> QED
          BY <2>2, <3>1, <5>1
      <4> QED
        BY <4>1
    <3> QED
      BY <3>1 DEF DraftInv
  <2> QED
    BY <2>1, <2>2
<1>6. \A q \in Runs : asked'[q] = draft' /\ q # pending'.run => Dead(q)'
    BY <1>1, <1>2, <1>3, <1>4, <1>5
<1>7. ASSUME NEW p \in Runs, NEW q \in Runs, p # q, asked'[p] = asked'[q], asked'[p] # 0
      PROVE  Dead(p)' \/ Dead(q)'
  <2>1. CASE p = r
    BY <1>1, <1>3, <1>4, <1>5, <1>7, <2>1
  <2>2. CASE q = r
    BY <1>1, <1>3, <1>4, <1>5, <1>7, <2>2
  <2>3. CASE p # r /\ q # r
    BY <1>3, <1>4, <1>7, <2>3 DEF DraftInv
  <2> QED
    BY <2>1, <2>2, <2>3
<1>8. \A q \in Runs : asked'[q] <= draft'
    BY <1>1, <1>2, <1>3
<1>9. pending' # NoReserve /\ asked'[pending'.run] = pending'.draft /\ pending'.draft = draft
    BY <1>2, <1>3, NobodyRun
<1> QED
    BY <1>1, <1>2, <1>6, <1>7, <1>8, <1>9 DEF DraftInv

LEMMA DraftNext ==
    ASSUME ChatData, MadeInv, OfInv, DraftInv, AwaitInv, ChatNext
    PROVE  DraftInv'
<1>1. CASE \E r \in Runs : Send(r)
    BY <1>1, DraftSend
<1>2. CASE \A r \in Runs : ~Send(r)
  <2>0. sending \in BOOLEAN
    BY DEF ChatData
  <2>1. CASE ServerGrows
    <3>1. UNCHANGED writing
        BY <2>1, ServerGrowing DEF Growing, Growth
    <3> QED
        BY <1>2, <3>1, DraftSame DEF writing
  <2>2. CASE ServePage \/ ServeSubscribe \/ ServeUnsubscribe \/ Drains \/ Open \/ RequestTimesOut
    <3>1. UNCHANGED writing
        BY <2>2 DEF ServePage, ServeSubscribe, ServeUnsubscribe, Drains, DrainsNext, Drained, DrainsEvent,
                    Open, RequestTimesOut
    <3> QED
        BY <1>2, <3>1, DraftSame DEF writing
  <2>3. CASE EventDropped \/ EventDelivered \/ EventKept \/ SubscribedArrives \/ PageArrives
                \/ MissingArrives \/ AnswerDropped
    <3>1. UNCHANGED writing
        BY <2>3 DEF EventDropped, EventDelivered, EventKept, SubscribedArrives, PageArrives,
                    MissingArrives, AnswerDropped
    <3> QED
        BY <1>2, <3>1, DraftSame DEF writing
  <2>4. CASE AcceptedArrives
    BY <1>2, <2>4, DraftSame DEF AcceptedArrives
  <2>5. CASE RefusedArrives
    <3>1. /\ First = toClient[1] /\ 1 \in DOMAIN toClient /\ First.kind = "refused"
          /\ screen.phase # "none" /\ First.of = screen.id
        BY <2>5, FirstIs DEF RefusedArrives, ForUs
    <3>2. Dead(pending.run)
        BY <3>1 DEF AwaitInv, Reply, Replying
    <3> QED
        BY <1>2, <2>5, <3>2, DraftSame DEF RefusedArrives
  <2>6. CASE FailedArrives
    BY <1>2, <2>6, DraftSame DEF FailedArrives
  <2>7. CASE SendTimesOut
    BY <1>2, <2>7, DraftSame DEF SendTimesOut, SendLapses
  <2>8. CASE Edit
    BY <1>2, <2>8, DraftSame DEF Edit
  <2>9. CASE Leave \/ ConnectionLost
    BY <1>2, <2>9, DraftSame DEF Leave, ConnectionLost, Forgets
  <2> QED
    BY <1>2, <2>1, <2>2, <2>3, <2>4, <2>5, <2>6, <2>7, <2>8, <2>9, NextCases DEF ChatActs, Arrives
<1> QED
    BY <1>1, <1>2

\* A step in which the screen sends nothing and gets no answer.
LEMMA AwaitSame ==
    ASSUME ChatData, AwaitInv, NEW d \in {0, 1}, NEW c \in {0, 1},
           SendsFrom(toServer', toServer, d),
           \A i \in DOMAIN toClient' : Reply(toClient'[i]) =>
              i + c \in DOMAIN toClient /\ toClient'[i] = toClient[i + c],
           screen'.id = screen.id, screen'.phase # "none" => screen.phase # "none",
           starting' = starting \/ starting'.of # screen.id, pending' = pending, sending' = sending,
           toServer' \in Seq(ChatAsks), toClient' \in Seq(Frames),
           screen.phase # "none" /\ Dead(pending.run) /\ sending => Dead(pending.run)'
    PROVE  AwaitInv'
<1> SUFFICES ASSUME screen'.phase # "none" PROVE AwaitInv'
    BY DEF AwaitInv
<1>1. screen.phase # "none"
    OBVIOUS
<1>2. /\ \A i \in DOMAIN toServer' : i \in Nat
      /\ \A i \in DOMAIN toClient' : i \in Nat
    OBVIOUS
<1>4. \A i \in DOMAIN toClient' : Reply(toClient'[i]) =>
         /\ i + c \in DOMAIN toClient /\ Reply(toClient[i + c]) /\ toClient'[i] = toClient[i + c]
    BY DEF Reply
<1>5. ASSUME \A j \in DOMAIN toClient : ~Reply(toClient[j])
      PROVE  \A j \in DOMAIN toClient' : ~Reply(toClient'[j])
    BY <1>4, <1>5
<1>6. ASSUME NEW i \in DOMAIN toServer', toServer'[i].kind = "send", toServer'[i].of = screen.id
      PROVE  /\ sending' /\ toServer'[i].run = pending'.run /\ starting'.of # screen'.id
             /\ \A j \in DOMAIN toServer' : j > i => toServer'[j].kind # "send"
             /\ \A j \in DOMAIN toClient' : ~Reply(toClient'[j])
  <2>1. i + d \in DOMAIN toServer /\ toServer'[i] = toServer[i + d]
    BY <1>6 DEF SendsFrom
  <2>2. /\ sending /\ toServer[i + d].run = pending.run /\ starting.of # screen.id
        /\ \A j \in DOMAIN toServer : j > i + d => toServer[j].kind # "send"
        /\ \A j \in DOMAIN toClient : ~Reply(toClient[j])
    BY <1>1, <1>6, <2>1 DEF AwaitInv
  <2>3. ASSUME NEW j \in DOMAIN toServer', j > i, toServer'[j].kind = "send" PROVE FALSE
    <3>1. j + d \in DOMAIN toServer /\ toServer'[j] = toServer[j + d] /\ j + d > i + d
        BY <1>2, <2>3 DEF SendsFrom
    <3> QED
        BY <2>2, <2>3, <3>1
  <2> QED
    BY <1>5, <2>1, <2>2, <2>3
<1>7. ASSUME starting'.of = screen.id
      PROVE  /\ sending' /\ starting'.run = pending'.run
             /\ \A j \in DOMAIN toServer' : toServer'[j].kind # "send"
             /\ \A j \in DOMAIN toClient' : ~Reply(toClient'[j])
  <2>0. starting' = starting
    BY <1>7
  <2>1. /\ sending /\ starting.run = pending.run
        /\ \A j \in DOMAIN toServer : toServer[j].kind # "send"
        /\ \A j \in DOMAIN toClient : ~Reply(toClient[j])
    BY <1>1, <1>7, <2>0 DEF AwaitInv
  <2>2. \A j \in DOMAIN toServer' : toServer'[j].kind # "send"
    BY <2>1 DEF SendsFrom
  <2> QED
    BY <1>5, <2>0, <2>1, <2>2
<1>8. ASSUME NEW i \in DOMAIN toClient', Reply(toClient'[i])
      PROVE  /\ sending'
             /\ \A j \in DOMAIN toClient' : Reply(toClient'[j]) => i = j
             /\ toClient'[i].kind = "refused" => Dead(pending.run)'
  <2>1. i + c \in DOMAIN toClient /\ Reply(toClient[i + c]) /\ toClient'[i] = toClient[i + c]
    BY <1>4, <1>8
  <2>2. /\ sending /\ \A j \in DOMAIN toClient : Reply(toClient[j]) => i + c = j
        /\ toClient[i + c].kind = "refused" => Dead(pending.run)
    BY <1>1, <2>1 DEF AwaitInv
  <2>3. ASSUME NEW j \in DOMAIN toClient', Reply(toClient'[j]) PROVE i = j
    <3>1. i + c = j + c
        BY <1>4, <2>2, <2>3
    <3> QED
        BY <1>2, <3>1
  <2> QED
    BY <1>1, <2>1, <2>2, <2>3
<1> QED
    BY <1>6, <1>7, <1>8 DEF AwaitInv, Reply

\* A screen that neither loads nor shows the chat waits for nothing.
Live == screen.phase \in {"loading", "ready"}
RestInv ==
    /\ screen.phase \in {"none", "loading", "ready", "error"}
    /\ ~Live => ~draining /\ job = NoJob /\ provisional = {} /\ batch = {}

LEMMA RestNext ==
    ASSUME ChatData, MadeInv, RestInv, ChatNext
    PROVE  /\ RestInv'
           /\ ~Open /\ ~Leave /\ ~ConnectionLost => /\ screen'.id = screen.id
                                                    /\ screen'.phase = "none" <=> screen.phase = "none"
<1>1. /\ screen \in [id : Nat, phase : {"none", "loading", "ready", "error"},
                     why : {"none", "request", "absent", "gap"}]
      /\ screen'.phase \in {"none", "loading", "ready", "error"}
    BY ChatDataNext DEF ChatData
<1>2. ASSUME UNCHANGED <<screen, work>>
      PROVE  RestInv' /\ screen'.id = screen.id /\ (screen'.phase = "none" <=> screen.phase = "none")
    BY <1>2 DEF RestInv, Live, work
<1>3. ASSUME NEW why, Errs(why), Live
      PROVE  RestInv' /\ screen'.id = screen.id /\ (screen'.phase = "none" <=> screen.phase = "none")
    BY <1>1, <1>3 DEF RestInv, Errs, Live
<1>4. ASSUME UNCHANGED screen, Live
      PROVE  RestInv' /\ screen'.id = screen.id /\ (screen'.phase = "none" <=> screen.phase = "none")
    BY <1>4 DEF RestInv, Live
<1>5. CASE ServerGrows
    BY <1>2, <1>5, ServerGrowing DEF Growing, Growth
<1>6. CASE ServePage \/ ServeSubscribe \/ ServeUnsubscribe
    BY <1>2, <1>6 DEF ServePage, ServeSubscribe, ServeUnsubscribe
<1>7. CASE Arrives
  <2>1. CASE EventDropped \/ EventDelivered \/ AnswerDropped \/ AcceptedArrives \/ RefusedArrives
                \/ FailedArrives
    BY <1>2, <2>1 DEF EventDropped, EventDelivered, AnswerDropped, AcceptedArrives, RefusedArrives,
                      FailedArrives
  <2>2. CASE EventKept
    BY <1>4, <2>2 DEF EventKept, Live
  <2>3. CASE SubscribedArrives
    <3>1. job # NoJob
        BY <2>3 DEF SubscribedArrives, NoJob
    <3> QED
        BY <1>4, <2>3, <3>1 DEF SubscribedArrives, RestInv
  <2>4. CASE MissingArrives
    BY <1>3, <2>4 DEF MissingArrives, RestInv
  <2>5. CASE PageArrives
    <3>0. job.kind = "paging" /\ (UNCHANGED screen \/ Errs("absent"))
        BY <2>5, PageArrivesIs
    <3>1. job # NoJob /\ (UNCHANGED screen \/ Errs("absent"))
        BY <3>0 DEF NoJob
    <3> QED
        BY <1>3, <1>4, <3>1 DEF RestInv
  <2> QED
    BY <1>7, <2>1, <2>2, <2>3, <2>4, <2>5 DEF Arrives
<1>8. CASE Drains
  <2>1. Live
    BY <1>8 DEF Drains, DrainsNext, Drained, DrainsEvent, Running, RestInv
  <2>2. CASE DrainsNext
    BY <1>4, <2>1, <2>2 DEF DrainsNext
  <2>3. CASE Drained
    BY <1>1, <2>1, <2>3 DEF Drained, RestInv, Live
  <2>4. ASSUME NEW e \in batch, DrainsEvent(e)
        PROVE  RestInv' /\ screen'.id = screen.id /\ (screen'.phase = "none" <=> screen.phase = "none")
    BY <1>3, <1>4, <2>1, <2>4 DEF DrainsEvent
  <2> QED
    BY <1>8, <2>2, <2>3, <2>4 DEF Drains
<1>9. CASE Open
    BY <1>9, <1>1 DEF Open, RestInv, Live
<1>10. CASE Leave \/ ConnectionLost
    BY <1>10, <1>1 DEF Leave, ConnectionLost, Forgets, RestInv
<1>11. CASE Edit \/ (\E r \in Runs : Send(r)) \/ SendTimesOut
    BY <1>2, <1>11 DEF Edit, Send, SendTimesOut
<1>12. CASE RequestTimesOut
    BY <1>3, <1>12 DEF RequestTimesOut, RestInv
<1> QED
    BY <1>5, <1>6, <1>7, <1>8, <1>9, <1>10, <1>11, <1>12, NextCases DEF ChatActs

LEMMA RepliesStay ==
    ASSUME ChatData, MadeInv, ChatNext, ~ServerGrows, ~SendTimesOut, ~ConnectionLost
    PROVE  RepliesFrom(toClient', toClient, 0) \/ RepliesFrom(toClient', toClient, 1)
<1>1. toClient \in Seq(Frames)
    BY IdIs
<1>2. ASSUME NEW m \in Frames, toClient' = Append(toClient, m), m.kind \in {"subscribed", "missing", "page"}
      PROVE  RepliesFrom(toClient', toClient, 0)
    BY <1>1, <1>2, RepliesSame DEF Replying
<1>3. CASE ServePage
  <2>1. Request.of \in Nat
    BY <1>3, RequestIs, ServePageIs
  <2>2. CASE toClient' = Append(toClient, Missing(Request.of))
    BY <1>2, <2>1, <2>2, FrameKinds
  <2>3. ASSUME NEW f, NEW next, PageServed(Request.of, Request.after, f, next)
        PROVE  RepliesFrom(toClient', toClient, 0)
    BY <1>2, <2>1, <2>3, FrameKinds DEF PageServed
  <2> QED
    BY <1>3, <2>2, <2>3, ServePageIs
<1>4. CASE ServeSubscribe \/ ServeUnsubscribe
  <2>1. CASE toClient' = toClient
    BY <1>1, <2>1, RepliesSame
  <2>2. CASE toClient' # toClient
    <3>0. Requested("subscribe") /\ "subscribe" # "unsubscribe"
        BY <1>4, <2>2, ServeSubscribeIs
    <3>1. Request.of \in Nat
        BY <3>0, RequestIs
    <3>2. /\ Missing(Request.of) \in Frames /\ Missing(Request.of).kind = "missing"
          /\ Subscribed(Request.of) \in Frames /\ Subscribed(Request.of).kind = "subscribed"
        BY <3>1, FrameKinds
    <3> QED
        BY <1>2, <1>4, <2>2, <3>2, ServeSubscribeIs
  <2> QED
    BY <2>1, <2>2
<1>5. CASE Arrives
  <2>1. toClient # <<>> /\ toClient' = Tail(toClient)
    BY <1>5, FirstIs DEF Arrives, EventDropped, EventDelivered, EventKept, SubscribedArrives, PageArrives,
          MissingArrives, AnswerDropped, AcceptedArrives, RefusedArrives, FailedArrives
  <2> QED
    BY <1>1, <2>1, RepliesSame
<1>6. CASE Drains \/ ChatActs \/ RequestTimesOut
  <2>1. toClient' = toClient
    BY <1>6 DEF Drains, DrainsNext, Drained, DrainsEvent, ChatActs, Open, Leave, Edit, Send,
                RequestTimesOut, channel
  <2> QED
    BY <1>1, <2>1, RepliesSame
<1> QED
    BY <1>3, <1>4, <1>5, <1>6, NextCases

LEMMA AwaitQuiet ==
    ASSUME ChatData, MadeInv, OfInv, DraftInv, AwaitInv, RestInv, ChatNext,
           ~ServerGrows, ~SendTimesOut, ~ConnectionLost, ~Open, ~Leave,
           \A r \in Runs : ~Send(r), UNCHANGED <<pending, sending>>
    PROVE  AwaitInv'
<1>1. /\ screen'.id = screen.id /\ (screen'.phase # "none" => screen.phase # "none")
      /\ toServer' \in Seq(ChatAsks) /\ toClient' \in Seq(Frames)
  <2>1. ChatData'
    BY ChatDataNext
  <2> QED
    BY <2>1, RestNext DEF ChatData
<1>2. PICK d \in {0, 1} : SendsFrom(toServer', toServer, d)
    BY AsksStay
<1>3. PICK c \in {0, 1} : RepliesFrom(toClient', toClient, c)
    BY RepliesStay
<1>4. starting' = starting /\ pending' = pending /\ sending' = sending
    BY AsksStay
<1>5. ASSUME Dead(pending.run), sending PROVE Dead(pending.run)'
  <2>1. pending.run \in Runs /\ asked[pending.run] # 0 /\ ~Send(pending.run)
    <3>1. pending \in [run : Runs \union {0}, draft : Nat] /\ (pending.run = 0 => pending = NoReserve)
        BY DEF ChatData
    <3>2. pending # NoReserve /\ asked[pending.run] >= 1
        BY <1>5 DEF DraftInv
    <3>3. pending.run \in Runs
        BY <3>1, <3>2
    <3> QED
        BY <3>2, <3>3
  <2>2. PICK r \in Runs : r = pending.run
    BY <2>1
  <2>3. Dead(r) /\ asked[r] # 0 /\ ~Send(r)
    BY <1>5, <2>1, <2>2
  <2>4. Dead(r)'
    BY <2>3, DeadNext
  <2> QED
    BY <1>4, <2>2, <2>4 DEF Dead
<1>6. \A i \in DOMAIN toClient' : Reply(toClient'[i]) =>
         i + c \in DOMAIN toClient /\ toClient'[i] = toClient[i + c]
    BY <1>3 DEF Reply, RepliesFrom
<1> QED
    BY <1>1, <1>2, <1>4, <1>5, <1>6, AwaitSame

\* A queue t that is q with events and then replies added.
GrownBy(t, q, evs, rep) ==
    /\ t \in Seq(Frames) /\ Len(q) \in Nat /\ Len(evs) \in Nat /\ Len(rep) \in Nat
    /\ \A i \in DOMAIN t :
          \/ i \in DOMAIN q /\ t[i] = q[i]
          \/ \E j \in DOMAIN evs : i = Len(q) + j /\ t[i] = evs[j]
          \/ \E j \in DOMAIN rep : i = Len(q) + (Len(evs) + j) /\ t[i] = rep[j]
    /\ \A i \in DOMAIN q : i \in DOMAIN t /\ t[i] = q[i]
    /\ \A j \in DOMAIN evs : Len(q) + j \in DOMAIN t /\ t[Len(q) + j] = evs[j]
    /\ \A j \in DOMAIN rep : /\ Len(q) + (Len(evs) + j) \in DOMAIN t
                             /\ t[Len(q) + (Len(evs) + j)] = rep[j]
    /\ DOMAIN q = 1..Len(q) /\ DOMAIN evs = 1..Len(evs) /\ DOMAIN rep = 1..Len(rep)
    /\ \A j \in DOMAIN evs : evs[j] \in ChatEvents

LEMMA QueueGrown ==
    ASSUME NEW q \in Seq(Frames), NEW evs \in Seq(ChatEvents), NEW rep \in Seq(Frames), NEW t,
           t = q \o (evs \o rep)
    PROVE  GrownBy(t, q, evs, rep)
<1>1. evs \in Seq(Frames) /\ q \in Seq(Frames) /\ \A j \in DOMAIN evs : evs[j] \in ChatEvents
  <2>1. ChatEvents \subseteq Frames
    BY FrameKinds
  <2> QED
    BY <2>1, SeqMonotonic
<1>2. PICK p : p = evs \o rep
    OBVIOUS
<1>3. /\ p \in Seq(Frames)
      /\ \A i \in DOMAIN p : \/ i \in DOMAIN evs /\ p[i] = evs[i]
                             \/ \E j \in DOMAIN rep : i = Len(evs) + j /\ p[i] = rep[j]
      /\ \A i \in DOMAIN evs : i \in DOMAIN p /\ p[i] = evs[i]
      /\ \A j \in DOMAIN rep : Len(evs) + j \in DOMAIN p /\ p[Len(evs) + j] = rep[j]
      /\ Len(evs) \in Nat /\ Len(rep) \in Nat
      /\ DOMAIN evs = 1..Len(evs) /\ DOMAIN rep = 1..Len(rep)
    BY <1>1, <1>2, Added
<1>4. t = q \o p /\ q \in Seq(Frames) /\ p \in Seq(Frames)
    BY <1>1, <1>2, <1>3
<1>5. /\ t \in Seq(Frames) /\ Len(q) \in Nat
      /\ \A i \in DOMAIN t : \/ i \in DOMAIN q /\ t[i] = q[i]
                             \/ \E j \in DOMAIN p : i = Len(q) + j /\ t[i] = p[j]
      /\ \A i \in DOMAIN q : i \in DOMAIN t /\ t[i] = q[i]
      /\ \A j \in DOMAIN p : Len(q) + j \in DOMAIN t /\ t[Len(q) + j] = p[j]
      /\ DOMAIN q = 1..Len(q)
    BY <1>4, Added
<1>6. ASSUME NEW i \in DOMAIN t
      PROVE  \/ i \in DOMAIN q /\ t[i] = q[i]
             \/ \E j \in DOMAIN evs : i = Len(q) + j /\ t[i] = evs[j]
             \/ \E j \in DOMAIN rep : i = Len(q) + (Len(evs) + j) /\ t[i] = rep[j]
  <2>1. CASE i \in DOMAIN q /\ t[i] = q[i]
    BY <2>1
  <2>2. ASSUME NEW j \in DOMAIN p, i = Len(q) + j, t[i] = p[j]
        PROVE  \/ \E k \in DOMAIN evs : i = Len(q) + k /\ t[i] = evs[k]
               \/ \E k \in DOMAIN rep : i = Len(q) + (Len(evs) + k) /\ t[i] = rep[k]
    BY <1>3, <2>2
  <2> QED
    BY <1>5, <2>1, <2>2
<1>7. ASSUME NEW j \in DOMAIN evs
      PROVE  Len(q) + j \in DOMAIN t /\ t[Len(q) + j] = evs[j]
    BY <1>3, <1>5
<1>8. ASSUME NEW j \in DOMAIN rep
      PROVE  /\ Len(q) + (Len(evs) + j) \in DOMAIN t
             /\ t[Len(q) + (Len(evs) + j)] = rep[j]
    BY <1>3, <1>5
<1> QED
    BY <1>1, <1>3, <1>5, <1>6, <1>7, <1>8 DEF GrownBy

LEMMA AwaitServer ==
    ASSUME ChatData, MadeInv, OfInv, DraftInv, AwaitInv, ChatNext, Growing
    PROVE  AwaitInv'
<1>1. PICK evs, rep : Growth(evs, rep) /\ Answer(rep)
    BY DEF Growing
<1>2. /\ evs \in Seq(ChatEvents) /\ rep \in Seq(Frames) /\ toClient' = toClient \o (evs \o rep)
      /\ UNCHANGED <<screen, pending, sending, asked>>
      /\ toServer \in Seq(ChatAsks) /\ toServer' \in Seq(ChatAsks) /\ toClient' \in Seq(Frames)
    BY <1>1, IdIs, ChatDataNext DEF Growth, writing, ChatData
<1> SUFFICES ASSUME screen.phase # "none" PROVE AwaitInv'
    BY <1>2 DEF AwaitInv
<1>3. screen.id # 0 /\ Nobody = 0 /\ NoSend.of = 0 /\ NoSend.run = 0
    BY DEF OfInv, Idle, Nobody, NoSend
<1>4. \A i \in DOMAIN toClient' : Reply(toClient'[i]) =>
         \/ i \in DOMAIN toClient /\ toClient'[i] = toClient[i]
         \/ \E j \in DOMAIN rep : /\ i = Len(toClient) + (Len(evs) + j) /\ toClient'[i] = rep[j]
                                  /\ rep[j].of = screen.id
  <2>1. \A j \in DOMAIN evs : ~Reply(evs[j])
    BY <1>2, EventKinds DEF Reply, Replying
  <2>2. \A i \in DOMAIN toClient' :
           \/ i \in DOMAIN toClient /\ toClient'[i] = toClient[i]
           \/ \E j \in DOMAIN evs : toClient'[i] = evs[j]
           \/ \E j \in DOMAIN rep : i = Len(toClient) + (Len(evs) + j) /\ toClient'[i] = rep[j]
    <3>1. GrownBy(toClient', toClient, evs, rep)
        BY <1>2, IdIs, QueueGrown
    <3> QED
        BY <3>1 DEF GrownBy
  <2> QED
    BY <2>1, <2>2 DEF Reply
<1>5. sending => pending.run \in Runs /\ (Dead(pending.run) => Dead(pending.run)')
  <2>1. SUFFICES ASSUME sending
                 PROVE  pending.run \in Runs /\ (Dead(pending.run) => Dead(pending.run)')
    OBVIOUS
  <2>2. pending \in [run : Runs \union {0}, draft : Nat] /\ (pending.run = 0 => pending = NoReserve)
    BY DEF ChatData
  <2>3. pending # NoReserve /\ asked[pending.run] >= 1
    BY <2>1 DEF DraftInv
  <2>4. PICK r \in Runs : r = pending.run
    BY <2>2, <2>3
  <2>5. asked[r] # 0
    BY <2>3, <2>4
  <2>6. Dead(r) => Dead(r)'
    BY <2>5, DeadServer
  <2> QED
    BY <1>2, <2>4, <2>6 DEF Dead
<1>6. \A m : DOMAIN <<m>> = {1} /\ <<m>>[1] = m
    OBVIOUS
<1>7. \A i \in DOMAIN toClient : i + 0 = i
    BY <1>2
<1>8. SendsFrom(toServer', toServer, 0) \/ SendsFrom(toServer', toServer, 1)
    BY <1>1, <1>2, SendsSame DEF Growth
<1>9. ASSUME \A j \in DOMAIN rep : rep[j].of # screen.id, starting' = starting \/ starting'.of # screen.id
      PROVE  AwaitInv'
  <2>1. \A i \in DOMAIN toClient' : Reply(toClient'[i]) =>
           i + 0 \in DOMAIN toClient /\ toClient'[i] = toClient[i + 0]
    BY <1>4, <1>7, <1>9
  <2> QED
    BY <1>2, <1>5, <1>8, <1>9, <2>1, AwaitSame
\* The screen is answered.
<1>10. ASSUME NEW m, rep = <<m>>, m.of = screen.id, sending, starting'.of # screen.id,
              \A j \in DOMAIN toServer' : toServer'[j].kind # "send",
              \A j \in DOMAIN toClient : ~Reply(toClient[j]),
              m.kind = "refused" => Dead(pending.run)'
       PROVE  AwaitInv'
  <2>1. \A i \in DOMAIN toClient' : Reply(toClient'[i]) =>
           i = Len(toClient) + (Len(evs) + 1) /\ toClient'[i] = m
    BY <1>4, <1>6, <1>10
  <2>2. screen' = screen /\ sending' = sending /\ pending' = pending
    BY <1>2
  <2> QED
    BY <1>10, <2>1, <2>2 DEF AwaitInv, Reply
<1>11. CASE /\ starting # NoSend /\ starting' = NoSend /\ toServer' = toServer
            /\ \E m \in Frames : /\ rep = <<m>> /\ m.of = starting.of
                                 /\ m.kind = "refused" => log' = log
  <2>1. PICK m \in Frames : rep = <<m>> /\ m.of = starting.of /\ (m.kind = "refused" => log' = log)
    BY <1>11
  <2>2. starting'.of # screen.id
    BY <1>3, <1>11
  <2>3. CASE starting.of # screen.id
    BY <1>6, <1>9, <2>1, <2>2, <2>3
  <2>4. CASE starting.of = screen.id
    <3>1. /\ sending /\ starting.run = pending.run
          /\ \A j \in DOMAIN toServer : toServer[j].kind # "send"
          /\ \A j \in DOMAIN toClient : ~Reply(toClient[j])
        BY <2>4 DEF AwaitInv
    <3>2. m.kind = "refused" => Dead(pending.run)'
      <4>1. log[pending.run].seq = 0 /\ pending.run # 0
        BY <1>5, <1>11, <3>1, ChatAssumption DEF MadeInv
      <4> QED
        BY <1>2, <1>3, <1>11, <2>1, <3>1, <4>1 DEF Dead
    <3> QED
        BY <1>10, <1>11, <2>1, <2>2, <2>4, <3>1, <3>2
  <2> QED
    BY <2>3, <2>4
<1>12. CASE toServer # <<>> /\ Head(toServer).kind = "send" /\ toServer' = Tail(toServer)
  <2>1. /\ Head(toServer) = toServer[1] /\ 1 \in DOMAIN toServer /\ 1 \in Nat
        /\ \A i \in DOMAIN toServer' : /\ i \in Nat /\ i >= 1 /\ i + 1 \in DOMAIN toServer
                                       /\ toServer'[i] = toServer[i + 1]
    BY <1>2, <1>12, Taken
  <2>2. ASSUME Head(toServer).of = screen.id
        PROVE  /\ sending /\ Head(toServer).run = pending.run /\ starting.of # screen.id
               /\ \A j \in DOMAIN toServer' : toServer'[j].kind # "send"
               /\ \A j \in DOMAIN toClient : ~Reply(toClient[j])
    <3>1. /\ sending /\ toServer[1].run = pending.run /\ starting.of # screen.id
          /\ \A j \in DOMAIN toServer : j > 1 => toServer[j].kind # "send"
          /\ \A j \in DOMAIN toClient : ~Reply(toClient[j])
        BY <1>12, <2>1, <2>2 DEF AwaitInv
    <3> QED
        BY <2>1, <3>1
  <2>3. CASE /\ rep = <<>> /\ starting = NoSend
             /\ starting' = [run |-> Head(toServer).run, of |-> Head(toServer).of]
    <3>1. DOMAIN rep = {} /\ starting'.of = Head(toServer).of /\ starting'.run = Head(toServer).run
        BY <2>3
    <3>2. CASE Head(toServer).of # screen.id
        BY <1>9, <3>1, <3>2
    <3>3. CASE Head(toServer).of = screen.id
      <4>1. \A j \in DOMAIN toClient' : ~Reply(toClient'[j])
        BY <1>4, <2>2, <3>1, <3>3
      <4>2. screen' = screen /\ sending' = sending /\ pending' = pending
        BY <1>2
      <4> QED
        BY <2>2, <3>1, <3>3, <4>1, <4>2 DEF AwaitInv, Reply
    <3> QED
        BY <3>2, <3>3
  <2>4. CASE /\ starting' = starting
             /\ \E m \in Frames :
                   /\ rep = <<m>> /\ m.of = Head(toServer).of
                   /\ m.kind = "refused" => log'[Head(toServer).run].seq = 0 /\ starting = NoSend
    <3>1. PICK m \in Frames :
             /\ rep = <<m>> /\ m.of = Head(toServer).of
             /\ m.kind = "refused" => log'[Head(toServer).run].seq = 0 /\ starting = NoSend
        BY <2>4
    <3>2. CASE Head(toServer).of # screen.id
        BY <1>6, <1>9, <2>4, <3>1, <3>2
    <3>3. CASE Head(toServer).of = screen.id
      <4>1. m.kind = "refused" => Dead(pending.run)'
        <5>1. sending /\ pending.run # 0
            BY <1>5, <2>2, <3>3, ChatAssumption
        <5> QED
            BY <1>2, <1>3, <2>2, <2>4, <3>1, <3>3, <5>1 DEF Dead
      <4> QED
        BY <1>10, <2>2, <2>4, <3>1, <3>3, <4>1
    <3> QED
        BY <3>2, <3>3
  <2> QED
    BY <1>1, <1>9, <1>12, <2>3, <2>4 DEF Answer
<1>13. CASE rep = <<>> /\ starting' = starting /\ toServer' = toServer
  <2>1. DOMAIN rep = {}
    BY <1>13
  <2> QED
    BY <1>9, <1>13, <2>1
<1> QED
    BY <1>1, <1>11, <1>12, <1>13 DEF Answer

LEMMA AwaitNext ==
    ASSUME ChatData, MadeInv, OfInv, DraftInv, AwaitInv, RestInv, ChatNext
    PROVE  AwaitInv'
<1>0. /\ screen.id \in Nat /\ starting.of \in Nat /\ toServer \in Seq(ChatAsks) /\ toClient \in Seq(Frames)
      /\ \A i \in DOMAIN toServer : i \in Nat /\ toServer[i] \in ChatAsks
      /\ \A i \in DOMAIN toClient : i \in Nat /\ toClient[i] \in Frames
      /\ Nobody = 0 /\ (screen.phase # "none" => screen.id # 0)
    BY IdIs DEF OfInv, Idle, Nobody
<1>1. CASE ServerGrows
    BY <1>1, ServerGrowing, AwaitServer
<1>2. CASE AcceptedArrives \/ RefusedArrives \/ FailedArrives
  <2>1. /\ toClient # <<>> /\ First = toClient[1] /\ 1 \in DOMAIN toClient /\ First.kind \in Replying
        /\ screen.phase # "none" /\ First.of = screen.id /\ toClient' = Tail(toClient)
        /\ UNCHANGED <<screen, starting, toServer>>
    BY <1>2, FirstIs DEF AcceptedArrives, RefusedArrives, FailedArrives, ForUs, Replying, session
  <2>2. Reply(toClient[1])
    BY <2>1 DEF Reply
  <2>3. /\ \A j \in DOMAIN toClient : Reply(toClient[j]) => 1 = j
        /\ starting.of # screen.id
        /\ \A i \in DOMAIN toServer : ~(toServer[i].kind = "send" /\ toServer[i].of = screen.id)
    BY <2>1, <2>2 DEF AwaitInv
  <2>4. \A j \in DOMAIN toClient' : ~Reply(toClient'[j])
    <3>1. \A j \in DOMAIN toClient' : j \in Nat /\ j >= 1 /\ j + 1 \in DOMAIN toClient
                                      /\ toClient'[j] = toClient[j + 1]
        BY <1>0, <2>1, Taken
    <3>2. \A j \in Nat : j >= 1 => 1 # j + 1
        OBVIOUS
    <3> QED
        BY <2>3, <3>1, <3>2
  <2> QED
    BY <2>1, <2>3, <2>4 DEF AwaitInv, Reply
<1>3. CASE Open
  <2>1. /\ screen' = [id |-> screen.id + 1, phase |-> "loading", why |-> "none"]
        /\ toServer' = Append(toServer, Subscribing(screen.id + 1))
        /\ toClient' = toClient /\ starting' = starting
    BY <1>3 DEF Open, session
  <2>2. screen'.id = screen.id + 1
    BY <2>1
  <2>3. \A i \in DOMAIN toClient' : ~(toClient'[i].kind \in Replying /\ toClient'[i].of = screen'.id)
    <3>1. \A m \in Frames : m.kind \in Replying => m.kind # "event" /\ m.of \in Nat
        BY FrameKinds DEF Replying
    <3>2. \A n \in Nat : n <= screen.id => n # screen.id + 1
        BY <1>0
    <3> QED
        BY <1>0, <2>1, <2>2, <3>1, <3>2 DEF OfInv
  <2>4. \A i \in DOMAIN toServer' : ~(toServer'[i].kind = "send" /\ toServer'[i].of = screen'.id)
    <3>1. \A m \in ChatAsks : m.kind = "send" => m.kind # "unsubscribe" /\ m.of \in Nat
        BY AskKinds
    <3>2. \A n \in Nat : n <= screen.id => n # screen.id + 1
        BY <1>0
    <3>3. Subscribing(screen.id + 1) \in ChatAsks /\ Subscribing(screen.id + 1).kind # "send"
        BY <1>0, AskKinds
    <3>4. SendsFrom(toServer', toServer, 0)
        BY <1>0, <2>1, <3>3, SendsSame
    <3>5. \A i \in DOMAIN toServer' : toServer'[i].kind = "send" =>
             \E j \in DOMAIN toServer : toServer'[i] = toServer[j]
        BY <3>4 DEF SendsFrom
    <3> QED
        BY <1>0, <2>2, <3>1, <3>2, <3>5 DEF OfInv
  <2>5. starting'.of # screen'.id
    BY <1>0, <2>1, <2>2 DEF OfInv
  <2> QED
    BY <2>3, <2>4, <2>5 DEF AwaitInv, Reply
<1>4. CASE Leave \/ ConnectionLost
  <2>1. screen'.phase = "none"
    BY <1>4 DEF Leave, ConnectionLost, ChatData
  <2> QED
    BY <2>1 DEF AwaitInv
<1>5. ASSUME NEW r \in Runs, Send(r) PROVE AwaitInv'
  <2>1. /\ screen.phase = "ready" /\ ~sending /\ pending' = [run |-> r, draft |-> draft] /\ sending' = TRUE
        /\ toServer' = Append(toServer, Sending(screen.id, r))
        /\ UNCHANGED <<starting, toClient, screen>>
    BY <1>5 DEF Send, session
  <2>2. /\ \A j \in DOMAIN toClient : ~Reply(toClient[j])
        /\ starting.of # screen.id
        /\ \A i \in DOMAIN toServer : ~(toServer[i].kind = "send" /\ toServer[i].of = screen.id)
    BY <2>1 DEF AwaitInv
  <2>3. /\ Sending(screen.id, r) \in ChatAsks /\ Sending(screen.id, r).of = screen.id
        /\ Sending(screen.id, r).run = r
    BY <1>0, AskKinds
  <2>4. PICK m \in ChatAsks : m = Sending(screen.id, r)
    BY <2>3
  <2>5. /\ toServer' = Append(toServer, m) /\ m.run = r /\ pending'.run = r
    BY <2>1, <2>3, <2>4
  <2>6. /\ \A i \in DOMAIN toServer : toServer'[i] = toServer[i]
        /\ \A i \in DOMAIN toServer' : i \in DOMAIN toServer \/ i = Len(toServer) + 1
        /\ toServer'[Len(toServer) + 1] = m
        /\ DOMAIN toServer = 1..Len(toServer) /\ Len(toServer) \in Nat
    BY <1>0, <2>5, AddedOne
  <2>7. ASSUME NEW i \in DOMAIN toServer', toServer'[i].kind = "send", toServer'[i].of = screen.id
        PROVE  toServer'[i].run = r /\ \A j \in DOMAIN toServer' : ~(j > i)
    <3>1. i = Len(toServer) + 1
        BY <2>2, <2>6, <2>7
    <3>2. \A j \in DOMAIN toServer' : ~(j > i)
        BY <2>6, <3>1
    <3> QED
        BY <2>5, <2>6, <3>1, <3>2
  <2> QED
    BY <2>1, <2>2, <2>5, <2>7 DEF AwaitInv, Reply
<1>6. CASE SendTimesOut
  <2>1. /\ toServer' = Unawaited(toServer) /\ toClient' = Unawaited(toClient)
        /\ starting' = [starting EXCEPT !.of = Nobody] /\ UNCHANGED screen
    BY <1>6 DEF SendTimesOut, SendLapses
  <2>2. starting'.of = 0
    BY <1>0, <2>1 DEF ChatData
  <2>3. \A i \in DOMAIN toServer' : toServer'[i].kind = "send" => toServer'[i].of = 0
    BY <1>0, <2>1, UnawaitedAsks
  <2>4. \A i \in DOMAIN toClient' : toClient'[i].kind \in Replying => toClient'[i].of = 0
    BY <1>0, <2>1, UnawaitedFrames DEF Replying
  <2> QED
    BY <1>0, <2>1, <2>2, <2>3, <2>4 DEF AwaitInv, Reply
<1>7. CASE /\ ~ServerGrows /\ ~SendTimesOut /\ ~ConnectionLost /\ ~Open /\ ~Leave /\ \A r \in Runs : ~Send(r)
           /\ ~AcceptedArrives /\ ~RefusedArrives /\ ~FailedArrives
  <2>1. UNCHANGED <<pending, sending>>
    <3>1. CASE ServePage \/ ServeSubscribe \/ ServeUnsubscribe \/ Drains \/ RequestTimesOut
        BY <3>1 DEF ServePage, ServeSubscribe, ServeUnsubscribe, Drains, DrainsNext, Drained, DrainsEvent,
                    RequestTimesOut, writing
    <3>2. CASE Arrives
        BY <1>7, <3>2 DEF Arrives, EventDropped, EventDelivered, EventKept, SubscribedArrives, PageArrives,
                    MissingArrives, AnswerDropped, writing
    <3>3. CASE Edit
        BY <3>3 DEF Edit
    <3> QED
        BY <1>7, <3>1, <3>2, <3>3, NextCases DEF ChatActs
  <2> QED
    BY <1>7, <2>1, AwaitQuiet
<1> QED
    BY <1>1, <1>2, <1>3, <1>4, <1>5, <1>6, <1>7

\* Everything about sends, which is inductive.
SendInv == ChatData /\ MadeInv /\ OfInv /\ DraftInv /\ AwaitInv /\ RestInv

LEMMA SendInit == ChatInit => SendInv
<1> SUFFICES ASSUME ChatInit PROVE SendInv
    OBVIOUS
<1>1. ChatData
    BY ChatDataInit
<1>2. /\ DOMAIN toServer = {} /\ DOMAIN toClient = {} /\ DOMAIN made = {} /\ made = <<>>
      /\ alive = {} /\ starting = NoSend /\ NoSend.of = 0
      /\ screen.id = 0 /\ screen.phase = "none" /\ ~draining /\ job = NoJob
      /\ draft = 1 /\ pending = NoReserve /\ ~sending /\ ~deleted /\ provisional = {} /\ batch = {}
      /\ \A r \in Runs : log[r].seq = 0 /\ log[r].end = 0 /\ asked[r] = 0
    BY DEF ChatInit, NoSend, Nobody
<1>3. MadeInv /\ RestInv /\ OfInv /\ AwaitInv
    BY <1>2 DEF MadeInv, RestInv, Live, OfInv, Idle, AwaitInv
<1>4. DraftInv
    BY <1>2 DEF DraftInv
<1> QED
    BY <1>1, <1>3, <1>4 DEF SendInv

LEMMA SendStep == SendInv /\ [ChatNext]_chatVars => SendInv'
<1> SUFFICES ASSUME SendInv, [ChatNext]_chatVars PROVE SendInv'
    OBVIOUS
<1>1. CASE ChatNext
    BY <1>1, ChatDataNext, OfNext, DraftNext, AwaitNext, RestNext DEF SendInv
<1>2. CASE UNCHANGED chatVars
  <2>1. UNCHANGED <<log, made, alive, deleted, starting, route, subscribed, toServer, toClient, screen, view,
                    provisional, batch, draining, job, draft, asked, pending, sending, chatFaults>>
    BY <1>2 DEF chatVars, session, hub, channel, work, writing
  <2>2. ChatData'
    BY <2>1 DEF SendInv, ChatData
  <2>3. MadeInv' /\ OfInv' /\ RestInv'
    BY <2>1 DEF SendInv, MadeInv, OfInv, Idle, RestInv, Live
  <2>4. \A r : Dead(r)' = Dead(r)
    BY <2>1 DEF Dead
  <2>5. DraftInv'
    BY <2>1, <2>4 DEF SendInv, DraftInv
  <2>6. AwaitInv'
    BY <2>1 DEF SendInv, AwaitInv, Reply, Dead
  <2> QED
    BY <2>2, <2>3, <2>5, <2>6 DEF SendInv
<1> QED
    BY <1>1, <1>2

\* A text that is sent again and again makes one Run (RetriesMakeOneRun): of two requests
\* for one text all but one are dead, as a fresh one is made up only when a refusal, which
\* told the truth, gave the former one up.
THEOREM RetriesAlwaysMakeOneRun == ChatSpec => []RetriesMakeOneRun
<1>1. SendInv => RetriesMakeOneRun
    BY DEF SendInv, DraftInv, Dead, RetriesMakeOneRun
<1> QED
    BY <1>1, SendInit, SendStep, PTL DEF ChatSpec

-----------------------------------------------------------------------------
(* One request at a time is what a screen waits for.                       *)

LoadReq(m, id) == m.kind \in {"subscribe", "page"} /\ m.of = id
LoadAns(m, id) == m.kind \in {"subscribed", "page", "missing"} /\ m.of = id

\* What a load waits for is asked or answered once; a chat that is shown reads again
\* only while it drains.
OneLoad == Live =>
    /\ \A i \in DOMAIN toServer : LoadReq(toServer[i], screen.id) =>
          /\ \A j \in DOMAIN toServer : LoadReq(toServer[j], screen.id) => i = j
          /\ \A j \in DOMAIN toClient : ~LoadAns(toClient[j], screen.id)
          /\ job # NoJob
          /\ toServer[i].kind = "subscribe" => job.kind = "subscribing"
    /\ \A i \in DOMAIN toClient : LoadAns(toClient[i], screen.id) =>
          /\ \A j \in DOMAIN toClient : LoadAns(toClient[j], screen.id) => i = j
          /\ job # NoJob
    /\ screen.phase = "ready" /\ job # NoJob => draining

\* The loads in a queue that come from an earlier one, d further on.
ReqsFrom(t, q, d, id) ==
    \A i \in DOMAIN t : LoadReq(t[i], id) => i + d \in DOMAIN q /\ t[i] = q[i + d]
AnsFrom(t, q, d, id) ==
    \A i \in DOMAIN t : LoadAns(t[i], id) => i + d \in DOMAIN q /\ t[i] = q[i + d]

LEMMA LoadSame ==
    ASSUME ChatData, OneLoad, NEW d \in {0, 1}, NEW c \in {0, 1},
           Live' => Live /\ screen'.id = screen.id,
           ReqsFrom(toServer', toServer, d, screen.id), AnsFrom(toClient', toClient, c, screen.id),
           toServer' \in Seq(ChatAsks), toClient' \in Seq(Frames),
           job' = job, screen'.phase = "ready" /\ job' # NoJob => draining'
    PROVE  OneLoad'
<1> SUFFICES ASSUME Live' PROVE OneLoad'
    BY DEF OneLoad
<1>1. Live /\ screen'.id = screen.id
    OBVIOUS
<1>2. /\ \A i \in DOMAIN toServer' : i \in Nat
      /\ \A i \in DOMAIN toClient' : i \in Nat
    OBVIOUS
<1>3. ASSUME NEW i \in DOMAIN toServer', LoadReq(toServer'[i], screen.id)
      PROVE  /\ \A j \in DOMAIN toServer' : LoadReq(toServer'[j], screen.id) => i = j
             /\ \A j \in DOMAIN toClient' : ~LoadAns(toClient'[j], screen.id)
             /\ job # NoJob
             /\ toServer'[i].kind = "subscribe" => job.kind = "subscribing"
  <2>1. /\ i + d \in DOMAIN toServer /\ toServer'[i] = toServer[i + d]
        /\ LoadReq(toServer[i + d], screen.id)
    BY <1>3 DEF ReqsFrom
  <2>2. /\ \A j \in DOMAIN toServer : LoadReq(toServer[j], screen.id) => i + d = j
        /\ \A j \in DOMAIN toClient : ~LoadAns(toClient[j], screen.id)
        /\ job # NoJob
        /\ toServer[i + d].kind = "subscribe" => job.kind = "subscribing"
    BY <1>1, <2>1 DEF OneLoad
  <2>3. ASSUME NEW j \in DOMAIN toServer', LoadReq(toServer'[j], screen.id) PROVE i = j
    <3>1. j + d \in DOMAIN toServer /\ LoadReq(toServer[j + d], screen.id)
        BY <2>3 DEF ReqsFrom
    <3>2. i + d = j + d
        BY <2>2, <3>1
    <3> QED
        BY <1>2, <3>2
  <2>4. \A j \in DOMAIN toClient' : ~LoadAns(toClient'[j], screen.id)
    BY <2>2 DEF AnsFrom
  <2> QED
    BY <2>1, <2>2, <2>3, <2>4
<1>4. ASSUME NEW i \in DOMAIN toClient', LoadAns(toClient'[i], screen.id)
      PROVE  /\ \A j \in DOMAIN toClient' : LoadAns(toClient'[j], screen.id) => i = j
             /\ job # NoJob
  <2>1. i + c \in DOMAIN toClient /\ LoadAns(toClient[i + c], screen.id)
    BY <1>4 DEF AnsFrom
  <2>2. /\ \A j \in DOMAIN toClient : LoadAns(toClient[j], screen.id) => i + c = j
        /\ job # NoJob
    BY <1>1, <2>1 DEF OneLoad
  <2>3. ASSUME NEW j \in DOMAIN toClient', LoadAns(toClient'[j], screen.id) PROVE i = j
    <3>1. j + c \in DOMAIN toClient /\ LoadAns(toClient[j + c], screen.id)
        BY <2>3 DEF AnsFrom
    <3>2. i + c = j + c
        BY <2>2, <3>1
    <3> QED
        BY <1>2, <3>2
  <2> QED
    BY <2>2, <2>3
<1> QED
    BY <1>1, <1>3, <1>4 DEF OneLoad

\* A load asks for something new, and waits for nothing else.
LEMMA LoadAsks ==
    ASSUME NEW m \in ChatAsks, toServer \in Seq(ChatAsks), toServer' = Append(toServer, m),
           \A i \in DOMAIN toServer : ~LoadReq(toServer[i], screen'.id),
           \A i \in DOMAIN toClient' : ~LoadAns(toClient'[i], screen'.id),
           job' # NoJob, m.kind = "subscribe" => job'.kind = "subscribing",
           screen'.phase = "ready" => draining'
    PROVE  OneLoad'
<1>1. /\ \A i \in DOMAIN toServer : toServer'[i] = toServer[i]
      /\ \A i \in DOMAIN toServer' : i \in DOMAIN toServer \/ i = Len(toServer) + 1
      /\ toServer'[Len(toServer) + 1] = m
    BY AddedOne
<1>2. \A i \in DOMAIN toServer' : LoadReq(toServer'[i], screen'.id) => i = Len(toServer) + 1 /\ toServer'[i] = m
    BY <1>1
<1> QED
    BY <1>2 DEF OneLoad

LEMMA LoadOver ==
    ASSUME \A i \in DOMAIN toServer' : ~LoadReq(toServer'[i], screen'.id),
           \A i \in DOMAIN toClient' : ~LoadAns(toClient'[i], screen'.id),
           job' = NoJob
    PROVE  OneLoad'
BY DEF OneLoad

\* The screen reads the answer it waits for.
LEMMA LoadTaken ==
    ASSUME ChatData, OneLoad, Live, toClient # <<>>, toClient' = Tail(toClient), LoadAns(toClient[1], screen.id)
    PROVE  /\ \A i \in DOMAIN toServer : ~LoadReq(toServer[i], screen.id)
           /\ \A i \in DOMAIN toClient' : ~LoadAns(toClient'[i], screen.id)
           /\ \A i \in DOMAIN toClient : LoadAns(toClient[i], screen.id) => i = 1
<1>1. /\ 1 \in DOMAIN toClient
      /\ \A i \in DOMAIN toClient' : i \in Nat /\ i >= 1 /\ i + 1 \in DOMAIN toClient /\ toClient'[i] = toClient[i + 1]
    BY IdIs, Taken
<1>2. \A i \in DOMAIN toClient : LoadAns(toClient[i], screen.id) => 1 = i
    BY <1>1 DEF OneLoad
<1>3. \A i \in Nat : i >= 1 => 1 # i + 1
    OBVIOUS
<1> QED
    BY <1>1, <1>2, <1>3 DEF OneLoad

LEMMA LoadNone ==
    ASSUME OneLoad, Live, job = NoJob
    PROVE  /\ \A i \in DOMAIN toServer : ~LoadReq(toServer[i], screen.id)
           /\ \A i \in DOMAIN toClient : ~LoadAns(toClient[i], screen.id)
BY DEF OneLoad

\* The server answers the head of the queue.
LEMMA LoadServed ==
    ASSUME ChatData, OneLoad, NEW kind \in {"subscribe", "page"}, Requested(kind),
           NEW m \in Frames, toClient' = Append(toClient, m), LoadAns(m, Request.of),
           UNCHANGED <<screen, job, draining>>
    PROVE  OneLoad'
<1> SUFFICES ASSUME Live' PROVE OneLoad'
    BY DEF OneLoad
<1>1. Live /\ screen' = screen /\ job' = job /\ draining' = draining
    BY DEF Live
<1>2. /\ Request = toServer[1] /\ 1 \in DOMAIN toServer /\ Request.kind = kind
      /\ toServer # <<>> /\ toServer' = Tail(toServer) /\ toServer' \in Seq(ChatAsks) /\ toServer \in Seq(ChatAsks)
    BY RequestIs, IdIs
<1>3. /\ \A i \in DOMAIN toServer' : i \in Nat /\ i >= 1 /\ i + 1 \in DOMAIN toServer /\ toServer'[i] = toServer[i + 1]
    BY <1>2, Taken
<1>4. toClient \in Seq(Frames) /\ toClient' \in Seq(Frames)
    BY IdIs, AppendProperties
<1>5. /\ \A i \in DOMAIN toClient : toClient'[i] = toClient[i]
      /\ \A i \in DOMAIN toClient' : i \in DOMAIN toClient \/ i = Len(toClient) + 1
      /\ toClient'[Len(toClient) + 1] = m
      /\ \A i \in DOMAIN toClient : i + 0 = i
    BY <1>4, AddedOne
<1>6. CASE Request.of = screen.id
  <2>1. LoadReq(toServer[1], screen.id)
    BY <1>2, <1>6 DEF LoadReq
  <2>2. /\ \A j \in DOMAIN toServer : LoadReq(toServer[j], screen.id) => 1 = j
        /\ \A j \in DOMAIN toClient : ~LoadAns(toClient[j], screen.id)
        /\ job # NoJob
    BY <1>1, <1>2, <2>1 DEF OneLoad
  <2>3. \A i \in Nat : i >= 1 => 1 # i + 1
    OBVIOUS
  <2>4. \A i \in DOMAIN toServer' : ~LoadReq(toServer'[i], screen.id)
    BY <1>3, <2>2, <2>3
  <2>5. \A i \in DOMAIN toClient' : LoadAns(toClient'[i], screen.id) => i = Len(toClient) + 1
    BY <1>5, <2>2
  <2> QED
    BY <1>1, <2>2, <2>4, <2>5 DEF OneLoad
<1>7. CASE Request.of # screen.id
  <2>1. ReqsFrom(toServer', toServer, 1, screen.id)
    BY <1>3 DEF ReqsFrom
  <2>2. AnsFrom(toClient', toClient, 0, screen.id)
    BY <1>5, <1>7 DEF AnsFrom, LoadAns
  <2>3. screen'.phase = "ready" /\ job' # NoJob => draining'
    BY <1>1 DEF OneLoad
  <2>4. 0 \in {0, 1} /\ 1 \in {0, 1} /\ (Live' => Live /\ screen'.id = screen.id)
    BY <1>1
  <2> QED
    BY <1>1, <1>2, <1>4, <2>1, <2>2, <2>3, <2>4, LoadSame
<1> QED
    BY <1>6, <1>7

LEMMA ReqsSame ==
    ASSUME NEW q \in Seq(ChatAsks), NEW t, NEW id
    PROVE  /\ t = q => ReqsFrom(t, q, 0, id)
           /\ q # <<>> /\ t = Tail(q) => ReqsFrom(t, q, 1, id)
           /\ \A m \in ChatAsks : t = Append(q, m) /\ ~LoadReq(m, id) => ReqsFrom(t, q, 0, id)
           /\ t = Unawaited(q) => ReqsFrom(t, q, 0, id)
<1>0. \A i \in DOMAIN q : i + 0 = i
    OBVIOUS
<1>1. t = q => ReqsFrom(t, q, 0, id)
    BY <1>0 DEF ReqsFrom
<1>2. q # <<>> /\ t = Tail(q) => ReqsFrom(t, q, 1, id)
    BY Taken DEF ReqsFrom
<1>3. ASSUME NEW m \in ChatAsks, t = Append(q, m), ~LoadReq(m, id) PROVE ReqsFrom(t, q, 0, id)
  <2>1. /\ \A i \in DOMAIN q : t[i] = q[i]
        /\ \A i \in DOMAIN t : i \in DOMAIN q \/ i = Len(q) + 1
        /\ t[Len(q) + 1] = m
    BY <1>3, AddedOne
  <2> QED
    BY <1>0, <1>3, <2>1 DEF ReqsFrom
<1>4. ASSUME t = Unawaited(q) PROVE ReqsFrom(t, q, 0, id)
  <2>1. DOMAIN t = DOMAIN q /\ \A i \in DOMAIN q : t[i].kind = q[i].kind /\ (q[i].kind # "send" => t[i] = q[i])
    BY <1>4, UnawaitedAsks
  <2> QED
    BY <1>0, <2>1 DEF ReqsFrom, LoadReq
<1> QED
    BY <1>1, <1>2, <1>3, <1>4

LEMMA AnsSame ==
    ASSUME NEW q \in Seq(Frames), NEW t, NEW id
    PROVE  /\ t = q => AnsFrom(t, q, 0, id)
           /\ q # <<>> /\ t = Tail(q) => AnsFrom(t, q, 1, id)
           /\ t = Unawaited(q) => AnsFrom(t, q, 0, id)
<1>0. \A i \in DOMAIN q : i + 0 = i
    OBVIOUS
<1>1. t = q => AnsFrom(t, q, 0, id)
    BY <1>0 DEF AnsFrom
<1>2. q # <<>> /\ t = Tail(q) => AnsFrom(t, q, 1, id)
    BY Taken DEF AnsFrom
<1>4. ASSUME t = Unawaited(q) PROVE AnsFrom(t, q, 0, id)
  <2>1. DOMAIN t = DOMAIN q /\ \A i \in DOMAIN q : t[i].kind = q[i].kind /\
           (q[i].kind \notin {"accepted", "refused", "failed"} => t[i] = q[i])
    BY <1>4, UnawaitedFrames
  <2> QED
    BY <1>0, <2>1 DEF AnsFrom, LoadAns
<1> QED
    BY <1>1, <1>2, <1>4

LEMMA LiveNext ==
    ASSUME ChatData, MadeInv, RestInv, ChatNext, Live', ~Open
    PROVE  Live /\ screen'.id = screen.id
<1>1. screen \in [id : Nat, phase : {"none", "loading", "ready", "error"},
                  why : {"none", "request", "absent", "gap"}]
    BY DEF ChatData
<1>2. ASSUME UNCHANGED screen PROVE Live /\ screen'.id = screen.id
    BY <1>2 DEF Live
<1>3. ASSUME NEW why, Errs(why) PROVE FALSE
    BY <1>1, <1>3 DEF Errs, Live
<1>4. CASE ServerGrows
    BY <1>2, <1>4, ServerGrowing DEF Growing, Growth
<1>5. CASE ServePage \/ ServeSubscribe \/ ServeUnsubscribe
    BY <1>2, <1>5 DEF ServePage, ServeSubscribe, ServeUnsubscribe
<1>6. CASE Arrives
  <2>1. UNCHANGED screen \/ \E why : Errs(why)
    <3>1. CASE PageArrives
        BY <3>1, PageArrivesIs
    <3> QED
        BY <1>6, <3>1 DEF Arrives, EventDropped, EventDelivered, EventKept, SubscribedArrives,
                MissingArrives, AnswerDropped, AcceptedArrives, RefusedArrives, FailedArrives
  <2> QED
    BY <1>2, <1>3, <2>1
<1>7. CASE Drains
  <2>1. Live
    BY <1>7 DEF Drains, DrainsNext, Drained, DrainsEvent, Running, RestInv
  <2>2. UNCHANGED screen \/ (\E why : Errs(why)) \/ screen' = [screen EXCEPT !.phase = "ready"]
    BY <1>7 DEF Drains, DrainsNext, Drained, DrainsEvent
  <2> QED
    BY <1>1, <1>2, <1>3, <2>1, <2>2
<1>8. CASE Leave \/ ConnectionLost
    BY <1>1, <1>8 DEF Leave, ConnectionLost, Live
<1>9. CASE Edit \/ (\E r \in Runs : Send(r)) \/ SendTimesOut
    BY <1>2, <1>9 DEF Edit, Send, SendTimesOut
<1>10. CASE RequestTimesOut
    BY <1>3, <1>10 DEF RequestTimesOut
<1> QED
    BY <1>4, <1>5, <1>6, <1>7, <1>8, <1>9, <1>10, NextCases DEF ChatActs

\* The frame that is read is the answer to a load.
LEMMA AnswerIs ==
    ASSUME ChatData, RestInv, OneLoad, SubscribedArrives \/ PageArrives
    PROVE  /\ Live /\ toClient # <<>> /\ First = toClient[1] /\ toClient' = Tail(toClient)
           /\ toClient' \in Seq(Frames) /\ 1 \in DOMAIN toClient
           /\ LoadAns(First, screen.id) /\ job # NoJob
           /\ \A i \in DOMAIN toServer : ~LoadReq(toServer[i], screen.id)
           /\ \A i \in DOMAIN toClient' : ~LoadAns(toClient'[i], screen.id)
           /\ \A i \in DOMAIN toClient : LoadAns(toClient[i], screen.id) => i = 1
<1>1. /\ toClient # <<>> /\ First = toClient[1] /\ toClient' = Tail(toClient) /\ 1 \in DOMAIN toClient
      /\ First.kind \in {"subscribed", "page"} /\ First.of = screen.id
      /\ toClient' \in Seq(Frames) /\ job.kind # "none"
    BY FirstIs DEF SubscribedArrives, PageArrives, ForUs
<1>2. job # NoJob
    BY <1>1 DEF NoJob
<1>3. Live
    BY <1>2 DEF RestInv
<1>4. LoadAns(toClient[1], screen.id)
    BY <1>1 DEF LoadAns
<1> QED
    BY <1>1, <1>2, <1>3, <1>4, LoadTaken

LEMMA LoadNext ==
    ASSUME ChatData, MadeInv, OfInv, RestInv, OneLoad, ChatNext
    PROVE  OneLoad'
<1>0. /\ screen.id \in Nat /\ toServer \in Seq(ChatAsks) /\ toClient \in Seq(Frames)
      /\ toServer' \in Seq(ChatAsks) /\ toClient' \in Seq(Frames)
  <2>1. ChatData'
    BY ChatDataNext
  <2> QED
    BY <2>1 DEF ChatData
<1>1. ASSUME NEW d \in {0, 1}, NEW c \in {0, 1}, ~Open,
             ReqsFrom(toServer', toServer, d, screen.id), AnsFrom(toClient', toClient, c, screen.id),
             job' = job, draining' \/ (draining' = draining /\ screen'.phase = screen.phase) \/ job = NoJob
      PROVE  OneLoad'
  <2>1. CASE Live'
    <3>1. Live /\ screen'.id = screen.id
        BY <1>1, <2>1, LiveNext
    <3>2. screen'.phase = "ready" /\ job' # NoJob => draining'
        BY <1>1, <3>1 DEF OneLoad
    <3> QED
        BY <1>0, <1>1, <3>1, <3>2, LoadSame
  <2>2. CASE ~Live'
    BY <2>2 DEF OneLoad
  <2> QED
    BY <2>1, <2>2
<1>2. ASSUME ~Live' PROVE OneLoad'
    BY <1>2 DEF OneLoad
<1>3. ASSUME NEW why, Errs(why) PROVE OneLoad'
  <2>1. ~Live'
    BY <1>3 DEF Errs, Live, ChatData
  <2> QED
    BY <1>2, <2>1
<1>4. CASE ServerGrows
  <2>1. PICK evs, rep : Growth(evs, rep) /\ Answer(rep)
    BY <1>4, ServerGrowing DEF Growing
  <2>2. /\ evs \in Seq(ChatEvents) /\ rep \in Seq(Frames) /\ toClient' = toClient \o (evs \o rep)
        /\ UNCHANGED <<screen, job, draining>>
        /\ \A i \in DOMAIN rep : rep[i].kind \in {"accepted", "refused", "failed"}
        /\ toServer' = toServer \/ (toServer # <<>> /\ toServer' = Tail(toServer))
    BY <2>1 DEF Growth, work
  <2>3. GrownBy(toClient', toClient, evs, rep)
    BY <1>0, <2>2, QueueGrown
  <2>4. AnsFrom(toClient', toClient, 0, screen.id)
    <3>1. /\ \A j \in DOMAIN evs : ~LoadAns(evs[j], screen.id)
          /\ \A j \in DOMAIN rep : ~LoadAns(rep[j], screen.id)
        BY <2>2, <2>3, EventKinds DEF GrownBy, LoadAns
    <3>2. \A i \in DOMAIN toClient : i + 0 = i
        BY <2>3 DEF GrownBy
    <3> QED
        BY <2>3, <3>1, <3>2 DEF GrownBy, AnsFrom
  <2>5. \/ ReqsFrom(toServer', toServer, 0, screen.id) \/ ReqsFrom(toServer', toServer, 1, screen.id)
    BY <1>0, <2>2, ReqsSame
  <2>6. ~Live' \/ ~Open
    BY <2>2 DEF Live, Open
  <2> QED
    BY <1>1, <1>2, <2>2, <2>4, <2>5, <2>6
<1>5. CASE ServePage
  <2>1. Requested("page") /\ UNCHANGED <<screen, job, draining>>
    BY <1>5, ServePageIs DEF work
  <2>2. Request.of \in Nat
    BY <2>1, RequestIs
  <2>3. \E m \in Frames : toClient' = Append(toClient, m) /\ LoadAns(m, Request.of)
    <3>1. CASE toClient' = Append(toClient, Missing(Request.of))
        BY <2>2, <3>1, FrameKinds DEF LoadAns
    <3>2. ASSUME NEW f, NEW next, PageServed(Request.of, Request.after, f, next)
          PROVE  \E m \in Frames : toClient' = Append(toClient, m) /\ LoadAns(m, Request.of)
        BY <2>2, <3>2, FrameKinds DEF PageServed, LoadAns
    <3> QED
        BY <1>5, <3>1, <3>2, ServePageIs
  <2> QED
    BY <2>1, <2>3, LoadServed
<1>6. CASE ServeSubscribe \/ ServeUnsubscribe
  <2>0. UNCHANGED <<screen, job, draining>>
    BY <1>6, ServeSubscribeIs DEF work
  <2>1. CASE Requested("subscribe")
    <3>1. Request.of \in Nat
        BY <2>1, RequestIs
    <3>2. \/ toClient' = Append(toClient, Missing(Request.of))
          \/ toClient' = Append(toClient, Subscribed(Request.of))
      <4>1. ~Requested("unsubscribe")
        BY <2>1 DEF Requested
      <4> QED
        BY <1>6, <4>1, ServeSubscribeIs
    <3>3. \E m \in Frames : toClient' = Append(toClient, m) /\ LoadAns(m, Request.of)
        BY <3>1, <3>2, FrameKinds DEF LoadAns
    <3> QED
        BY <2>0, <2>1, <3>3, LoadServed
  <2>2. CASE Requested("unsubscribe") /\ toClient' = toClient
    <3>1. toServer # <<>> /\ toServer' = Tail(toServer)
        BY <2>2, RequestIs
    <3>2. ReqsFrom(toServer', toServer, 1, screen.id) /\ AnsFrom(toClient', toClient, 0, screen.id)
        BY <1>0, <2>2, <3>1, ReqsSame, AnsSame
    <3>3. ~Live' \/ ~Open
        BY <2>0 DEF Live, Open
    <3> QED
        BY <1>1, <1>2, <2>0, <3>2, <3>3
  <2> QED
    BY <1>6, <2>1, <2>2, ServeSubscribeIs
\* What comes.
<1>7. CASE EventDropped \/ EventDelivered \/ EventKept \/ AnswerDropped \/ AcceptedArrives \/ RefusedArrives
           \/ FailedArrives
  <2>1. /\ toClient # <<>> /\ toClient' = Tail(toClient) /\ toServer' = toServer
        /\ screen' = screen /\ job' = job /\ (draining' \/ draining' = draining)
    <3>1. draining \in BOOLEAN
        BY DEF ChatData
    <3>2. CASE EventKept
        BY <3>1, <3>2, FirstIs DEF EventKept
    <3>3. CASE ~EventKept
        BY <1>7, <3>3, FirstIs DEF EventDropped, EventDelivered, AnswerDropped, AcceptedArrives, RefusedArrives,
                FailedArrives, work
    <3> QED
        BY <3>2, <3>3
  <2>2. ReqsFrom(toServer', toServer, 0, screen.id) /\ AnsFrom(toClient', toClient, 1, screen.id)
    BY <1>0, <2>1, ReqsSame, AnsSame
  <2>3. ~Live' \/ ~Open
    BY <2>1 DEF Live, Open
  <2> QED
    BY <1>1, <1>2, <2>1, <2>2, <2>3
<1>8. CASE MissingArrives
    BY <1>3, <1>8 DEF MissingArrives
<1>9. CASE SubscribedArrives
  <2>1. /\ Loads(NoEvent) /\ UNCHANGED <<screen, draining>>
    BY <1>9 DEF SubscribedArrives
  <2>2. /\ job'.kind = "paging" /\ toServer' = Append(toServer, Paging(screen.id, 0))
        /\ Paging(screen.id, 0) \in ChatAsks /\ Paging(screen.id, 0).kind # "subscribe"
    BY <1>0, <2>1, AskKinds DEF Loads
  <2>3. job' # NoJob /\ (screen'.phase = "ready" => draining')
    BY <1>9, <2>1, <2>2, AnswerIs DEF NoJob, OneLoad
  <2>4. /\ \A i \in DOMAIN toServer : ~LoadReq(toServer[i], screen'.id)
        /\ \A i \in DOMAIN toClient' : ~LoadAns(toClient'[i], screen'.id)
    BY <1>9, <2>1, AnswerIs
  <2>5. PICK m \in ChatAsks : m = Paging(screen.id, 0)
    BY <2>2
  <2>6. toServer' = Append(toServer, m) /\ m.kind # "subscribe"
    BY <2>2, <2>5
  <2> QED
    BY <1>0, <2>3, <2>4, <2>6, LoadAsks
<1>10. CASE PageArrives
  <2>1. /\ \A i \in DOMAIN toServer : ~LoadReq(toServer[i], screen.id)
        /\ \A i \in DOMAIN toClient' : ~LoadAns(toClient'[i], screen.id)
        /\ screen.phase = "ready" => draining
    BY <1>10, AnswerIs DEF OneLoad
  <2>2. CASE /\ job' = PagingJob(job.event, Joined(job.found, First.found))
             /\ toServer' = Append(toServer, Paging(screen.id, First.next))
             /\ UNCHANGED <<screen, draining>>
    <3>1. job' # NoJob
        BY <2>2 DEF PagingJob, NoJob
    <3>2. /\ Paging(screen.id, First.next) \in ChatAsks /\ Paging(screen.id, First.next).kind # "subscribe"
        BY <1>0, <1>10, AskKinds, PageArrivesIs
    <3>3. PICK m \in ChatAsks : m = Paging(screen.id, First.next)
        BY <3>2
    <3>4. toServer' = Append(toServer, m) /\ m.kind # "subscribe"
        BY <2>2, <3>2, <3>3
    <3> QED
        BY <1>0, <2>1, <2>2, <3>1, <3>4, LoadAsks
  <2>3. CASE toServer' = toServer /\ job' = NoJob /\ UNCHANGED screen
    BY <2>1, <2>3, LoadOver
  <2>4. CASE Errs("absent")
    BY <1>3, <2>4
  <2>5. \/ /\ job' = PagingJob(job.event, Joined(job.found, First.found))
           /\ toServer' = Append(toServer, Paging(screen.id, First.next))
           /\ UNCHANGED <<screen, draining>>
        \/ toServer' = toServer /\ job' = NoJob /\ UNCHANGED screen
        \/ Errs("absent")
    BY <1>10, PageArrivesIs
  <2> QED
    BY <2>2, <2>3, <2>4, <2>5
<1>11. CASE Drains
  <2>1. Live /\ job = NoJob /\ draining /\ toClient' = toClient
    BY <1>11 DEF Drains, DrainsNext, Drained, DrainsEvent, Running, RestInv, channel
  <2>2. CASE toServer' = toServer /\ job' = job /\ ~Open
    <3>1. ReqsFrom(toServer', toServer, 0, screen.id) /\ AnsFrom(toClient', toClient, 0, screen.id)
        BY <1>0, <2>1, <2>2, ReqsSame, AnsSame
    <3> QED
        BY <1>1, <2>1, <2>2, <3>1
  <2>3. ASSUME NEW e, Loads(e), UNCHANGED <<screen, draining>> PROVE OneLoad'
    <3>1. /\ job'.kind = "paging" /\ toServer' = Append(toServer, Paging(screen.id, 0))
          /\ Paging(screen.id, 0) \in ChatAsks /\ Paging(screen.id, 0).kind # "subscribe"
        BY <1>0, <2>3, AskKinds DEF Loads
    <3>2. job' # NoJob /\ (screen'.phase = "ready" => draining')
        BY <2>1, <2>3, <3>1 DEF NoJob
    <3>3. /\ \A i \in DOMAIN toServer : ~LoadReq(toServer[i], screen'.id)
          /\ \A i \in DOMAIN toClient' : ~LoadAns(toClient'[i], screen'.id)
        BY <2>1, <2>3, LoadNone
    <3>4. PICK m \in ChatAsks : m = Paging(screen.id, 0)
        BY <3>1
    <3>5. toServer' = Append(toServer, m) /\ m.kind # "subscribe"
        BY <3>1, <3>4
    <3> QED
        BY <1>0, <3>2, <3>3, <3>5, LoadAsks
  <2>4. ~Open
    BY <2>1 DEF Open, Live
  <2> QED
    BY <1>3, <1>11, <2>2, <2>3, <2>4 DEF Drains, DrainsNext, Drained, DrainsEvent, channel
<1>12. CASE Open
  <2>1. /\ screen' = [id |-> screen.id + 1, phase |-> "loading", why |-> "none"]
        /\ job' = [kind |-> "subscribing"]
        /\ toServer' = Append(toServer, Subscribing(screen.id + 1))
        /\ toClient' = toClient
    BY <1>12 DEF Open
  <2>2. screen'.id = screen.id + 1 /\ screen'.phase # "ready" /\ job'.kind = "subscribing" /\ job' # NoJob
    BY <2>1 DEF NoJob
  <2>3. \A n \in Nat : n <= screen.id => n # screen.id + 1
    BY <1>0
  <2>4. /\ \A i \in DOMAIN toServer : ~LoadReq(toServer[i], screen'.id)
        /\ \A i \in DOMAIN toClient' : ~LoadAns(toClient'[i], screen'.id)
    <3>1. /\ \A m \in ChatAsks : m.kind # "unsubscribe" => m.of \in Nat
          /\ \A m \in Frames : m.kind # "event" => m.of \in Nat
        BY AskKinds, FrameKinds
    <3>2. /\ \A i \in DOMAIN toServer : toServer[i] \in ChatAsks
          /\ \A i \in DOMAIN toClient : toClient[i] \in Frames
        BY IdIs
    <3> QED
        BY <2>1, <2>2, <2>3, <3>1, <3>2 DEF OfInv, LoadReq, LoadAns
  <2>5. PICK m \in ChatAsks : m = Subscribing(screen.id + 1)
    BY <1>0, AskKinds
  <2>6. toServer' = Append(toServer, m)
    BY <2>1, <2>5
  <2> QED
    BY <1>0, <2>2, <2>4, <2>6, LoadAsks
<1>13. CASE Leave \/ ConnectionLost \/ RequestTimesOut
  <2>1. ~Live'
    BY <1>13 DEF Leave, ConnectionLost, RequestTimesOut, Errs, Live, ChatData
  <2> QED
    BY <1>2, <2>1
<1>14. CASE Edit \/ (\E r \in Runs : Send(r)) \/ SendTimesOut
  <2>1. /\ UNCHANGED <<screen, job, draining>>
        /\ \/ toServer' = toServer
           \/ \E r \in Runs : toServer' = Append(toServer, Sending(screen.id, r))
           \/ toServer' = Unawaited(toServer)
        /\ toClient' = toClient \/ toClient' = Unawaited(toClient)
    BY <1>14 DEF Edit, Send, SendTimesOut, SendLapses, work, channel
  <2>2. \A r \in Runs : Sending(screen.id, r) \in ChatAsks /\ ~LoadReq(Sending(screen.id, r), screen.id)
    BY <1>0, AskKinds DEF LoadReq
  <2>3. ReqsFrom(toServer', toServer, 0, screen.id) /\ AnsFrom(toClient', toClient, 0, screen.id)
    BY <1>0, <2>1, <2>2, ReqsSame, AnsSame
  <2>4. ~Live' \/ ~Open
    BY <2>1 DEF Live, Open
  <2> QED
    BY <1>1, <1>2, <2>1, <2>3, <2>4
<1> QED
    BY <1>4, <1>5, <1>6, <1>7, <1>8, <1>9, <1>10, <1>11, <1>12, <1>13, <1>14, NextCases DEF Arrives, ChatActs

\* A chat that is being loaded or shown is told everything: it subscribes before anything
\* else, and whatever would unsubscribe it comes before.
Tuned == Live =>
    \/ \E i \in DOMAIN toServer :
          /\ toServer[i].kind = "subscribe" /\ toServer[i].of = screen.id
          /\ \A j \in DOMAIN toServer : j > i => toServer[j].kind # "unsubscribe"
    \/ /\ subscribed \/ deleted
       /\ \A j \in DOMAIN toServer : toServer[j].kind # "unsubscribe"

\* The queue to the server after d requests have been taken from it, and some added.
AsksOn(t, q, d) ==
    /\ \A i \in DOMAIN t : t[i].kind = "unsubscribe" => i + d \in DOMAIN q /\ q[i + d].kind = "unsubscribe"
    /\ \A i \in DOMAIN q : i > d => i - d \in DOMAIN t /\ (q[i].kind = "subscribe" => t[i - d] = q[i])

LEMMA AsksOnIs ==
    ASSUME NEW q \in Seq(ChatAsks), NEW t
    PROVE  /\ t = q => AsksOn(t, q, 0)
           /\ q # <<>> /\ t = Tail(q) => AsksOn(t, q, 1)
           /\ \A m \in ChatAsks : t = Append(q, m) /\ m.kind # "unsubscribe" => AsksOn(t, q, 0)
           /\ t = Unawaited(q) => AsksOn(t, q, 0)
<1>0. \A i \in DOMAIN q : i + 0 = i /\ i - 0 = i
    OBVIOUS
<1>1. t = q => AsksOn(t, q, 0)
    BY <1>0 DEF AsksOn
<1>2. ASSUME q # <<>>, t = Tail(q) PROVE AsksOn(t, q, 1)
  <2>1. /\ \A i \in DOMAIN t : i \in Nat /\ i >= 1 /\ i + 1 \in DOMAIN q /\ t[i] = q[i + 1]
        /\ \A i \in DOMAIN q : i \in Nat /\ (i = 1 \/ (i > 1 /\ i - 1 \in DOMAIN t /\ t[i - 1] = q[i]))
    BY <1>2, Taken
  <2> QED
    BY <2>1 DEF AsksOn
<1>3. ASSUME NEW m \in ChatAsks, t = Append(q, m), m.kind # "unsubscribe" PROVE AsksOn(t, q, 0)
  <2>1. /\ \A i \in DOMAIN q : i \in DOMAIN t /\ t[i] = q[i]
        /\ \A i \in DOMAIN t : i \in DOMAIN q \/ i = Len(q) + 1
        /\ t[Len(q) + 1] = m
    BY <1>3, AddedOne
  <2> QED
    BY <1>0, <1>3, <2>1 DEF AsksOn
<1>4. ASSUME t = Unawaited(q) PROVE AsksOn(t, q, 0)
  <2>1. DOMAIN t = DOMAIN q /\ \A i \in DOMAIN q : t[i].kind = q[i].kind /\ (q[i].kind # "send" => t[i] = q[i])
    BY <1>4, UnawaitedAsks
  <2> QED
    BY <1>0, <2>1 DEF AsksOn
<1> QED
    BY <1>1, <1>2, <1>3, <1>4

LEMMA TunedSame ==
    ASSUME ChatData, Tuned, NEW d \in {0, 1}, Live' => Live /\ screen'.id = screen.id,
           AsksOn(toServer', toServer, d), toServer' \in Seq(ChatAsks),
           d = 1 => ~(toServer[1].kind = "subscribe" /\ toServer[1].of = screen.id),
           \/ subscribed \/ deleted => subscribed' \/ deleted'
           \/ 1 \in DOMAIN toServer /\ toServer[1].kind = "unsubscribe"
    PROVE  Tuned'
<1> SUFFICES ASSUME Live' PROVE Tuned'
    BY DEF Tuned
<1>1. /\ Live /\ screen'.id = screen.id
      /\ \A i \in DOMAIN toServer : i \in Nat /\ i >= 1
      /\ \A i \in DOMAIN toServer' : i \in Nat
    BY IdIs
<1>2. ASSUME NEW i \in DOMAIN toServer, toServer[i].kind = "subscribe", toServer[i].of = screen.id,
             \A j \in DOMAIN toServer : j > i => toServer[j].kind # "unsubscribe"
      PROVE  Tuned'
  <2>1. i > d
    BY <1>1, <1>2
  <2>2. i - d \in DOMAIN toServer' /\ toServer'[i - d] = toServer[i]
    BY <1>2, <2>1 DEF AsksOn
  <2>3. ASSUME NEW j \in DOMAIN toServer', j > i - d, toServer'[j].kind = "unsubscribe" PROVE FALSE
    <3>1. j + d \in DOMAIN toServer /\ toServer[j + d].kind = "unsubscribe"
        BY <2>3 DEF AsksOn
    <3>2. j + d > i
        BY <1>1, <2>3
    <3> QED
        BY <1>2, <3>1, <3>2
  <2> QED
    BY <1>1, <1>2, <2>2, <2>3 DEF Tuned
<1>3. ASSUME subscribed \/ deleted, \A j \in DOMAIN toServer : toServer[j].kind # "unsubscribe"
      PROVE  Tuned'
  <2>1. \A j \in DOMAIN toServer' : toServer'[j].kind # "unsubscribe"
    BY <1>3 DEF AsksOn
  <2> QED
    BY <1>3, <2>1 DEF Tuned
<1> QED
    BY <1>1, <1>2, <1>3 DEF Tuned

\* What the app sends while its chat stays open.
LEMMA AppAsks ==
    ASSUME ChatData, Arrives \/ Drains \/ Edit \/ RequestTimesOut \/ \E r \in Runs : Send(r)
    PROVE  /\ \/ toServer' = toServer
              \/ \E m \in ChatAsks : toServer' = Append(toServer, m) /\ m.kind # "unsubscribe"
           /\ UNCHANGED <<subscribed, deleted, log, made>>
<1>0. screen.id \in Nat
    BY IdIs
<1>1. \A n \in Nat : Paging(screen.id, n) \in ChatAsks /\ Paging(screen.id, n).kind # "unsubscribe"
    BY <1>0, AskKinds
<1>2. \A r \in Runs : Sending(screen.id, r) \in ChatAsks /\ Sending(screen.id, r).kind # "unsubscribe"
    BY <1>0, AskKinds
<1>3. CASE Arrives
  <2>1. CASE PageArrives
    <3>1. First.next \in Nat /\ (toServer' = toServer \/ toServer' = Append(toServer, Paging(screen.id, First.next)))
        BY <2>1, PageArrivesIs
    <3>2. UNCHANGED <<session, hub>>
        BY <2>1 DEF PageArrives
    <3> QED
        BY <1>1, <3>1, <3>2 DEF session, hub
  <2>2. CASE SubscribedArrives
    BY <1>1, <2>2 DEF SubscribedArrives, Loads, session, hub
  <2> QED
    BY <1>3, <2>1, <2>2 DEF Arrives, EventDropped, EventDelivered, EventKept,
       MissingArrives, AnswerDropped, AcceptedArrives, RefusedArrives, FailedArrives, session, hub
<1>4. CASE Drains
  <2>1. UNCHANGED <<session, hub>> /\ (toServer' = toServer \/ toServer' = Append(toServer, Paging(screen.id, 0)))
    BY <1>4 DEF Drains, DrainsNext, Drained, DrainsEvent, Loads, channel
  <2> QED
    BY <1>1, <2>1 DEF session, hub
<1>5. CASE Edit \/ RequestTimesOut
    BY <1>5 DEF Edit, RequestTimesOut, channel, session, hub
<1>6. ASSUME NEW r \in Runs, Send(r)
      PROVE  /\ \E m \in ChatAsks : toServer' = Append(toServer, m) /\ m.kind # "unsubscribe"
             /\ UNCHANGED <<subscribed, deleted, log, made>>
    BY <1>2, <1>6 DEF Send, session, hub
<1> QED
    BY <1>3, <1>4, <1>5, <1>6

LEMMA TunedNext ==
    ASSUME ChatData, MadeInv, OfInv, RestInv, Tuned, ChatNext
    PROVE  Tuned'
<1>0. /\ screen.id \in Nat /\ toServer \in Seq(ChatAsks) /\ toServer' \in Seq(ChatAsks)
  <2>1. ChatData'
    BY ChatDataNext
  <2> QED
    BY <2>1 DEF ChatData
<1>1. ASSUME ~Live' PROVE Tuned'
    BY <1>1 DEF Tuned
<1>2. ASSUME NEW d \in {0, 1}, ~Open, AsksOn(toServer', toServer, d),
             d = 1 => ~(toServer[1].kind = "subscribe" /\ toServer[1].of = screen.id),
             \/ subscribed \/ deleted => subscribed' \/ deleted'
             \/ 1 \in DOMAIN toServer /\ toServer[1].kind = "unsubscribe"
      PROVE  Tuned'
  <2>1. Live' => Live /\ screen'.id = screen.id
    BY <1>2, LiveNext
  <2> QED
    BY <1>0, <1>2, <2>1, TunedSame
<1>3. CASE Open
  <2>1. /\ screen' = [id |-> screen.id + 1, phase |-> "loading", why |-> "none"]
        /\ toServer' = Append(toServer, Subscribing(screen.id + 1))
    BY <1>3 DEF Open
  <2>2. screen'.id = screen.id + 1
    BY <2>1
  <2>3. PICK m \in ChatAsks : m = Subscribing(screen.id + 1) /\ m.kind = "subscribe" /\ m.of = screen.id + 1
    BY <1>0, AskKinds
  <2>4. /\ Len(toServer) + 1 \in DOMAIN toServer' /\ toServer'[Len(toServer) + 1] = m
        /\ DOMAIN toServer' = 1..(Len(toServer) + 1) /\ Len(toServer) \in Nat
    BY <1>0, <2>1, <2>3, AddedOne
  <2>5. \A j \in DOMAIN toServer' : ~(j > Len(toServer) + 1)
    BY <2>4
  <2> QED
    BY <2>2, <2>3, <2>4, <2>5 DEF Tuned
<1>4. CASE ServerGrows
  <2>1. PICK evs, rep : Growth(evs, rep) /\ Answer(rep)
    BY <1>4, ServerGrowing DEF Growing
  <2>2. /\ screen' = screen /\ (subscribed \/ deleted => subscribed' \/ deleted')
        /\ \/ toServer' = toServer
           \/ toServer # <<>> /\ Head(toServer).kind = "send" /\ toServer' = Tail(toServer)
    BY <2>1 DEF Growth
  <2>3. ~Live' \/ ~Open
    BY <2>2 DEF Live, Open
  <2>4. CASE toServer' = toServer
    BY <1>0, <1>1, <1>2, <2>2, <2>3, <2>4, AsksOnIs
  <2>5. CASE toServer # <<>> /\ Head(toServer).kind = "send" /\ toServer' = Tail(toServer)
    <3>1. Head(toServer) = toServer[1] /\ AsksOn(toServer', toServer, 1)
        BY <1>0, <2>5, AsksOnIs, Taken
    <3> QED
        BY <1>1, <1>2, <2>2, <2>3, <2>5, <3>1
  <2> QED
    BY <2>2, <2>4, <2>5
<1>5. CASE ServePage
  <2>1. Requested("page") /\ UNCHANGED <<screen, deleted, subscribed>>
    BY <1>5, ServePageIs DEF hub
  <2>2. toServer # <<>> /\ toServer' = Tail(toServer) /\ toServer[1].kind = "page"
    BY <2>1, RequestIs
  <2>3. AsksOn(toServer', toServer, 1) /\ (~Live' \/ ~Open)
    BY <1>0, <2>1, <2>2, AsksOnIs DEF Live, Open
  <2> QED
    BY <1>1, <1>2, <2>1, <2>2, <2>3
<1>6. CASE ServeSubscribe \/ ServeUnsubscribe
  <2>1. screen' = screen /\ deleted' = deleted
    BY <1>6, ServeSubscribeIs DEF session
  <2>2. CASE Requested("subscribe")
    <3>1. toServer # <<>> /\ toServer' = Tail(toServer) /\ toServer[1].kind = "subscribe" /\ 1 \in DOMAIN toServer
        BY <2>2, RequestIs
    <3>2. deleted \/ subscribed' = TRUE
      <4>1. ~Requested("unsubscribe")
        BY <2>2 DEF Requested
      <4> QED
        BY <1>6, <4>1, ServeSubscribeIs
    <3>3. CASE toServer[1].of # screen.id
      <4>1. AsksOn(toServer', toServer, 1) /\ (~Live' \/ ~Open)
        BY <1>0, <2>1, <3>1, AsksOnIs DEF Live, Open
      <4> QED
        BY <1>1, <1>2, <2>1, <3>2, <3>3, <4>1
    <3>4. CASE toServer[1].of = screen.id
      <4>1. SUFFICES ASSUME Live PROVE Tuned'
        BY <1>1, <2>1 DEF Live
      <4>2. /\ \A i \in DOMAIN toServer' : i \in Nat /\ i >= 1 /\ i + 1 \in DOMAIN toServer /\ toServer'[i] = toServer[i + 1]
            /\ \A i \in DOMAIN toServer : i \in Nat /\ i >= 1
        BY <1>0, <3>1, Taken
      <4>3. ASSUME NEW i \in DOMAIN toServer, toServer[i].kind = "subscribe", toServer[i].of = screen.id,
                   \A j \in DOMAIN toServer : j > i => toServer[j].kind # "unsubscribe"
            PROVE  Tuned'
        <5>1. CASE i = 1
          <6>1. \A j \in DOMAIN toServer' : toServer'[j].kind # "unsubscribe"
            <7>1. \A j \in DOMAIN toServer' : j + 1 > 1
                BY <4>2
            <7> QED
                BY <4>2, <4>3, <5>1, <7>1
          <6> QED
            BY <2>1, <3>2, <6>1 DEF Tuned
        <5>2. CASE i # 1
          <6>1. i - 1 \in DOMAIN toServer' /\ toServer'[i - 1] = toServer[i] /\ i \in Nat
            BY <1>0, <3>1, <5>2, Taken
          <6>2. ASSUME NEW j \in DOMAIN toServer', j > i - 1 PROVE toServer'[j].kind # "unsubscribe"
            <7>1. j + 1 > i
                BY <4>2, <6>1, <6>2
            <7> QED
                BY <4>2, <4>3, <7>1
          <6> QED
            BY <2>1, <4>3, <6>1, <6>2 DEF Tuned
        <5> QED
            BY <5>1, <5>2
      <4>4. ASSUME \A j \in DOMAIN toServer : toServer[j].kind # "unsubscribe"
            PROVE  Tuned'
        <5>1. \A j \in DOMAIN toServer' : toServer'[j].kind # "unsubscribe"
            BY <4>2, <4>4
        <5> QED
            BY <2>1, <3>2, <5>1 DEF Tuned
      <4> QED
        BY <4>1, <4>3, <4>4 DEF Tuned
    <3> QED
        BY <3>3, <3>4
  <2>3. CASE Requested("unsubscribe")
    <3>1. toServer # <<>> /\ toServer' = Tail(toServer) /\ toServer[1].kind = "unsubscribe" /\ 1 \in DOMAIN toServer
        BY <2>3, RequestIs
    <3>2. AsksOn(toServer', toServer, 1) /\ (~Live' \/ ~Open)
        BY <1>0, <2>1, <3>1, AsksOnIs DEF Live, Open
    <3> QED
        BY <1>1, <1>2, <3>1, <3>2
  <2> QED
    BY <1>6, <2>2, <2>3, ServeSubscribeIs
<1>7. CASE (Arrives \/ Drains \/ Edit \/ RequestTimesOut \/ \E r \in Runs : Send(r)) /\ ~Open
  <2>1. AsksOn(toServer', toServer, 0)
    BY <1>0, <1>7, AppAsks, AsksOnIs
  <2>2. UNCHANGED <<subscribed, deleted>>
    BY <1>7, AppAsks
  <2> QED
    BY <1>2, <1>7, <2>1, <2>2
<1>8. CASE SendTimesOut
  <2>1. /\ toServer' = Unawaited(toServer) /\ UNCHANGED <<screen, deleted, subscribed>>
    BY <1>8 DEF SendTimesOut, SendLapses, hub
  <2>2. AsksOn(toServer', toServer, 0) /\ (~Live' \/ ~Open)
    BY <1>0, <2>1, AsksOnIs DEF Live, Open
  <2> QED
    BY <1>1, <1>2, <2>1, <2>2
<1>9. CASE Leave \/ ConnectionLost
  <2>1. ~Live'
    BY <1>9 DEF Leave, ConnectionLost, Live, ChatData
  <2> QED
    BY <1>1, <2>1
<1> QED
    BY <1>3, <1>4, <1>5, <1>6, <1>7, <1>8, <1>9, NextCases DEF ChatActs

-----------------------------------------------------------------------------
(* What waits to be taken in is in order.                                  *)

Loaded  == IF job.kind = "paging" /\ job.event # NoEvent THEN {job.event} ELSE {}
KeptNow == provisional \union batch \union Loaded

\* The events of a Run come in order, after what is set aside, and that after what is
\* being drained.
Ordered ==
    /\ \A i, j \in DOMAIN toClient :
          /\ i < j /\ toClient[j].kind = "event" /\ toClient[i].kind \in {"event", "accepted"}
          /\ toClient[i].run = toClient[j].run
          => toClient[i].seq < toClient[j].seq
    /\ \A e \in KeptNow : \A j \in DOMAIN toClient :
          toClient[j].kind = "event" /\ toClient[j].run = e.run => e.seq < toClient[j].seq
    /\ \A e \in batch \union Loaded : \A f \in provisional : e.run = f.run => e.seq < f.seq
    /\ \A e \in KeptNow : e.seq > 0
    /\ \A j \in DOMAIN toClient : toClient[j].kind = "event" => toClient[j].seq > 0

\* Nobody has heard of an event that is not in the log.
Logged == ~deleted =>
    /\ \A e \in KeptNow : e.seq <= log[e.run].seq
    /\ \A i \in DOMAIN toClient :
          toClient[i].kind \in {"event", "accepted"} => toClient[i].seq <= log[toClient[i].run].seq
    /\ \A i \in DOMAIN toClient :
          toClient[i].kind = "page" =>
             \A r \in DOMAIN toClient[i].found : toClient[i].found[r] <= log[r].seq
    /\ \A r \in DOMAIN view : Len(view[r]) <= log[r].seq
    /\ job.kind = "paging" => \A r \in DOMAIN job.found : job.found[r] <= log[r].seq

LEMMA LoadedIs ==
    ASSUME ChatData
    PROVE  /\ Loaded \subseteq ChatEvents /\ KeptNow \subseteq ChatEvents
           /\ \A e \in KeptNow : e.kind = "event" /\ e.run \in Runs /\ e.seq \in Nat
           /\ provisional \subseteq KeptNow /\ batch \subseteq KeptNow /\ Loaded \subseteq KeptNow
           /\ provisional \subseteq ChatEvents /\ batch \subseteq ChatEvents
<1>1. provisional \subseteq ChatEvents /\ batch \subseteq ChatEvents /\ job \in Jobs
    BY DEF ChatData
<1>2. Loaded \subseteq ChatEvents
    BY <1>1, JobKinds DEF Loaded
<1>3. KeptNow \subseteq ChatEvents
    BY <1>1, <1>2 DEF KeptNow
<1> QED
    BY <1>1, <1>2, <1>3, EventKinds DEF KeptNow

\* What every step of the server does to what waits.
ServerMoves(evs, rep) ==
    /\ evs \in Seq(ChatEvents) /\ rep \in Seq(Frames) /\ GrownBy(toClient', toClient, evs, rep)
    /\ \A i \in DOMAIN evs : evs[i].seq = log[evs[i].run].seq + 1 /\ ~deleted
    /\ \A i, j \in DOMAIN evs : evs[i].run = evs[j].run => i = j
    /\ \A i \in DOMAIN rep :
          /\ rep[i].kind # "event"
          /\ rep[i].kind = "accepted" => rep[i].seq = log'[rep[i].run].seq
          /\ rep[i].kind = "page" => \A r \in DOMAIN rep[i].found : rep[i].found[r] = log'[r].seq
    /\ ~deleted' => \A r \in Runs : log'[r].seq \in {log[r].seq, log[r].seq + 1}
    /\ ~deleted' => \A i \in DOMAIN evs : log'[evs[i].run].seq = evs[i].seq
    /\ deleted => deleted'
    /\ UNCHANGED <<screen, view, provisional, batch, draining, job>>

LEMMA NothingAdded ==
    ASSUME NEW q \in Seq(Frames)
    PROVE  GrownBy(q, q, <<>>, <<>>) /\ <<>> \in Seq(ChatEvents) /\ <<>> \in Seq(Frames) /\ DOMAIN <<>> = {}
<1>1. <<>> \in Seq(ChatEvents) /\ <<>> \in Seq(Frames) /\ DOMAIN <<>> = {} /\ q = q \o (<<>> \o <<>>)
  <2>1. <<>> \o <<>> = <<>> /\ q \o <<>> = q
    BY ConcatEmptySeq
  <2> QED
    BY <2>1
<1> QED
    BY <1>1, QueueGrown

LEMMA OneAdded ==
    ASSUME NEW q \in Seq(Frames), NEW m \in Frames
    PROVE  GrownBy(Append(q, m), q, <<>>, <<m>>) /\ <<m>> \in Seq(Frames)
<1>1. <<>> \in Seq(ChatEvents) /\ <<m>> \in Seq(Frames) /\ Append(q, m) = q \o (<<>> \o <<m>>)
  <2>1. <<m>> \in Seq(Frames)
    OBVIOUS
  <2>2. <<>> \o <<m>> = <<m>>
    BY <2>1, ConcatEmptySeq
  <2>3. Append(q, m) = q \o <<m>>
    BY AddedOne
  <2> QED
    BY <2>1, <2>2, <2>3
<1> QED
    BY <1>1, QueueGrown

LEMMA ServerStepIs ==
    ASSUME ChatData, MadeInv, ServerGrows \/ ServePage \/ ServeSubscribe \/ ServeUnsubscribe
    PROVE  \E evs, rep : ServerMoves(evs, rep)
<1>0. toClient \in Seq(Frames)
    BY IdIs
<1>1. CASE ServerGrows
  <2>1. PICK evs, rep : Growth(evs, rep)
    BY <1>1, ServerGrowing DEF Growing
  <2>2. /\ evs \in Seq(ChatEvents) /\ rep \in Seq(Frames) /\ toClient' = toClient \o (evs \o rep)
        /\ UNCHANGED <<screen, view, work>>
    BY <2>1 DEF Growth
  <2>3. GrownBy(toClient', toClient, evs, rep)
    BY <1>0, <2>2, QueueGrown
  <2>4. \A i \in DOMAIN rep :
          /\ rep[i].kind \in {"accepted", "refused", "failed"}
          /\ rep[i].kind = "accepted" => rep[i].seq = log'[rep[i].run].seq
    BY <2>1 DEF Growth
  <2>5. UNCHANGED <<screen, view, provisional, batch, draining, job>>
    BY <2>2 DEF work
  <2>6. ~deleted' => \A r \in Runs : log'[r].seq \in {log[r].seq, log[r].seq + 1}
    BY <2>1 DEF Growth
  <2>7. /\ \A i \in DOMAIN evs : evs[i].seq = log[evs[i].run].seq + 1 /\ ~deleted
        /\ \A i, j \in DOMAIN evs : evs[i].run = evs[j].run => i = j
        /\ ~deleted' => \A i \in DOMAIN evs : log'[evs[i].run].seq = evs[i].seq
        /\ deleted => deleted'
    BY <2>1 DEF Growth
  <2> QED
    BY <2>2, <2>3, <2>4, <2>5, <2>6, <2>7 DEF ServerMoves
<1>2. ASSUME NEW m \in Frames, toClient' = Append(toClient, m), m.kind \in {"subscribed", "missing", "page"},
             m.kind = "page" => \A r \in DOMAIN m.found : m.found[r] = log'[r].seq,
             \A r \in Runs : log'[r].seq \in {log[r].seq, log[r].seq + 1}, deleted' = deleted,
             UNCHANGED <<screen, view, work>>
      PROVE  ServerMoves(<<>>, <<m>>)
  <2>1. /\ <<>> \in Seq(ChatEvents) /\ <<m>> \in Seq(Frames) /\ DOMAIN <<>> = {} /\ DOMAIN <<m>> = {1} /\ <<m>>[1] = m
    BY <1>0, NothingAdded
  <2>2. GrownBy(toClient', toClient, <<>>, <<m>>)
    BY <1>0, <1>2, OneAdded
  <2>3. UNCHANGED <<screen, view, provisional, batch, draining, job>>
    BY <1>2 DEF work
  <2> QED
    BY <1>2, <2>1, <2>2, <2>3 DEF ServerMoves
<1>3. CASE ServePage
  <2>1. /\ Requested("page") /\ UNCHANGED <<screen, view, work, deleted>>
    BY <1>3, ServePageIs
  <2>2. Request.of \in Nat
    BY <2>1, RequestIs
  <2>3. CASE toClient' = Append(toClient, Missing(Request.of)) /\ log' = log
    <3>1. Missing(Request.of) \in Frames /\ Missing(Request.of).kind = "missing"
        BY <2>2, FrameKinds
    <3>2. \A r \in Runs : log'[r].seq \in {log[r].seq, log[r].seq + 1}
        BY <2>3
    <3> QED
        BY <1>2, <2>1, <2>3, <3>1, <3>2
  <2>4. ASSUME NEW f, NEW next, PageServed(Request.of, Request.after, f, next)
        PROVE  \E evs, rep : ServerMoves(evs, rep)
    <3>1. /\ Page(Request.of, f, next) \in Frames /\ Page(Request.of, f, next).kind = "page"
          /\ Page(Request.of, f, next).found = f
        BY <2>2, <2>4, FrameKinds DEF PageServed
    <3>2. PICK m \in Frames : m = Page(Request.of, f, next)
        BY <3>1
    <3>3. m.kind = "page" /\ \A r \in DOMAIN m.found : m.found[r] = log'[r].seq
        BY <2>4, <3>1, <3>2 DEF PageServed
    <3>4. \A r \in Runs : log'[r].seq \in {log[r].seq, log[r].seq + 1}
        BY <2>4 DEF PageServed
    <3>5. toClient' = Append(toClient, m)
        BY <2>4, <3>2 DEF PageServed
    <3> QED
        BY <1>2, <2>1, <3>3, <3>4, <3>5
  <2> QED
    BY <1>3, <2>3, <2>4, ServePageIs
<1>4. CASE ServeSubscribe \/ ServeUnsubscribe
  <2>1. /\ UNCHANGED <<screen, view, work, deleted, log>>
        /\ \A r \in Runs : log'[r].seq \in {log[r].seq, log[r].seq + 1}
    BY <1>4, ServeSubscribeIs DEF session
  <2>2. CASE toClient' = toClient
    <3>1. GrownBy(toClient', toClient, <<>>, <<>>) /\ <<>> \in Seq(ChatEvents) /\ <<>> \in Seq(Frames)
          /\ DOMAIN <<>> = {}
        BY <1>0, <2>2, NothingAdded
    <3>2. ServerMoves(<<>>, <<>>)
        BY <2>1, <3>1 DEF ServerMoves, work
    <3> QED
        BY <3>2
  <2>3. CASE toClient' # toClient
    <3>1. Request.of \in Nat
      <4>1. Requested("subscribe") /\ "subscribe" # "unsubscribe"
        BY <1>4, <2>3, ServeSubscribeIs
      <4> QED
        BY <4>1, RequestIs
    <3>2. /\ Missing(Request.of) \in Frames /\ Missing(Request.of).kind = "missing"
          /\ Subscribed(Request.of) \in Frames /\ Subscribed(Request.of).kind = "subscribed"
        BY <3>1, FrameKinds
    <3>3. \E m \in Frames : toClient' = Append(toClient, m) /\ m.kind \in {"subscribed", "missing"}
        BY <1>4, <2>3, <3>2, ServeSubscribeIs
    <3> QED
        BY <1>2, <2>1, <3>3
  <2> QED
    BY <2>2, <2>3
<1> QED
    BY <1>1, <1>3, <1>4

LEMMA OrderServer ==
    ASSUME ChatData, ChatData', Ordered, Logged, NEW evs, NEW rep, ServerMoves(evs, rep)
    PROVE  Ordered' /\ Logged'
<1>1. /\ evs \in Seq(ChatEvents) /\ rep \in Seq(Frames) /\ GrownBy(toClient', toClient, evs, rep)
      /\ \A i \in DOMAIN evs : evs[i].seq = log[evs[i].run].seq + 1 /\ ~deleted
      /\ \A i, j \in DOMAIN evs : evs[i].run = evs[j].run => i = j
      /\ \A i \in DOMAIN rep : rep[i].kind # "event"
      /\ UNCHANGED <<screen, view, provisional, batch, draining, job>> /\ Loaded' = Loaded /\ KeptNow' = KeptNow
    BY DEF ServerMoves, Loaded, KeptNow
<1>2. /\ \A r \in Runs : log[r].seq \in Nat
      /\ \A i \in DOMAIN evs : evs[i].kind = "event" /\ evs[i].run \in Runs /\ evs[i].seq \in Nat
      /\ \A e \in KeptNow : e.run \in Runs /\ e.seq \in Nat
      /\ \A i \in DOMAIN toClient : i \in Nat /\ toClient[i] \in Frames
      /\ Len(toClient) \in Nat /\ Len(evs) \in Nat
      /\ \A i \in DOMAIN evs : i \in Nat /\ i >= 1 /\ i <= Len(evs)
      /\ \A i \in DOMAIN toClient : i <= Len(toClient)
      /\ \A i \in DOMAIN rep : i \in Nat /\ i >= 1
    BY <1>1, LoadedIs, IdIs, EventKinds, EventsAre DEF GrownBy
<1>3. \A i \in DOMAIN toClient' :
          \/ i \in DOMAIN toClient /\ toClient'[i] = toClient[i]
          \/ \E j \in DOMAIN evs : i = Len(toClient) + j /\ toClient'[i] = evs[j]
          \/ \E j \in DOMAIN rep : i = Len(toClient) + (Len(evs) + j) /\ toClient'[i] = rep[j]
    BY <1>1 DEF GrownBy
<1>4. \A i \in DOMAIN toClient : toClient[i].kind \in {"event", "accepted"} => toClient[i].run \in Runs /\ toClient[i].seq \in Nat
    BY <1>2, FrameKinds
<1>5. ASSUME NEW i \in DOMAIN toClient', NEW j \in DOMAIN toClient', i < j, toClient'[j].kind = "event",
             toClient'[i].kind \in {"event", "accepted"}, toClient'[i].run = toClient'[j].run
      PROVE  toClient'[i].seq < toClient'[j].seq
  <2>1. CASE j \in DOMAIN toClient /\ toClient'[j] = toClient[j]
    <3>1. i \in DOMAIN toClient /\ toClient'[i] = toClient[i]
        BY <1>2, <1>3, <1>5, <2>1
    <3> QED
        BY <1>5, <2>1, <3>1 DEF Ordered
  <2>2. ASSUME NEW k \in DOMAIN evs, j = Len(toClient) + k, toClient'[j] = evs[k]
        PROVE  toClient'[i].seq < toClient'[j].seq
    <3>1. CASE i \in DOMAIN toClient /\ toClient'[i] = toClient[i]
      <4>1. toClient[i].seq <= log[toClient[i].run].seq
        BY <1>1, <1>5, <3>1 DEF Logged
      <4>2. evs[k].seq = log[toClient[i].run].seq + 1
        BY <1>1, <1>5, <2>2, <3>1
      <4> QED
        BY <1>2, <1>4, <1>5, <2>2, <3>1, <4>1, <4>2
    <3>2. ASSUME NEW l \in DOMAIN evs, i = Len(toClient) + l, toClient'[i] = evs[l] PROVE FALSE
      <4>1. l = k
        BY <1>1, <1>5, <2>2, <3>2
      <4> QED
        BY <1>2, <1>5, <2>2, <3>2, <4>1
    <3>3. ASSUME NEW l \in DOMAIN rep, i = Len(toClient) + (Len(evs) + l) PROVE FALSE
        BY <1>2, <1>5, <2>2, <3>3
    <3> QED
        BY <1>3, <3>1, <3>2, <3>3
  <2> QED
    BY <1>1, <1>3, <1>5, <2>1, <2>2
<1>6. ASSUME NEW e \in KeptNow, NEW j \in DOMAIN toClient', toClient'[j].kind = "event", toClient'[j].run = e.run
      PROVE  e.seq < toClient'[j].seq
  <2>1. CASE j \in DOMAIN toClient /\ toClient'[j] = toClient[j]
    BY <1>6, <2>1 DEF Ordered
  <2>2. ASSUME NEW k \in DOMAIN evs, toClient'[j] = evs[k]
        PROVE  e.seq < toClient'[j].seq
    <3>1. e.seq <= log[e.run].seq /\ evs[k].seq = log[e.run].seq + 1
        BY <1>1, <1>6, <2>2 DEF Logged
    <3> QED
        BY <1>2, <2>2, <3>1
  <2> QED
    BY <1>1, <1>3, <1>6, <2>1, <2>2
<1>7. ASSUME NEW j \in DOMAIN toClient', toClient'[j].kind = "event" PROVE toClient'[j].seq > 0
  <2>1. \A k \in DOMAIN evs : evs[k].seq > 0
    BY <1>1, <1>2
  <2> QED
    BY <1>1, <1>3, <1>7, <2>1 DEF Ordered
<1>8. Ordered'
    BY <1>1, <1>5, <1>6, <1>7 DEF Ordered
<1>9. Logged'
  <2> SUFFICES ASSUME ~deleted' PROVE Logged'
    BY DEF Logged
  <2>1. ~deleted /\ \A r \in Runs : log'[r].seq \in Nat /\ log[r].seq <= log'[r].seq
    <3>1. ~deleted /\ \A r \in Runs : log'[r].seq \in {log[r].seq, log[r].seq + 1}
        BY DEF ServerMoves
    <3> QED
        BY <1>2, <3>1
  <2>2. \A e \in KeptNow : e.seq <= log'[e.run].seq
    BY <1>2, <2>1 DEF Logged
  <2>3. ASSUME NEW i \in DOMAIN toClient', toClient'[i].kind \in {"event", "accepted"}
        PROVE  toClient'[i].seq <= log'[toClient'[i].run].seq
    <3>1. CASE i \in DOMAIN toClient /\ toClient'[i] = toClient[i]
      <4>1. /\ toClient[i].run \in Runs /\ toClient[i].seq \in Nat
            /\ toClient[i].seq <= log[toClient[i].run].seq
        BY <1>4, <2>1, <2>3, <3>1 DEF Logged
      <4> QED
        BY <1>2, <2>1, <3>1, <4>1
    <3>2. \A k \in DOMAIN evs : evs[k].seq <= log'[evs[k].run].seq
        BY <1>2 DEF ServerMoves
    <3>3. ASSUME NEW k \in DOMAIN rep, toClient'[i] = rep[k] PROVE toClient'[i].seq <= log'[toClient'[i].run].seq
      <4>1. rep[k].kind = "accepted" /\ rep[k].seq = log'[rep[k].run].seq /\ rep[k].run \in Runs
        BY <1>1, <2>3, <3>3, FrameKinds DEF ServerMoves
      <4> QED
        BY <2>1, <3>3, <4>1
    <3> QED
        BY <1>3, <3>1, <3>2, <3>3
  <2>4. ASSUME NEW i \in DOMAIN toClient', toClient'[i].kind = "page", NEW r \in DOMAIN toClient'[i].found
        PROVE  toClient'[i].found[r] <= log'[r].seq
    <3>1. \A m \in Frames : m.kind = "page" => m.found \in Pages
        BY FrameKinds
    <3>2. CASE i \in DOMAIN toClient /\ toClient'[i] = toClient[i]
      <4>1. /\ r \in Runs /\ toClient[i].found[r] \in Nat
            /\ toClient[i].found[r] <= log[r].seq
        BY <1>2, <2>1, <2>4, <3>1, <3>2, PageKinds DEF Logged
      <4> QED
        BY <1>2, <2>1, <3>2, <4>1
    <3>3. ASSUME NEW k \in DOMAIN rep, toClient'[i] = rep[k] PROVE toClient'[i].found[r] <= log'[r].seq
      <4>1. rep[k].found[r] = log'[r].seq /\ r \in Runs
        BY <1>1, <2>4, <3>1, <3>3, PageKinds DEF ServerMoves
      <4> QED
        BY <2>1, <3>3, <4>1
    <3> QED
        BY <1>2, <1>3, <2>4, <3>2, <3>3
  <2>5. \A r \in DOMAIN view : Len(view[r]) <= log'[r].seq
    <3>1. \A r \in DOMAIN view : r \in Runs /\ Len(view[r]) \in Nat /\ Len(view[r]) <= log[r].seq
      <4>1. view \in Views
        BY DEF ChatData
      <4> QED
        BY <2>1, <4>1, PageKinds DEF Logged
    <3> QED
        BY <1>2, <2>1, <3>1
  <2>6. job.kind = "paging" => \A r \in DOMAIN job.found : job.found[r] <= log'[r].seq
    <3>1. job.kind = "paging" => job.found \in Pages
        BY JobKinds DEF ChatData
    <3>2. job.kind = "paging" =>
             \A r \in DOMAIN job.found : r \in Runs /\ job.found[r] \in Nat /\ job.found[r] <= log[r].seq
        BY <2>1, <3>1, PageKinds DEF Logged
    <3> QED
        BY <1>2, <2>1, <3>2
  <2> QED
    BY <1>1, <2>2, <2>3, <2>4, <2>5, <2>6 DEF Logged
<1> QED
    BY <1>8, <1>9

-----------------------------------------------------------------------------
(* What the app does to what waits.                                        *)

\* A frame whose answer is no longer waited for is otherwise the same.
Like(m, n) ==
    /\ m.kind = n.kind
    /\ m.kind \in {"event", "page"} => m = n
    /\ m.kind = "accepted" => m.run = n.run /\ m.seq = n.seq
FramesFrom(t, q, d) == \A i \in DOMAIN t : i \in Nat /\ i + d \in DOMAIN q /\ Like(t[i], q[i + d])

LEMMA FramesSame ==
    ASSUME NEW q \in Seq(Frames), NEW t
    PROVE  /\ t = q => FramesFrom(t, q, 0)
           /\ q # <<>> /\ t = Tail(q) => FramesFrom(t, q, 1)
           /\ t = Unawaited(q) => FramesFrom(t, q, 0)
           /\ t = <<>> => FramesFrom(t, q, 0)
<1>0. \A i \in DOMAIN q : i \in Nat /\ i + 0 = i
    OBVIOUS
<1>1. \A m : Like(m, m)
    BY DEF Like
<1>2. t = q => FramesFrom(t, q, 0)
    BY <1>0, <1>1 DEF FramesFrom
<1>3. q # <<>> /\ t = Tail(q) => FramesFrom(t, q, 1)
    BY <1>1, Taken DEF FramesFrom
<1>4. ASSUME t = Unawaited(q) PROVE FramesFrom(t, q, 0)
  <2>1. /\ DOMAIN t = DOMAIN q
        /\ \A i \in DOMAIN q :
              /\ t[i].kind = q[i].kind
              /\ q[i].kind \notin {"accepted", "refused", "failed"} => t[i] = q[i]
              /\ q[i].kind = "accepted" => t[i].run = q[i].run /\ t[i].seq = q[i].seq
    BY <1>4, UnawaitedFrames
  <2>2. \A i \in DOMAIN q : Like(t[i], q[i])
    BY <2>1 DEF Like
  <2> QED
    BY <1>0, <2>1, <2>2 DEF FramesFrom
<1>5. t = <<>> => FramesFrom(t, q, 0)
    BY DEF FramesFrom
<1> QED
    BY <1>2, <1>3, <1>4, <1>5

ClientStep ==
    \/ Arrives \/ Drains \/ ChatActs
    \/ SendTimesOut \/ RequestTimesOut \/ ConnectionLost

\* What is set aside, drained and read for stays or becomes less, but for an event that is
\* set aside.
Sheds ==
    /\ UNCHANGED <<log, deleted>>
    /\ \E d \in {0, 1} : FramesFrom(toClient', toClient, d)
    /\ KeptNow' \subseteq KeptNow
    /\ \/ provisional' = {}
       \/ provisional' = provisional /\ batch' \union Loaded' \subseteq batch \union Loaded

LEMMA ShedsWork ==
    ASSUME UNCHANGED <<log, deleted>>, \E d \in {0, 1} : FramesFrom(toClient', toClient, d),
           \/ UNCHANGED <<provisional, batch, job>>
           \/ UNCHANGED <<provisional, batch>> /\ Loaded' = {}
           \/ provisional' = {} /\ batch' = {} /\ job' = NoJob
    PROVE  Sheds
<1>1. \/ UNCHANGED <<provisional, batch>> /\ (Loaded' = Loaded \/ Loaded' = {})
      \/ provisional' = {} /\ batch' = {} /\ Loaded' = {}
    BY DEF Loaded, NoJob
<1> QED
    BY <1>1 DEF Sheds, KeptNow

LEMMA ClientSheds ==
    ASSUME ChatData, RestInv, ClientStep, ~EventKept
    PROVE  Sheds
<1>0. toClient \in Seq(Frames) /\ 0 \in {0, 1} /\ 1 \in {0, 1} /\ job \in Jobs
    BY IdIs DEF ChatData
<1>1. CASE \/ EventDropped \/ EventDelivered \/ AnswerDropped
           \/ AcceptedArrives \/ RefusedArrives \/ FailedArrives
  <2>1. /\ toClient # <<>> /\ toClient' = Tail(toClient) /\ UNCHANGED <<log, deleted, provisional, batch, job>>
    BY <1>1, FirstIs DEF EventDropped, EventDelivered, AnswerDropped, AcceptedArrives, RefusedArrives,
       FailedArrives, work, session
  <2>2. FramesFrom(toClient', toClient, 1)
    BY <1>0, <2>1, FramesSame
  <2> QED
    BY <1>0, <2>1, <2>2, ShedsWork
<1>2. CASE SubscribedArrives \/ MissingArrives
  <2>1. toClient # <<>> /\ toClient' = Tail(toClient) /\ UNCHANGED <<log, deleted>>
    BY <1>2, FirstIs DEF SubscribedArrives, MissingArrives, session
  <2>2. FramesFrom(toClient', toClient, 1)
    BY <1>0, <2>1, FramesSame
  <2>3. \/ UNCHANGED <<provisional, batch>> /\ Loaded' = {}
        \/ provisional' = {} /\ batch' = {} /\ job' = NoJob
    BY <1>2 DEF SubscribedArrives, MissingArrives, Loads, Loaded, Errs
  <2> QED
    BY <1>0, <2>1, <2>2, <2>3, ShedsWork
<1>3. CASE PageArrives
  <2>1. toClient # <<>> /\ toClient' = Tail(toClient) /\ UNCHANGED <<log, deleted>>
    BY <1>3, PageArrivesIs DEF session
  <2>2. FramesFrom(toClient', toClient, 1)
    BY <1>0, <2>1, FramesSame
  <2>3. job.kind = "paging" /\ Loaded = IF job.event # NoEvent THEN {job.event} ELSE {}
    BY <1>3, PageArrivesIs DEF Loaded
  <2>4. CASE job' = PagingJob(job.event, Joined(job.found, First.found)) /\ UNCHANGED <<provisional, batch>>
    <3>0. job'.kind = "paging" /\ job'.event = job.event
        BY <2>4 DEF PagingJob
    <3>1. Loaded' = Loaded
        BY <2>3, <3>0 DEF Loaded
    <3> QED
        BY <1>0, <2>1, <2>2, <2>4, <3>1 DEF Sheds, KeptNow
  <2>5. CASE job' = NoJob /\ UNCHANGED <<provisional, batch>>
    <3>1. Loaded' = {}
        BY <2>5 DEF Loaded, NoJob
    <3> QED
        BY <1>0, <2>1, <2>2, <2>5, <3>1, ShedsWork
  <2>6. CASE job.event # NoEvent /\ batch' = batch \union {job.event} /\ job' = NoJob /\ UNCHANGED provisional
    <3>1. Loaded' = {} /\ Loaded = {job.event}
        BY <2>3, <2>6 DEF Loaded, NoJob
    <3> QED
        BY <1>0, <2>1, <2>2, <2>6, <3>1 DEF Sheds, KeptNow
  <2>7. CASE Errs("absent")
    BY <1>0, <2>1, <2>2, <2>7, ShedsWork DEF Errs
  <2> QED
    BY <1>3, <2>4, <2>5, <2>6, <2>7, PageArrivesIs
<1>4. CASE Drains
  <2>1. toClient' = toClient /\ UNCHANGED <<log, deleted>> /\ job = NoJob
    BY <1>4 DEF Drains, DrainsNext, Drained, DrainsEvent, Running, channel, session
  <2>2. FramesFrom(toClient', toClient, 0) /\ Loaded = {}
    BY <1>0, <2>1, FramesSame DEF Loaded, NoJob
  <2>3. CASE DrainsNext
    <3>1. batch' = provisional /\ provisional' = {} /\ Loaded' = {}
        BY <2>1, <2>3 DEF DrainsNext, Loaded, NoJob
    <3> QED
        BY <1>0, <2>1, <2>2, <3>1 DEF Sheds, KeptNow
  <2>4. CASE Drained
    BY <1>0, <2>1, <2>2, <2>4, ShedsWork DEF Drained
  <2>5. ASSUME NEW e \in batch, DrainsEvent(e) PROVE Sheds
    <3>1. CASE Loads(e) /\ batch' = batch \ {e} /\ provisional' = provisional
      <4>1. Loaded' \subseteq {e}
        BY <3>1 DEF Loads, Loaded
      <4> QED
        BY <1>0, <2>1, <2>2, <3>1, <4>1 DEF Sheds, KeptNow
    <3>2. CASE batch' = batch \ {e} /\ UNCHANGED <<provisional, job>>
      <4>1. Loaded' = {}
        BY <2>2, <3>2 DEF Loaded
      <4> QED
        BY <1>0, <2>1, <2>2, <3>2, <4>1 DEF Sheds, KeptNow
    <3>3. CASE Errs("gap")
        BY <1>0, <2>1, <2>2, <3>3, ShedsWork DEF Errs
    <3> QED
        BY <2>5, <3>1, <3>2, <3>3 DEF DrainsEvent
  <2> QED
    BY <1>4, <2>3, <2>4, <2>5 DEF Drains
<1>5. CASE Edit \/ (\E r \in Runs : Send(r)) \/ SendTimesOut
  <2>1. /\ UNCHANGED <<log, deleted, provisional, batch, job>>
        /\ toClient' = toClient \/ toClient' = Unawaited(toClient)
    BY <1>5 DEF Edit, Send, SendTimesOut, SendLapses, work, channel, session
  <2>2. FramesFrom(toClient', toClient, 0)
    BY <1>0, <2>1, FramesSame
  <2> QED
    BY <1>0, <2>1, <2>2, ShedsWork
<1>6. CASE Open \/ Leave \/ RequestTimesOut \/ ConnectionLost
  <2>1. /\ UNCHANGED <<log, deleted>>
        /\ toClient' = toClient \/ toClient' = <<>>
    BY <1>6 DEF Open, Leave, RequestTimesOut, ConnectionLost, channel, session
  <2>2. FramesFrom(toClient', toClient, 0)
    BY <1>0, <2>1, FramesSame
  <2>3. \/ UNCHANGED <<provisional, batch>> /\ Loaded' = {}
        \/ provisional' = {} /\ batch' = {} /\ job' = NoJob
    BY <1>6 DEF Open, Leave, RequestTimesOut, ConnectionLost, Errs, Forgets, Loaded
  <2> QED
    BY <1>0, <2>1, <2>2, <2>3, ShedsWork
<1> QED
    BY <1>1, <1>2, <1>3, <1>4, <1>5, <1>6 DEF ClientStep, Arrives, ChatActs

\* Frames that were there have the properties they had.
LEMMA FramesWere ==
    ASSUME ChatData, NEW d \in {0, 1}, NEW t, FramesFrom(t, toClient, d)
    PROVE  \A i \in DOMAIN t :
              /\ i \in Nat /\ i + d \in DOMAIN toClient /\ t[i].kind = toClient[i + d].kind
              /\ t[i].kind \in {"event", "page"} => t[i] = toClient[i + d]
              /\ t[i].kind \in {"event", "accepted"} => /\ t[i].run = toClient[i + d].run
                                                        /\ t[i].seq = toClient[i + d].seq
BY DEF FramesFrom, Like

LEMMA OrderSheds ==
    ASSUME ChatData, Ordered, Sheds
    PROVE  Ordered'
<1>1. PICK d \in {0, 1} : FramesFrom(toClient', toClient, d)
    BY DEF Sheds
<1>2. \A i \in DOMAIN toClient' :
              /\ i \in Nat /\ i + d \in DOMAIN toClient /\ toClient'[i].kind = toClient[i + d].kind
              /\ toClient'[i].kind \in {"event", "page"} => toClient'[i] = toClient[i + d]
              /\ toClient'[i].kind \in {"event", "accepted"} => /\ toClient'[i].run = toClient[i + d].run
                                                                /\ toClient'[i].seq = toClient[i + d].seq
    BY <1>1, FramesWere
<1>3. ASSUME NEW i \in DOMAIN toClient', NEW j \in DOMAIN toClient', i < j, toClient'[j].kind = "event",
             toClient'[i].kind \in {"event", "accepted"}, toClient'[i].run = toClient'[j].run
      PROVE  toClient'[i].seq < toClient'[j].seq
  <2>1. i + d < j + d
    BY <1>2, <1>3
  <2> QED
    BY <1>2, <1>3, <2>1 DEF Ordered
<1>4. ASSUME NEW e \in KeptNow', NEW j \in DOMAIN toClient', toClient'[j].kind = "event", toClient'[j].run = e.run
      PROVE  e.seq < toClient'[j].seq
    BY <1>2, <1>4 DEF Ordered, Sheds
<1>5. ASSUME NEW e \in batch' \union Loaded', NEW f \in provisional', e.run = f.run
      PROVE  e.seq < f.seq
    BY <1>5 DEF Ordered, Sheds
<1>6. \A e \in KeptNow' : e.seq > 0
    BY DEF Ordered, Sheds
<1>7. \A j \in DOMAIN toClient' : toClient'[j].kind = "event" => toClient'[j].seq > 0
    BY <1>2 DEF Ordered
<1> QED
    BY <1>3, <1>4, <1>5, <1>6, <1>7 DEF Ordered

\* An event that is set aside is the next one after all that waits.
LEMMA KeptIs ==
    ASSUME ChatData, EventKept
    PROVE  /\ First \in ChatEvents /\ First = toClient[1] /\ First.kind = "event" /\ 1 \in DOMAIN toClient
           /\ First.run \in Runs /\ First.seq \in Nat
           /\ FramesFrom(toClient', toClient, 1) /\ toClient # <<>> /\ toClient' = Tail(toClient)
           /\ provisional' = provisional \union {First} /\ KeptNow' = KeptNow \union {First}
           /\ UNCHANGED <<log, deleted, batch, job, view, screen>> /\ Loaded' = Loaded
<1>1. /\ toClient # <<>> /\ First = toClient[1] /\ 1 \in DOMAIN toClient /\ First.kind = "event"
      /\ First.run \in Runs /\ First.seq \in Nat
      /\ toClient' = Tail(toClient) /\ First \in ChatEvents
    BY FirstIs, EventIs DEF EventKept
<1>2. /\ provisional' = provisional \union {First} /\ UNCHANGED <<log, deleted, batch, job, view, screen>>
    BY DEF EventKept, session
<1>3. Loaded' = Loaded
    BY <1>2 DEF Loaded
<1>4. KeptNow' = KeptNow \union {First}
    BY <1>2, <1>3 DEF KeptNow
<1> QED
    BY <1>1, <1>2, <1>3, <1>4, FramesSame, IdIs

LEMMA OrderKept ==
    ASSUME ChatData, Ordered, EventKept
    PROVE  Ordered'
<1>0. /\ First \in ChatEvents /\ First = toClient[1] /\ First.kind = "event" /\ 1 \in DOMAIN toClient
      /\ FramesFrom(toClient', toClient, 1)
      /\ provisional' = provisional \union {First} /\ KeptNow' = KeptNow \union {First}
      /\ UNCHANGED <<batch>> /\ Loaded' = Loaded
    BY KeptIs
<1>2. \A i \in DOMAIN toClient' :
              /\ i \in Nat /\ i + 1 \in DOMAIN toClient /\ toClient'[i].kind = toClient[i + 1].kind
              /\ toClient'[i].kind \in {"event", "page"} => toClient'[i] = toClient[i + 1]
              /\ toClient'[i].kind \in {"event", "accepted"} => /\ toClient'[i].run = toClient[i + 1].run
                                                                /\ toClient'[i].seq = toClient[i + 1].seq
    BY <1>0, FramesWere
<1>3. ASSUME NEW i \in DOMAIN toClient', NEW j \in DOMAIN toClient', i < j, toClient'[j].kind = "event",
             toClient'[i].kind \in {"event", "accepted"}, toClient'[i].run = toClient'[j].run
      PROVE  toClient'[i].seq < toClient'[j].seq
  <2>1. i + 1 < j + 1
    BY <1>2, <1>3
  <2> QED
    BY <1>2, <1>3, <2>1 DEF Ordered
<1>4. ASSUME NEW e \in KeptNow', NEW j \in DOMAIN toClient', toClient'[j].kind = "event", toClient'[j].run = e.run
      PROVE  e.seq < toClient'[j].seq
  <2>1. CASE e \in KeptNow
    BY <1>2, <1>4, <2>1 DEF Ordered
  <2>2. CASE e = First
    <3>1. 1 < j + 1
      <4>1. j \in DOMAIN toClient' /\ toClient' = Tail(toClient) /\ toClient # <<>> /\ toClient \in Seq(Frames)
        BY KeptIs, IdIs
      <4> QED
        BY <4>1, Taken
    <3>2. j + 1 \in DOMAIN toClient /\ toClient[j + 1].kind = "event" /\ toClient'[j] = toClient[j + 1]
        BY <1>2, <1>4
    <3>3. toClient[1].kind = "event" /\ toClient[1].run = toClient[j + 1].run /\ 1 \in DOMAIN toClient
        BY <1>0, <1>4, <2>2, <3>2
    <3>4. toClient[1].seq < toClient[j + 1].seq
        BY <3>1, <3>2, <3>3 DEF Ordered
    <3> QED
        BY <1>0, <2>2, <3>2, <3>4
  <2> QED
    BY <1>0, <1>4, <2>1, <2>2
<1>5. ASSUME NEW e \in batch' \union Loaded', NEW f \in provisional', e.run = f.run
      PROVE  e.seq < f.seq
    BY <1>0, <1>5 DEF Ordered, KeptNow
<1>6. \A e \in KeptNow' : e.seq > 0
    BY <1>0 DEF Ordered
<1>7. \A j \in DOMAIN toClient' : toClient'[j].kind = "event" => toClient'[j].seq > 0
    BY <1>2 DEF Ordered
<1> QED
    BY <1>3, <1>4, <1>5, <1>6, <1>7 DEF Ordered

LEMMA OrderClient ==
    ASSUME ChatData, RestInv, Ordered, ClientStep
    PROVE  Ordered'
BY ClientSheds, OrderSheds, OrderKept

LEMMA KnownSheds ==
    ASSUME ChatData, Logged, UNCHANGED <<log, deleted>>, NEW d \in {0, 1}, FramesFrom(toClient', toClient, d),
           \A e \in KeptNow' : e \in KeptNow \/ (EventKept /\ e = First),
           ~deleted => \A r \in DOMAIN view' : Len(view'[r]) <= log[r].seq,
           ~deleted /\ job'.kind = "paging" => \A r \in DOMAIN job'.found : job'.found[r] <= log[r].seq
    PROVE  Logged'
<1> SUFFICES ASSUME ~deleted PROVE Logged'
    BY DEF Logged
<1>1. \A i \in DOMAIN toClient' :
              /\ i \in Nat /\ i + d \in DOMAIN toClient /\ toClient'[i].kind = toClient[i + d].kind
              /\ toClient'[i].kind \in {"event", "page"} => toClient'[i] = toClient[i + d]
              /\ toClient'[i].kind \in {"event", "accepted"} => /\ toClient'[i].run = toClient[i + d].run
                                                                /\ toClient'[i].seq = toClient[i + d].seq
    BY FramesWere
<1>2. ASSUME NEW e \in KeptNow' PROVE e.seq <= log[e.run].seq
  <2>1. CASE e \in KeptNow
    BY <2>1 DEF Logged
  <2>2. CASE EventKept /\ e = First
    BY <2>2, KeptIs DEF Logged
  <2> QED
    BY <2>1, <2>2
<1>3. \A i \in DOMAIN toClient' :
          toClient'[i].kind \in {"event", "accepted"} => toClient'[i].seq <= log[toClient'[i].run].seq
    BY <1>1 DEF Logged
<1>4. \A i \in DOMAIN toClient' :
          toClient'[i].kind = "page" =>
             \A r \in DOMAIN toClient'[i].found : toClient'[i].found[r] <= log[r].seq
    BY <1>1 DEF Logged
<1> QED
    BY <1>2, <1>3, <1>4 DEF Logged

\* The view of a chat after a step of the app.
ViewStep ==
    \/ view' = view
    \/ view' = <<>>
    \/ \E e \in ChatEvents : /\ NextUp(e) /\ view' = Delivered(e)
                             /\ \/ e \in batch
                                \/ 1 \in DOMAIN toClient /\ e = toClient[1]
    \/ /\ AcceptedArrives /\ First = toClient[1] /\ First.kind = "accepted" /\ 1 \in DOMAIN toClient
       /\ First.run \in Runs /\ First.seq \in Nat
       /\ view' = IF First.run \in ShownRuns /\ Len(view[First.run]) >= First.seq THEN view
                  ELSE [q \in ShownRuns \union {First.run} |->
                           IF q = First.run THEN Prefix(First.seq) ELSE view[q]]
    \/ /\ PageArrives /\ job.kind = "paging"
       /\ view' = Replaced(Joined(job.found, First.found))

LEMMA ViewSteps ==
    ASSUME ChatData, ClientStep
    PROVE  ViewStep
<1>1. CASE EventDelivered
  <2>1. First \in ChatEvents /\ First = toClient[1] /\ 1 \in DOMAIN toClient
    BY <1>1, FirstIs, EventIs DEF EventDelivered
  <2> QED
    BY <1>1, <2>1 DEF EventDelivered, ViewStep
<1>2. CASE AcceptedArrives
  <2>1. /\ First = toClient[1] /\ First.kind = "accepted" /\ First \in Frames /\ 1 \in DOMAIN toClient
    BY <1>2, FirstIs DEF AcceptedArrives
  <2> QED
    BY <1>2, <2>1, FrameKinds DEF AcceptedArrives, ViewStep
<1>3. CASE PageArrives
    BY <1>3, PageArrivesIs DEF ViewStep, Errs
<1>4. CASE Drains
  <2>1. ASSUME NEW e \in batch, DrainsEvent(e) PROVE ViewStep
    <3>1. e \in ChatEvents
        BY LoadedIs
    <3>2. view' = view \/ (NextUp(e) /\ view' = Delivered(e))
        BY <2>1 DEF DrainsEvent
    <3> QED
        BY <3>1, <3>2 DEF ViewStep
  <2> QED
    BY <1>4, <2>1 DEF Drains, DrainsNext, Drained, ViewStep
<1>5. CASE ~EventDelivered /\ ~AcceptedArrives /\ ~PageArrives /\ ~Drains
    BY <1>5 DEF ClientStep, Arrives, EventDropped, EventKept, SubscribedArrives, MissingArrives, AnswerDropped,
       RefusedArrives, FailedArrives, ChatActs, Open, Leave, Edit, Send, SendTimesOut, SendLapses, RequestTimesOut,
       ConnectionLost, Forgets, ViewStep
<1> QED
    BY <1>1, <1>2, <1>3, <1>4, <1>5

\* What a load has found after a step of the app.
LEMMA FoundSteps ==
    ASSUME ChatData, ClientStep, job'.kind = "paging"
    PROVE  \/ job' = job
           \/ /\ \E e \in ChatEvents \union {NoEvent} : Loads(e)
              /\ job'.found = <<>>
           \/ PageArrives /\ job.kind = "paging" /\ job'.found = Joined(job.found, First.found)
<1>1. NoJob.kind # "paging" /\ \A e, f : PagingJob(e, f).found = f
    BY JobKinds
<1>2. ASSUME NEW e, Loads(e) PROVE job'.found = <<>>
    BY <1>2 DEF Loads
<1>3. CASE PageArrives
  <2>1. job' = PagingJob(job.event, Joined(job.found, First.found)) \/ job' = NoJob
    BY <1>3, PageArrivesIs DEF Errs
  <2>2. job.kind = "paging"
    BY <1>3, PageArrivesIs
  <2> QED
    BY <1>1, <1>3, <2>1, <2>2 DEF PagingJob
<1>4. CASE Drains
  <2>1. ASSUME NEW e \in batch, DrainsEvent(e)
        PROVE  job' = job \/ (Loads(e) /\ e \in ChatEvents)
    <3>1. e \in ChatEvents
        BY LoadedIs
    <3> QED
        BY <1>1, <2>1, <3>1 DEF DrainsEvent, Errs
  <2> QED
    BY <1>2, <1>4, <2>1 DEF Drains, DrainsNext, Drained
<1>5. CASE ~PageArrives /\ ~Drains
    BY <1>1, <1>2, <1>5 DEF ClientStep, Arrives, EventDropped, EventKept, SubscribedArrives, MissingArrives,
       AnswerDropped, EventDelivered, AcceptedArrives,
       RefusedArrives, FailedArrives, ChatActs, Open, Leave, Edit, Send, SendTimesOut, SendLapses, RequestTimesOut,
       ConnectionLost, Errs, work
<1> QED
    BY <1>3, <1>4, <1>5

LEMMA KnownView ==
    ASSUME ChatData, Logged, ~deleted, ClientStep, UNCHANGED log
    PROVE  \A r \in DOMAIN view' : Len(view'[r]) <= log[r].seq
<1>0. /\ view \in Views /\ \A r \in DOMAIN view : r \in Runs /\ Len(view[r]) <= log[r].seq
  <2>1. view \in Views
    BY DEF ChatData
  <2> QED
    BY <2>1, PageKinds DEF Logged
<1>1. CASE view' = view
    BY <1>0, <1>1
<1>2. CASE view' = <<>>
    BY <1>2
<1>3. ASSUME NEW e \in ChatEvents, NextUp(e), view' = Delivered(e),
             e \in batch \/ (1 \in DOMAIN toClient /\ e = toClient[1])
      PROVE  \A r \in DOMAIN view' : Len(view'[r]) <= log[r].seq
  <2>1. /\ DOMAIN view' = DOMAIN view /\ Len(view'[e.run]) = e.seq
        /\ \A r \in DOMAIN view : r # e.run => view'[r] = view[r]
    BY <1>3, DeliveredIs
  <2>2. e.seq <= log[e.run].seq
    BY <1>3, LoadedIs, EventKinds DEF Logged
  <2> QED
    BY <1>0, <2>1, <2>2
<1>4. ASSUME First = toClient[1], First.kind = "accepted", 1 \in DOMAIN toClient, First.run \in Runs, First.seq \in Nat,
             view' = IF First.run \in ShownRuns /\ Len(view[First.run]) >= First.seq THEN view
                     ELSE [q \in ShownRuns \union {First.run} |->
                              IF q = First.run THEN Prefix(First.seq) ELSE view[q]]
      PROVE  \A r \in DOMAIN view' : Len(view'[r]) <= log[r].seq
  <2>1. /\ DOMAIN view' = DOMAIN view \union {First.run}
        /\ \A q \in DOMAIN view \ {First.run} : view'[q] = view[q]
        /\ \/ First.run \in DOMAIN view /\ view' = view
           \/ Len(view'[First.run]) = First.seq
    BY <1>4, AcceptedIs
  <2>2. First.seq <= log[First.run].seq
    BY <1>4 DEF Logged
  <2> QED
    BY <1>0, <2>1, <2>2
<1>5. ASSUME PageArrives, job.kind = "paging", view' = Replaced(Joined(job.found, First.found))
      PROVE  \A r \in DOMAIN view' : Len(view'[r]) <= log[r].seq
  <2>1. /\ First = toClient[1] /\ First.kind = "page" /\ First.found \in Pages /\ job.found \in Pages
        /\ Joined(job.found, First.found) \in Pages /\ 1 \in DOMAIN toClient
    BY <1>5, PageArrivesIs, FirstIs DEF PageArrives
  <2>2. /\ DOMAIN Joined(job.found, First.found) = DOMAIN job.found \union DOMAIN First.found
        /\ \A r \in DOMAIN First.found : Joined(job.found, First.found)[r] = First.found[r]
        /\ \A r \in DOMAIN job.found \ DOMAIN First.found : Joined(job.found, First.found)[r] = job.found[r]
    BY <2>1, JoinedIs
  <2>3. \A r \in DOMAIN Joined(job.found, First.found) : Joined(job.found, First.found)[r] <= log[r].seq
    <3>1. /\ \A r \in DOMAIN First.found : First.found[r] <= log[r].seq
          /\ \A r \in DOMAIN job.found : job.found[r] <= log[r].seq
        BY <1>5, <2>1 DEF Logged
    <3> QED
        BY <2>2, <3>1
  <2>4. PICK f \in Pages : f = Joined(job.found, First.found)
    BY <2>1
  <2>5. DOMAIN Replaced(f) = DOMAIN f /\ \A r \in DOMAIN f : Len(Replaced(f)[r]) = f[r]
    BY ReplacedIs
  <2>6. view' = Replaced(f) /\ \A r \in DOMAIN f : f[r] <= log[r].seq
    BY <1>5, <2>3, <2>4
  <2> QED
    BY <2>5, <2>6
<1>6. ViewStep
    BY ViewSteps
<1> QED
    BY <1>1, <1>2, <1>3, <1>4, <1>5, <1>6 DEF ViewStep

LEMMA KnownClient ==
    ASSUME ChatData, RestInv, Logged, ClientStep
    PROVE  Logged'
<1>1. UNCHANGED <<log, deleted>> /\ \E d \in {0, 1} : FramesFrom(toClient', toClient, d)
    BY ClientSheds, KeptIs DEF Sheds
<1>2. \A e \in KeptNow' : e \in KeptNow \/ (EventKept /\ e = First)
  <2>1. CASE EventKept
    <3>1. KeptNow' = KeptNow \union {First}
        BY <2>1, KeptIs
    <3> QED
        BY <2>1, <3>1
  <2>2. CASE ~EventKept
    BY <2>2, ClientSheds DEF Sheds
  <2> QED
    BY <2>1, <2>2
<1>3. ~deleted => \A r \in DOMAIN view' : Len(view'[r]) <= log[r].seq
    BY <1>1, KnownView
<1>4. ASSUME ~deleted, job'.kind = "paging" PROVE \A r \in DOMAIN job'.found : job'.found[r] <= log[r].seq
  <2>1. CASE job' = job
    BY <1>4, <2>1 DEF Logged
  <2>2. CASE job'.found = <<>>
    BY <2>2, PageKinds
  <2>3. ASSUME PageArrives, job.kind = "paging", job'.found = Joined(job.found, First.found)
        PROVE  \A r \in DOMAIN job'.found : job'.found[r] <= log[r].seq
    <3>1. /\ First = toClient[1] /\ First.kind = "page" /\ First.found \in Pages /\ job.found \in Pages
          /\ 1 \in DOMAIN toClient
        BY <2>3, PageArrivesIs, FirstIs DEF PageArrives
    <3>2. /\ DOMAIN Joined(job.found, First.found) = DOMAIN job.found \union DOMAIN First.found
          /\ \A r \in DOMAIN First.found : Joined(job.found, First.found)[r] = First.found[r]
          /\ \A r \in DOMAIN job.found \ DOMAIN First.found : Joined(job.found, First.found)[r] = job.found[r]
        BY <3>1, JoinedIs
    <3> QED
        BY <1>4, <2>3, <3>1, <3>2 DEF Logged
  <2> QED
    BY <1>4, <2>1, <2>2, <2>3, FoundSteps
<1>5. PICK d \in {0, 1} : FramesFrom(toClient', toClient, d)
    BY <1>1
<1> QED
    BY <1>1, <1>2, <1>3, <1>4, <1>5, KnownSheds

LEMMA StepCases ==
    ChatNext => \/ ServerGrows \/ ServePage \/ ServeSubscribe \/ ServeUnsubscribe
                \/ ClientStep
BY NextCases DEF ClientStep

LEMMA OrderNext ==
    ASSUME ChatData, MadeInv, RestInv, Ordered, Logged, ChatNext
    PROVE  Ordered' /\ Logged'
<1>1. ChatData'
    BY ChatDataNext
<1>2. CASE ServerGrows \/ ServePage \/ ServeSubscribe \/ ServeUnsubscribe
  <2>1. PICK evs, rep : ServerMoves(evs, rep)
    BY <1>2, ServerStepIs
  <2> QED
    BY <1>1, <2>1, OrderServer
<1>3. CASE ClientStep
    BY <1>3, OrderClient, KnownClient
<1> QED
    BY <1>2, <1>3, StepCases

-----------------------------------------------------------------------------
(* What is under way between the app and the server.                       *)

Carries(q, m) == \E i \in DOMAIN q : q[i] = m

\* The requests for pages, the pages and the events that have not come yet.
Reqs     == {m \in ChatAsks : m.kind = "page" /\ m.of = screen.id /\ Carries(toServer, m)}
Flying   == {m \in Frames : m.kind = "page" /\ m.of = screen.id /\ Carries(toClient, m)}
EventsIn == {e \in ChatEvents : Carries(toClient, e)}

LEMMA HasSame ==
    ASSUME NEW S, NEW q \in Seq(S), NEW t
    PROVE  /\ t = q => \A m : Carries(t, m) <=> Carries(q, m)
           /\ q # <<>> /\ t = Tail(q) => \A m : /\ Carries(t, m) => Carries(q, m)
                                                /\ Carries(q, m) => Carries(t, m) \/ m = q[1]
           /\ \A n \in S : t = Append(q, n) => \A m : Carries(t, m) <=> Carries(q, m) \/ m = n
<1>1. t = q => \A m : Carries(t, m) <=> Carries(q, m)
    BY DEF Carries
<1>2. ASSUME q # <<>>, t = Tail(q)
      PROVE  \A m : /\ Carries(t, m) => Carries(q, m)
                    /\ Carries(q, m) => Carries(t, m) \/ m = q[1]
  <2>1. /\ \A i \in DOMAIN t : i \in Nat /\ i >= 1 /\ i + 1 \in DOMAIN q /\ t[i] = q[i + 1]
        /\ \A i \in DOMAIN q : i \in Nat /\ (i = 1 \/ (i > 1 /\ i - 1 \in DOMAIN t /\ t[i - 1] = q[i]))
    BY <1>2, Taken
  <2> QED
    BY <2>1 DEF Carries
<1>3. ASSUME NEW n \in S, t = Append(q, n)
      PROVE  \A m : Carries(t, m) <=> Carries(q, m) \/ m = n
    BY <1>3, AddedOne DEF Carries
<1> QED
    BY <1>1, <1>2, <1>3

LEMMA FramesKept ==
    ASSUME ChatData, toClient' = toClient \/ toClient' = Unawaited(toClient), screen'.id = screen.id
    PROVE  EventsIn' = EventsIn /\ Flying' = Flying
<1>1. CASE toClient' = toClient
    BY <1>1 DEF EventsIn, Flying
<1>2. CASE toClient' = Unawaited(toClient)
  <2>1. DOMAIN toClient' = DOMAIN toClient /\ \A i \in DOMAIN toClient : toClient'[i].kind = toClient[i].kind /\
           (toClient[i].kind \notin {"accepted", "refused", "failed"} => toClient'[i] = toClient[i])
    BY <1>2, UnawaitedFrames, IdIs
  <2>2. \A m : m.kind \in {"event", "page"} => (Carries(toClient', m) <=> Carries(toClient, m))
    BY <2>1 DEF Carries
  <2>3. \A e \in ChatEvents : e.kind = "event"
    BY EventKinds
  <2> QED
    BY <2>2, <2>3 DEF EventsIn, Flying
<1> QED
    BY <1>1, <1>2

LEMMA FramesTaken ==
    ASSUME ChatData, toClient # <<>>, toClient' = Tail(toClient), screen'.id = screen.id
    PROVE  /\ EventsIn' \subseteq EventsIn /\ Flying' \subseteq Flying
           /\ EventsIn \subseteq EventsIn' \union {First} /\ Flying \subseteq Flying' \union {First}
           /\ First.kind # "event" => EventsIn' = EventsIn
           /\ ~(First.kind = "page" /\ First.of = screen.id) => Flying' = Flying
           /\ First.kind = "event" => First \in EventsIn
           /\ First.kind = "page" /\ First.of = screen.id => First \in Flying
<1>1. First = toClient[1] /\ 1 \in DOMAIN toClient /\ First \in Frames /\ toClient \in Seq(Frames)
    BY IdIs, Taken DEF First
<1>2. \A m : (Carries(toClient', m) => Carries(toClient, m)) /\ (Carries(toClient, m) => Carries(toClient', m) \/ m = First)
    BY <1>1, HasSame
<1>3. Carries(toClient, First)
    BY <1>1 DEF Carries
<1>4. First.kind = "event" => First \in ChatEvents
    BY <1>1, FrameKinds
<1>5. \A e \in ChatEvents : e.kind = "event"
    BY EventKinds
<1> QED
    BY <1>1, <1>2, <1>3, <1>4, <1>5 DEF EventsIn, Flying

LEMMA FramesMore ==
    ASSUME ChatData, NEW m \in Frames, toClient' = Append(toClient, m), m.kind # "event", screen'.id = screen.id
    PROVE  /\ EventsIn' = EventsIn
           /\ ~(m.kind = "page" /\ m.of = screen.id) => Flying' = Flying
           /\ m.kind = "page" /\ m.of = screen.id => Flying' = Flying \union {m}
<1>0. toClient \in Seq(Frames)
    BY IdIs
<1>1. \A n : Carries(toClient', n) <=> Carries(toClient, n) \/ n = m
  <2>1. /\ \A i \in DOMAIN toClient : i \in DOMAIN toClient' /\ toClient'[i] = toClient[i]
        /\ \A i \in DOMAIN toClient' : i \in DOMAIN toClient \/ i = Len(toClient) + 1
        /\ Len(toClient) + 1 \in DOMAIN toClient' /\ toClient'[Len(toClient) + 1] = m
    BY <1>0, AddedOne
  <2> QED
    BY <2>1 DEF Carries
<1>2. \A e \in ChatEvents : e.kind = "event"
    BY EventKinds
<1> QED
    BY <1>1, <1>2 DEF EventsIn, Flying

LEMMA FramesGrown ==
    ASSUME ChatData, NEW evs, NEW rep, GrownBy(toClient', toClient, evs, rep), screen'.id = screen.id,
           \A i \in DOMAIN rep : rep[i].kind \in {"accepted", "refused", "failed"}
    PROVE  /\ EventsIn' = EventsIn \union {evs[i] : i \in DOMAIN evs}
           /\ Flying' = Flying
<1>1. /\ \A i \in DOMAIN toClient' :
          \/ i \in DOMAIN toClient /\ toClient'[i] = toClient[i]
          \/ \E j \in DOMAIN evs : toClient'[i] = evs[j]
          \/ \E j \in DOMAIN rep : toClient'[i] = rep[j]
      /\ \A i \in DOMAIN toClient : i \in DOMAIN toClient' /\ toClient'[i] = toClient[i]
      /\ \A j \in DOMAIN evs : Len(toClient) + j \in DOMAIN toClient' /\ toClient'[Len(toClient) + j] = evs[j]
      /\ \A j \in DOMAIN evs : evs[j] \in ChatEvents
    BY DEF GrownBy
<1>2. \A e \in ChatEvents : e.kind = "event"
    BY EventKinds
<1>3. \A m : Carries(toClient, m) => Carries(toClient', m)
    BY <1>1 DEF Carries
<1>4. \A m : m.kind \in {"event", "page"} /\ Carries(toClient', m) => Carries(toClient, m) \/ \E j \in DOMAIN evs : m = evs[j]
    BY <1>1 DEF Carries
<1>5. \A j \in DOMAIN evs : Carries(toClient', evs[j])
    BY <1>1 DEF Carries
<1>6. EventsIn' = EventsIn \union {evs[i] : i \in DOMAIN evs}
    BY <1>1, <1>2, <1>3, <1>4, <1>5 DEF EventsIn
<1>7. Flying' = Flying
    BY <1>1, <1>2, <1>3, <1>4 DEF Flying
<1> QED
    BY <1>6, <1>7

\* With one load at a time, what is asked or under way is alone.
LEMMA OneFlying ==
    ASSUME ChatData, OneLoad, Live
    PROVE  /\ \A m, n \in Flying : m = n
           /\ \A m \in Flying : \A i \in DOMAIN toServer : ~LoadReq(toServer[i], screen.id)
           /\ Flying # {} => Reqs = {}
           /\ (\A i \in DOMAIN toServer : ~LoadReq(toServer[i], screen.id)) => Reqs = {}
           /\ (\A i \in DOMAIN toClient : ~LoadAns(toClient[i], screen.id)) => Flying = {}
<1>1. \A m \in Flying : \E i \in DOMAIN toClient : toClient[i] = m /\ LoadAns(toClient[i], screen.id)
    BY DEF Flying, Carries, LoadAns
<1>2. \A m \in Reqs : \E i \in DOMAIN toServer : toServer[i] = m /\ LoadReq(toServer[i], screen.id)
    BY DEF Reqs, Carries, LoadReq
<1>3. \A m, n \in Flying : m = n
    BY <1>1 DEF OneLoad
<1>4. \A m \in Flying : \A i \in DOMAIN toServer : ~LoadReq(toServer[i], screen.id)
    BY <1>1 DEF OneLoad
<1> QED
    BY <1>1, <1>2, <1>3, <1>4

\* The same of the next state.
LEMMA NoFlying ==
    ASSUME \A i \in DOMAIN toClient' : ~LoadAns(toClient'[i], screen.id), screen'.id = screen.id
    PROVE  Flying' = {}
BY DEF Flying, Carries, LoadAns

-----------------------------------------------------------------------------
(* A page goes on where the Runs that were found end.                      *)

ReqPaged(m) == ~deleted =>
    m.after <= Len(made) /\ \A k \in 1..m.after : made[k] \in DOMAIN job.found
AnsPaged(m) ==
    /\ m.next # 0 /\ ~deleted =>
          m.next <= Len(made) /\ \A k \in 1..m.next : made[k] \in DOMAIN job.found \union DOMAIN m.found
    /\ m.next = 0 /\ job.event # NoEvent => job.event.run \in DOMAIN job.found \union DOMAIN m.found

PageInv == job.kind = "paging" =>
    /\ \A m \in Reqs : ReqPaged(m)
    /\ \A m \in Flying : AnsPaged(m)

LEMMA ReqsStep ==
    ASSUME ChatData, screen'.id = screen.id,
           \/ toServer' = toServer \/ toServer' = Unawaited(toServer)
           \/ toServer # <<>> /\ toServer' = Tail(toServer)
           \/ \E m \in ChatAsks : toServer' = Append(toServer, m) /\ m.kind # "page"
    PROVE  Reqs' \subseteq Reqs
<1>0. toServer \in Seq(ChatAsks)
    BY IdIs
<1>1. CASE toServer' = toServer
    BY <1>1 DEF Reqs
<1>2. CASE toServer' = Unawaited(toServer)
  <2>1. DOMAIN toServer' = DOMAIN toServer /\ \A i \in DOMAIN toServer :
           toServer'[i].kind = toServer[i].kind /\ (toServer[i].kind # "send" => toServer'[i] = toServer[i])
    BY <1>0, <1>2, UnawaitedAsks
  <2>2. \A m : m.kind = "page" /\ Carries(toServer', m) => Carries(toServer, m)
    BY <2>1 DEF Carries
  <2> QED
    BY <2>2 DEF Reqs
<1>3. CASE toServer # <<>> /\ toServer' = Tail(toServer)
  <2>1. \A i \in DOMAIN toServer' : i + 1 \in DOMAIN toServer /\ toServer'[i] = toServer[i + 1]
    BY <1>0, <1>3, Taken
  <2>2. \A m : Carries(toServer', m) => Carries(toServer, m)
    BY <2>1 DEF Carries
  <2> QED
    BY <2>2 DEF Reqs
<1>4. ASSUME NEW m \in ChatAsks, toServer' = Append(toServer, m), m.kind # "page"
      PROVE  Reqs' \subseteq Reqs
  <2>1. /\ \A i \in DOMAIN toServer' : i \in DOMAIN toServer \/ i = Len(toServer) + 1
        /\ \A i \in DOMAIN toServer : toServer'[i] = toServer[i]
        /\ toServer'[Len(toServer) + 1] = m
    BY <1>0, <1>4, AddedOne
  <2>2. \A n : n.kind = "page" /\ Carries(toServer', n) => Carries(toServer, n)
    BY <1>4, <2>1 DEF Carries
  <2> QED
    BY <2>2 DEF Reqs
<1> QED
    BY <1>1, <1>2, <1>3, <1>4

LEMMA ReqsMore ==
    ASSUME ChatData, screen'.id = screen.id, NEW m \in ChatAsks, toServer' = Append(toServer, m)
    PROVE  Reqs' \subseteq Reqs \union {m}
<1>1. /\ \A i \in DOMAIN toServer' : i \in DOMAIN toServer \/ i = Len(toServer) + 1
      /\ \A i \in DOMAIN toServer : toServer'[i] = toServer[i]
      /\ toServer'[Len(toServer) + 1] = m
    BY IdIs, AddedOne
<1>2. \A n : Carries(toServer', n) => Carries(toServer, n) \/ n = m
    BY <1>1 DEF Carries
<1> QED
    BY <1>2 DEF Reqs

\* What an app that reads pages after its step did.
PagingKept   == job' = job /\ Reqs' \subseteq Reqs /\ Flying' = Flying
PagingStarts == /\ \E e \in ChatEvents \union {NoEvent} : Loads(e) /\ job' = PagingJob(e, <<>>)
                /\ Flying' = {} /\ Reqs' \subseteq {Paging(screen.id, 0)}
PagingGoesOn ==
    /\ PageArrives /\ job.kind = "paging" /\ First.next # 0
    /\ job' = PagingJob(job.event, Joined(job.found, First.found))
    /\ Flying' = {} /\ Reqs' \subseteq {Paging(screen.id, First.next)}
    /\ First \in Flying

LEMMA StaysOn ==
    ASSUME ChatData, MadeInv, RestInv, ClientStep, job'.kind = "paging" \/ (job'.kind = "none" /\ Live')
    PROVE  /\ Live /\ screen'.id = screen.id /\ ~Open /\ ~Leave /\ ~ConnectionLost /\ ~RequestTimesOut
           /\ \A why : ~Errs(why)
<1>1. ChatNext
    BY DEF ClientStep, ChatNext
<1>2. Live'
  <2>1. RestInv'
    BY <1>1, RestNext
  <2> QED
    BY <2>1 DEF RestInv, NoJob
<1>3. ~Open
    BY DEF Open
<1> QED
    BY <1>1, <1>2, <1>3, LiveNext DEF Leave, ConnectionLost, RequestTimesOut, Errs, Live, ChatData

LEMMA PagingSteps ==
    ASSUME ChatData, MadeInv, RestInv, OneLoad, ClientStep, job'.kind = "paging"
    PROVE  PagingKept \/ PagingStarts \/ PagingGoesOn
<1>0. /\ Live /\ screen'.id = screen.id /\ ~Open /\ ~Leave /\ ~ConnectionLost /\ ~RequestTimesOut
      /\ screen.id \in Nat /\ \A why : ~Errs(why)
    BY StaysOn, IdIs
<1>1. \A n \in Nat : Paging(screen.id, n) \in ChatAsks
    BY <1>0, AskKinds
<1>2. CASE EventDropped \/ EventDelivered \/ EventKept \/ AnswerDropped \/ AcceptedArrives \/ RefusedArrives
           \/ FailedArrives
  <2>1. /\ toClient # <<>> /\ toClient' = Tail(toClient) /\ toServer' = toServer /\ job' = job
        /\ ~(First.kind = "page" /\ First.of = screen.id)
    <3>1. CASE EventDropped \/ EventDelivered \/ EventKept
        BY <3>1, FirstIs DEF EventDropped, EventDelivered, EventKept, work
    <3>2. CASE AcceptedArrives \/ RefusedArrives \/ FailedArrives
        BY <3>2, FirstIs DEF AcceptedArrives, RefusedArrives, FailedArrives, work
    <3>3. CASE AnswerDropped
      <4>1. toClient # <<>> /\ toClient' = Tail(toClient) /\ toServer' = toServer /\ job' = job
        BY <3>3, FirstIs DEF AnswerDropped, work
      <4>2. job # NoJob /\ screen.phase # "none"
        BY <1>0, <4>1 DEF NoJob, Live
      <4>3. ~ForUs \/ First.kind # "page"
        BY <3>3, <4>2 DEF AnswerDropped, Holds
      <4> QED
        BY <4>1, <4>2, <4>3 DEF ForUs
    <3> QED
        BY <1>2, <3>1, <3>2, <3>3
  <2> QED
    BY <1>0, <2>1, FramesTaken, ReqsStep DEF PagingKept
<1>3. CASE SubscribedArrives
  <2>1. /\ Loads(NoEvent) /\ job' = PagingJob(NoEvent, <<>>) /\ toServer' = Append(toServer, Paging(screen.id, 0))
    BY <1>3 DEF SubscribedArrives, Loads, PagingJob
  <2>2. /\ \A i \in DOMAIN toServer : ~LoadReq(toServer[i], screen.id)
        /\ \A i \in DOMAIN toClient' : ~LoadAns(toClient'[i], screen.id)
    BY <1>3, AnswerIs
  <2>3. Reqs = {} /\ Flying' = {}
    BY <1>0, <2>2, OneFlying, NoFlying
  <2>4. Reqs' \subseteq {Paging(screen.id, 0)}
    BY <1>0, <1>1, <2>1, <2>3, ReqsMore
  <2> QED
    BY <2>1, <2>3, <2>4 DEF PagingStarts
<1>4. CASE PageArrives
  <2>1. /\ First.next # 0 /\ job.kind = "paging" /\ First.next \in Nat
        /\ job' = PagingJob(job.event, Joined(job.found, First.found))
        /\ toServer' = Append(toServer, Paging(screen.id, First.next))
        /\ toClient # <<>> /\ toClient' = Tail(toClient) /\ First.kind = "page" /\ First.of = screen.id
    <3>1. job' # NoJob /\ ~Errs("absent")
        BY <1>0 DEF NoJob
    <3> QED
        BY <1>4, <3>1, PageArrivesIs
  <2>2. /\ \A i \in DOMAIN toServer : ~LoadReq(toServer[i], screen.id)
        /\ \A i \in DOMAIN toClient' : ~LoadAns(toClient'[i], screen.id)
    BY <1>4, AnswerIs
  <2>3. Reqs = {} /\ Flying' = {}
    BY <1>0, <2>2, OneFlying, NoFlying
  <2>4. Reqs' \subseteq {Paging(screen.id, First.next)}
    BY <1>0, <1>1, <2>1, <2>3, ReqsMore
  <2>5. First \in Flying
    BY <1>0, <2>1, FramesTaken
  <2> QED
    BY <1>4, <2>1, <2>3, <2>4, <2>5 DEF PagingGoesOn
<1>5. CASE Drains
  <2>1. job = NoJob /\ toClient' = toClient /\ job'.kind # NoJob.kind
    BY <1>5 DEF Drains, DrainsNext, Drained, DrainsEvent, Running, channel, NoJob
  <2>2. PICK e \in batch : Loads(e)
    BY <1>0, <1>5, <2>1 DEF Drains, DrainsNext, Drained, DrainsEvent
  <2>3. /\ e \in ChatEvents /\ job' = PagingJob(e, <<>>) /\ toServer' = Append(toServer, Paging(screen.id, 0))
    BY <2>2, LoadedIs DEF Loads, PagingJob
  <2>4. /\ \A i \in DOMAIN toServer : ~LoadReq(toServer[i], screen.id)
        /\ \A i \in DOMAIN toClient' : ~LoadAns(toClient'[i], screen.id)
    BY <1>0, <2>1, LoadNone
  <2>5. Reqs = {} /\ Flying' = {}
    BY <1>0, <2>4, OneFlying, NoFlying
  <2>6. Reqs' \subseteq {Paging(screen.id, 0)}
    BY <1>0, <1>1, <2>3, <2>5, ReqsMore
  <2> QED
    BY <2>2, <2>3, <2>5, <2>6 DEF PagingStarts
<1>6. CASE Edit \/ (\E r \in Runs : Send(r)) \/ SendTimesOut
  <2>1. /\ job' = job
        /\ \/ toServer' = toServer
           \/ \E r \in Runs : toServer' = Append(toServer, Sending(screen.id, r))
           \/ toServer' = Unawaited(toServer)
        /\ toClient' = toClient \/ toClient' = Unawaited(toClient)
    BY <1>6 DEF Edit, Send, SendTimesOut, SendLapses, work, channel
  <2>2. \A r \in Runs : Sending(screen.id, r) \in ChatAsks /\ Sending(screen.id, r).kind # "page"
    BY <1>0, AskKinds
  <2>3. Reqs' \subseteq Reqs
    BY <1>0, <2>1, <2>2, ReqsStep
  <2>4. Flying' = Flying
    BY <1>0, <2>1, FramesKept
  <2> QED
    BY <2>1, <2>3, <2>4 DEF PagingKept
<1>7. CASE MissingArrives
    BY <1>0, <1>7 DEF MissingArrives
<1> QED
    BY <1>0, <1>2, <1>3, <1>4, <1>5, <1>6, <1>7 DEF ClientStep, Arrives, ChatActs

LEMMA PageServes ==
    ASSUME ChatData, MadeInv, RestInv, OneLoad, Ordered, Logged, PageInv, ServePage
    PROVE  PageInv'
<1>1. /\ UNCHANGED <<made, deleted, screen, job>> /\ Requested("page") /\ screen.id \in Nat
    BY ServePageIs, IdIs DEF work
<1>2. /\ Request \in ChatAsks /\ Request = toServer[1] /\ 1 \in DOMAIN toServer /\ Request.kind = "page"
      /\ toServer # <<>> /\ toServer' = Tail(toServer) /\ Request.of \in Nat /\ Request.after \in Nat
    BY <1>1, RequestIs
<1>3. Reqs' \subseteq Reqs
    BY <1>1, <1>2, ReqsStep
<1> SUFFICES ASSUME job.kind = "paging"
             PROVE  (\A m \in Reqs' : ReqPaged(m)) /\ (\A m \in Flying' : AnsPaged(m))
  <2>1. (\A m : ReqPaged(m) <=> ReqPaged(m)') /\ (\A m : AnsPaged(m) <=> AnsPaged(m)')
    BY <1>1 DEF ReqPaged, AnsPaged
  <2> QED
    BY <1>1, <2>1 DEF PageInv
<1>4. \A m \in Reqs' : ReqPaged(m)
    BY <1>3 DEF PageInv
<1>5. CASE toClient' = Append(toClient, Missing(Request.of))
  <2>1. PICK m \in Frames : m = Missing(Request.of) /\ m.kind = "missing"
    BY <1>2, FrameKinds
  <2>2. Flying' = Flying
    BY <1>1, <1>5, <2>1, FramesMore
  <2> QED
    BY <1>4, <2>2 DEF PageInv
<1>6. ASSUME NEW f, NEW next, PageServed(Request.of, Request.after, f, next)
      PROVE  \A m \in Flying' : AnsPaged(m)
  <2>1. PICK m \in Frames : m = Page(Request.of, f, next)
    BY <1>2, <1>6, FrameKinds DEF PageServed
  <2>2. m.kind = "page" /\ m.of = Request.of /\ m.found = f /\ m.next = next /\ toClient' = Append(toClient, m)
    BY <1>6, <2>1, FrameKinds DEF PageServed
  <2>3. CASE Request.of # screen.id
    <3>1. Flying' = Flying
        BY <1>1, <2>2, <2>3, FramesMore
    <3> QED
        BY <3>1 DEF PageInv
  <2>4. CASE Request.of = screen.id
    <3>1. Flying' = Flying \union {m}
        BY <1>1, <2>2, <2>4, FramesMore
    <3>2. Request \in Reqs
        BY <1>2, <2>4 DEF Reqs, Carries
    <3>3. ReqPaged(Request)
        BY <3>2 DEF PageInv
    <3>4. ~deleted /\ next \in Nat /\ Request.after \in Nat /\ made \in Seq(Runs) /\ Len(made) \in Nat
        BY <1>6, <1>2 DEF PageServed, ChatData
    <3>5. \A k \in 1..Request.after : made[k] \in DOMAIN job.found
        BY <3>3, <3>4 DEF ReqPaged
    <3>6. ASSUME next # 0
          PROVE  next <= Len(made) /\ \A k \in 1..next : made[k] \in DOMAIN job.found \union DOMAIN f
      <4>1. next <= Len(made) /\ \A k \in 1..next : k > Request.after => made[k] \in DOMAIN f
        BY <1>6, <3>6 DEF PageServed
      <4> QED
        BY <3>4, <3>5, <4>1
    <3>7. ASSUME next = 0, job.event # NoEvent
          PROVE  job.event.run \in DOMAIN job.found \union DOMAIN f
      <4>1. job.event \in KeptNow
        BY <3>7 DEF KeptNow, Loaded
      <4>2. PICK e \in KeptNow : e = job.event
        BY <4>1
      <4>3. e.run \in Runs /\ e.seq \in Nat /\ e.seq > 0 /\ e.seq <= log[e.run].seq
        BY <3>4, LoadedIs DEF Ordered, Logged
      <4>4. log[e.run].seq > 0
        BY <4>3, EventsAre
      <4>5. PICK k \in DOMAIN made : made[k] = e.run
        BY <4>3, <4>4 DEF MadeInv
      <4>6. \A j \in 1..Len(made) : j > Request.after => made[j] \in DOMAIN f
        BY <1>6, <3>7 DEF PageServed
      <4>7. k \in 1..Len(made)
        BY <3>4
      <4>8. CASE k > Request.after
        BY <4>2, <4>5, <4>6, <4>7, <4>8
      <4>9. CASE ~(k > Request.after)
        <5>1. k \in 1..Request.after
            BY <3>4, <4>7, <4>9
        <5> QED
            BY <3>5, <4>2, <4>5, <5>1
      <4> QED
        BY <4>8, <4>9
    <3>8. AnsPaged(m)
        BY <2>2, <3>6, <3>7 DEF AnsPaged
    <3> QED
        BY <3>1, <3>8 DEF PageInv
  <2> QED
    BY <2>3, <2>4
<1> QED
    BY <1>4, <1>5, <1>6, ServePageIs

LEMMA PageNext ==
    ASSUME ChatData, MadeInv, RestInv, OneLoad, Ordered, Logged, PageInv, ChatNext
    PROVE  PageInv'
<1>1. CASE ServerGrows
  <2>1. PICK evs, rep : Growth(evs, rep)
    BY <1>1, ServerGrowing DEF Growing
  <2>2. /\ screen' = screen /\ job' = job /\ (deleted => deleted')
        /\ toServer' = toServer \/ (toServer # <<>> /\ toServer' = Tail(toServer))
        /\ evs \in Seq(ChatEvents) /\ rep \in Seq(Frames) /\ toClient' = toClient \o (evs \o rep)
        /\ \A i \in DOMAIN rep : rep[i].kind \in {"accepted", "refused", "failed"}
    BY <2>1 DEF Growth, work
  <2>3. GrownBy(toClient', toClient, evs, rep)
    BY <2>2, QueueGrown, IdIs
  <2>4. Reqs' \subseteq Reqs /\ Flying' = Flying
    BY <2>2, <2>3, ReqsStep, FramesGrown
  <2>5. ~deleted' => /\ Len(made) <= Len(made') /\ \A k \in 1..Len(made) : made'[k] = made[k]
    BY <2>1 DEF Growth
  <2>6. Len(made) \in Nat /\ (ChatData' => Len(made') \in Nat)
    BY DEF ChatData
  <2>7. ChatData'
    BY <1>1, ServerGrowing
  <2>8. ASSUME NEW n \in Nat, NEW S, ~deleted', n <= Len(made), \A k \in 1..n : made[k] \in S
        PROVE  n <= Len(made') /\ \A k \in 1..n : made'[k] \in S
    BY <2>5, <2>6, <2>7, <2>8
  <2>9. ASSUME NEW m \in Reqs, ReqPaged(m) PROVE ReqPaged(m)'
    <3>1. m.after \in Nat
        BY AskKinds DEF Reqs
    <3> QED
        BY <2>2, <2>8, <2>9, <3>1 DEF ReqPaged
  <2>10. ASSUME NEW m \in Flying, AnsPaged(m) PROVE AnsPaged(m)'
    <3>1. m.next \in Nat
        BY FrameKinds DEF Flying
    <3> QED
        BY <2>2, <2>8, <2>10, <3>1 DEF AnsPaged
  <2> QED
    BY <2>2, <2>4, <2>9, <2>10 DEF PageInv
<1>2. CASE ServePage
    BY <1>2, PageServes
<1>3. CASE ServeSubscribe \/ ServeUnsubscribe
  <2>1. UNCHANGED <<made, deleted, screen, job>>
    BY <1>3, ServeSubscribeIs DEF session, work
  <2>2. toServer # <<>> /\ toServer' = Tail(toServer)
    BY <1>3, ServeSubscribeIs, RequestIs
  <2>3. Reqs' \subseteq Reqs
    BY <2>1, <2>2, ReqsStep
  <2>4. Flying' = Flying
    <3>1. CASE toClient' = toClient
        BY <2>1, <3>1, FramesKept
    <3>2. CASE Requested("subscribe")
      <4>1. Request.of \in Nat /\ ~Requested("unsubscribe")
        BY <3>2, RequestIs DEF Requested
      <4>2. \E m \in Frames : toClient' = Append(toClient, m) /\ m.kind \in {"missing", "subscribed"}
        <5>1. \/ toClient' = Append(toClient, Missing(Request.of))
              \/ toClient' = Append(toClient, Subscribed(Request.of))
            BY <1>3, <4>1, ServeSubscribeIs
        <5>2. /\ Missing(Request.of) \in Frames /\ Missing(Request.of).kind = "missing"
              /\ Subscribed(Request.of) \in Frames /\ Subscribed(Request.of).kind = "subscribed"
            BY <4>1, FrameKinds
        <5> QED
            BY <5>1, <5>2
      <4> QED
        BY <2>1, <4>2, FramesMore
    <3> QED
        BY <1>3, <3>1, <3>2, ServeSubscribeIs
  <2>5. (\A m : ReqPaged(m) <=> ReqPaged(m)') /\ (\A m : AnsPaged(m) <=> AnsPaged(m)')
    BY <2>1 DEF ReqPaged, AnsPaged
  <2> QED
    BY <2>1, <2>3, <2>4, <2>5 DEF PageInv
<1>4. ASSUME ClientStep, job'.kind = "paging" PROVE PageInv'
  <2>0. UNCHANGED <<made, deleted>>
    BY <1>4, StaysOn DEF ClientStep, Arrives, EventDropped, EventDelivered, EventKept, SubscribedArrives, PageArrives,
       MissingArrives, AnswerDropped, AcceptedArrives, RefusedArrives, FailedArrives, Drains, DrainsNext, Drained,
       DrainsEvent, ChatActs, Edit, Send, SendTimesOut, session
  <2>1. CASE PagingKept
    <3>1. (\A m : ReqPaged(m) <=> ReqPaged(m)') /\ (\A m : AnsPaged(m) <=> AnsPaged(m)')
        BY <2>0, <2>1 DEF PagingKept, ReqPaged, AnsPaged
    <3> QED
        BY <2>1, <3>1 DEF PagingKept, PageInv
  <2>2. CASE PagingStarts
    <3>1. made \in Seq(Runs) /\ Len(made) \in Nat
        BY DEF ChatData
    <3>2. \A k \in 1..0 : FALSE
        OBVIOUS
    <3>3. PICK m : m = Paging(screen.id, 0)
        OBVIOUS
    <3>4. m.after = 0 /\ Reqs' \subseteq {m}
        BY <2>2, <3>3 DEF PagingStarts, Paging
    <3>5. ReqPaged(m)'
        BY <2>0, <3>1, <3>2, <3>4 DEF ReqPaged
    <3> QED
        BY <2>2, <3>4, <3>5 DEF PageInv, PagingStarts
  <2>3. CASE PagingGoesOn
    <3>1. AnsPaged(First) /\ First.found \in Pages /\ job.found \in Pages
        BY <2>3, PageArrivesIs DEF PageInv, PagingGoesOn
    <3>2. DOMAIN Joined(job.found, First.found) = DOMAIN job.found \union DOMAIN First.found
        BY <3>1, JoinedIs
    <3>3. job'.found = Joined(job.found, First.found) /\ First.next # 0
        BY <2>3 DEF PagingGoesOn, PagingJob
    <3>4. PICK m : m = Paging(screen.id, First.next)
        OBVIOUS
    <3>5. m.after = First.next /\ Reqs' \subseteq {m}
        BY <2>3, <3>4 DEF PagingGoesOn, Paging
    <3>6. ~deleted => First.next <= Len(made) /\ \A k \in 1..First.next : made[k] \in DOMAIN job'.found
        BY <3>1, <3>2, <3>3 DEF AnsPaged
    <3>7. ReqPaged(m)'
        BY <2>0, <3>5, <3>6 DEF ReqPaged
    <3> QED
        BY <2>3, <3>5, <3>7 DEF PageInv, PagingGoesOn
  <2> QED
    BY <1>4, <2>1, <2>2, <2>3, PagingSteps
<1> QED
    BY <1>1, <1>2, <1>3, <1>4, StepCases DEF PageInv

-----------------------------------------------------------------------------
(* Nothing is missing between what is shown, or was read, and the log.     *)

Waiting  == KeptNow \union EventsIn
Level(r) == IF r \in ShownRuns THEN Len(view[r]) ELSE 0

\* What the chat knows of a Run once what it reads has come.
BasedAt(r, b) ==
    \/ job = NoJob /\ b = Level(r)
    \/ /\ job.kind = "paging"
       /\ \E m \in Flying : r \in DOMAIN m.found /\ b = m.found[r]
    \/ /\ job.kind = "paging"
       /\ \A m \in Flying : r \notin DOMAIN m.found
       /\ r \in DOMAIN job.found /\ b = job.found[r]
    \/ /\ job.kind = "paging" /\ r \notin DOMAIN job.found
       /\ \E m \in Flying : r \notin DOMAIN m.found /\ m.next = 0
       /\ b = 0

Claims(r, b) ==
    /\ \A e \in Waiting : e.run = r => \A k \in Nat : b < k /\ k <= e.seq => Event(r, k) \in Waiting
    /\ ~deleted => log[r].seq <= b \/ Event(r, log[r].seq) \in Waiting
    /\ ~Orphan(r)
    /\ Level(r) <= b \/ \A e \in EventsIn : e.run = r => e.seq > Level(r)

SnapInv == Live => \A r \in Runs, b \in Nat : BasedAt(r, b) => Claims(r, b)

LEMMA WaitingIs ==
    ASSUME ChatData
    PROVE  /\ Waiting \subseteq ChatEvents /\ EventsIn \subseteq Waiting /\ KeptNow \subseteq Waiting
           /\ \A e \in Waiting : e.run \in Runs /\ e.seq \in Nat /\ e = Event(e.run, e.seq)
           /\ \A r \in Runs : Level(r) \in Nat
           /\ Ordered => \A e \in Waiting : e.seq > 0
           /\ Logged /\ ~deleted => /\ \A e \in Waiting : e.seq <= log[e.run].seq
                                   /\ \A r \in Runs : Level(r) <= log[r].seq
<1>1. EventsIn \subseteq ChatEvents
    BY DEF EventsIn
<1>2. Waiting \subseteq ChatEvents
    BY <1>1, LoadedIs DEF Waiting
<1>3. \A r \in Runs : Level(r) \in Nat
  <2>1. view \in Views
    BY DEF ChatData
  <2> QED
    BY <2>1, PageKinds DEF Level, ShownRuns
<1>4. ASSUME NEW e \in EventsIn PROVE \E i \in DOMAIN toClient : toClient[i] = e /\ toClient[i].kind = "event"
    BY <1>1, EventKinds DEF EventsIn, Carries
<1>5. Ordered => \A e \in Waiting : e.seq > 0
    BY <1>4 DEF Ordered, Waiting
<1>6. Logged /\ ~deleted => \A e \in Waiting : e.seq <= log[e.run].seq
    BY <1>4 DEF Logged, Waiting
<1>7. Logged /\ ~deleted => \A r \in Runs : Level(r) <= log[r].seq
    BY EventsAre DEF Logged, Level, ShownRuns
<1> QED
    BY <1>2, <1>3, <1>5, <1>6, <1>7, EventKinds DEF Waiting

\* What is shown or read goes up, over events that go.
LEMMA ClaimsMove ==
    ASSUME NEW r \in Runs, NEW b \in Nat, NEW c \in Nat, b <= c, Claims(r, b), ChatData,
           UNCHANGED <<log, alive, deleted>>, Waiting' \subseteq Waiting,
           \A e \in Waiting : e.run = r /\ e.seq > c => e \in Waiting',
           Level(r)' <= c \/ \A e \in EventsIn' : e.run = r => e.seq > Level(r)'
    PROVE  Claims(r, c)'
<1>1. Orphan(r)' = Orphan(r)
    BY DEF Orphan
<1>2. \A k \in Nat : Event(r, k).run = r /\ Event(r, k).seq = k
    BY DEF Event
<1>3. ASSUME NEW e \in Waiting', e.run = r, NEW k \in Nat, c < k, k <= e.seq
      PROVE  Event(r, k) \in Waiting'
  <2>1. Event(r, k) \in Waiting
    BY <1>3 DEF Claims
  <2> QED
    BY <1>2, <1>3, <2>1
<1>4. ASSUME ~deleted PROVE log[r].seq <= c \/ Event(r, log[r].seq) \in Waiting'
  <2>1. log[r].seq \in Nat
    BY EventsAre
  <2> QED
    BY <1>2, <1>4, <2>1 DEF Claims
<1>5. ~Orphan(r)'
    BY <1>1 DEF Claims
<1> QED
    BY <1>3, <1>4, <1>5 DEF Claims

LEMMA BasedTuned ==
    ASSUME ChatData, OneLoad, Tuned, Live, ~deleted, NEW r, NEW b, BasedAt(r, b)
    PROVE  subscribed
<1>1. job.kind # "subscribing"
    BY DEF BasedAt, NoJob
<1>2. \A i \in DOMAIN toServer : ~(toServer[i].kind = "subscribe" /\ toServer[i].of = screen.id)
    BY <1>1 DEF OneLoad, LoadReq
<1> QED
    BY <1>2 DEF Tuned

\* The server logs, and tells the chat.
LEMMA SnapGrows ==
    ASSUME ChatData, MadeInv, OneLoad, Tuned, Ordered, Logged, SnapInv, ServerGrows
    PROVE  SnapInv'
<1>1. PICK evs, rep : Growth(evs, rep)
    BY ServerGrowing DEF Growing
<1>2. /\ UNCHANGED <<screen, view, provisional, batch, job>>
      /\ evs \in Seq(ChatEvents) /\ rep \in Seq(Frames) /\ toClient' = toClient \o (evs \o rep)
      /\ \A i \in DOMAIN rep : rep[i].kind \in {"accepted", "refused", "failed"}
      /\ \A i \in DOMAIN evs : evs[i].seq = log[evs[i].run].seq + 1 /\ ~deleted
      /\ deleted => deleted'
      /\ \A r \in Runs : Orphan(r)' => Orphan(r)
    BY <1>1 DEF Growth, work
<1>3. ~deleted' => \A r \in Runs :
          \/ log'[r].seq = log[r].seq
          \/ /\ log'[r].seq = log[r].seq + 1
             /\ subscribed => Orphan(r) \/ \E i \in DOMAIN evs : evs[i].run = r
    BY <1>1 DEF Growth
<1>4. GrownBy(toClient', toClient, evs, rep)
    BY <1>2, QueueGrown, IdIs
<1>5. EventsIn' = EventsIn \union {evs[i] : i \in DOMAIN evs} /\ Flying' = Flying
    BY <1>2, <1>4, FramesGrown
<1>6. KeptNow' = KeptNow /\ Waiting' = Waiting \union {evs[i] : i \in DOMAIN evs}
    BY <1>2, <1>5 DEF KeptNow, Loaded, Waiting
<1>7. \A i \in DOMAIN evs : evs[i] \in ChatEvents /\ evs[i] = Event(evs[i].run, evs[i].seq)
                            /\ evs[i].run \in Runs /\ evs[i].seq \in Nat
    BY <1>4, EventKinds DEF GrownBy
<1> SUFFICES ASSUME Live', NEW r \in Runs, NEW b \in Nat, BasedAt(r, b)' PROVE Claims(r, b)'
    BY DEF SnapInv
<1>8. Live /\ Level(r)' = Level(r)
    BY <1>2 DEF Live, Level, ShownRuns
<1>9. BasedAt(r, b)
    BY <1>2, <1>5, <1>8 DEF BasedAt
<1>10. Claims(r, b)
    BY <1>8, <1>9 DEF SnapInv
<1>11. log[r].seq \in Nat /\ Level(r) \in Nat
    BY EventsAre, WaitingIs
<1>12. ASSUME NEW e \in Waiting', e.run = r, NEW k \in Nat, b < k, k <= e.seq
       PROVE  Event(r, k) \in Waiting'
  <2>1. CASE e \in Waiting
    BY <1>6, <1>10, <1>12, <2>1 DEF Claims
  <2>2. CASE e \notin Waiting
    <3>1. PICK i \in DOMAIN evs : e = evs[i]
        BY <1>6, <1>12, <2>2
    <3>2. e.seq = log[r].seq + 1 /\ ~deleted /\ e = Event(r, e.seq)
        BY <1>2, <1>7, <1>12, <3>1
    <3>3. CASE k = log[r].seq + 1
        BY <1>12, <3>2, <3>3
    <3>4. CASE k <= log[r].seq
      <4>1. Event(r, log[r].seq) \in Waiting
        BY <1>10, <1>11, <1>12, <3>2, <3>4 DEF Claims
      <4>2. Event(r, log[r].seq).run = r /\ Event(r, log[r].seq).seq = log[r].seq
        BY DEF Event
      <4>3. Event(r, k) \in Waiting
        BY <1>10, <1>12, <3>4, <4>1, <4>2 DEF Claims
      <4> QED
        BY <1>6, <4>3
    <3> QED
        BY <1>11, <1>12, <3>2, <3>3, <3>4
  <2> QED
    BY <2>1, <2>2
<1>13. ASSUME ~deleted' PROVE log'[r].seq <= b \/ Event(r, log'[r].seq) \in Waiting'
  <2>1. ~deleted /\ ~Orphan(r) /\ subscribed
    BY <1>2, <1>8, <1>9, <1>10, <1>13, BasedTuned DEF Claims
  <2>2. CASE log'[r].seq = log[r].seq
    BY <1>6, <1>10, <2>1, <2>2 DEF Claims
  <2>3. CASE log'[r].seq = log[r].seq + 1 /\ \E i \in DOMAIN evs : evs[i].run = r
    <3>1. PICK i \in DOMAIN evs : evs[i].run = r
        BY <2>3
    <3>2. evs[i] = Event(r, log'[r].seq)
        BY <1>2, <1>7, <2>3, <3>1
    <3> QED
        BY <1>6, <3>2
  <2> QED
    BY <1>3, <1>13, <2>1, <2>2, <2>3
<1>14. ~Orphan(r)'
    BY <1>2, <1>10 DEF Claims
<1>15. Level(r) <= b \/ \A e \in EventsIn' : e.run = r => e.seq > Level(r)
  <2>1. \A i \in DOMAIN evs : evs[i].run = r => evs[i].seq > Level(r)
    <3>1. ASSUME NEW i \in DOMAIN evs, evs[i].run = r PROVE evs[i].seq > Level(r)
      <4>1. evs[i].seq = log[r].seq + 1 /\ ~deleted
        BY <1>2, <3>1
      <4>2. Level(r) <= log[r].seq
        BY <4>1, WaitingIs
      <4> QED
        BY <1>11, <4>1, <4>2
    <3> QED
        BY <3>1
  <2> QED
    BY <1>5, <1>10, <2>1 DEF Claims
<1> QED
    BY <1>8, <1>12, <1>13, <1>14, <1>15 DEF Claims

\* Nothing that matters for a Run changes.
LEMMA SnapSame ==
    ASSUME NEW r, NEW b, Claims(r, b), log'[r] = log[r], deleted' = deleted, Orphan(r)' => Orphan(r),
           Waiting' = Waiting, EventsIn' = EventsIn, Level(r)' = Level(r)
    PROVE  Claims(r, b)'
BY DEF Claims

\* The server reads a page: what it says of a Run is all there is.
LEMMA SnapPage ==
    ASSUME ChatData, MadeInv, RestInv, OneLoad, Ordered, Logged, PageInv, SnapInv, ServePage
    PROVE  SnapInv'
<1>1. /\ UNCHANGED <<made, alive, deleted, screen, view, provisional, batch, job>> /\ Requested("page")
      /\ screen.id \in Nat
    BY ServePageIs, IdIs DEF work
<1>2. /\ Request \in ChatAsks /\ Request = toServer[1] /\ 1 \in DOMAIN toServer /\ Request.kind = "page"
      /\ Request.of \in Nat /\ Request.after \in Nat
    BY <1>1, RequestIs
<1>3. KeptNow' = KeptNow /\ \A r : Level(r)' = Level(r)
    BY <1>1 DEF KeptNow, Loaded, Level, ShownRuns
<1> SUFFICES ASSUME Live', NEW r \in Runs, NEW b \in Nat, BasedAt(r, b)' PROVE Claims(r, b)'
    BY DEF SnapInv
<1>4. Live /\ Level(r)' = Level(r)
    BY <1>1, <1>3 DEF Live
<1>5. CASE toClient' = Append(toClient, Missing(Request.of)) /\ log' = log
  <2>1. PICK m \in Frames : m = Missing(Request.of) /\ m.kind = "missing"
    BY <1>2, FrameKinds
  <2>2. Flying' = Flying /\ EventsIn' = EventsIn
    BY <1>1, <1>5, <2>1, FramesMore
  <2>3. BasedAt(r, b)
    BY <1>1, <1>4, <2>2 DEF BasedAt
  <2>4. Claims(r, b)
    BY <1>4, <2>3 DEF SnapInv
  <2>5. Waiting' = Waiting /\ Orphan(r)' = Orphan(r)
    BY <1>1, <1>3, <1>5, <2>2 DEF Waiting, Orphan
  <2> QED
    BY <1>1, <1>4, <1>5, <2>2, <2>4, <2>5, SnapSame
<1>6. ASSUME NEW f, NEW next, PageServed(Request.of, Request.after, f, next)
      PROVE  Claims(r, b)'
  <2>1. PICK m \in Frames : m = Page(Request.of, f, next)
    BY <1>2, <1>6, FrameKinds DEF PageServed
  <2>2. m.kind = "page" /\ m.of = Request.of /\ m.found = f /\ m.next = next /\ toClient' = Append(toClient, m)
    BY <1>6, <2>1, FrameKinds DEF PageServed
  <2>3. EventsIn' = EventsIn /\ Waiting' = Waiting
    BY <1>1, <1>3, <2>2, FramesMore DEF Waiting
  <2>4. /\ \/ log'[r].seq = log[r].seq
           \/ log'[r].seq = log[r].seq + 1 /\ Orphan(r) /\ r \in DOMAIN f
        /\ Orphan(r)' => Orphan(r)
        /\ ~deleted
    BY <1>6 DEF PageServed
  <2>5. ASSUME BasedAt(r, b) PROVE Claims(r, b)'
    <3>1. Claims(r, b)
        BY <1>4, <2>5 DEF SnapInv
    <3>2. log'[r].seq = log[r].seq
        BY <2>4, <3>1 DEF Claims
    <3> QED
        BY <1>1, <1>4, <2>3, <2>4, <3>1, <3>2 DEF Claims
  <2>6. CASE Request.of # screen.id \/ job.kind # "paging"
    <3>1. BasedAt(r, b)
      <4>1. CASE job.kind # "paging"
        BY <1>1, <1>4, <4>1 DEF BasedAt
      <4>2. CASE Request.of # screen.id
        <5>1. Flying' = Flying
            BY <1>1, <2>2, <4>2, FramesMore
        <5> QED
            BY <1>1, <1>4, <5>1 DEF BasedAt
      <4> QED
        BY <2>6, <4>1, <4>2
    <3> QED
        BY <2>5, <3>1
  <2>7. CASE Request.of = screen.id /\ job.kind = "paging"
    <3>1. Flying' = Flying \union {m}
        BY <1>1, <2>2, <2>7, FramesMore
    <3>2. Request \in Reqs
        BY <1>2, <2>7 DEF Reqs, Carries
    <3>3. Flying = {} /\ Flying' = {m}
        BY <1>4, <3>1, <3>2, OneFlying
    <3>4. ReqPaged(Request)
        BY <2>7, <3>2 DEF PageInv
    <3>5. /\ \A e \in Waiting : e.run \in Runs /\ e.seq \in Nat /\ e.seq <= log[e.run].seq /\ e.seq > 0
          /\ Level(r) \in Nat /\ Level(r) <= log[r].seq /\ log[r].seq \in Nat
        BY <2>4, WaitingIs, EventsAre
    <3>6. job # NoJob
        BY <2>7 DEF NoJob
    <3>7. CASE r \in DOMAIN f
      <4>1. b = log'[r].seq /\ ~Orphan(r)'
        BY <1>1, <1>6, <2>2, <3>3, <3>6, <3>7 DEF BasedAt, PageServed
      <4>2. \A e \in Waiting : e.run = r => e.seq <= b
        BY <2>4, <3>5, <4>1
      <4>3. Level(r) <= b
        BY <2>4, <3>5, <4>1
      <4>4. \A e \in Waiting : e.run = r => \A k \in Nat : ~(b < k /\ k <= e.seq)
        BY <3>5, <4>2
      <4>5. log'[r].seq <= b
        BY <4>1
      <4> QED
        BY <1>4, <2>3, <4>1, <4>3, <4>4, <4>5 DEF Claims
    <3>8. CASE r \notin DOMAIN f /\ r \in DOMAIN job.found
      <4>1. BasedAt(r, b)
        BY <1>1, <2>2, <2>7, <3>3, <3>6, <3>8 DEF BasedAt
      <4> QED
        BY <2>5, <4>1
    <3>9. CASE r \notin DOMAIN f /\ r \notin DOMAIN job.found
      <4>1. next = 0 /\ b = 0
        BY <1>1, <2>2, <3>3, <3>6, <3>9 DEF BasedAt
      <4>2. \A k \in DOMAIN made : made[k] # r
        <5>1. made \in Seq(Runs) /\ Len(made) \in Nat
            BY DEF ChatData
        <5>2. \A k \in 1..Request.after : made[k] \in DOMAIN job.found
            BY <2>4, <3>4 DEF ReqPaged
        <5>3. \A k \in 1..Len(made) : k > Request.after => made[k] \in DOMAIN f
            BY <1>6, <4>1 DEF PageServed
        <5> QED
            BY <1>2, <3>9, <5>1, <5>2, <5>3
      <4>3. log[r].seq = 0 /\ log'[r].seq = 0
        <5>1. ~(log[r].seq > 0)
            BY <4>2 DEF MadeInv
        <5> QED
            BY <2>4, <3>5, <3>9, <5>1
      <4>4. \A e \in Waiting : e.run # r
        BY <3>5, <4>3
      <4>5. ~Orphan(r)'
        BY <4>3 DEF Orphan
      <4>6. Level(r) <= b
        BY <3>5, <4>1, <4>3
      <4> QED
        BY <1>4, <2>3, <4>1, <4>3, <4>4, <4>5, <4>6 DEF Claims
    <3> QED
        BY <3>7, <3>8, <3>9
  <2> QED
    BY <2>6, <2>7
<1> QED
    BY <1>5, <1>6, ServePageIs

LEMMA SnapSubscribe ==
    ASSUME ChatData, SnapInv, ServeSubscribe \/ ServeUnsubscribe
    PROVE  SnapInv'
<1>1. UNCHANGED <<log, alive, deleted, screen, view, provisional, batch, job>>
    BY ServeSubscribeIs DEF session, work
<1>2. EventsIn' = EventsIn /\ Flying' = Flying
  <2>1. CASE toClient' = toClient
    BY <1>1, <2>1, FramesKept
  <2>2. CASE Requested("subscribe")
    <3>1. Request.of \in Nat /\ ~Requested("unsubscribe")
        BY <2>2, RequestIs DEF Requested
    <3>2. \/ toClient' = Append(toClient, Missing(Request.of))
          \/ toClient' = Append(toClient, Subscribed(Request.of))
        BY <3>1, ServeSubscribeIs
    <3>3. /\ Missing(Request.of) \in Frames /\ Missing(Request.of).kind = "missing"
          /\ Subscribed(Request.of) \in Frames /\ Subscribed(Request.of).kind = "subscribed"
        BY <3>1, FrameKinds
    <3>4. \E m \in Frames : toClient' = Append(toClient, m) /\ m.kind \in {"missing", "subscribed"}
        BY <3>2, <3>3
    <3> QED
        BY <1>1, <3>4, FramesMore
  <2> QED
    BY <2>1, <2>2, ServeSubscribeIs
<1>3. Waiting' = Waiting /\ \A r : Level(r)' = Level(r) /\ Orphan(r)' = Orphan(r)
    BY <1>1, <1>2 DEF Waiting, KeptNow, Loaded, Level, ShownRuns, Orphan
<1> SUFFICES ASSUME Live', NEW r \in Runs, NEW b \in Nat, BasedAt(r, b)' PROVE Claims(r, b)'
    BY DEF SnapInv
<1>4. BasedAt(r, b) /\ Live
    BY <1>1, <1>2, <1>3 DEF BasedAt, Live
<1> QED
    BY <1>1, <1>2, <1>3, <1>4, SnapSame DEF SnapInv

\* What the app does keeps it, with what it knows of a Run going up.
LEMMA BasedSame ==
    ASSUME NEW r, NEW c, BasedAt(r, c)', job' = job, Level(r)' = Level(r) \/ job # NoJob,
           Flying' = Flying \/ job = NoJob
    PROVE  BasedAt(r, c)
<1>1. CASE job = NoJob
  <2>1. job.kind # "paging"
    BY <1>1 DEF NoJob
  <2> QED
    BY <1>1, <2>1 DEF BasedAt
<1>2. CASE job # NoJob
    BY <1>2 DEF BasedAt
<1> QED
    BY <1>1, <1>2

\* The events that wait stay, if none was taken.
LEMMA ClaimsStay ==
    ASSUME ChatData, NEW r \in Runs, NEW c \in Nat, Claims(r, c), UNCHANGED <<log, alive, deleted>>,
           Waiting' = Waiting, EventsIn' \subseteq EventsIn, Level(r)' = Level(r) \/ Level(r)' <= c
    PROVE  Claims(r, c)'
<1>1. Level(r)' <= c \/ \A e \in EventsIn' : e.run = r => e.seq > Level(r)'
    BY DEF Claims
<1> QED
    BY <1>1, ClaimsMove

LEMMA SnapDropped ==
    ASSUME ChatData, RestInv, SnapInv, Live, screen'.id = screen.id, EventDropped,
           NEW r \in Runs, NEW c \in Nat, BasedAt(r, c)'
    PROVE  Claims(r, c)'
<1>1. /\ toClient # <<>> /\ toClient' = Tail(toClient) /\ First.kind = "event" /\ First \in ChatEvents
      /\ UNCHANGED <<log, alive, deleted, view, provisional, batch, job>> /\ Old(First)
    BY FirstIs, EventIs DEF EventDropped, work, session, Live
<1>2. /\ EventsIn' \subseteq EventsIn /\ EventsIn \subseteq EventsIn' \union {First} /\ Flying' = Flying
      /\ First \in EventsIn
    BY <1>1, FramesTaken
<1>3. KeptNow' = KeptNow /\ Level(r)' = Level(r)
    BY <1>1 DEF KeptNow, Loaded, Level, ShownRuns
<1>4. BasedAt(r, c)
    BY <1>1, <1>2, <1>3, BasedSame
<1>5. Claims(r, c)
    BY <1>4 DEF SnapInv
<1>6. ASSUME NEW e \in Waiting, e.run = r, e.seq > c PROVE e \in Waiting'
  <2>1. CASE e = First
    <3>1. First.seq <= Level(r) /\ First.seq \in Nat /\ Level(r) \in Nat
        BY <1>1, <1>6, <2>1, EventKinds, WaitingIs DEF Old, Level
    <3>2. Level(r) <= c
        BY <1>2, <1>5, <1>6, <2>1, <3>1 DEF Claims
    <3> QED
        BY <1>6, <2>1, <3>1, <3>2
  <2> QED
    BY <1>2, <1>3, <1>6, <2>1 DEF Waiting
<1>7. Level(r)' <= c \/ \A e \in EventsIn' : e.run = r => e.seq > Level(r)'
    BY <1>2, <1>3, <1>5 DEF Claims
<1>8. Waiting' \subseteq Waiting
    BY <1>2, <1>3 DEF Waiting
<1>9. c <= c
    OBVIOUS
<1> QED
    BY <1>1, <1>5, <1>6, <1>7, <1>8, <1>9, ClaimsMove

LEMMA SnapDelivered ==
    ASSUME ChatData, RestInv, OneLoad, SnapInv, Live, screen'.id = screen.id, EventDelivered,
           NEW r \in Runs, NEW c \in Nat, BasedAt(r, c)'
    PROVE  Claims(r, c)'
<1>1. /\ toClient # <<>> /\ toClient' = Tail(toClient) /\ First.kind = "event" /\ First \in ChatEvents
      /\ UNCHANGED <<log, alive, deleted, provisional, batch, job>> /\ NextUp(First) /\ view' = Delivered(First)
      /\ screen.phase = "ready" /\ ~draining
    BY FirstIs, EventIs DEF EventDelivered, work, session
<1>2. /\ EventsIn' \subseteq EventsIn /\ EventsIn \subseteq EventsIn' \union {First}
    BY <1>1, FramesTaken
<1>3. KeptNow' = KeptNow /\ job = NoJob /\ job' = NoJob
    BY <1>1 DEF KeptNow, Loaded, OneLoad
<1>4. /\ DOMAIN view' = DOMAIN view /\ First.run \in DOMAIN view
      /\ Len(view'[First.run]) = First.seq /\ Len(view[First.run]) + 1 = First.seq
      /\ \A q \in DOMAIN view : q # First.run => view'[q] = view[q]
    BY <1>1, DeliveredIs DEF ShownRuns
<1>5. c = Level(r)' /\ Level(r) \in Nat
  <2>1. job'.kind # "paging"
    BY <1>3 DEF NoJob
  <2> QED
    BY <2>1, WaitingIs DEF BasedAt
<1>6. \/ First.run = r /\ c = Level(r) + 1 /\ First.seq = c
      \/ First.run # r /\ c = Level(r)
    BY <1>4, <1>5 DEF Level, ShownRuns
<1>7. Claims(r, Level(r))
    BY <1>3, <1>5 DEF SnapInv, BasedAt
<1>8. ASSUME NEW e \in Waiting, e.run = r, e.seq > c PROVE e \in Waiting'
  <2>1. e # First
    BY <1>5, <1>6, <1>8
  <2> QED
    BY <1>2, <1>3, <1>8, <2>1 DEF Waiting
<1>9. Waiting' \subseteq Waiting
    BY <1>2, <1>3 DEF Waiting
<1>10. Level(r) <= c /\ Level(r)' <= c
    BY <1>5, <1>6
<1> QED
    BY <1>1, <1>5, <1>7, <1>8, <1>9, <1>10, ClaimsMove

LEMMA SnapKept ==
    ASSUME ChatData, RestInv, SnapInv, Live, screen'.id = screen.id, EventKept,
           NEW r \in Runs, NEW c \in Nat, BasedAt(r, c)'
    PROVE  Claims(r, c)'
<1>1. /\ toClient # <<>> /\ toClient' = Tail(toClient) /\ First.kind = "event" /\ First \in ChatEvents
      /\ KeptNow' = KeptNow \union {First} /\ UNCHANGED <<log, alive, deleted, view, job>>
    BY KeptIs DEF EventKept, session
<1>2. /\ EventsIn' \subseteq EventsIn /\ EventsIn \subseteq EventsIn' \union {First} /\ Flying' = Flying
      /\ First \in EventsIn
    BY <1>1, FramesTaken
<1>3. Level(r)' = Level(r) /\ Waiting' = Waiting
    BY <1>1, <1>2 DEF Waiting, Level, ShownRuns
<1>4. BasedAt(r, c)
    BY <1>1, <1>2, <1>3, BasedSame
<1> QED
    BY <1>1, <1>2, <1>3, <1>4, ClaimsStay DEF SnapInv

LEMMA SnapAccepted ==
    ASSUME ChatData, RestInv, Ordered, SnapInv, Live, screen'.id = screen.id, AcceptedArrives,
           NEW r \in Runs, NEW c \in Nat, BasedAt(r, c)'
    PROVE  Claims(r, c)'
<1>1. /\ toClient # <<>> /\ toClient' = Tail(toClient) /\ First.kind = "accepted" /\ First = toClient[1]
      /\ 1 \in DOMAIN toClient /\ First \in Frames
      /\ UNCHANGED <<log, alive, deleted, provisional, batch, job>>
      /\ view' = IF First.run \in ShownRuns /\ Len(view[First.run]) >= First.seq THEN view
                 ELSE [q \in ShownRuns \union {First.run} |->
                          IF q = First.run THEN Prefix(First.seq) ELSE view[q]]
    BY FirstIs DEF AcceptedArrives, work, session
<1>2. First.run \in Runs /\ First.seq \in Nat
    BY <1>1, FrameKinds
<1>3. EventsIn' = EventsIn /\ Flying' = Flying
    BY <1>1, FramesTaken
<1>4. KeptNow' = KeptNow /\ Waiting' = Waiting
    BY <1>1, <1>3 DEF KeptNow, Loaded, Waiting
<1>5. /\ DOMAIN view' = DOMAIN view \union {First.run}
      /\ \A q \in DOMAIN view \ {First.run} : view'[q] = view[q]
      /\ \/ First.run \in DOMAIN view /\ view' = view
         \/ /\ Len(view'[First.run]) = First.seq
            /\ First.run \in DOMAIN view => ~(Len(view[First.run]) >= First.seq)
    BY <1>1, <1>2, AcceptedIs
<1>6. /\ Level(r) \in Nat
      /\ \/ Level(r)' = Level(r)
         \/ First.run = r /\ Level(r)' = First.seq /\ Level(r) <= First.seq
  <2>1. Level(r) \in Nat
    BY WaitingIs
  <2>2. CASE view' = view \/ First.run # r
    BY <1>5, <2>2 DEF Level, ShownRuns
  <2>3. CASE view' # view /\ First.run = r
    <3>1. Level(r)' = First.seq
        BY <1>5, <2>3 DEF Level, ShownRuns
    <3>2. Level(r) <= First.seq
        BY <1>2, <1>5, <2>1, <2>3 DEF Level, ShownRuns
    <3> QED
        BY <2>1, <2>3, <3>1, <3>2
  <2> QED
    BY <2>1, <2>2, <2>3
<1>7. ASSUME NEW e \in EventsIn', e.run = First.run PROVE e.seq > First.seq
  <2>1. PICK i \in DOMAIN toClient' : toClient'[i] = e
    BY DEF EventsIn, Carries
  <2>2. i \in Nat /\ i >= 1 /\ i + 1 \in DOMAIN toClient /\ toClient[i + 1] = e
    BY <1>1, <2>1, IdIs, Taken
  <2>3. e.kind = "event" /\ e.seq \in Nat /\ 1 < i + 1
    BY <2>2, EventKinds DEF EventsIn
  <2>4. toClient[1].seq < toClient[i + 1].seq
    BY <1>1, <1>7, <2>2, <2>3 DEF Ordered
  <2> QED
    BY <1>1, <1>2, <2>2, <2>3, <2>4
<1>8. CASE Level(r)' = Level(r)
  <2>1. BasedAt(r, c)
    BY <1>1, <1>3, <1>8, BasedSame
  <2> QED
    BY <1>1, <1>3, <1>4, <1>8, <2>1, ClaimsStay DEF SnapInv
<1>9. CASE First.run = r /\ Level(r)' = First.seq /\ Level(r) <= First.seq
  <2>1. \A e \in EventsIn' : e.run = r => e.seq > Level(r)'
    BY <1>7, <1>9
  <2>2. \A e \in Waiting : e.run = r /\ e.seq > c => e \in Waiting'
    BY <1>4
  <2>3. CASE job = NoJob
    <3>1. c = Level(r)'
      <4>1. job'.kind # "paging"
        BY <1>1, <2>3 DEF NoJob
      <4> QED
        BY <4>1 DEF BasedAt
    <3>2. Claims(r, Level(r)) /\ Level(r) <= c
        BY <1>6, <1>9, <2>3, <3>1 DEF SnapInv, BasedAt
    <3> QED
        BY <1>1, <1>4, <1>6, <2>1, <2>2, <3>2, ClaimsMove
  <2>4. CASE job # NoJob
    <3>1. BasedAt(r, c)
        BY <1>1, <1>3, <2>4, BasedSame
    <3>2. Claims(r, c) /\ c <= c
        BY <3>1 DEF SnapInv
    <3> QED
        BY <1>1, <1>4, <2>1, <2>2, <3>2, ClaimsMove
  <2> QED
    BY <2>3, <2>4
<1> QED
    BY <1>6, <1>8, <1>9

LEMMA SnapArrived ==
    ASSUME ChatData, RestInv, OneLoad, SnapInv, Live, screen'.id = screen.id, PageArrives, \A why : ~Errs(why),
           NEW r \in Runs, NEW c \in Nat, BasedAt(r, c)'
    PROVE  Claims(r, c)'
<1> DEFINE found == Joined(job.found, First.found)
<1>1. /\ toClient # <<>> /\ toClient' = Tail(toClient) /\ First.kind = "page" /\ First.of = screen.id
      /\ First.found \in Pages /\ job.found \in Pages /\ First \in Frames /\ found \in Pages
      /\ job.kind = "paging" /\ UNCHANGED <<log, alive, deleted>>
    BY PageArrivesIs DEF session
<1>2. /\ EventsIn' = EventsIn /\ First \in Flying /\ \A m \in Flying : m = First
    BY <1>1, FramesTaken, OneFlying
<1>3. /\ DOMAIN found = DOMAIN job.found \union DOMAIN First.found
      /\ \A q \in DOMAIN First.found : found[q] = First.found[q]
      /\ \A q \in DOMAIN job.found \ DOMAIN First.found : found[q] = job.found[q]
    BY <1>1, JoinedIs
<1>4. \A i \in DOMAIN toClient' : ~LoadAns(toClient'[i], screen.id)
    BY AnswerIs
<1>5. Flying' = {}
    BY <1>4, NoFlying
<1>6. ASSUME r \in DOMAIN found, c = found[r] PROVE BasedAt(r, c)
    BY <1>1, <1>2, <1>3, <1>6 DEF BasedAt
<1>7. CASE First.next # 0
  <2>1. job' = PagingJob(job.event, found) /\ UNCHANGED <<view, provisional, batch>>
    BY <1>7, PageArrivesIs
  <2>2. job'.kind = "paging" /\ job'.found = found /\ job'.event = job.event
    BY <2>1, JobKinds
  <2>3. Loaded' = Loaded
    BY <1>1, <2>2 DEF Loaded
  <2>4. Waiting' = Waiting /\ Level(r)' = Level(r)
    BY <1>2, <2>1, <2>3 DEF Waiting, KeptNow, Level, ShownRuns
  <2>5. job' # NoJob
    BY <2>2 DEF NoJob
  <2>6. r \in DOMAIN found /\ c = found[r]
    BY <1>5, <2>2, <2>5 DEF BasedAt
  <2> QED
    BY <1>1, <1>2, <1>6, <2>4, <2>6, ClaimsStay DEF SnapInv
<1>8. CASE First.next = 0
  <2>1. /\ view' = Replaced(found) /\ job' = NoJob /\ provisional' = provisional
        /\ \/ job.event = NoEvent /\ batch' = batch
           \/ job.event # NoEvent /\ batch' = batch \union {job.event}
    BY <1>8, PageArrivesIs
  <2>2. Loaded' = {} /\ Loaded = IF job.event # NoEvent THEN {job.event} ELSE {}
    BY <1>1, <2>1 DEF Loaded, NoJob
  <2>3. Waiting' = Waiting
    <3>1. KeptNow' = KeptNow
        BY <2>1, <2>2 DEF KeptNow
    <3> QED
        BY <1>2, <3>1 DEF Waiting
  <2>4. c = Level(r)'
    <3>1. job'.kind # "paging"
        BY <2>1 DEF NoJob
    <3> QED
        BY <3>1 DEF BasedAt
  <2>5. PICK f \in Pages : f = found
    BY <1>1
  <2>6. DOMAIN view' = DOMAIN f /\ \A q \in DOMAIN f : Len(view'[q]) = f[q]
    BY <2>1, <2>5, ReplacedIs
  <2>7. BasedAt(r, c)
    <3>1. CASE r \in DOMAIN f
      <4>1. c = f[r]
        BY <2>4, <2>6, <3>1 DEF Level, ShownRuns
      <4> QED
        BY <1>6, <2>5, <3>1, <4>1
    <3>2. CASE r \notin DOMAIN f
      <4>1. c = 0
        BY <2>4, <2>6, <3>2 DEF Level, ShownRuns
      <4> QED
        BY <1>1, <1>2, <1>3, <1>8, <2>5, <3>2, <4>1 DEF BasedAt
    <3> QED
        BY <3>1, <3>2
  <2> QED
    BY <1>1, <1>2, <2>3, <2>4, <2>7, ClaimsStay DEF SnapInv
<1> QED
    BY <1>7, <1>8

LEMMA SnapDrains ==
    ASSUME ChatData, RestInv, OneLoad, SnapInv, Live, screen'.id = screen.id, NEW e \in batch, DrainsEvent(e),
           \A why : ~Errs(why), ~Loads(e), NEW r \in Runs, NEW c \in Nat, BasedAt(r, c)'
    PROVE  Claims(r, c)'
<1>1. /\ e \in ChatEvents /\ UNCHANGED <<log, alive, deleted, toClient, provisional, job>> /\ batch' = batch \ {e}
      /\ (Old(e) \/ NextUp(e))
      /\ view' = IF NextUp(e) THEN Delivered(e) ELSE view
      /\ job = NoJob
    BY LoadedIs DEF DrainsEvent, session, Running
<1>2. EventsIn' = EventsIn /\ Loaded' = Loaded
    BY <1>1, FramesKept DEF Loaded
<1>3. Waiting' \subseteq Waiting /\ \A f \in Waiting : f # e => f \in Waiting'
    BY <1>1, <1>2 DEF Waiting, KeptNow
<1>4. c = Level(r)' /\ Level(r) \in Nat /\ Claims(r, Level(r))
  <2>1. job'.kind # "paging"
    BY <1>1 DEF NoJob
  <2>2. c = Level(r)' /\ Level(r) \in Nat
    BY <2>1, WaitingIs DEF BasedAt
  <2> QED
    BY <1>1, <2>2 DEF SnapInv, BasedAt
<1>5. Level(r) <= c /\ (e.run = r => e.seq <= c)
  <2>1. e.seq \in Nat
    BY <1>1, EventKinds
  <2>2. CASE NextUp(e)
    <3>1. /\ DOMAIN view' = DOMAIN view /\ e.run \in DOMAIN view
          /\ Len(view'[e.run]) = e.seq /\ Len(view[e.run]) + 1 = e.seq
          /\ \A q \in DOMAIN view : q # e.run => view'[q] = view[q]
        BY <1>1, <2>2, DeliveredIs DEF ShownRuns
    <3>2. \/ e.run = r /\ c = Level(r) + 1 /\ e.seq = c
          \/ e.run # r /\ c = Level(r)
        BY <1>4, <3>1 DEF Level, ShownRuns
    <3> QED
        BY <1>4, <3>2
  <2>3. CASE Old(e) /\ ~NextUp(e)
    <3>1. c = Level(r)
        BY <1>1, <1>4, <2>3 DEF Level, ShownRuns
    <3> QED
        BY <1>4, <2>3, <3>1 DEF Old, Level
  <2> QED
    BY <1>1, <2>2, <2>3
<1>6. ASSUME NEW f \in Waiting, f.run = r, f.seq > c PROVE f \in Waiting'
  <2>1. f # e
    <3>1. e.seq \in Nat
        BY <1>1, EventKinds
    <3> QED
        BY <1>5, <1>6, <3>1
  <2> QED
    BY <1>3, <1>6, <2>1
<1>7. Level(r)' <= c
    BY <1>4
<1> QED
    BY <1>1, <1>3, <1>4, <1>5, <1>6, <1>7, ClaimsMove

LEMMA SnapQuiet ==
    ASSUME ChatData, SnapInv, Live, UNCHANGED <<log, alive, deleted, view, job>>,
           KeptNow' = KeptNow, EventsIn' = EventsIn, Flying' = Flying \/ job = NoJob,
           NEW r \in Runs, NEW c \in Nat, BasedAt(r, c)'
    PROVE  Claims(r, c)'
<1>1. Level(r)' = Level(r) /\ Waiting' = Waiting
    BY DEF Level, ShownRuns, Waiting
<1>2. BasedAt(r, c)
    BY <1>1, BasedSame
<1> QED
    BY <1>1, <1>2, ClaimsStay DEF SnapInv

LEMMA SnapClient ==
    ASSUME ChatData, MadeInv, RestInv, OneLoad, Ordered, SnapInv, ClientStep
    PROVE  SnapInv'
<1> SUFFICES ASSUME Live', NEW r \in Runs, NEW c \in Nat, BasedAt(r, c)' PROVE Claims(r, c)'
    BY DEF SnapInv
<1>0. job'.kind = "paging" \/ (job'.kind = "none" /\ Live')
    BY DEF BasedAt, NoJob
<1>1. /\ Live /\ screen'.id = screen.id /\ ~Open /\ ~Leave /\ ~ConnectionLost /\ ~RequestTimesOut
      /\ screen.id \in Nat /\ \A why : ~Errs(why)
    BY <1>0, StaysOn, IdIs
<1>2. ASSUME PagingStarts PROVE FALSE
  <2>1. job'.kind = "paging" /\ DOMAIN job'.found = {}
    BY <1>2, PageKinds DEF PagingStarts, PagingJob
  <2>2. job' # NoJob /\ Flying' = {}
    BY <1>2, <2>1 DEF PagingStarts, NoJob
  <2> QED
    BY <2>1, <2>2 DEF BasedAt
<1>3. CASE EventDropped
    BY <1>1, <1>3, SnapDropped
<1>4. CASE EventDelivered
    BY <1>1, <1>4, SnapDelivered
<1>5. CASE EventKept
    BY <1>1, <1>5, SnapKept
<1>6. CASE AcceptedArrives
    BY <1>1, <1>6, SnapAccepted
<1>7. CASE PageArrives
    BY <1>1, <1>7, SnapArrived
<1>8. CASE SubscribedArrives
  <2>1. /\ Loads(NoEvent) /\ job' = PagingJob(NoEvent, <<>>)
    BY <1>8 DEF SubscribedArrives, Loads, PagingJob
  <2>2. \A i \in DOMAIN toClient' : ~LoadAns(toClient'[i], screen.id)
    BY <1>8, AnswerIs
  <2>3. Flying' = {}
    BY <1>1, <2>2, NoFlying
  <2>4. job'.kind = "paging" /\ DOMAIN job'.found = {}
    BY <2>1, PageKinds DEF PagingJob
  <2>5. job' # NoJob
    BY <2>4 DEF NoJob
  <2> QED
    BY <2>3, <2>4, <2>5 DEF BasedAt
<1>9. CASE MissingArrives
    BY <1>1, <1>9 DEF MissingArrives
<1>10. CASE AnswerDropped \/ RefusedArrives \/ FailedArrives
  <2>1. /\ toClient # <<>> /\ toClient' = Tail(toClient) /\ First.kind # "event"
        /\ UNCHANGED <<log, alive, deleted, view, provisional, batch, job>>
        /\ ~(First.kind = "page" /\ First.of = screen.id) \/ job = NoJob
    <3>1. CASE RefusedArrives \/ FailedArrives
        BY <3>1, FirstIs DEF RefusedArrives, FailedArrives, work, session
    <3>2. CASE AnswerDropped
      <4>1. /\ toClient # <<>> /\ toClient' = Tail(toClient) /\ First.kind # "event"
            /\ UNCHANGED <<log, alive, deleted, view, provisional, batch, job>>
        BY <3>2, FirstIs DEF AnswerDropped, work, session
      <4>2. ~ForUs \/ First.kind # "page" \/ job = NoJob
        BY <3>2 DEF AnswerDropped, Holds
      <4>3. screen.phase # "none"
        BY <1>1 DEF Live
      <4> QED
        BY <4>1, <4>2, <4>3 DEF ForUs
    <3> QED
        BY <1>10, <3>1, <3>2
  <2>2. EventsIn' = EventsIn /\ (Flying' = Flying \/ job = NoJob)
    BY <1>1, <2>1, FramesTaken
  <2>3. KeptNow' = KeptNow
    BY <2>1 DEF KeptNow, Loaded
  <2> QED
    BY <1>1, <2>1, <2>2, <2>3, SnapQuiet
<1>11. CASE Drains
  <2>1. /\ UNCHANGED <<log, alive, deleted, toClient>> /\ job = NoJob
    BY <1>11 DEF Drains, DrainsNext, Drained, DrainsEvent, Running, session, channel
  <2>2. EventsIn' = EventsIn /\ Flying' = Flying
    BY <1>1, <2>1, FramesKept
  <2>3. CASE DrainsNext \/ Drained
    <3>1. UNCHANGED <<view, job>> /\ provisional' \union batch' = provisional \union batch
        BY <2>3 DEF DrainsNext, Drained
    <3>2. KeptNow' = KeptNow
        BY <3>1 DEF KeptNow, Loaded
    <3> QED
        BY <1>1, <2>1, <2>2, <3>1, <3>2, SnapQuiet
  <2>4. ASSUME NEW e \in batch, DrainsEvent(e) PROVE Claims(r, c)'
    <3>1. CASE ~Loads(e)
        BY <1>1, <2>4, <3>1, SnapDrains
    <3>2. CASE Loads(e)
      <4>1. job' = PagingJob(e, <<>>)
        BY <3>2 DEF Loads, PagingJob
      <4>2. job'.kind = "paging" /\ DOMAIN job'.found = {}
        BY <4>1, PageKinds DEF PagingJob
      <4>3. Flying' = {}
        <5>1. \A i \in DOMAIN toClient : ~LoadAns(toClient[i], screen.id)
            BY <1>1, <2>1, LoadNone
        <5> QED
            BY <1>1, <2>2, <5>1, OneFlying
      <4>4. job' # NoJob
        BY <4>2 DEF NoJob
      <4> QED
        BY <4>2, <4>3, <4>4 DEF BasedAt
    <3> QED
        BY <3>1, <3>2
  <2> QED
    BY <1>11, <2>3, <2>4 DEF Drains
<1>12. CASE Edit \/ (\E q \in Runs : Send(q)) \/ SendTimesOut
  <2>1. /\ UNCHANGED <<log, alive, deleted, view, provisional, batch, job>>
        /\ toClient' = toClient \/ toClient' = Unawaited(toClient)
    BY <1>12 DEF Edit, Send, SendTimesOut, SendLapses, work, channel, session
  <2>2. EventsIn' = EventsIn /\ Flying' = Flying
    BY <1>1, <2>1, FramesKept
  <2>3. KeptNow' = KeptNow
    BY <2>1 DEF KeptNow, Loaded
  <2> QED
    BY <1>1, <2>1, <2>2, <2>3, SnapQuiet
<1> QED
    BY <1>1, <1>3, <1>4, <1>5, <1>6, <1>7, <1>8, <1>9, <1>10, <1>11, <1>12 DEF ClientStep, Arrives, ChatActs

LEMMA SnapNext ==
    ASSUME ChatData, MadeInv, RestInv, OneLoad, Tuned, Ordered, Logged, PageInv, SnapInv, ChatNext
    PROVE  SnapInv'
BY StepCases, SnapGrows, SnapPage, SnapSubscribe, SnapClient

-----------------------------------------------------------------------------
(* A chat fails only when a request of it did.                             *)

\* The event that comes next of a Run that is shown is the one the screen waits for: the
\* events between are set aside too, and come before it.
LEMMA NoGap ==
    ASSUME ChatData, RestInv, Ordered, SnapInv, NEW e \in batch, DrainsEvent(e), e.run \in ShownRuns
    PROVE  Old(e) \/ NextUp(e)
<1>1. /\ Live /\ job = NoJob /\ e \in ChatEvents /\ e.run \in Runs /\ e.seq \in Nat
      /\ \A f \in batch : e.seq <= f.seq
    BY LoadedIs, EventKinds DEF DrainsEvent, Running, RestInv
<1>2. Level(e.run) \in Nat /\ Level(e.run) = Len(view[e.run])
    BY <1>1, WaitingIs DEF Level
<1>3. Claims(e.run, Level(e.run))
    BY <1>1, <1>2 DEF SnapInv, BasedAt
<1>4. e \in Waiting /\ e \in KeptNow
    BY LoadedIs DEF Waiting
<1>5. SUFFICES ASSUME e.seq > Level(e.run) + 1 PROVE FALSE
    BY <1>1, <1>2 DEF Old, NextUp
<1> DEFINE k == Level(e.run) + 1
<1>6. k \in Nat /\ Level(e.run) < k /\ k < e.seq
    BY <1>1, <1>2, <1>5
<1>7. Event(e.run, k) \in Waiting
  <2> HIDE DEF k
  <2> QED
    BY <1>1, <1>3, <1>4, <1>6 DEF Claims
<1>8. PICK f \in ChatEvents : f = Event(e.run, k)
    BY <1>7, WaitingIs
<1>9. f.run = e.run /\ f.seq = k /\ f.kind = "event"
  <2> HIDE DEF k
  <2> QED
    BY <1>8 DEF Event
<1>10. f.seq \in Nat /\ e.seq \in Nat /\ ~(e.seq < f.seq)
  <2> HIDE DEF k
  <2> QED
    BY <1>1, <1>6, <1>9
<1>11. f \in batch \/ f \in provisional \/ f \in Loaded \/ f \in EventsIn
    BY <1>7, <1>8 DEF Waiting, KeptNow
<1>12. f \notin batch
    BY <1>1, <1>6, <1>9
<1>13. f \notin provisional
    BY <1>9, <1>10 DEF Ordered
<1>14. Loaded = {}
    BY <1>1 DEF Loaded, NoJob
<1>15. f \notin EventsIn
  <2>1. ASSUME NEW j \in DOMAIN toClient, toClient[j] = f PROVE FALSE
    BY <1>4, <1>9, <1>10, <2>1 DEF Ordered
  <2> QED
    BY <2>1 DEF EventsIn, Carries
<1> QED
    BY <1>11, <1>12, <1>13, <1>14, <1>15

\* The Run of the event a snapshot was read for is in the snapshot: its event was
\* published, and a Run that is deleted has no last page.
LEMMA NoneAbsent ==
    ASSUME ChatData, PageInv, PageArrives, First.next = 0, job.event # NoEvent
    PROVE  job.event.run \in DOMAIN Joined(job.found, First.found)
<1>1. job.kind = "paging" /\ First.kind = "page" /\ First.of = screen.id /\ toClient # <<>>
    BY DEF PageArrives, Holds, ForUs
<1>2. First \in Frames /\ First = toClient[1] /\ 1 \in DOMAIN toClient
  <2>1. toClient \in Seq(Frames) /\ toClient # <<>> /\ First = Head(toClient)
    BY <1>1 DEF ChatData, First
  <2> QED
    BY <1>1, <2>1, Taken
<1>3. First \in Flying
    BY <1>1, <1>2 DEF Flying, Carries
<1> QED
    BY <1>1, <1>3 DEF PageInv, AnsPaged, Joined

LEMMA CauseNext ==
    ASSUME ChatData, RestInv, Ordered, PageInv, SnapInv, ErrorsHaveCause, ChatNext
    PROVE  ErrorsHaveCause'
<1>1. screen \in [id : Nat, phase : {"none", "loading", "ready", "error"},
                  why : {"none", "request", "absent", "gap"}]
    BY DEF ChatData, First
<1>2. CASE UNCHANGED screen
    BY <1>2 DEF ErrorsHaveCause
<1>3. CASE screen'.phase # "error"
    BY <1>3 DEF ErrorsHaveCause
<1>4. CASE Errs("request")
    BY <1>1, <1>4 DEF Errs, ErrorsHaveCause
<1>5. CASE ServerGrows \/ ServePage \/ ServeSubscribe \/ ServeUnsubscribe
    BY <1>2, <1>5 DEF ServerGrows, RunGoesOn, RunEnds, OutcomeComesLate, OrphanEnds, ForeignSend, Delete,
                      Started, ServeSend, ServePage, ServeSubscribe, ServeUnsubscribe
<1>6. CASE EventDropped \/ EventDelivered \/ EventKept \/ SubscribedArrives \/ AnswerDropped
           \/ AcceptedArrives \/ RefusedArrives \/ FailedArrives
    BY <1>2, <1>6 DEF EventDropped, EventDelivered, EventKept, SubscribedArrives, AnswerDropped,
                      AcceptedArrives, RefusedArrives, FailedArrives
<1>7. CASE MissingArrives \/ RequestTimesOut
    BY <1>4, <1>7 DEF MissingArrives, RequestTimesOut
<1>8. CASE PageArrives
    BY <1>2, <1>8, NoneAbsent DEF PageArrives
<1>9. CASE Drains
  <2>1. CASE DrainsNext
    BY <1>2, <2>1 DEF DrainsNext
  <2>2. CASE Drained
    BY <1>1, <1>3, <2>2 DEF Drained
  <2>3. ASSUME NEW e \in batch, DrainsEvent(e) PROVE ErrorsHaveCause'
    BY <1>2, <2>3, NoGap DEF DrainsEvent
  <2> QED
    BY <1>9, <2>1, <2>2, <2>3 DEF Drains
<1>10. CASE Open \/ Leave \/ ConnectionLost
  <2>1. screen'.phase \in {"none", "loading"}
    <3>1. CASE Open
        BY <3>1 DEF Open
    <3>2. CASE Leave \/ ConnectionLost
        BY <1>1, <3>2 DEF Leave, ConnectionLost
    <3> QED
        BY <1>10, <3>1, <3>2
  <2> QED
    BY <1>3, <2>1
<1>11. CASE Edit \/ (\E r \in Runs : Send(r)) \/ SendTimesOut
    BY <1>2, <1>11 DEF Edit, Send, SendTimesOut
<1> QED
    BY <1>5, <1>6, <1>7, <1>8, <1>9, <1>10, <1>11, StepCases DEF ClientStep, Arrives, ChatActs

ChatInv ==
    /\ SendInv
    /\ OneLoad /\ Tuned /\ Ordered /\ Logged /\ PageInv /\ SnapInv
    /\ ErrorsHaveCause

LEMMA ChatInvInit == ChatInit => ChatInv
<1> SUFFICES ASSUME ChatInit PROVE ChatInv
    OBVIOUS
<1>1. /\ toServer = <<>> /\ toClient = <<>> /\ DOMAIN toServer = {} /\ DOMAIN toClient = {}
      /\ screen.phase = "none" /\ job = NoJob /\ job.kind = "none"
      /\ view = <<>> /\ provisional = {} /\ batch = {}
    BY DEF ChatInit, NoJob
<1>2. OneLoad /\ Tuned /\ SnapInv /\ PageInv /\ ErrorsHaveCause
    BY <1>1 DEF OneLoad, Tuned, SnapInv, PageInv, ErrorsHaveCause, Live
<1>3. KeptNow = {}
    BY <1>1 DEF KeptNow, Loaded
<1>4. Ordered
    BY <1>1, <1>3 DEF Ordered, Loaded
<1>5. Logged
    BY <1>1, <1>3, PageKinds DEF Logged
<1> QED
    BY <1>2, <1>4, <1>5, SendInit DEF ChatInv

LEMMA ChatInvStep == ChatInv /\ [ChatNext]_chatVars => ChatInv'
<1> SUFFICES ASSUME ChatInv, [ChatNext]_chatVars PROVE ChatInv'
    OBVIOUS
<1>1. SendInv'
    BY SendStep DEF ChatInv
<1>2. CASE ChatNext
    BY <1>1, <1>2, LoadNext, TunedNext, OrderNext, PageNext, SnapNext, CauseNext DEF ChatInv, SendInv
<1>3. CASE UNCHANGED chatVars
  <2>1. UNCHANGED <<log, made, alive, deleted, subscribed, toServer, toClient, screen, view,
                    provisional, batch, draining, job>>
    BY <1>3 DEF chatVars, session, hub, channel, work
  <2>2. OneLoad' /\ Tuned' /\ ErrorsHaveCause'
    BY <2>1 DEF ChatInv, OneLoad, Tuned, ErrorsHaveCause, Live
  <2>3. KeptNow' = KeptNow /\ Loaded' = Loaded
    BY <2>1 DEF KeptNow, Loaded
  <2>4. Ordered' /\ Logged'
    BY <2>1, <2>3 DEF ChatInv, Ordered, Logged
  <2>5. Reqs' = Reqs /\ Flying' = Flying /\ EventsIn' = EventsIn
    BY <2>1 DEF Reqs, Flying, EventsIn
  <2>6. PageInv'
    BY <2>1, <2>5 DEF ChatInv, PageInv, ReqPaged, AnsPaged
  <2>7. SnapInv'
    <3>1. Waiting' = Waiting /\ \A r : Level(r)' = Level(r)
        BY <2>1, <2>3, <2>5 DEF Waiting, Level, ShownRuns
    <3>2. Live' = Live /\ \A r, b : BasedAt(r, b)' = BasedAt(r, b) /\ Orphan(r)' = Orphan(r)
        BY <2>1, <2>5, <3>1 DEF Live, BasedAt, Orphan
    <3>3. \A r, b : Claims(r, b)' = Claims(r, b)
        BY <2>1, <2>5, <3>1, <3>2 DEF Claims
    <3> QED
        BY <3>2, <3>3 DEF ChatInv, SnapInv
  <2> QED
    BY <1>1, <2>2, <2>4, <2>6, <2>7 DEF ChatInv
<1> QED
    BY <1>2, <1>3

\* A chat fails only when a request of it did (ErrorsHaveCause): the events a screen has set
\* aside or is still to read follow upon the snapshot it has or waits for without a gap, as
\* it subscribes before it reads, and a Run whose event has come is on one of the pages.
THEOREM ErrorsAlwaysHaveCause == ChatSpec => []ErrorsHaveCause
<1>1. ChatInv => ErrorsHaveCause
    BY DEF ChatInv
<1> QED
    BY <1>1, ChatInvInit, ChatInvStep, PTL DEF ChatSpec
==================================================================================
