------------------------ MODULE BoxInventory_proofs ------------------------
(***************************************************************************)
(* Proofs about the mirror, for any number of changes, pages, connections, *)
(* processes of the Box and databases.                                     *)
(***************************************************************************)
EXTENDS BoxInventory, SequenceTheorems, WellFoundedInduction, TLAPS

-----------------------------------------------------------------------------
(* Types.                                                                  *)

ARow == [revision : Nat, name : Names, op : {"upsert", "delete"}]
APoint == [epoch : Nat, revision : Nat]
AConn == Instances \union {"unused", "closed"}
ASync == [kind : {"initial", "hint", "poll", "mutation"}, target : APoint]
APage == [kind : {"page"}, through : Nat, changes : Seq(ARow)]

BoxTypes ==
    /\ epoch \in Epochs
    /\ log \in [Epochs -> Seq(ARow)]

ConnTypes ==
    /\ conn \in [Peers -> AConn]
    /\ hints \in [Peers -> Seq(APoint)]
    /\ accepted \in Instances \union {Nobody}

EntryTypes ==
    entry \in [peer : Peers \union {None}, ready : BOOLEAN, synced : BOOLEAN,
               timer : {"none", "hint", "poll"}, hint : APoint]

SyncTypes ==
    /\ ops \in Seq(ASync)
    /\ fetch \in [whole : BOOLEAN, through : Nat, batch : Seq(ARow)]
    /\ answer.kind \in {"none", "snapshot", "page", "resync"}
    /\ answer.kind = "snapshot" => answer.at \in APoint
    /\ answer.kind = "page" => answer \in APage

MirrorTypes ==
    /\ mirror = [at |-> mirror.at, content |-> mirror.content, by |-> mirror.by,
                 stale |-> mirror.stale]
    /\ mirror.at \in APoint
    /\ mirror.stale \in BOOLEAN
    /\ mutation \in [state : {"none", "asked", "done", "reconciling"}, at : APoint]
    /\ wrote \in APoint

TypeOK == BoxTypes /\ ConnTypes /\ EntryTypes /\ SyncTypes /\ MirrorTypes

-----------------------------------------------------------------------------
(* The mirror is a past state of the Box.                                  *)

LaterEpochsAreEmpty == \A e \in Epochs : e > epoch => log[e] = <<>>

\* A moment of the Box, and what its resources were then.
IsMoment(at, content) ==
    /\ at.epoch \in 1..epoch
    /\ at.revision <= Len(log[at.epoch])
    /\ content = Told(at.epoch, at.revision)

\* n rows that follow another n0 of the mirror's moment.
Follow(rows, n0) ==
    LET e == mirror.at.epoch
        r == mirror.at.revision + n0
    IN  /\ r + Len(rows) <= Len(log[e])
        /\ rows = Rows(e, r, r + Len(rows))

SnapshotIsPast == answer.kind = "snapshot" => IsMoment(answer.at, answer.content)
BatchFollows ==
    fetch.batch # <<>> =>
        /\ mirror.at # NoPoint
        /\ Follow(fetch.batch, 0)
        /\ mirror.at.revision + Len(fetch.batch) < fetch.through
        /\ fetch.through <= Len(log[mirror.at.epoch])
PageFollows ==
    answer.kind = "page" =>
        /\ mirror.at # NoPoint
        /\ Follow(answer.changes, Len(fetch.batch))
        /\ mirror.at.revision + Len(fetch.batch) + Len(answer.changes) <= answer.through
        /\ answer.through <= Len(log[mirror.at.epoch])

PastInv ==
    /\ LaterEpochsAreEmpty
    /\ MirrorIsPast
    /\ SnapshotIsPast
    /\ BatchFollows
    /\ PageFollows

-----------------------------------------------------------------------------
(* Ready means synchronised.                                               *)

EntryIsOpen == entry.peer # None => Open(entry.peer)
AnswerIsExpected ==
    answer.kind # "none" => entry.peer # None /\ ops # <<>>
SnapshotIsOwn ==
    answer.kind = "snapshot" => answer.at.epoch = epoch /\ answer.by = conn[entry.peer]
SyncedIsOwn ==
    entry.synced => /\ entry.peer # None
                    /\ mirror.at.epoch = epoch
                    /\ mirror.by = conn[entry.peer]

ReadyInv ==
    /\ EntryIsOpen
    /\ AnswerIsExpected
    /\ SnapshotIsOwn
    /\ SyncedIsOwn
    /\ entry.ready => entry.synced

-----------------------------------------------------------------------------
(* Reading one's own writes.                                               *)

\* What was answered, and what is about to be, has happened.
WritesHappened ==
    /\ Later(Newest, wrote)
    /\ Later(Newest, mutation.at)
    /\ \A i \in 1..Len(ops) : ops[i].kind = "mutation" => Later(Newest, ops[i].target)

\* What is on its way to the mirror is newer than what was answered and than
\* what is waited for.
AnswerIsLater ==
    /\ answer.kind = "snapshot" =>
          /\ Later(answer.at, wrote)
          /\ Head(ops).kind = "mutation" => Later(answer.at, Head(ops).target)
    /\ answer.kind = "page" =>
          /\ Later(Point(mirror.at.epoch, answer.through), wrote)
          /\ Head(ops).target = NoPoint \/ Head(ops).target.epoch = mirror.at.epoch
BatchIsLater ==
    fetch.batch # <<>> => Later(Point(mirror.at.epoch, fetch.through), wrote)

WriteInv ==
    /\ WritesHappened
    /\ AnswerIsLater
    /\ BatchIsLater
    /\ ReadYourWrites

-----------------------------------------------------------------------------
(* Lemmas about batches.                                                   *)

\* The last of some positions is one of them.
LEMMA LastOfIsLast ==
    ASSUME NEW k \in Nat, NEW S \in SUBSET (1..k), S # {}
    PROVE  LastOf(S) \in S /\ \A j \in S : j <= LastOf(S)
<1> DEFINE R == OpToRel(<, Nat)
           T == {k - i : i \in S}
<1>1. T \subseteq Nat /\ T # {}
  <2>1. \A i \in S : k - i \in Nat
    OBVIOUS
  <2> QED
    BY <2>1
<1>2. PICK x \in T : \A y \in T : <<y, x>> \notin R
  <2>1. IsWellFoundedOn(R, Nat)
    BY NatLessThanWellFounded
  <2> HIDE DEF T, R
  <2> QED
    BY <1>1, <2>1, WFMin
<1>3. \A y \in T : ~(y < x)
  <2>1. \A a, b \in Nat : a < b => <<a, b>> \in R
    BY DEF OpToRel
  <2> HIDE DEF T, R
  <2> QED
    BY <1>1, <1>2, <2>1
<1>4. k - x \in S /\ \A j \in S : j <= k - x
  BY <1>3
<1> QED
  BY <1>4 DEF LastOf

LEMMA LastPosition ==
    ASSUME NEW s \in Seq(ARow), NEW n, Positions(s, n) # {}
    PROVE  /\ LastOf(Positions(s, n)) \in Positions(s, n)
           /\ \A j \in Positions(s, n) : j <= LastOf(Positions(s, n))
<1>1. Len(s) \in Nat /\ Positions(s, n) \in SUBSET (1..Len(s))
  BY LenProperties DEF Positions
<1> QED
  BY <1>1, LastOfIsLast

\* ... and the only one that nothing follows.
LEMMA LastPositionIs ==
    ASSUME NEW s \in Seq(ARow), NEW n, NEW i \in Positions(s, n),
           \A j \in Positions(s, n) : j <= i
    PROVE  LastOf(Positions(s, n)) = i
<1>1. Positions(s, n) \subseteq Nat
  BY DEF Positions
<1> QED
  BY <1>1, LastPosition

\* Two batches one after the other are one batch.
LEMMA AppliedConcat ==
    ASSUME NEW c, NEW s \in Seq(ARow), NEW t \in Seq(ARow)
    PROVE  Applied(Applied(c, s), t) = Applied(c, s \o t)
<1> DEFINE u == s \o t
<1>1. /\ u \in Seq(ARow) /\ Len(u) = Len(s) + Len(t)
      /\ \A i \in 1..Len(s) : u[i] = s[i]
      /\ \A i \in 1..Len(t) : u[Len(s) + i] = t[i]
  BY ConcatProperties
<1> HIDE DEF u
<1>2. SUFFICES ASSUME NEW n \in Names
               PROVE  Applied(Applied(c, s), t)[n] = Applied(c, u)[n]
  BY DEF Applied, u
<1>3. CASE Positions(t, n) # {}
  <2> DEFINE l == LastOf(Positions(t, n))
  <2>1. l \in Positions(t, n) /\ \A j \in Positions(t, n) : j <= l
    BY <1>3, LastPosition
  <2> HIDE DEF l
  <2>2. Len(s) + l \in Positions(u, n)
    BY <1>1, <2>1 DEF Positions
  <2>3. ASSUME NEW j \in Positions(u, n) PROVE j <= Len(s) + l
    <3>1. j \in 1..(Len(s) + Len(t)) /\ u[j].name = n
      BY <1>1 DEF Positions
    <3>2. CASE j > Len(s)
      <4>1. j - Len(s) \in 1..Len(t) /\ u[Len(s) + (j - Len(s))] = t[j - Len(s)]
        BY <1>1, <3>1, <3>2
      <4>2. j - Len(s) \in Positions(t, n)
        BY <3>1, <4>1 DEF Positions
      <4> QED
        BY <2>1, <3>1, <4>2 DEF Positions
    <3> QED
      BY <2>1, <3>1, <3>2 DEF Positions
  <2>4. LastOf(Positions(u, n)) = Len(s) + l
    BY <1>1, <2>2, <2>3, LastPositionIs
  <2>5. Outcome(u, n) = Outcome(t, n)
    BY <1>1, <2>1, <2>4 DEF Outcome, Positions, l
  <2> QED
    BY <1>3, <2>2, <2>5 DEF Applied
<1>4. CASE Positions(t, n) = {}
  <2>1. Positions(u, n) = Positions(s, n)
    <3>1. ASSUME NEW j \in Positions(u, n) PROVE j \in Positions(s, n)
      <4>1. j \in 1..(Len(s) + Len(t)) /\ u[j].name = n
        BY <1>1 DEF Positions
      <4>2. CASE j > Len(s)
        <5>1. j - Len(s) \in 1..Len(t) /\ u[Len(s) + (j - Len(s))] = t[j - Len(s)]
          BY <1>1, <4>1, <4>2
        <5> QED
          BY <1>4, <4>1, <5>1 DEF Positions
      <4> QED
        BY <1>1, <4>1, <4>2 DEF Positions
    <3>2. Positions(s, n) \subseteq Positions(u, n)
      BY <1>1 DEF Positions
    <3> QED
      BY <3>1, <3>2
  <2>2. Positions(s, n) # {} => LastOf(Positions(s, n)) \in Positions(s, n)
    BY LastPosition
  <2>3. Positions(s, n) # {} => Outcome(u, n) = Outcome(s, n)
    BY <1>1, <2>1, <2>2 DEF Outcome, Positions
  <2> QED
    BY <1>4, <2>1, <2>3 DEF Applied
<1> QED
  BY <1>3, <1>4

\* One more row changes its resource only.
LEMMA AppliedAppend ==
    ASSUME NEW c, NEW s \in Seq(ARow), NEW x \in ARow
    PROVE  Applied(c, Append(s, x)) =
             [Applied(c, s) EXCEPT ![x.name] = IF x.op = "delete" THEN 0 ELSE x.revision]
<1>1. Append(s, x) = s \o <<x>> /\ <<x>> \in Seq(ARow)
  BY AppendIsConcat
<1>2. Applied(Applied(c, s), <<x>>) = Applied(c, s \o <<x>>)
  BY <1>1, AppliedConcat
<1>3. \A n \in Names : Positions(<<x>>, n) = IF n = x.name THEN {1} ELSE {}
  BY DEF Positions
<1>4. LastOf({1}) = 1
  BY DEF LastOf
<1>5. Outcome(<<x>>, x.name) = IF x.op = "delete" THEN 0 ELSE x.revision
  <2>1. Positions(<<x>>, x.name) = {1}
    BY <1>3 DEF ARow
  <2>2. LastOf(Positions(<<x>>, x.name)) = 1
    BY <2>1, <1>4
  <2> QED
    BY <2>2 DEF Outcome
<1>6. x.name \in Names /\ Positions(<<x>>, x.name) # {}
      /\ \A n \in Names \ {x.name} : Positions(<<x>>, n) = {}
  BY <1>3 DEF ARow
<1> QED
  BY <1>1, <1>2, <1>5, <1>6 DEF Applied

\* The log up to a revision and the rows after it.
LEMMA ToldFurther ==
    ASSUME BoxTypes, NEW e \in Epochs, NEW b \in 0..Len(log[e]), NEW a \in 0..b
    PROVE  Told(e, b) = Applied(Told(e, a), Rows(e, a, b))
<1>1. log[e] \in Seq(ARow)
  BY DEF BoxTypes
<1>2. Rows(e, 0, a) \in Seq(ARow) /\ Rows(e, a, b) \in Seq(ARow)
  BY <1>1, SubSeqProperties DEF Rows
<1>3. Rows(e, 0, a) \o Rows(e, a, b) = Rows(e, 0, b)
  BY <1>1, ConcatAdjacentSubSeq DEF Rows
<1>4. Applied(Applied(Absent, Rows(e, 0, a)), Rows(e, a, b))
        = Applied(Absent, Rows(e, 0, a) \o Rows(e, a, b))
  BY <1>2, AppliedConcat
<1> QED
  BY <1>3, <1>4 DEF Told

-----------------------------------------------------------------------------
(* Types.                                                                  *)

LEMMA NewestPoint ==
    ASSUME BoxTypes
    PROVE  Revision \in Nat /\ Newest \in APoint /\ After \in APoint
<1>1. log[epoch] \in Seq(ARow) /\ epoch \in Nat
  BY DEF BoxTypes, Epochs
<1> QED
  BY <1>1, LenProperties DEF Revision, Newest, After, Point, APoint

\* The rows of a page are rows of the log.
LEMMA RowsTypes ==
    ASSUME BoxTypes, NEW e \in Epochs, NEW a \in Nat, NEW b \in a..Len(log[e])
    PROVE  Rows(e, a, b) \in Seq(ARow) /\ Len(Rows(e, a, b)) = b - a
<1>1. log[e] \in Seq(ARow) /\ Len(log[e]) \in Nat
  BY LenProperties DEF BoxTypes
<1>2. \A i \in (a + 1)..b : log[e][i] \in ARow
  BY <1>1, ElementOfSeq
<1> QED
  BY <1>1, <1>2, SubSeqProperties DEF Rows

\* A change of the Box adds a row to the log of its epoch.
LEMMA ChangesTypes ==
    ASSUME BoxTypes, NEW n \in Names, NEW op \in {"upsert", "delete"}, Changes(n, op)
    PROVE  /\ BoxTypes'
           /\ epoch' = epoch
           /\ \E x \in ARow : /\ x = [revision |-> Revision + 1, name |-> n, op |-> op]
                              /\ log' = [log EXCEPT ![epoch] = Append(log[epoch], x)]
           /\ Newest' = After
           /\ \A e \in Epochs \ {epoch} : log'[e] = log[e]
<1> DEFINE x == [revision |-> Revision + 1, name |-> n, op |-> op]
<1>1. x \in ARow
  BY NewestPoint DEF ARow
<1>2. log' = [log EXCEPT ![epoch] = Append(log[epoch], x)] /\ epoch' = epoch
  BY DEF Changes
<1>3. log[epoch] \in Seq(ARow)
  BY DEF BoxTypes
<1>4. Append(log[epoch], x) \in Seq(ARow) /\ Len(Append(log[epoch], x)) = Revision + 1
  BY <1>1, <1>3, AppendProperties DEF Revision
<1> HIDE DEF x
<1>5. BoxTypes'
  BY <1>2, <1>4 DEF BoxTypes
<1>6. Newest' = After
  BY <1>2, <1>4 DEF Newest, After, Revision, BoxTypes
<1>7. \A e \in Epochs \ {epoch} : log'[e] = log[e]
  BY <1>2 DEF BoxTypes
<1> QED
  BY <1>1, <1>2, <1>5, <1>6, <1>7 DEF x

LEMMA ClearedTypes ==
    ASSUME TypeOK, Cleared
    PROVE  EntryTypes' /\ SyncTypes' /\ MirrorTypes'
<1>1. NoPoint \in APoint
  BY DEF NoPoint, Point, APoint
<1>2. EntryTypes'
  BY <1>1 DEF Cleared, EntryTypes, NoEntry
<1>3. SyncTypes'
  BY DEF Cleared, SyncTypes, Idle, NoAnswer
<1>4. MirrorTypes'
  BY <1>1 DEF Cleared, TypeOK, MirrorTypes, MarkedStale, NoMutation
<1> QED
  BY <1>2, <1>3, <1>4

LEMMA LeftTypes ==
    ASSUME ConnTypes, NEW open \in SUBSET Peers
    PROVE  Left(open) \in [Peers -> AConn] /\ Unread(open) \in [Peers -> Seq(APoint)]
<1>1. <<>> \in Seq(APoint)
  OBVIOUS
<1> QED
  BY <1>1 DEF ConnTypes, Left, Unread, AConn

LEMMA CompletesTypes ==
    ASSUME TypeOK, ops # <<>>, Completes(Head(ops))
    PROVE  /\ ops' \in Seq(ASync)
           /\ fetch' \in [whole : BOOLEAN, through : Nat, batch : Seq(ARow)]
           /\ mutation' \in [state : {"none", "asked", "done", "reconciling"}, at : APoint]
           /\ wrote' \in APoint
<1>1. Head(ops) \in ASync /\ Tail(ops) \in Seq(ASync)
  BY HeadTailProperties DEF TypeOK, SyncTypes
<1>2. NoPoint \in APoint
  BY DEF NoPoint, Point, APoint
<1>3. Idle \in [whole : BOOLEAN, through : Nat, batch : Seq(ARow)]
  BY DEF Idle
<1> QED
  BY <1>1, <1>2, <1>3 DEF Completes, TypeOK, MirrorTypes, ASync, NoMutation

\* A page tells rows of the Box's log.
LEMMA PageTypes ==
    ASSUME TypeOK, NEW after \in Nat, NEW through \in after..Revision
    PROVE  /\ Page(after, through).changes \in Seq(ARow)
           /\ Page(after, through) \in APage
           /\ Page(after, through).changes
                = Rows(epoch, after, after + Len(Page(after, through).changes))
           /\ after + Len(Page(after, through).changes) <= through
<1> DEFINE last == IF after + PageSize < through THEN after + PageSize ELSE through
<1>1. epoch \in Epochs /\ Revision \in Nat /\ PageSize \in Nat /\ BoxTypes
  BY NewestPoint, BoxInventoryAssumption DEF TypeOK, BoxTypes
<1>2. last \in after..Len(log[epoch]) /\ last <= through /\ last \in Nat
  BY <1>1 DEF Revision
<1>3. /\ Rows(epoch, after, last) \in Seq(ARow)
      /\ Len(Rows(epoch, after, last)) = last - after
  BY <1>1, <1>2, RowsTypes
<1>4. Page(after, through) =
        [kind |-> "page", through |-> through, changes |-> Rows(epoch, after, last)]
  BY DEF Page
<1> HIDE DEF last
<1> QED
  BY <1>1, <1>2, <1>3, <1>4 DEF APage, Revision

\* What the Box answers to a request for changes.
LEMMA AnswerTypes ==
    ASSUME TypeOK, PastInv, NEW p \in Peers, ~AsksForAll, ~Unavailable(mirror.at)
    PROVE  /\ mirror.at.revision + Len(fetch.batch) \in Nat
           /\ (IF fetch.batch = <<>> THEN Revision ELSE fetch.through)
                \in (mirror.at.revision + Len(fetch.batch))..Revision
<1>1. mirror.at.revision \in Nat /\ Len(fetch.batch) \in Nat /\ Revision \in Nat
      /\ fetch.through \in Nat
  BY NewestPoint, LenProperties DEF TypeOK, MirrorTypes, APoint, SyncTypes
<1>2. mirror.at.epoch = epoch /\ mirror.at.revision <= Revision
  BY <1>1 DEF Unavailable
<1>3. fetch.batch = <<>> => Len(fetch.batch) = 0
  OBVIOUS
<1> QED
  BY <1>1, <1>2, <1>3 DEF PastInv, BatchFollows, Revision

LEMMA TypesKept ==
    ASSUME TypeOK, PastInv, AnswerIsExpected, Next
    PROVE  TypeOK'
<1> USE DEF TypeOK
<1> DEFINE Fetches == [whole : BOOLEAN, through : Nat, batch : Seq(ARow)]
<1>f. Idle \in Fetches /\ [Idle EXCEPT !.whole = TRUE] \in Fetches
  <2>1. <<>> \in Seq(ARow)
    OBVIOUS
  <2> QED
    BY <2>1 DEF Idle
<1>0. NoPoint \in APoint /\ NoPoint \in [epoch : Nat, revision : Nat]
  BY DEF NoPoint, Point, APoint
<1>1. ASSUME NEW n \in Names, NEW op \in {"upsert", "delete"},
             BoxChanges(n, op) \/ BoxMutates(n, op)
      PROVE  TypeOK'
  <2>1. Changes(n, op) /\ After \in APoint /\ BoxTypes'
    BY <1>1, ChangesTypes, NewestPoint DEF BoxChanges, BoxMutates
  <2>2. ASSUME NEW p, Hints(p) PROVE hints' \in [Peers -> Seq(APoint)]
    BY <2>1, <2>2, AppendProperties DEF Hints, ConnTypes
  <2>3. ConnTypes'
    BY <1>1, <2>2 DEF BoxChanges, BoxMutates, ConnTypes
  <2>4. EntryTypes' /\ SyncTypes'
    BY <1>1 DEF BoxChanges, BoxMutates, EntryTypes, SyncTypes
  <2>5. MirrorTypes'
    BY <1>1, <2>1 DEF BoxChanges, BoxMutates, MirrorTypes
  <2> QED
    BY <2>1, <2>3, <2>4, <2>5
<1>2. CASE BoxStartsAnew
  <2>1. epoch + 1 \in Epochs
    BY <1>2, BoxInventoryAssumption DEF BoxStartsAnew, BoxTypes, Epochs
  <2> QED
    BY <1>2, <2>1 DEF BoxStartsAnew, BoxTypes, connVars, ConnTypes, EntryTypes, SyncTypes,
                      MirrorTypes
<1>3. ASSUME NEW i \in Instances, ReportsUpgrade(i)
      PROVE  TypeOK'
  <2>1. ConnTypes'
    <3>1. Opened \ {entry.peer} \in SUBSET Peers
      BY DEF Opened
    <3>2. accepted' = i /\ Keeps(Opened \ {entry.peer})
      BY <1>3 DEF ReportsUpgrade
    <3> QED
      BY <3>1, <3>2, LeftTypes DEF Keeps, ConnTypes
  <2> QED
    BY <1>3, <2>1, ClearedTypes DEF ReportsUpgrade, boxVars, BoxTypes
<1>4. ASSUME NEW i \in Instances, NEW p \in Peers, Handshake(p, i)
      PROVE  TypeOK'
  <2>1. ConnTypes'
    <3>1. Opened \ Fenced(p) \in SUBSET Peers
      BY DEF Opened
    <3>2. Left(Opened \ Fenced(p)) \in [Peers -> AConn]
          /\ Unread(Opened \ Fenced(p)) \in [Peers -> Seq(APoint)]
      BY <3>1, LeftTypes
    <3> QED
      BY <1>4, <3>2 DEF Handshake, ConnTypes, AConn
  <2>2. CASE Cleared
    BY <1>4, <2>1, <2>2, ClearedTypes DEF Handshake, boxVars, BoxTypes
  <2>3. CASE UNCHANGED <<entry, ops, fetch, answer, mirror, mutation, wrote>>
    BY <1>4, <2>1, <2>3 DEF Handshake, boxVars, BoxTypes, EntryTypes, SyncTypes, MirrorTypes
  <2> QED
    BY <1>4, <2>2, <2>3 DEF Handshake
<1>5. ASSUME NEW p \in Peers, Disconnects(p)
      PROVE  TypeOK'
  <2>1. ConnTypes'
    <3>1. Opened \ {p} \in SUBSET Peers
      BY DEF Opened
    <3> QED
      BY <1>5, <3>1, LeftTypes DEF Disconnects, Keeps, ConnTypes
  <2>2. CASE Cleared
    BY <1>5, <2>1, <2>2, ClearedTypes DEF Disconnects, boxVars, BoxTypes
  <2>3. CASE UNCHANGED <<entry, ops, fetch, answer, mirror, mutation, wrote>>
    BY <1>5, <2>1, <2>3 DEF Disconnects, boxVars, BoxTypes, EntryTypes, SyncTypes, MirrorTypes
  <2> QED
    BY <1>5, <2>2, <2>3 DEF Disconnects
<1>6. CASE Crashes
  <2>1. ConnTypes'
    BY <1>6, LeftTypes DEF Crashes, Keeps, ConnTypes
  <2> QED
    BY <1>0, <1>6, <2>1 DEF Crashes, boxVars, BoxTypes, EntryTypes, SyncTypes, MirrorTypes,
                            NoEntry, Idle, NoAnswer, NoMutation
<1>7. ASSUME NEW p \in Peers, Register(p)
      PROVE  TypeOK'
  <2>1. EntryTypes'
    BY <1>0, <1>7 DEF Register, EntryTypes, NoEntry
  <2>2. ops' \in Seq(ASync)
    <3>1. Sync("initial", NoPoint) \in ASync
      BY <1>0 DEF Sync, ASync
    <3> QED
      BY <1>7, <3>1 DEF Register
  <2>3. MirrorTypes'
    BY <1>7 DEF Register, MirrorTypes, MarkedStale
  <2> QED
    BY <1>7, <2>1, <2>2, <2>3 DEF Register, boxVars, connVars, BoxTypes, ConnTypes, SyncTypes
<1>8. ASSUME NEW p \in Peers, MarkReady(p)
      PROVE  TypeOK'
  BY <1>8 DEF MarkReady, boxVars, connVars, BoxTypes, ConnTypes, EntryTypes, SyncTypes, MirrorTypes
<1>9. ASSUME NEW p \in Peers, BoxAnswers(p)
      PROVE  TypeOK'
  <2>1. SyncTypes'
    <3>1. CASE AsksForAll
      BY <1>9, <3>1, NewestPoint DEF BoxAnswers, Answer, SnapshotOf, SyncTypes
    <3>2. CASE ~AsksForAll /\ Unavailable(mirror.at)
      BY <1>9, <3>2 DEF BoxAnswers, Answer, Resync, SyncTypes
    <3>3. CASE ~AsksForAll /\ ~Unavailable(mirror.at)
      <4> DEFINE after == mirror.at.revision + Len(fetch.batch)
                 through == IF fetch.batch = <<>> THEN Revision ELSE fetch.through
      <4>1. after \in Nat /\ through \in after..Revision
        BY <3>3, AnswerTypes
      <4>2. answer' = Page(after, through)
        BY <1>9, <3>3 DEF BoxAnswers, Answer
      <4> HIDE DEF after, through
      <4>3. answer' \in APage
        BY <4>1, <4>2, PageTypes
      <4> QED
        BY <1>9, <4>3 DEF BoxAnswers, SyncTypes, APage
    <3> QED
      BY <3>1, <3>2, <3>3
  <2> QED
    BY <1>9, <2>1 DEF BoxAnswers, boxVars, connVars, BoxTypes, ConnTypes, EntryTypes, MirrorTypes
<1>10. ASSUME NEW p \in Peers, HintArrives(p)
       PROVE  TypeOK'
  <2>1. Head(hints[p]) \in APoint /\ Tail(hints[p]) \in Seq(APoint)
    BY <1>10, HeadTailProperties DEF HintArrives, ConnTypes
  <2>2. EntryTypes'
    BY <1>10, <2>1 DEF HintArrives, EntryTypes
  <2>3. ConnTypes'
    BY <1>10, <2>1 DEF HintArrives, ConnTypes
  <2> QED
    BY <1>10, <2>2, <2>3 DEF HintArrives, boxVars, BoxTypes, SyncTypes, MirrorTypes
<1>11. CASE Mutate \/ MutationFails
  BY <1>0, <1>11 DEF Mutate, MutationFails, boxVars, connVars, BoxTypes, ConnTypes, EntryTypes,
                     SyncTypes, MirrorTypes, NoMutation
<1>12. CASE ResultArrives
  <2>1. Sync("mutation", mutation.at) \in ASync
    BY DEF Sync, ASync, MirrorTypes
  <2>2. Append(ops, Sync("mutation", mutation.at)) \in Seq(ASync)
    BY <2>1, AppendProperties DEF SyncTypes
  <2> QED
    BY <1>12, <2>2 DEF ResultArrives, boxVars, connVars, BoxTypes, ConnTypes, EntryTypes,
                       SyncTypes, MirrorTypes
<1>13. CASE TimerFires
  <2> DEFINE x == Sync(entry.timer, IF entry.timer = "hint" THEN entry.hint ELSE NoPoint)
  <2>1. x \in ASync
    BY <1>0, <1>13 DEF TimerFires, Sync, ASync, EntryTypes
  <2>2. Append(ops, x) \in Seq(ASync)
    BY <2>1, AppendProperties DEF SyncTypes
  <2>3. EntryTypes'
    BY <1>0, <1>13 DEF TimerFires, EntryTypes
  <2> QED
    BY <1>13, <2>2, <2>3 DEF TimerFires, boxVars, connVars, BoxTypes, ConnTypes, SyncTypes,
                             MirrorTypes
<1>14. CASE SyncFails
  <2>1. CASE Cleared
    BY <1>14, <2>1, ClearedTypes DEF SyncFails, boxVars, connVars, BoxTypes, ConnTypes
  <2>2. CASE /\ Completes(Head(ops))
             /\ mirror' = MarkedStale
             /\ entry' = Rescheduled(Head(ops), entry)
             /\ answer' = NoAnswer
    <3>1. EntryTypes'
      BY <2>2 DEF Rescheduled, WithPoll, EntryTypes
    <3>2. MirrorTypes' /\ SyncTypes'
      BY <1>14, <2>2, CompletesTypes DEF SyncFails, MirrorTypes, SyncTypes, MarkedStale, NoAnswer
    <3> QED
      BY <1>14, <3>1, <3>2 DEF SyncFails, boxVars, connVars, BoxTypes, ConnTypes
  <2> QED
    BY <1>14, <2>1, <2>2 DEF SyncFails
<1>15. CASE SnapshotArrives /\ ops # <<>>
  <2>1. Completes(Head(ops))
    BY <1>15 DEF SnapshotArrives
  <2>2. EntryTypes'
    BY <1>0, <1>15 DEF SnapshotArrives, Rescheduled, WithPoll, EntryTypes
  <2>3. MirrorTypes' /\ SyncTypes'
    BY <1>15, <2>1, CompletesTypes DEF SnapshotArrives, Replaced, MirrorTypes, SyncTypes, NoAnswer
  <2> QED
    BY <1>15, <2>2, <2>3 DEF SnapshotArrives, boxVars, connVars, BoxTypes, ConnTypes
<1>16. CASE PageArrives /\ ops # <<>>
  <2> DEFINE batch == fetch.batch \o answer.changes
             reached == mirror.at.revision + Len(batch)
  <2>1. batch \in Seq(ARow) /\ reached \in Nat /\ answer.through \in Nat
    <3>1. answer.changes \in Seq(ARow) /\ answer.through \in Nat
      BY <1>16 DEF PageArrives, SyncTypes, APage
    <3>2. batch \in Seq(ARow)
      BY <3>1, ConcatProperties DEF SyncTypes
    <3> HIDE DEF batch
    <3> QED
      BY <3>1, <3>2, LenProperties DEF MirrorTypes, APoint
  <2> HIDE DEF batch
  <2>2. CASE /\ mirror' = Extended(Point(mirror.at.epoch, reached), batch)
             /\ \/ Completes(Head(ops)) /\ entry' = Rescheduled(Head(ops), entry)
                \/ fetch' = Idle /\ UNCHANGED <<entry, ops, mutation, wrote>>
    <3>1. EntryTypes'
      BY <2>2 DEF Rescheduled, WithPoll, EntryTypes
    <3>2. SyncTypes' /\ mutation' \in [state : {"none", "asked", "done", "reconciling"},
                                       at : APoint] /\ wrote' \in APoint
      BY <1>16, <1>f, <2>2, CompletesTypes DEF PageArrives, SyncTypes, MirrorTypes, NoAnswer
    <3>3. MirrorTypes'
      BY <2>1, <2>2, <3>2 DEF Extended, Point, APoint, MirrorTypes
    <3> QED
      BY <1>16, <3>1, <3>2, <3>3 DEF PageArrives, boxVars, connVars, BoxTypes, ConnTypes
  <2>3. CASE /\ \/ fetch' = [fetch EXCEPT !.batch = batch, !.through = answer.through]
                \/ fetch' = [Idle EXCEPT !.whole = TRUE]
             /\ UNCHANGED <<entry, ops, mirror, mutation, wrote>>
    <3>1. fetch' \in Fetches
      BY <1>f, <2>1, <2>3 DEF SyncTypes
    <3>2. SyncTypes'
      BY <1>16, <2>3, <3>1 DEF PageArrives, SyncTypes, NoAnswer
    <3> QED
      BY <1>16, <2>3, <3>2 DEF PageArrives, boxVars, connVars, BoxTypes, ConnTypes, EntryTypes,
                               MirrorTypes
  <2> QED
    BY <1>16, <2>2, <2>3 DEF PageArrives, batch
<1>17. CASE ResyncArrives
  BY <1>17, <1>f DEF ResyncArrives, boxVars, connVars, BoxTypes, ConnTypes, EntryTypes,
                     SyncTypes, MirrorTypes, NoAnswer
<1>18. answer.kind \in {"snapshot", "page"} => ops # <<>>
  BY DEF AnswerIsExpected
<1> QED
  BY <1>1, <1>2, <1>3, <1>4, <1>5, <1>6, <1>7, <1>8, <1>9, <1>10, <1>11, <1>12, <1>13, <1>14,
     <1>15, <1>16, <1>17, <1>18 DEF Next, AnswerArrives, SnapshotArrives, PageArrives

-----------------------------------------------------------------------------
(* The mirror is a past state of the Box.                                  *)

\* The Box moves on without rewriting its past.
Grows ==
    /\ epoch <= epoch'
    /\ \A e \in Epochs : \A a, b \in Nat :
           b <= Len(log[e]) => b <= Len(log'[e]) /\ Rows(e, a, b)' = Rows(e, a, b)

LEMMA ChangesGrow ==
    ASSUME TypeOK, NEW n \in Names, NEW op \in {"upsert", "delete"}, Changes(n, op)
    PROVE  Grows
<1>1. PICK x \in ARow : log' = [log EXCEPT ![epoch] = Append(log[epoch], x)]
  BY ChangesTypes DEF TypeOK
<1>2. epoch' = epoch /\ epoch \in Nat
  BY ChangesTypes DEF TypeOK, BoxTypes, Epochs
<1>3. ASSUME NEW e \in Epochs, NEW a \in Nat, NEW b \in Nat, b <= Len(log[e])
      PROVE  b <= Len(log'[e]) /\ Rows(e, a, b)' = Rows(e, a, b)
  <2>1. log[e] \in Seq(ARow) /\ Len(log[e]) \in Nat
    BY LenProperties DEF TypeOK, BoxTypes
  <2>2. CASE e = epoch
    <3> DEFINE t == Append(log[e], x)
    <3>1. log'[e] = t
      BY <1>1, <2>2 DEF TypeOK, BoxTypes
    <3>2. t \in Seq(ARow) /\ Len(t) = Len(log[e]) + 1 /\ \A i \in 1..Len(log[e]) : t[i] = log[e][i]
      BY <2>1, AppendProperties
    <3> HIDE DEF t
    <3>3. /\ \A i \in (a + 1)..b : t[i] \in ARow /\ log[e][i] \in ARow /\ t[i] = log[e][i]
      BY <1>3, <2>1, <3>2, ElementOfSeq
    <3>4. /\ SubSeq(t, a + 1, b) \in Seq(ARow)
          /\ Len(SubSeq(t, a + 1, b)) = IF a + 1 <= b THEN b - (a + 1) + 1 ELSE 0
          /\ \A i \in 1..(b - (a + 1) + 1) : SubSeq(t, a + 1, b)[i] = t[a + 1 + i - 1]
      BY <3>3, SubSeqProperties
    <3>5. /\ SubSeq(log[e], a + 1, b) \in Seq(ARow)
          /\ Len(SubSeq(log[e], a + 1, b)) = IF a + 1 <= b THEN b - (a + 1) + 1 ELSE 0
          /\ \A i \in 1..(b - (a + 1) + 1) : SubSeq(log[e], a + 1, b)[i] = log[e][a + 1 + i - 1]
      BY <3>3, SubSeqProperties
    <3>6. \A i \in 1..(b - (a + 1) + 1) : a + 1 + i - 1 \in (a + 1)..b
      OBVIOUS
    <3>7. SubSeq(t, a + 1, b) = SubSeq(log[e], a + 1, b)
      BY <3>3, <3>4, <3>5, <3>6, SeqEqual
    <3> QED
      BY <1>3, <2>1, <3>1, <3>2, <3>7 DEF Rows
  <2>3. CASE e # epoch
    BY <1>1, <1>3, <2>3 DEF TypeOK, BoxTypes, Rows
  <2> QED
    BY <2>2, <2>3
<1> QED
  BY <1>2, <1>3 DEF Grows

\* The Box's tables follow its log.
LEMMA TablesFollow ==
    ASSUME TypeOK, MirrorIsPast, NEW n \in Names, NEW op \in {"upsert", "delete"},
           Changes(n, op)
    PROVE  resources' = Told(epoch, Revision)'
<1> DEFINE x == [revision |-> Revision + 1, name |-> n, op |-> op]
<1>1. x \in ARow /\ log' = [log EXCEPT ![epoch] = Append(log[epoch], x)] /\ epoch' = epoch
  BY ChangesTypes DEF TypeOK
<1>2. log[epoch] \in Seq(ARow) /\ epoch \in Epochs
  BY DEF TypeOK, BoxTypes
<1>3. log'[epoch] = Append(log[epoch], x)
  BY <1>1, <1>2 DEF TypeOK, BoxTypes
<1>4. Append(log[epoch], x) \in Seq(ARow)
  BY <1>1, <1>2, AppendProperties
<1>5. Told(epoch, Revision) = Applied(Absent, log[epoch])
  <2>1. SubSeq(log[epoch], 0 + 1, Len(log[epoch])) = log[epoch]
    BY <1>2, SubSeqFull
  <2> QED
    BY <2>1 DEF Told, Rows, Revision
<1>6. Told(epoch, Revision)' = Applied(Absent, Append(log[epoch], x))
  <2>1. SubSeq(Append(log[epoch], x), 0 + 1, Len(Append(log[epoch], x)))
          = Append(log[epoch], x)
    BY <1>4, SubSeqFull
  <2> HIDE DEF x
  <2> QED
    BY <1>1, <1>3, <2>1 DEF Told, Rows, Revision
<1>7. resources = Applied(Absent, log[epoch])
  BY <1>5 DEF MirrorIsPast
<1>8. resources' = [resources EXCEPT ![x.name] = IF x.op = "delete" THEN 0 ELSE x.revision]
  BY DEF Changes
<1> HIDE DEF x
<1> QED
  BY <1>1, <1>2, <1>6, <1>7, <1>8, AppliedAppend

LEMMA PastGrows ==
    ASSUME TypeOK, PastInv, Grows, UNCHANGED <<fetch, answer, mirror>>,
           resources' = Told(epoch, Revision)', LaterEpochsAreEmpty', epoch' \in Epochs
    PROVE  PastInv'
<1>0. /\ epoch \in Nat /\ epoch' \in Nat /\ epoch <= MaxEpoch /\ epoch' <= MaxEpoch
      /\ MaxEpoch \in Nat /\ epoch <= epoch'
  BY BoxInventoryAssumption DEF TypeOK, BoxTypes, Epochs, Grows
<1>m. mirror.at # NoPoint => mirror.at.epoch \in Epochs /\ mirror.at.revision \in Nat
  BY <1>0 DEF PastInv, MirrorIsPast, TypeOK, MirrorTypes, APoint, Epochs
<1>1. ASSUME NEW at \in APoint, NEW content, IsMoment(at, content)
      PROVE  IsMoment(at, content)'
  <2>1. at.epoch \in Epochs /\ at.revision \in Nat /\ at.epoch \in 1..epoch'
    BY <1>0, <1>1 DEF IsMoment, APoint, Epochs
  <2>2. at.revision <= Len(log'[at.epoch])
        /\ Rows(at.epoch, 0, at.revision)' = Rows(at.epoch, 0, at.revision)
    BY <1>1, <2>1 DEF IsMoment, Grows
  <2> QED
    BY <1>1, <2>1, <2>2 DEF IsMoment, Told
<1>2. MirrorIsPast'
  <2>1. mirror.at # NoPoint => IsMoment(mirror.at, mirror.content)
    BY DEF PastInv, MirrorIsPast, IsMoment
  <2>2. mirror.at # NoPoint => IsMoment(mirror.at, mirror.content)'
    BY <1>1, <2>1 DEF TypeOK, MirrorTypes
  <2> QED
    BY <2>2 DEF MirrorIsPast, IsMoment
<1>3. SnapshotIsPast'
  BY <1>1 DEF PastInv, SnapshotIsPast, TypeOK, SyncTypes
<1>4. ASSUME NEW rows \in Seq(ARow), NEW n0 \in Nat, mirror.at # NoPoint, Follow(rows, n0)
      PROVE  Follow(rows, n0)'
  <2> DEFINE e == mirror.at.epoch
             r == mirror.at.revision + n0
             l == r + Len(rows)
  <2>1. e \in Epochs /\ r \in Nat /\ l \in Nat
    BY <1>m, <1>4, LenProperties
  <2>2. l <= Len(log[e]) /\ rows = Rows(e, r, l)
    BY <1>4 DEF Follow
  <2>3. mirror' = mirror
    OBVIOUS
  <2> HIDE DEF e, r, l
  <2>4. \A f \in Epochs : \A a, b \in Nat :
          b <= Len(log[f]) => /\ b <= Len(log'[f])
                              /\ SubSeq(log'[f], a + 1, b) = SubSeq(log[f], a + 1, b)
    BY DEF Grows, Rows
  <2>5. l <= Len(log'[e]) /\ SubSeq(log'[e], r + 1, l) = SubSeq(log[e], r + 1, l)
    BY <2>1, <2>2, <2>4
  <2> QED
    BY <2>2, <2>3, <2>5 DEF Follow, Rows, e, r, l
<1>5. ASSUME mirror.at # NoPoint, NEW b \in Nat, b <= Len(log[mirror.at.epoch])
      PROVE  b <= Len(log'[mirror.at.epoch])
  BY <1>m, <1>5 DEF Grows
<1>6. BatchFollows'
  BY <1>4, <1>5 DEF PastInv, BatchFollows, TypeOK, SyncTypes
<1>7. PageFollows'
  <2>1. Len(fetch.batch) \in Nat
    BY LenProperties DEF TypeOK, SyncTypes
  <2> QED
    BY <1>4, <1>5, <2>1 DEF PastInv, PageFollows, TypeOK, SyncTypes, APage
<1> QED
  BY <1>2, <1>3, <1>6, <1>7 DEF PastInv

\* The server moves on without touching the mirror's moment.
LEMMA PastStays ==
    ASSUME PastInv, UNCHANGED boxVars,
           mirror'.at = mirror.at, mirror'.content = mirror.content,
           answer' = answer \/ answer'.kind \in {"none", "resync"},
           fetch' = fetch \/ (fetch'.batch = <<>> /\ answer'.kind \in {"none", "resync"})
    PROVE  PastInv'
<1>1. LaterEpochsAreEmpty' /\ MirrorIsPast'
  BY DEF PastInv, LaterEpochsAreEmpty, MirrorIsPast, boxVars, Told, Rows, Revision
<1>2. SnapshotIsPast'
  BY DEF PastInv, SnapshotIsPast, IsMoment, boxVars, Told, Rows
<1>3. BatchFollows'
  BY DEF PastInv, BatchFollows, Follow, boxVars, Rows
<1>4. PageFollows'
  BY DEF PastInv, PageFollows, Follow, boxVars, Rows
<1> QED
  BY <1>1, <1>2, <1>3, <1>4 DEF PastInv

LEMMA PastCleared ==
    ASSUME PastInv, UNCHANGED boxVars, Cleared
    PROVE  PastInv'
<1>1. mirror'.at = mirror.at /\ mirror'.content = mirror.content
  BY DEF Cleared, MarkedStale
<1>2. answer'.kind = "none" /\ fetch'.batch = <<>>
  BY DEF Cleared, NoAnswer, Idle
<1> QED
  BY <1>1, <1>2, PastStays

\* The batch and the page after it are rows that follow the mirror.
LEMMA BatchFurther ==
    ASSUME TypeOK, PastInv, answer.kind = "page"
    PROVE  LET batch == fetch.batch \o answer.changes
           IN  /\ mirror.at # NoPoint
               /\ batch \in Seq(ARow)
               /\ Len(batch) = Len(fetch.batch) + Len(answer.changes)
               /\ Follow(batch, 0)
               /\ mirror.at.revision + Len(batch) <= answer.through
               /\ answer.through <= Len(log[mirror.at.epoch])
<1> DEFINE e == mirror.at.epoch
           r == mirror.at.revision
           a == fetch.batch
           b == answer.changes
<1>1. a \in Seq(ARow) /\ b \in Seq(ARow) /\ Len(a) \in Nat /\ Len(b) \in Nat
  BY LenProperties DEF TypeOK, SyncTypes, APage
<1>2. /\ mirror.at # NoPoint
      /\ Follow(b, Len(a))
      /\ r + Len(a) + Len(b) <= answer.through
      /\ answer.through <= Len(log[e])
  BY DEF PastInv, PageFollows
<1>3. e \in Epochs /\ r \in Nat /\ log[e] \in Seq(ARow) /\ Len(log[e]) \in Nat
  <2>1. MaxEpoch \in Nat
    BY BoxInventoryAssumption
  <2>2. e \in Epochs /\ r \in Nat
    BY <1>2, <2>1 DEF PastInv, MirrorIsPast, TypeOK, MirrorTypes, BoxTypes, APoint, Epochs
  <2> QED
    BY <2>2, LenProperties DEF TypeOK, BoxTypes
<1>4. b = SubSeq(log[e], r + Len(a) + 1, r + Len(a) + Len(b)) /\ r + Len(a) + Len(b) <= Len(log[e])
  BY <1>2 DEF Follow, Rows
<1>5. a = SubSeq(log[e], r + 1, r + Len(a))
  <2>1. CASE a = <<>>
    <3>1. SubSeq(log[e], r + 1, r) = <<>>
      BY <1>3, SubSeqProperties
    <3> QED
      BY <1>3, <2>1, <3>1
  <2>2. CASE a # <<>>
    BY <1>1, <1>3, <2>2 DEF PastInv, BatchFollows, Follow, Rows
  <2> QED
    BY <2>1, <2>2
<1>6. a \o b \in Seq(ARow) /\ Len(a \o b) = Len(a) + Len(b)
  BY <1>1, ConcatProperties
<1>t. answer.through \in Nat
  BY DEF TypeOK, SyncTypes, APage
<1> HIDE DEF a, b, e, r
<1>7. SubSeq(log[e], r + 1, r + Len(a)) \o SubSeq(log[e], r + Len(a) + 1, r + Len(a) + Len(b))
        = SubSeq(log[e], r + 1, r + Len(a) + Len(b))
  <2> DEFINE m == r + Len(a)
             n == r + Len(a) + Len(b)
  <2>1. /\ r + 1 \in 1..(Len(log[e]) + 1)
        /\ m \in (r + 1 - 1)..Len(log[e])
        /\ n \in m..Len(log[e])
    BY <1>1, <1>3, <1>4
  <2> HIDE DEF m, n
  <2>2. SubSeq(log[e], r + 1, m) \o SubSeq(log[e], m + 1, n) = SubSeq(log[e], r + 1, n)
    BY <1>3, <2>1, ConcatAdjacentSubSeq
  <2> QED
    BY <2>2 DEF m, n
<1>8. Follow(a \o b, 0)
  <2>1. r + 0 = r /\ r + Len(a \o b) = r + Len(a) + Len(b)
    BY <1>1, <1>3, <1>6
  <2>2. a \o b = SubSeq(log[e], r + 1, r + Len(a \o b))
    BY <1>4, <1>5, <1>7, <2>1
  <2>3. r + Len(a \o b) <= Len(log[e])
    BY <1>4, <2>1
  <2> HIDE DEF a, b
  <2> QED
    BY <2>1, <2>2, <2>3 DEF Follow, Rows, e, r
<1>9. r + Len(a \o b) <= answer.through
  BY <1>1, <1>2, <1>3, <1>6, <1>t
<1> QED
  BY <1>2, <1>6, <1>8, <1>9 DEF a, b, e, r

LEMMA PastKept ==
    ASSUME TypeOK, PastInv, AnswerIsExpected, Next
    PROVE  PastInv'
<1>1. ASSUME NEW n \in Names, NEW op \in {"upsert", "delete"},
             BoxChanges(n, op) \/ BoxMutates(n, op)
      PROVE  PastInv'
  <2>1. Changes(n, op) /\ UNCHANGED <<fetch, answer, mirror>>
    BY <1>1 DEF BoxChanges, BoxMutates
  <2>2. epoch' = epoch /\ epoch' \in Epochs /\ \A e \in Epochs \ {epoch} : log'[e] = log[e]
    BY <2>1, ChangesTypes DEF TypeOK, BoxTypes
  <2>3. LaterEpochsAreEmpty'
    BY <2>2 DEF PastInv, LaterEpochsAreEmpty, Epochs
  <2> QED
    BY <2>1, <2>2, <2>3, ChangesGrow, TablesFollow, PastGrows DEF PastInv
<1>2. CASE BoxStartsAnew
  <2>1. epoch + 1 \in Epochs /\ epoch' = epoch + 1 /\ log' = log /\ resources' = Absent
    BY <1>2, BoxInventoryAssumption DEF BoxStartsAnew, TypeOK, BoxTypes, Epochs
  <2>2. Grows
    BY <2>1 DEF Grows, Rows, TypeOK, BoxTypes, Epochs
  <2>3. log[epoch + 1] = <<>>
    BY <2>1 DEF PastInv, LaterEpochsAreEmpty, TypeOK, BoxTypes, Epochs
  <2>4. Applied(Absent, <<>>) = Absent
    <3>1. \A n \in Names : Positions(<<>>, n) = {}
      BY DEF Positions
    <3> QED
      BY <3>1 DEF Applied, Absent
  <2>5. SubSeq(<<>>, 0 + 1, Len(<<>>)) = <<>>
    OBVIOUS
  <2>6. resources' = Told(epoch, Revision)'
    BY <2>1, <2>3, <2>4, <2>5 DEF Told, Revision, Rows
  <2>7. LaterEpochsAreEmpty'
    BY <2>1 DEF PastInv, LaterEpochsAreEmpty, TypeOK, BoxTypes, Epochs
  <2> QED
    BY <1>2, <2>1, <2>2, <2>6, <2>7, PastGrows DEF BoxStartsAnew
<1>3. ASSUME NEW i \in Instances, ReportsUpgrade(i)
      PROVE  PastInv'
  BY <1>3, PastCleared DEF ReportsUpgrade, boxVars
<1>4. ASSUME NEW i \in Instances, NEW p \in Peers, Handshake(p, i)
      PROVE  PastInv'
  BY <1>4, PastCleared, PastStays DEF Handshake, boxVars
<1>5. ASSUME NEW p \in Peers, Disconnects(p)
      PROVE  PastInv'
  BY <1>5, PastCleared, PastStays DEF Disconnects, boxVars
<1>6. ASSUME NEW p \in Peers, Register(p) \/ MarkReady(p) \/ HintArrives(p)
      PROVE  PastInv'
  <2>1. UNCHANGED <<boxVars, fetch, answer>> /\ (mirror' = mirror \/ mirror' = MarkedStale)
    BY <1>6 DEF Register, MarkReady, HintArrives
  <2>2. mirror'.at = mirror.at /\ mirror'.content = mirror.content
    BY <2>1 DEF MarkedStale, TypeOK, MirrorTypes
  <2> QED
    BY <2>1, <2>2, PastStays
<1>7. ASSUME NEW p \in Peers, BoxAnswers(p)
      PROVE  PastInv'
  <2>0. /\ UNCHANGED <<boxVars, fetch, mirror>>
        /\ answer' = Answer(p)
    BY <1>7 DEF BoxAnswers
  <2>1. CASE AsksForAll
    <3>1. answer' = SnapshotOf(p)
      BY <2>0, <2>1 DEF Answer
    <3>2. LaterEpochsAreEmpty' /\ MirrorIsPast' /\ BatchFollows'
      BY <2>0 DEF PastInv, LaterEpochsAreEmpty, MirrorIsPast, BatchFollows, Follow, boxVars,
                  Told, Rows, Revision
    <3>3. SnapshotIsPast'
      <4>1. epoch \in 1..epoch /\ Revision <= Len(log[epoch]) /\ resources = Told(epoch, Revision)
        BY NewestPoint DEF PastInv, MirrorIsPast, TypeOK, BoxTypes, Epochs, Revision
      <4> QED
        BY <2>0, <3>1, <4>1 DEF SnapshotIsPast, SnapshotOf, IsMoment, Newest, Point, boxVars,
                                Told, Rows
    <3>4. PageFollows'
      BY <3>1 DEF PageFollows, SnapshotOf
    <3> QED
      BY <3>2, <3>3, <3>4 DEF PastInv
  <2>2. CASE ~AsksForAll /\ Unavailable(mirror.at)
    BY <2>0, <2>2, PastStays DEF Answer, Resync, boxVars
  <2>3. CASE ~AsksForAll /\ ~Unavailable(mirror.at)
    <3> DEFINE after == mirror.at.revision + Len(fetch.batch)
               through == IF fetch.batch = <<>> THEN Revision ELSE fetch.through
    <3>1. answer' = Page(after, through)
      BY <2>0, <2>3 DEF Answer
    <3>2. after \in Nat /\ through \in after..Revision
      BY <2>3, AnswerTypes
    <3>3. mirror.at # NoPoint /\ mirror.at.epoch = epoch
      BY <2>3 DEF AsksForAll, Unavailable
    <3>4. Revision \in Nat /\ Revision = Len(log[epoch])
      BY NewestPoint DEF TypeOK, Revision
    <3> HIDE DEF after, through
    <3>5. /\ Page(after, through) \in APage
          /\ Page(after, through).changes
               = Rows(epoch, after, after + Len(Page(after, through).changes))
          /\ after + Len(Page(after, through).changes) <= through
      BY <3>2, PageTypes
    <3>6. Page(after, through).through = through /\ Page(after, through).kind = "page"
      BY DEF Page
    <3>7. Len(Page(after, through).changes) \in Nat
      BY <3>5, LenProperties DEF APage
    <3>8. LaterEpochsAreEmpty' /\ MirrorIsPast' /\ BatchFollows'
      BY <2>0 DEF PastInv, LaterEpochsAreEmpty, MirrorIsPast, BatchFollows, Follow, boxVars,
                  Told, Rows, Revision
    <3>9. SnapshotIsPast'
      BY <3>1, <3>6 DEF SnapshotIsPast
    <3>10. PageFollows'
      <4> DEFINE page == Page(after, through)
      <4>1. /\ mirror.at # NoPoint
            /\ after + Len(page.changes) <= Len(log[epoch])
            /\ page.changes = Rows(epoch, after, after + Len(page.changes))
            /\ after + Len(page.changes) <= page.through
            /\ page.through <= Len(log[epoch])
        BY <3>2, <3>3, <3>4, <3>5, <3>6, <3>7
      <4> HIDE DEF page
      <4> QED
        BY <2>0, <3>1, <3>3, <4>1 DEF PageFollows, Follow, boxVars, Rows, page, after
    <3> QED
      BY <3>8, <3>9, <3>10 DEF PastInv
  <2> QED
    BY <2>1, <2>2, <2>3
<1>8. CASE Crashes
  BY <1>8, PastStays DEF Crashes, Idle, NoAnswer, boxVars
<1>9. CASE Mutate \/ MutationFails \/ ResultArrives \/ TimerFires
  BY <1>9, PastStays DEF Mutate, MutationFails, ResultArrives, TimerFires, boxVars
<1>10. CASE SyncFails
  <2>1. CASE Cleared
    BY <1>10, <2>1, PastCleared DEF SyncFails
  <2>2. CASE ~Cleared
    <3>1. UNCHANGED boxVars /\ mirror' = MarkedStale /\ answer' = NoAnswer /\ fetch' = Idle
      BY <1>10, <2>2 DEF SyncFails, Completes
    <3>2. mirror'.at = mirror.at /\ mirror'.content = mirror.content
      BY <3>1 DEF MarkedStale
    <3>3. answer'.kind = "none" /\ fetch'.batch = <<>>
      BY <3>1 DEF NoAnswer, Idle
    <3> QED
      BY <3>1, <3>2, <3>3, PastStays
  <2> QED
    BY <2>1, <2>2
<1>11. CASE SnapshotArrives
  <2>1. /\ UNCHANGED boxVars /\ answer' = NoAnswer /\ fetch' = Idle
        /\ mirror' = Replaced(answer) /\ answer.kind = "snapshot"
    BY <1>11 DEF SnapshotArrives, Completes
  <2>2. IsMoment(answer.at, answer.content)
    BY <2>1 DEF PastInv, SnapshotIsPast
  <2>3. MirrorIsPast'
    BY <2>1, <2>2 DEF PastInv, MirrorIsPast, Replaced, IsMoment, boxVars, Told, Rows, Revision
  <2> QED
    BY <2>1, <2>3 DEF PastInv, LaterEpochsAreEmpty, SnapshotIsPast, BatchFollows, PageFollows,
                      NoAnswer, Idle, boxVars
<1>12. CASE PageArrives
  <2> DEFINE batch == fetch.batch \o answer.changes
             e == mirror.at.epoch
             r == mirror.at.revision
             reached == mirror.at.revision + Len(batch)
  <2>0. answer.kind = "page" /\ answer' = NoAnswer /\ UNCHANGED boxVars
    BY <1>12 DEF PageArrives
  <2>1. /\ mirror.at # NoPoint
        /\ batch \in Seq(ARow)
        /\ Follow(batch, 0)
        /\ reached <= answer.through
        /\ answer.through <= Len(log[e])
    BY <2>0, BatchFurther
  <2>2. /\ Len(batch) \in Nat
        /\ r \in Nat /\ e \in 1..epoch /\ e \in Epochs
        /\ mirror.content = Told(e, r)
        /\ mirror = [at |-> mirror.at, content |-> mirror.content, by |-> mirror.by,
                     stale |-> mirror.stale]
    <3>1. MaxEpoch \in Nat
      BY BoxInventoryAssumption
    <3>2. Len(batch) \in Nat
      BY <2>1, LenProperties
    <3> HIDE DEF batch
    <3> QED
      BY <2>1, <3>1, <3>2 DEF PastInv, MirrorIsPast, TypeOK, MirrorTypes, BoxTypes, APoint, Epochs
  <2>3. answer.through \in Nat /\ Len(log[e]) \in Nat
    BY <2>0, <2>2, LenProperties DEF TypeOK, BoxTypes, SyncTypes, APage
  <2> HIDE DEF batch
  <2>4. CASE mirror' = Extended(Point(e, reached), batch) /\ fetch' = Idle
    <3>1. /\ mirror'.at = [epoch |-> e, revision |-> reached]
          /\ mirror'.content = Applied(Told(e, r), batch)
      BY <2>2, <2>4 DEF Extended, Point
    <3>2. batch = Rows(e, r, reached) /\ reached <= Len(log[e])
      BY <2>1, <2>2 DEF Follow
    <3>3. Told(e, reached) = Applied(Told(e, r), Rows(e, r, reached))
      <4>1. reached \in 0..Len(log[e]) /\ r \in 0..reached
        BY <2>2, <2>3, <3>2
      <4> HIDE DEF reached, e, r
      <4> QED
        BY <2>2, <4>1, ToldFurther DEF TypeOK
    <3>4. log' = log /\ epoch' = epoch
      BY <2>0 DEF boxVars
    <3>5. MirrorIsPast'
      <4>1. resources' = Told(epoch, Revision)'
        BY <2>0 DEF PastInv, MirrorIsPast, boxVars, Told, Rows, Revision
      <4>2. mirror'.content = Told(e, reached)
        BY <3>1, <3>2, <3>3
      <4>3. mirror'.content = Applied(Absent, SubSeq(log'[e], 0 + 1, reached))
        BY <3>4, <4>2 DEF Told, Rows
      <4> QED
        BY <2>2, <3>1, <3>2, <3>4, <4>1, <4>3 DEF MirrorIsPast, Told, Rows
    <3> QED
      BY <2>0, <2>4, <3>5 DEF PastInv, LaterEpochsAreEmpty, SnapshotIsPast, BatchFollows,
                              PageFollows, NoAnswer, Idle, boxVars
  <2>5. CASE /\ mirror' = mirror
             /\ reached < answer.through
             /\ fetch' = [fetch EXCEPT !.batch = batch, !.through = answer.through]
    <3>1. fetch'.batch = batch /\ fetch'.through = answer.through
      BY <2>5 DEF TypeOK, SyncTypes
    <3>2. LaterEpochsAreEmpty' /\ MirrorIsPast'
      BY <2>0, <2>5 DEF PastInv, LaterEpochsAreEmpty, MirrorIsPast, boxVars, Told, Rows, Revision
    <3>3. BatchFollows'
      BY <2>0, <2>1, <2>5, <3>1 DEF BatchFollows, Follow, boxVars, Rows
    <3> QED
      BY <2>0, <3>2, <3>3 DEF PastInv, SnapshotIsPast, PageFollows, NoAnswer
  <2>6. CASE mirror' = mirror /\ fetch' = [Idle EXCEPT !.whole = TRUE]
    BY <2>0, <2>6, PastStays DEF NoAnswer, Idle
  <2> QED
    BY <1>12, <2>4, <2>5, <2>6 DEF PageArrives, Completes, batch
<1>13. CASE ResyncArrives
  BY <1>13, PastStays DEF ResyncArrives, NoAnswer, Idle, boxVars
<1> QED
  BY <1>1, <1>2, <1>3, <1>4, <1>5, <1>6, <1>7, <1>8, <1>9, <1>10, <1>11, <1>12, <1>13
     DEF Next, AnswerArrives

-----------------------------------------------------------------------------
(* Ready means synchronised.                                               *)

LEMMA ReadyWithoutEntry ==
    ASSUME entry' = NoEntry \/ (entry'.peer = None /\ ~entry'.ready /\ ~entry'.synced),
           answer'.kind = "none"
    PROVE  ReadyInv'
BY DEF ReadyInv, EntryIsOpen, AnswerIsExpected, SnapshotIsOwn, SyncedIsOwn, NoEntry

\* The entry keeps its connection and the mirror its origin.
LEMMA ReadyStays ==
    ASSUME TypeOK, ReadyInv, epoch' = epoch,
           entry.peer # None => conn'[entry.peer] = conn[entry.peer],
           entry'.peer = entry.peer, entry'.ready => entry'.synced, entry'.synced = entry.synced,
           mirror'.at.epoch = mirror.at.epoch, mirror'.by = mirror.by,
           \/ answer'.kind = "none"
           \/ answer' = answer /\ (ops # <<>> => ops' # <<>>)
    PROVE  ReadyInv'
<1>1. EntryIsOpen'
  BY DEF ReadyInv, EntryIsOpen, Open
<1>2. AnswerIsExpected'
  BY DEF ReadyInv, AnswerIsExpected
<1>3. SnapshotIsOwn'
  BY DEF ReadyInv, SnapshotIsOwn, AnswerIsExpected
<1>4. SyncedIsOwn'
  BY DEF ReadyInv, SyncedIsOwn
<1> QED
  BY <1>1, <1>2, <1>3, <1>4 DEF ReadyInv

\* What is appended to a queue does not change its head.
LEMMA AppendTypes ==
    ASSUME NEW S, NEW s \in Seq(S), NEW x \in S
    PROVE  /\ Append(s, x) # <<>>
           /\ s # <<>> => Head(Append(s, x)) = Head(s)
           /\ Len(Append(s, x)) = Len(s) + 1
           /\ \A i \in 1..Len(s) : Append(s, x)[i] = s[i]
           /\ Append(s, x)[Len(s) + 1] = x
<1>1. /\ Append(s, x) \in Seq(S) /\ Len(s) \in Nat
      /\ Len(Append(s, x)) = Len(s) + 1
      /\ \A i \in 1..Len(s) : Append(s, x)[i] = s[i]
      /\ Append(s, x)[Len(s) + 1] = x
  BY AppendProperties, LenProperties
<1>2. Append(s, x) # <<>>
  BY <1>1
<1>3. ASSUME s # <<>> PROVE Head(Append(s, x)) = Head(s)
  <2>1. Len(s) # 0 /\ 1 \in 1..Len(s)
    BY <1>1, <1>3, EmptySeq
  <2> QED
    BY <1>1, <1>2, <1>3, <2>1, HeadTailProperties
<1> QED
  BY <1>1, <1>2, <1>3

LEMMA ReadyKept ==
    ASSUME TypeOK, PastInv, ReadyInv, Next
    PROVE  ReadyInv'
<1>e. /\ entry.peer # None => entry.peer \in Opened
      /\ entry.ready => entry.synced
      /\ answer.kind \in {"none", "snapshot", "page", "resync"}
  <2>1. entry.peer # None => entry.peer \in Peers
    BY DEF TypeOK, EntryTypes
  <2> QED
    BY <2>1 DEF ReadyInv, EntryIsOpen, Opened, TypeOK, SyncTypes
<1>c. ASSUME Cleared PROVE ReadyInv'
  <2>1. answer'.kind = "none" /\ entry' = NoEntry
    BY <1>c DEF Cleared, NoAnswer
  <2> QED
    BY <2>1, ReadyWithoutEntry
<1>1. ASSUME NEW n \in Names, NEW op \in {"upsert", "delete"},
             BoxChanges(n, op) \/ BoxMutates(n, op)
      PROVE  ReadyInv'
  <2>1. epoch' = epoch /\ UNCHANGED <<conn, entry, ops, answer, mirror>>
    BY <1>1 DEF BoxChanges, BoxMutates, Changes
  <2> QED
    BY <1>e, <2>1, ReadyStays
<1>2. CASE BoxStartsAnew
  <2>1. entry.peer = None /\ UNCHANGED <<entry, answer>>
    BY <1>2, <1>e DEF BoxStartsAnew
  <2>2. answer.kind = "none" /\ ~entry.synced
    BY <2>1 DEF ReadyInv, AnswerIsExpected, SyncedIsOwn
  <2> QED
    BY <1>e, <2>1, <2>2, ReadyWithoutEntry
<1>3. ASSUME NEW i \in Instances, ReportsUpgrade(i)
      PROVE  ReadyInv'
  BY <1>3, <1>c DEF ReportsUpgrade
<1>4. ASSUME NEW i \in Instances, NEW p \in Peers, Handshake(p, i)
      PROVE  ReadyInv'
  <2>1. CASE Cleared
    BY <2>1, <1>c
  <2>2. CASE ~Cleared
    <3>1. entry.peer = None /\ UNCHANGED <<entry, answer>>
      BY <1>4, <1>e, <2>2 DEF Handshake, Fenced
    <3>2. answer.kind = "none" /\ ~entry.synced
      BY <3>1 DEF ReadyInv, AnswerIsExpected, SyncedIsOwn
    <3> QED
      BY <1>e, <3>1, <3>2, ReadyWithoutEntry
  <2> QED
    BY <2>1, <2>2
<1>5. ASSUME NEW p \in Peers, Disconnects(p)
      PROVE  ReadyInv'
  <2>1. CASE Cleared
    BY <2>1, <1>c
  <2>2. CASE ~Cleared
    <3>1. /\ entry.peer # p /\ UNCHANGED <<entry, ops, answer, mirror, boxVars>>
          /\ conn' = Left(Opened \ {p})
      BY <1>5, <2>2 DEF Disconnects, Keeps
    <3>2. entry.peer # None => conn'[entry.peer] = conn[entry.peer]
      BY <1>e, <3>1 DEF Left, Opened
    <3> QED
      BY <1>e, <3>1, <3>2, ReadyStays DEF boxVars
  <2> QED
    BY <2>1, <2>2
<1>6. ASSUME NEW p \in Peers, Register(p)
      PROVE  ReadyInv'
  <2>1. /\ Open(p) /\ entry.peer = None
        /\ entry' = [NoEntry EXCEPT !.peer = p]
        /\ UNCHANGED <<conn, answer>>
    BY <1>6 DEF Register, connVars
  <2>2. answer.kind = "none"
    BY <2>1 DEF ReadyInv, AnswerIsExpected
  <2>3. entry'.peer = p /\ ~entry'.ready /\ ~entry'.synced
    BY <2>1 DEF NoEntry
  <2>4. EntryIsOpen'
    BY <2>1, <2>3 DEF EntryIsOpen, Open
  <2> QED
    BY <2>1, <2>2, <2>3, <2>4 DEF ReadyInv, AnswerIsExpected, SnapshotIsOwn, SyncedIsOwn
<1>7. ASSUME NEW p \in Peers, MarkReady(p)
      PROVE  ReadyInv'
  <2>1. /\ entry.synced /\ entry' = [entry EXCEPT !.ready = TRUE]
        /\ UNCHANGED <<boxVars, conn, ops, answer, mirror>>
    BY <1>7 DEF MarkReady, connVars
  <2>2. entry'.peer = entry.peer /\ entry'.synced = entry.synced
    BY <2>1 DEF TypeOK, EntryTypes
  <2> QED
    BY <2>1, <2>2, ReadyStays DEF boxVars
<1>8. ASSUME NEW p \in Peers, BoxAnswers(p)
      PROVE  ReadyInv'
  <2>1. /\ UNCHANGED <<epoch, conn, entry, ops, mirror>>
        /\ ops # <<>> /\ entry.peer = p /\ answer' = Answer(p)
    BY <1>8 DEF BoxAnswers, Current, connVars, boxVars
  <2>2. p # None
    BY DEF Peers, None
  <2>3. answer'.kind = "snapshot" => answer' = SnapshotOf(p)
    BY <2>1 DEF Answer, Resync, Page
  <2>4. SnapshotIsOwn'
    BY <2>1, <2>3 DEF SnapshotIsOwn, SnapshotOf, Newest, Point
  <2>5. EntryIsOpen' /\ AnswerIsExpected' /\ SyncedIsOwn'
    BY <2>1, <2>2 DEF ReadyInv, EntryIsOpen, Open, AnswerIsExpected, SyncedIsOwn
  <2> QED
    BY <1>e, <2>1, <2>4, <2>5 DEF ReadyInv
<1>9. ASSUME NEW p \in Peers, HintArrives(p)
      PROVE  ReadyInv'
  <2>1. /\ UNCHANGED <<boxVars, conn, ops, answer, mirror>>
        /\ \/ entry' = entry
           \/ \E at : entry' = [entry EXCEPT !.timer = "hint", !.hint = at]
    BY <1>9 DEF HintArrives
  <2>2. entry'.peer = entry.peer /\ entry'.synced = entry.synced /\ entry'.ready = entry.ready
    BY <2>1 DEF TypeOK, EntryTypes
  <2> QED
    BY <1>e, <2>1, <2>2, ReadyStays DEF boxVars
<1>10. CASE Crashes
  <2>1. answer'.kind = "none" /\ entry' = NoEntry
    BY <1>10 DEF Crashes, NoAnswer
  <2> QED
    BY <2>1, ReadyWithoutEntry
<1>11. CASE Mutate \/ MutationFails
  <2>1. UNCHANGED <<epoch, conn, entry, ops, answer, mirror>>
    BY <1>11 DEF Mutate, MutationFails, boxVars, connVars
  <2> QED
    BY <1>e, <2>1, ReadyStays
<1>12. CASE ResultArrives
  <2>1. /\ UNCHANGED <<epoch, conn, entry, answer, mirror>>
        /\ ops' = Append(ops, Sync("mutation", mutation.at))
    BY <1>12 DEF ResultArrives, boxVars, connVars
  <2>2. Sync("mutation", mutation.at) \in ASync
    BY DEF TypeOK, MirrorTypes, Sync, ASync
  <2>3. ops' # <<>>
    BY <2>1, <2>2, AppendTypes DEF TypeOK, SyncTypes
  <2> QED
    BY <1>e, <2>1, <2>3, ReadyStays
<1>13. CASE TimerFires
  <2>1. /\ UNCHANGED <<epoch, conn, answer, mirror>>
        /\ \E x \in ASync : ops' = Append(ops, x)
        /\ \E at : entry' = [entry EXCEPT !.timer = "none", !.hint = at]
    <3>1. NoPoint \in APoint
      BY DEF NoPoint, Point, APoint
    <3>2. entry.timer \in {"hint", "poll"} /\ entry.hint \in APoint
      BY <1>13 DEF TimerFires, TypeOK, EntryTypes
    <3>3. \A at \in APoint : Sync(entry.timer, at) \in ASync
      BY <3>2 DEF Sync, ASync
    <3> QED
      BY <1>13, <3>1, <3>2, <3>3 DEF TimerFires, boxVars, connVars
  <2>2. entry'.peer = entry.peer /\ entry'.synced = entry.synced /\ entry'.ready = entry.ready
    BY <2>1 DEF TypeOK, EntryTypes
  <2>3. ops' # <<>>
    BY <2>1, AppendTypes DEF TypeOK, SyncTypes
  <2> QED
    BY <1>e, <2>1, <2>2, <2>3, ReadyStays
<1>r. ASSUME NEW op, NEW x, x = entry \/ x = Rescheduled(op, entry)
      PROVE  x.peer = entry.peer /\ x.synced = entry.synced /\ x.ready = entry.ready
  BY <1>r DEF Rescheduled, WithPoll, TypeOK, EntryTypes
<1>14. CASE SyncFails
  <2>1. CASE Cleared
    BY <2>1, <1>c
  <2>2. CASE ~Cleared
    <3>1. /\ UNCHANGED <<epoch, conn>> /\ answer'.kind = "none" /\ mirror' = MarkedStale
          /\ entry' = Rescheduled(Head(ops), entry)
      BY <1>14, <2>2 DEF SyncFails, boxVars, connVars, NoAnswer
    <3>2. mirror'.at = mirror.at /\ mirror'.by = mirror.by
      BY <3>1 DEF MarkedStale, TypeOK, MirrorTypes
    <3> QED
      BY <1>e, <1>r, <3>1, <3>2, ReadyStays
  <2> QED
    BY <2>1, <2>2
<1>15. CASE SnapshotArrives
  <2>1. /\ UNCHANGED <<epoch, conn>> /\ answer' = NoAnswer
        /\ mirror'.at = answer.at /\ mirror'.by = answer.by
        /\ answer.kind = "snapshot"
    BY <1>15 DEF SnapshotArrives, boxVars, connVars, Replaced
  <2>2. /\ entry.peer # None
        /\ answer.at.epoch = epoch /\ answer.by = conn[entry.peer]
    BY <2>1 DEF ReadyInv, AnswerIsExpected, SnapshotIsOwn
  <2>3. entry'.peer = entry.peer /\ entry'.synced
    BY <1>15 DEF SnapshotArrives, Rescheduled, WithPoll, TypeOK, EntryTypes
  <2>4. EntryIsOpen'
    BY <2>1, <2>2, <2>3 DEF ReadyInv, EntryIsOpen, Open
  <2> QED
    BY <2>1, <2>2, <2>3, <2>4 DEF ReadyInv, AnswerIsExpected, SnapshotIsOwn, SyncedIsOwn, NoAnswer
<1>16. CASE PageArrives
  <2>1. /\ UNCHANGED <<epoch, conn>> /\ answer'.kind = "none"
        /\ entry' = entry \/ entry' = Rescheduled(Head(ops), entry)
    BY <1>16 DEF PageArrives, boxVars, connVars, NoAnswer
  <2>2. mirror'.at.epoch = mirror.at.epoch /\ mirror'.by = mirror.by
    <3>1. \/ mirror' = mirror
          \/ \E r, b : mirror' = Extended(Point(mirror.at.epoch, r), b)
      BY <1>16 DEF PageArrives
    <3>2. ASSUME NEW r, NEW b
          PROVE  /\ Extended(Point(mirror.at.epoch, r), b).at.epoch = mirror.at.epoch
                 /\ Extended(Point(mirror.at.epoch, r), b).by = mirror.by
      BY DEF Extended, Point, TypeOK, MirrorTypes
    <3> QED
      BY <3>1, <3>2
  <2> QED
    BY <1>e, <1>r, <2>1, <2>2, ReadyStays
<1>17. CASE ResyncArrives
  <2>1. UNCHANGED <<epoch, conn, entry, ops, mirror>> /\ answer'.kind = "none"
    BY <1>17 DEF ResyncArrives, boxVars, connVars, NoAnswer
  <2> QED
    BY <1>e, <2>1, ReadyStays
<1> QED
  BY <1>1, <1>2, <1>3, <1>4, <1>5, <1>6, <1>7, <1>8, <1>9, <1>10, <1>11, <1>12, <1>13,
     <1>14, <1>15, <1>16, <1>17 DEF Next, AnswerArrives

-----------------------------------------------------------------------------
(* Reading one's own writes.                                               *)

LEMMA LaterIsTransitive ==
    ASSUME NEW a \in APoint, NEW b \in APoint, NEW c \in APoint, Later(a, b), Later(b, c)
    PROVE  Later(a, c)
BY DEF Later, APoint

LEMMA LaterThanNone ==
    ASSUME NEW a \in APoint
    PROVE  Later(a, NoPoint) /\ Later(a, a) /\ NoPoint \in APoint
BY DEF Later, APoint, NoPoint, Point

\* The points of the state.
LEMMA PointTypes ==
    ASSUME TypeOK
    PROVE  /\ Newest \in APoint /\ wrote \in APoint /\ mutation.at \in APoint
           /\ mirror.at \in APoint
           /\ answer.kind = "snapshot" => answer.at \in APoint
           /\ \A i \in 1..Len(ops) : ops[i].target \in APoint
           /\ ops # <<>> => Head(ops) \in ASync /\ Head(ops) = ops[1] /\ 1 \in 1..Len(ops)
<1>1. \A i \in 1..Len(ops) : ops[i] \in ASync
  BY ElementOfSeq DEF TypeOK, SyncTypes
<1>2. \A x \in ASync : x.target \in APoint
  BY DEF ASync
<1>3. ops # <<>> => Head(ops) \in ASync /\ Head(ops) = ops[1] /\ 1 \in 1..Len(ops)
  BY HeadTailProperties, LenProperties, EmptySeq DEF TypeOK, SyncTypes
<1>4. wrote \in APoint /\ mutation.at \in APoint /\ mirror.at \in APoint
      /\ (answer.kind = "snapshot" => answer.at \in APoint)
  BY DEF TypeOK, MirrorTypes, SyncTypes
<1> QED
  BY <1>1, <1>2, <1>3, <1>4, NewestPoint DEF TypeOK

\* The Box moves on; the mirror, the answer and what was answered stay.
LEMMA WritesGrow ==
    ASSUME TypeOK, TypeOK', WriteInv, Later(Newest', Newest),
           UNCHANGED <<wrote, ops, answer, mirror, fetch>>,
           mutation' = mutation \/ mutation'.at = Newest'
    PROVE  WriteInv'
<1>1. Newest' \in APoint
  <2>1. epoch' \in Nat /\ log'[epoch'] \in Seq(ARow)
    BY DEF TypeOK, BoxTypes, Epochs
  <2>2. Len(log'[epoch']) \in Nat
    BY <2>1, LenProperties
  <2> QED
    BY <2>1, <2>2 DEF Newest, Revision, Point, APoint
<1>2. Later(Newest, wrote) /\ Later(Newest, mutation.at)
  BY DEF WriteInv, WritesHappened
<1>3. Later(Newest', wrote)
  BY <1>1, <1>2, PointTypes, LaterIsTransitive
<1>4. Later(Newest', mutation.at)
  BY <1>1, <1>2, PointTypes, LaterIsTransitive
<1>5. Later(Newest', mutation'.at)
  BY <1>1, <1>4, LaterThanNone
<1>6. ASSUME NEW i \in 1..Len(ops), ops[i].kind = "mutation"
      PROVE  Later(Newest', ops[i].target)
  BY <1>1, <1>6, PointTypes, LaterIsTransitive DEF WriteInv, WritesHappened
<1>7. WritesHappened'
  BY <1>3, <1>5, <1>6 DEF WritesHappened
<1>8. (AnswerIsLater /\ BatchIsLater /\ ReadYourWrites)'
  BY DEF WriteInv, AnswerIsLater, BatchIsLater, ReadYourWrites
<1> QED
  BY <1>7, <1>8 DEF WriteInv

\* The server moves on without an answer under way.
LEMMA WritesStay ==
    ASSUME TypeOK, WriteInv, UNCHANGED boxVars,
           wrote' = wrote \/ wrote' = mutation.at,
           mutation' = mutation \/ mutation'.at = NoPoint,
           ops' = ops \/ ops' = <<>> \/ \E x \in ASync : ops' = <<x>> /\ x.kind = "initial",
           answer'.kind \in {"none", "resync"} \/ (answer' = answer /\ ops' = ops),
           \/ fetch'.batch = <<>>
           \/ fetch' = fetch,
           (answer' = answer /\ fetch' = fetch) \/ fetch'.batch = <<>>,
           (wrote' = wrote /\ mirror' = mirror) \/ mirror'.stale,
           wrote' = wrote \/ (answer'.kind = "none" /\ fetch'.batch = <<>>),
           mirror'.at.epoch = mirror.at.epoch
    PROVE  WriteInv'
<1>1. Newest' = Newest
  BY DEF boxVars, Newest, Revision
<1>2. Later(Newest, NoPoint)
  BY PointTypes, LaterThanNone
<1>3. WritesHappened'
  BY <1>1, <1>2 DEF WriteInv, WritesHappened, ASync
<1>4. AnswerIsLater'
  BY DEF WriteInv, AnswerIsLater
<1>5. BatchIsLater'
  BY DEF WriteInv, BatchIsLater
<1>6. ReadYourWrites'
  BY DEF WriteInv, ReadYourWrites
<1> QED
  BY <1>3, <1>4, <1>5, <1>6 DEF WriteInv

LEMMA WritesCleared ==
    ASSUME TypeOK, WriteInv, UNCHANGED boxVars, Cleared
    PROVE  WriteInv'
<1>1. /\ wrote' = wrote \/ wrote' = mutation.at
      /\ mutation'.at = NoPoint /\ ops' = <<>>
      /\ answer'.kind = "none" /\ fetch'.batch = <<>>
  BY DEF Cleared, NoMutation, NoAnswer, Idle
<1>2. mirror'.stale /\ mirror'.at = mirror.at
  BY DEF Cleared, MarkedStale, TypeOK, MirrorTypes
<1> QED
  BY <1>1, <1>2, WritesStay

\* A synchronisation ends: what its caller is told has happened.
LEMMA WritesComplete ==
    ASSUME TypeOK, WriteInv, UNCHANGED boxVars, ops # <<>>, Completes(Head(ops))
    PROVE  /\ WritesHappened'
           /\ fetch'.batch = <<>>
           /\ \/ wrote' = wrote
              \/ Head(ops).kind = "mutation" /\ wrote' = Head(ops).target
<1>1. Newest' = Newest
  BY DEF boxVars, Newest, Revision
<1>2. Later(Newest, NoPoint)
  BY PointTypes, LaterThanNone
<1>3. /\ wrote' = wrote \/ (Head(ops).kind = "mutation" /\ wrote' = Head(ops).target)
      /\ mutation' = mutation \/ mutation'.at = NoPoint
      /\ ops' = Tail(ops) /\ fetch'.batch = <<>>
  BY DEF Completes, NoMutation, Idle
<1>4. /\ Len(ops) \in Nat /\ Len(ops') = Len(ops) - 1
      /\ \A i \in 1..Len(ops') : ops'[i] = ops[i + 1]
      /\ Head(ops) = ops[1] /\ 1 \in 1..Len(ops)
  BY <1>3, HeadTailProperties, LenProperties, EmptySeq DEF TypeOK, SyncTypes
<1>5. Later(Newest, wrote')
  BY <1>3, <1>4 DEF WriteInv, WritesHappened
<1>6. Later(Newest, mutation'.at)
  BY <1>2, <1>3 DEF WriteInv, WritesHappened
<1>7. ASSUME NEW i \in 1..Len(ops'), ops'[i].kind = "mutation"
      PROVE  Later(Newest, ops'[i].target)
  BY <1>4, <1>7 DEF WriteInv, WritesHappened
<1>8. WritesHappened'
  BY <1>1, <1>5, <1>6, <1>7 DEF WritesHappened
<1> QED
  BY <1>3, <1>8

LEMMA WriteKept ==
    ASSUME TypeOK, TypeOK', PastInv, ReadyInv, WriteInv, Next
    PROVE  WriteInv'
<1>1. ASSUME NEW n \in Names, NEW op \in {"upsert", "delete"},
             BoxChanges(n, op) \/ BoxMutates(n, op)
      PROVE  WriteInv'
  <2>1. Changes(n, op) /\ Newest' = After
    BY <1>1, ChangesTypes DEF BoxChanges, BoxMutates, TypeOK
  <2>2. Later(Newest', Newest)
    BY <2>1, NewestPoint DEF Later, After, Newest, Point, TypeOK
  <2>3. /\ UNCHANGED <<wrote, ops, answer, mirror, fetch>>
        /\ mutation' = mutation \/ mutation'.at = Newest'
    BY <1>1, <2>1 DEF BoxChanges, BoxMutates
  <2> QED
    BY <2>2, <2>3, WritesGrow
<1>2. CASE BoxStartsAnew
  <2>1. Later(Newest', Newest)
    BY <1>2 DEF BoxStartsAnew, Later, Newest, Point, TypeOK, BoxTypes, Epochs
  <2>2. UNCHANGED <<wrote, ops, answer, mirror, fetch, mutation>>
    BY <1>2 DEF BoxStartsAnew
  <2> QED
    BY <2>1, <2>2, WritesGrow
<1>3. ASSUME NEW i \in Instances, ReportsUpgrade(i)
      PROVE  WriteInv'
  BY <1>3, WritesCleared DEF ReportsUpgrade
<1>s. ASSUME UNCHANGED <<boxVars, ops, fetch, answer, mirror, wrote>>,
             mutation' = mutation \/ mutation'.at = NoPoint
      PROVE  WriteInv'
  BY <1>s, WritesStay
<1>4. ASSUME NEW i \in Instances, NEW p \in Peers, Handshake(p, i)
      PROVE  WriteInv'
  <2>1. UNCHANGED boxVars /\ (Cleared \/ UNCHANGED <<ops, fetch, answer, mirror, mutation, wrote>>)
    BY <1>4 DEF Handshake
  <2> QED
    BY <2>1, <1>s, WritesCleared
<1>5. ASSUME NEW p \in Peers, Disconnects(p)
      PROVE  WriteInv'
  <2>1. UNCHANGED boxVars /\ (Cleared \/ UNCHANGED <<ops, fetch, answer, mirror, mutation, wrote>>)
    BY <1>5 DEF Disconnects
  <2> QED
    BY <2>1, <1>s, WritesCleared
<1>6. ASSUME NEW p \in Peers, Register(p)
      PROVE  WriteInv'
  <2>1. /\ UNCHANGED <<boxVars, fetch, answer, mutation, wrote>>
        /\ entry.peer = None /\ mirror' = MarkedStale
        /\ ops' = <<Sync("initial", NoPoint)>>
    BY <1>6 DEF Register
  <2>2. answer.kind = "none"
    BY <2>1 DEF ReadyInv, AnswerIsExpected
  <2>3. Sync("initial", NoPoint) \in ASync /\ Sync("initial", NoPoint).kind = "initial"
    BY LaterThanNone, PointTypes DEF Sync, ASync
  <2>4. mirror'.stale /\ mirror'.at = mirror.at
    BY <2>1 DEF MarkedStale, TypeOK, MirrorTypes
  <2> QED
    BY <2>1, <2>2, <2>3, <2>4, WritesStay
<1>7. ASSUME NEW p \in Peers, MarkReady(p) \/ HintArrives(p)
      PROVE  WriteInv'
  BY <1>7, <1>s DEF MarkReady, HintArrives
<1>8. ASSUME NEW p \in Peers, BoxAnswers(p)
      PROVE  WriteInv'
  <2>1. /\ UNCHANGED <<boxVars, ops, fetch, mirror, mutation, wrote>>
        /\ ops # <<>> /\ answer' = Answer(p)
    BY <1>8 DEF BoxAnswers
  <2>2. Newest' = Newest
    BY <2>1 DEF boxVars, Newest, Revision
  <2>3. /\ WritesHappened' /\ BatchIsLater' /\ ReadYourWrites'
        /\ Later(Newest, wrote)
        /\ Head(ops).kind = "mutation" => Later(Newest, Head(ops).target)
    BY <2>1, <2>2, PointTypes DEF WriteInv, WritesHappened, BatchIsLater, ReadYourWrites
  <2>4. CASE answer' = SnapshotOf(p)
    <3>1. answer'.kind = "snapshot" /\ answer'.at = Newest
      BY <2>4 DEF SnapshotOf
    <3> QED
      BY <2>1, <2>3, <3>1 DEF WriteInv, AnswerIsLater
  <2>5. CASE answer' = Resync
    BY <2>3, <2>5 DEF WriteInv, AnswerIsLater, Resync
  <2>6. CASE ~AsksForAll /\ ~Unavailable(mirror.at)
    <3> DEFINE after == mirror.at.revision + Len(fetch.batch)
               through == IF fetch.batch = <<>> THEN Revision ELSE fetch.through
    <3>1. answer' = Page(after, through)
      BY <2>1, <2>6 DEF Answer
    <3>2. /\ mirror.at.epoch = epoch
          /\ Head(ops).target = NoPoint \/ Head(ops).target.epoch = mirror.at.epoch
      BY <2>6 DEF AsksForAll, Unavailable
    <3>3. Later(Point(mirror.at.epoch, through), wrote)
      BY <2>3, <3>2 DEF WriteInv, BatchIsLater, Newest
    <3> HIDE DEF after, through
    <3>4. answer'.kind = "page" /\ answer'.through = through
      BY <3>1 DEF Page
    <3> QED
      BY <2>1, <2>3, <3>2, <3>3, <3>4 DEF WriteInv, AnswerIsLater
  <2> QED
    BY <2>1, <2>4, <2>5, <2>6 DEF Answer
<1>9. CASE Crashes
  <2>1. /\ UNCHANGED <<boxVars, mirror, wrote>> /\ mutation'.at = NoPoint /\ ops' = <<>>
        /\ answer'.kind = "none" /\ fetch'.batch = <<>>
    BY <1>9 DEF Crashes, NoMutation, NoAnswer, Idle
  <2> QED
    BY <2>1, WritesStay
<1>10. CASE Mutate \/ MutationFails
  <2>1. /\ UNCHANGED <<boxVars, ops, fetch, answer, mirror, wrote>>
        /\ mutation'.at = NoPoint
    BY <1>10 DEF Mutate, MutationFails, NoMutation
  <2> QED
    BY <2>1, <1>s
<1>11. CASE ResultArrives \/ TimerFires
  <2>1. PICK x \in ASync :
          /\ ops' = Append(ops, x)
          /\ x.kind = "mutation" => x.target = mutation.at
          /\ UNCHANGED <<boxVars, fetch, answer, mirror, wrote>>
          /\ mutation'.at = mutation.at
    <3>1. CASE ResultArrives
      <4>1. Sync("mutation", mutation.at) \in ASync
        BY DEF TypeOK, MirrorTypes, Sync, ASync
      <4>2. Sync("mutation", mutation.at).target = mutation.at
        BY DEF Sync
      <4>3. mutation'.at = mutation.at
        BY <3>1 DEF ResultArrives, TypeOK, MirrorTypes
      <4> QED
        BY <3>1, <4>1, <4>2, <4>3 DEF ResultArrives
    <3>2. CASE TimerFires
      <4>1. entry.timer \in {"hint", "poll"} /\ entry.hint \in APoint /\ NoPoint \in APoint
        BY <3>2, LaterThanNone, PointTypes DEF TimerFires, TypeOK, EntryTypes
      <4>2. ASSUME NEW at \in APoint
            PROVE  /\ Sync(entry.timer, at) \in ASync
                   /\ Sync(entry.timer, at).kind # "mutation"
        BY <4>1 DEF Sync, ASync
      <4> QED
        BY <3>2, <4>1, <4>2 DEF TimerFires
    <3> QED
      BY <1>11, <3>1, <3>2
  <2>2. /\ Len(ops) \in Nat /\ Len(ops') = Len(ops) + 1
        /\ \A i \in 1..Len(ops) : ops'[i] = ops[i]
        /\ ops'[Len(ops) + 1] = x
        /\ ops # <<>> => Head(ops') = Head(ops)
    BY <2>1, AppendTypes, LenProperties DEF TypeOK, SyncTypes
  <2>3. Newest' = Newest
    BY <2>1 DEF boxVars, Newest, Revision
  <2>4. Later(Newest, wrote) /\ Later(Newest, mutation.at)
    BY DEF WriteInv, WritesHappened
  <2>5. ASSUME NEW i \in 1..Len(ops'), ops'[i].kind = "mutation"
        PROVE  Later(Newest, ops'[i].target)
    <3>1. CASE i = Len(ops) + 1
      BY <2>1, <2>2, <2>4, <2>5, <3>1
    <3>2. CASE i # Len(ops) + 1
      BY <2>2, <2>5, <3>2 DEF WriteInv, WritesHappened
    <3> QED
      BY <3>1, <3>2
  <2>6. WritesHappened'
    BY <2>1, <2>3, <2>4, <2>5 DEF WritesHappened
  <2>7. AnswerIsLater'
    <3>1. answer.kind # "none" => ops # <<>>
      BY DEF ReadyInv, AnswerIsExpected
    <3> QED
      BY <2>1, <2>2, <3>1 DEF WriteInv, AnswerIsLater
  <2>8. BatchIsLater' /\ ReadYourWrites'
    BY <2>1 DEF WriteInv, BatchIsLater, ReadYourWrites
  <2> QED
    BY <2>6, <2>7, <2>8 DEF WriteInv
<1>12. CASE SyncFails
  <2>1. CASE Cleared
    BY <1>12, <2>1, WritesCleared DEF SyncFails
  <2>2. CASE ~Cleared
    <3>1. /\ UNCHANGED boxVars /\ ops # <<>> /\ Completes(Head(ops)) /\ mirror' = MarkedStale
          /\ answer'.kind = "none"
      BY <1>12, <2>2 DEF SyncFails, NoAnswer
    <3>2. mirror'.stale
      BY <3>1 DEF MarkedStale, TypeOK, MirrorTypes
    <3>3. WritesHappened' /\ fetch'.batch = <<>>
      BY <3>1, WritesComplete
    <3> QED
      BY <3>1, <3>2, <3>3 DEF WriteInv, AnswerIsLater, BatchIsLater, ReadYourWrites
  <2> QED
    BY <2>1, <2>2
<1>13. CASE SnapshotArrives
  <2>1. /\ UNCHANGED boxVars /\ Completes(Head(ops)) /\ answer'.kind = "none"
        /\ mirror'.at = answer.at /\ answer.kind = "snapshot"
    BY <1>13 DEF SnapshotArrives, NoAnswer, Replaced
  <2>2. ops # <<>>
    BY <2>1 DEF ReadyInv, AnswerIsExpected
  <2>3. /\ WritesHappened' /\ fetch'.batch = <<>>
        /\ \/ wrote' = wrote
           \/ Head(ops).kind = "mutation" /\ wrote' = Head(ops).target
    BY <2>1, <2>2, WritesComplete
  <2>4. Later(answer.at, wrote')
    BY <2>1, <2>3 DEF WriteInv, AnswerIsLater
  <2> QED
    BY <2>1, <2>3, <2>4 DEF WriteInv, AnswerIsLater, BatchIsLater, ReadYourWrites
<1>14. CASE PageArrives
  <2> DEFINE batch == fetch.batch \o answer.changes
             reached == mirror.at.revision + Len(batch)
  <2>1. /\ answer.kind = "page" /\ answer'.kind = "none" /\ UNCHANGED boxVars
    BY <1>14 DEF PageArrives, NoAnswer
  <2>2. /\ ops # <<>>
        /\ Later(Point(mirror.at.epoch, answer.through), wrote)
        /\ Head(ops).target = NoPoint \/ Head(ops).target.epoch = mirror.at.epoch
    BY <2>1 DEF ReadyInv, AnswerIsExpected, WriteInv, AnswerIsLater
  <2>3. Newest' = Newest
    BY <2>1 DEF boxVars, Newest, Revision
  <2>4. CASE /\ mirror' = Extended(Point(mirror.at.epoch, reached), batch)
             /\ reached = answer.through /\ fetch' = Idle
             /\ \/ (Head(ops).target = NoPoint \/ reached >= Head(ops).target.revision)
                   /\ Completes(Head(ops))
                \/ UNCHANGED <<ops, mutation, wrote>>
    <3>1. mirror'.at = Point(mirror.at.epoch, answer.through)
      BY <2>4 DEF Extended, TypeOK, MirrorTypes
    <3>2. fetch'.batch = <<>>
      BY <2>4 DEF Idle
    <3>3. CASE UNCHANGED <<ops, mutation, wrote>>
      BY <2>1, <2>2, <2>3, <3>1, <3>2, <3>3 DEF WriteInv, WritesHappened, AnswerIsLater,
                                              BatchIsLater, ReadYourWrites
    <3>4. CASE /\ Head(ops).target = NoPoint \/ reached >= Head(ops).target.revision
               /\ Completes(Head(ops))
      <4>1. /\ WritesHappened'
            /\ wrote' = wrote \/ wrote' = Head(ops).target
        BY <2>1, <2>2, <3>4, WritesComplete
      <4>2. Later(Point(mirror.at.epoch, answer.through), Head(ops).target)
        <5>1. Point(mirror.at.epoch, answer.through) \in APoint
          BY <2>1 DEF TypeOK, MirrorTypes, SyncTypes, APage, APoint, Point
        <5>2. Later(Point(mirror.at.epoch, answer.through), NoPoint)
          BY <5>1, LaterThanNone
        <5> QED
          BY <2>2, <2>4, <3>4, <5>2 DEF Later, Point
      <4>3. Later(mirror'.at, wrote')
        BY <2>2, <3>1, <4>1, <4>2
      <4> QED
        BY <2>1, <3>2, <4>1, <4>3 DEF WriteInv, AnswerIsLater, BatchIsLater, ReadYourWrites
    <3> QED
      BY <2>4, <3>3, <3>4
  <2>5. CASE /\ UNCHANGED <<ops, mirror, mutation, wrote>>
             /\ fetch' = [fetch EXCEPT !.batch = batch, !.through = answer.through]
    <3>1. fetch'.through = answer.through
      BY <2>5 DEF TypeOK, SyncTypes
    <3> QED
      BY <2>1, <2>2, <2>3, <2>5, <3>1 DEF WriteInv, WritesHappened, AnswerIsLater,
                                         BatchIsLater, ReadYourWrites
  <2>6. CASE UNCHANGED <<ops, mirror, mutation, wrote>> /\ fetch' = [Idle EXCEPT !.whole = TRUE]
    <3>1. fetch'.batch = <<>>
      BY <2>6 DEF Idle
    <3> QED
      BY <2>1, <2>3, <2>6, <3>1 DEF WriteInv, WritesHappened, AnswerIsLater, BatchIsLater,
                                    ReadYourWrites
  <2> QED
    BY <1>14, <2>4, <2>5, <2>6 DEF PageArrives, Completes
<1>15. CASE ResyncArrives
  <2>1. /\ UNCHANGED <<boxVars, ops, mirror, mutation, wrote>> /\ answer'.kind = "none"
        /\ fetch'.batch = <<>>
    BY <1>15 DEF ResyncArrives, NoAnswer, Idle
  <2> QED
    BY <2>1, WritesStay
<1> QED
  BY <1>1, <1>2, <1>3, <1>4, <1>5, <1>6, <1>7, <1>8, <1>9, <1>10, <1>11, <1>12, <1>13,
     <1>14, <1>15 DEF Next, AnswerArrives

-----------------------------------------------------------------------------
(* The inductive invariant: the types, the past, the origin of the mirror  *)
(* and the writes need one another.                                        *)

IInv == TypeOK /\ PastInv /\ ReadyInv /\ WriteInv

LEMMA InitHolds ==
    ASSUME Init
    PROVE  IInv
<1>1. NoPoint \in APoint /\ NoPoint = [epoch |-> 0, revision |-> 0]
  BY DEF NoPoint, Point, APoint
<1>2. epoch = 1 /\ 1 \in Epochs /\ \A e \in Epochs : log[e] = <<>>
  BY BoxInventoryAssumption DEF Init, Epochs
<1>3. BoxTypes
  BY <1>2 DEF Init, BoxTypes
<1>4. ConnTypes
  BY DEF Init, ConnTypes, AConn
<1>5. EntryTypes /\ SyncTypes
  BY <1>1 DEF Init, EntryTypes, SyncTypes, NoEntry, NoAnswer, Idle
<1>6. MirrorTypes
  BY <1>1 DEF Init, MirrorTypes, NoMutation
<1>7. resources = Told(epoch, Revision)
  <2>1. Applied(Absent, <<>>) = Absent
    <3>1. \A n \in Names : Positions(<<>>, n) = {}
      BY DEF Positions
    <3> QED
      BY <3>1 DEF Applied, Absent
  <2>2. SubSeq(<<>>, 0 + 1, Len(<<>>)) = <<>>
    OBVIOUS
  <2> QED
    BY <1>2, <2>1, <2>2 DEF Init, Told, Rows, Revision
<1>8. PastInv
  BY <1>2, <1>7 DEF Init, PastInv, LaterEpochsAreEmpty, MirrorIsPast, SnapshotIsPast,
                    BatchFollows, PageFollows, NoAnswer, Idle
<1>9. ReadyInv
  BY DEF Init, ReadyInv, EntryIsOpen, AnswerIsExpected, SnapshotIsOwn, SyncedIsOwn, NoEntry,
         NoAnswer
<1>10. Later(Newest, NoPoint)
  BY <1>3, NewestPoint, LaterThanNone
<1>11. WriteInv
  BY <1>10 DEF Init, WriteInv, WritesHappened, AnswerIsLater, BatchIsLater, ReadYourWrites,
               NoAnswer, NoMutation, Idle
<1> QED
  BY <1>3, <1>4, <1>5, <1>6, <1>8, <1>9, <1>11 DEF IInv, TypeOK

LEMMA StepsKeep ==
    ASSUME IInv, [Next]_vars
    PROVE  IInv'
<1>1. CASE Next
  <2>1. AnswerIsExpected
    BY DEF IInv, ReadyInv
  <2>2. TypeOK' /\ PastInv'
    BY <1>1, <2>1, TypesKept, PastKept DEF IInv
  <2> QED
    BY <1>1, <2>2, ReadyKept, WriteKept DEF IInv
<1>2. CASE UNCHANGED vars
  <2>1. TypeOK'
    BY <1>2 DEF IInv, TypeOK, BoxTypes, ConnTypes, EntryTypes, SyncTypes, MirrorTypes, vars
  <2>2. PastInv'
    BY <1>2, PastStays DEF IInv, vars, boxVars
  <2>3. ReadyInv'
    BY <1>2, ReadyStays DEF IInv, ReadyInv, vars
  <2>4. WriteInv'
    BY <1>2, WritesStay DEF IInv, vars, boxVars
  <2> QED
    BY <2>1, <2>2, <2>3, <2>4 DEF IInv
<1> QED
  BY <1>1, <1>2

\* The invariant holds throughout: types, the mirror's past, readiness and writes.
THEOREM IInvHolds == Spec => []IInv
<1>1. Init => IInv
  BY InitHolds
<1>2. IInv /\ [Next]_vars => IInv'
  BY StepsKeep
<1> QED
  BY <1>1, <1>2, PTL DEF Spec

-----------------------------------------------------------------------------
(* The results, for any number of connections, processes, databases,       *)
(* changes, pages, synchronisations and faults.                            *)

\* The mirror is, as a whole, a past state of the Box's tables, however pages,
\* snapshots, pruned logs, new databases, lost connections and crashes follow
\* one another (replaceSnapshot, applyChanges, getInventoryChanges).
THEOREM MirrorIsPastAlways == Spec => []MirrorIsPast
<1>1. IInv => MirrorIsPast
  BY DEF IInv, PastInv
<1> QED
  BY <1>1, IInvHolds, PTL

\* A Box is ready only when this connection's own synchronisation ended
\* (markReady, synchronizeInventory).
THEOREM ReadyMeansSyncedAlways == Spec => []ReadyMeansSynced
<1>1. IInv => ReadyMeansSynced
  BY DEF IInv, ReadyInv, EntryIsOpen, SyncedIsOwn, ReadyMeansSynced
<1> QED
  BY <1>1, IInvHolds, PTL

\* What a caller was told of is in a mirror that is not marked stale
\* (#mutateResource, #reconcileInventory).
THEOREM ReadYourWritesAlways == Spec => []ReadYourWrites
<1>1. IInv => ReadYourWrites
  BY DEF IInv, WriteInv
<1> QED
  BY <1>1, IInvHolds, PTL

=============================================================================
