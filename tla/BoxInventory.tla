---------------------------- MODULE BoxInventory ----------------------------
(***************************************************************************)
(* The Agent Server's mirror of a Runtime Box's inventory: the connections *)
(* of the Box and the generation fence in front of them                    *)
(* (apps/agents-server/src/runtime-box-generation-fence.ts), the registry  *)
(* entry of the Box and the synchronisation it runs                        *)
(* (runtime-box-registry.ts), the durable mirror                           *)
(* (packages/database/src/runtime-box-inventory-repository.ts) and, on the *)
(* other side, the Box's resources and the log of their changes            *)
(* (apps/runtime-box/src/runtime-resource-store.ts).                       *)
(*                                                                         *)
(* The hints of a connection arrive in order; an answer may overtake them. *)
(* Everything between two awaits of the code is one step.  A connection    *)
(* that closes rejects its requests at once, so that no synchronisation    *)
(* outlives its connection; a late answer is not read.                     *)
(***************************************************************************)
EXTENDS Integers, Sequences, FiniteSets

CONSTANTS
    MaxPeers,      \* bound on the connections the Box opens, 1..MaxPeers
    Instances,     \* the processes of the Box
    GenerationOf,
    Nobody,
    Names,         \* the resources
    MaxEpoch,      \* bound on new databases of the Box
    MaxRevision,   \* bound on the changes of each epoch
    MaxChanges,    \* maxInventoryChangeRecords
    PageSize,      \* inventoryPageSize
    MaxQueue,      \* bound on the synchronisations in the queue
    MaxHints,      \* bound on the hints that are on their way
    MaxFaults      \* bound on failing requests, unsent hints and crashes

ASSUME BoxInventoryAssumption ==
    /\ GenerationOf \in [Instances -> Nat]
    /\ Instances \cap {Nobody, "unused", "closed"} = {}
    /\ {MaxPeers, MaxEpoch, MaxChanges, PageSize} \subseteq Nat \ {0}
    /\ MaxRevision \in [1..MaxEpoch -> Nat]
    /\ {MaxQueue, MaxHints, MaxFaults} \subseteq Nat

VARIABLES
    epoch,         \* inventory_state.epoch of the Box
    log,           \* every change of every epoch (the Box keeps the last ones)
    resources,     \* the Box's tables: the version of each resource, 0 for none
    conn,          \* each connection: "unused", the process of the Box, "closed"
    hints,         \* runtimeBoxInventoryChanged, sent on it and not yet read
    accepted,      \* runtime_box_generation_fences: the newest process accepted
    entry,         \* the registry's entry of the Box
    ops,           \* inventorySyncTail: the synchronisations of the entry
    fetch,         \* how far the first of them is
    answer,        \* the answer to its request that is on its way
    mirror,        \* runtime_box_inventory_state and _cache
    mutation,      \* a change asked for through the server
    wrote,         \* the newest such change that was answered
    faults

boxVars == <<epoch, log, resources>>
connVars == <<conn, hints>>
vars == <<epoch, log, resources, conn, hints, accepted, entry, ops, fetch, answer,
          mirror, mutation, wrote, faults>>

-----------------------------------------------------------------------------
Peers == 1..MaxPeers
None == 0            \* no connection
Epochs == 1..MaxEpoch
Point(e, r) == [epoch |-> e, revision |-> r]
NoPoint == Point(0, 0)
Absent == [n \in Names |-> 0]

NoEntry == [peer |-> None, ready |-> FALSE, synced |-> FALSE,
            timer |-> "none", hint |-> NoPoint]
NoAnswer == [kind |-> "none"]
NoMutation == [state |-> "none", at |-> NoPoint]
Idle == [whole |-> FALSE, through |-> 0, batch |-> <<>>]

Init ==
    /\ epoch = 1
    /\ log = [e \in Epochs |-> <<>>]
    /\ resources = Absent
    /\ conn = [p \in Peers |-> "unused"]
    /\ hints = [p \in Peers |-> <<>>]
    /\ accepted = Nobody
    /\ entry = NoEntry
    /\ ops = <<>>
    /\ fetch = Idle
    /\ answer = NoAnswer
    /\ mirror = [at |-> NoPoint, content |-> Absent, by |-> Nobody, stale |-> TRUE]
    /\ mutation = NoMutation
    /\ wrote = NoPoint
    /\ faults = 0

Open(p) == conn[p] \in Instances
Opened == {p \in Peers : Open(p)}
Current(p) == entry.peer = p /\ Open(p)
Fails == faults < MaxFaults /\ faults' = faults + 1

-----------------------------------------------------------------------------
(* The Box's log.                                                          *)

Positions(batch, n) == {i \in 1..Len(batch) : batch[i].name = n}
LastOf(s) == CHOOSE i \in s : \A j \in s : j <= i

\* What a batch of changes makes of a resource: its last change counts.
Outcome(batch, n) ==
    LET c == batch[LastOf(Positions(batch, n))]
    IN  IF c.op = "delete" THEN 0 ELSE c.revision

Applied(content, batch) ==
    [n \in Names |-> IF Positions(batch, n) = {} THEN content[n] ELSE Outcome(batch, n)]

Revision == Len(log[epoch])
Newest == Point(epoch, Revision)

\* The rows after a revision and up to another; whether a row is still kept.
Rows(e, from, through) == SubSeq(log[e], from + 1, through)
Kept(r) == r > Revision - MaxChanges

\* getInventoryChanges: what can no longer be told change by change.
Unavailable(at) ==
    \/ at.epoch # epoch
    \/ at.revision > Revision
    \/ at.revision < Revision /\ ~Kept(at.revision + 1)

SnapshotOf(p) ==
    [kind |-> "snapshot", at |-> Newest, content |-> resources, by |-> conn[p]]
Page(after, through) ==
    LET last == IF after + PageSize < through THEN after + PageSize ELSE through
    IN  [kind |-> "page", through |-> through, changes |-> Rows(epoch, after, last)]
Resync == [kind |-> "resync"]
\* #appendChange, in the transaction of the change itself.
Changes(n, op) ==
    /\ Revision < MaxRevision[epoch]
    /\ op = "delete" => resources[n] # 0
    /\ log' = [log EXCEPT ![epoch] =
           Append(@, [revision |-> Revision + 1, name |-> n, op |-> op])]
    /\ resources' = [resources EXCEPT ![n] = IF op = "delete" THEN 0 ELSE Revision + 1]
    /\ epoch' = epoch
After == Point(epoch, Revision + 1)

-----------------------------------------------------------------------------
(* The registry.                                                           *)

\* Wrong variant: a failed synchronisation of a live connection is overlooked.
MarkedStaleOffline == IF entry.synced THEN mirror ELSE [mirror EXCEPT !.stale = TRUE]
MarkedStale == [mirror EXCEPT !.stale = TRUE]

\* clear: the entry stays without a connection.  The caller of a mutation whose
\* result has arrived is told that it succeeded, any other that it failed.
Cleared ==
    /\ entry' = NoEntry
    /\ ops' = <<>>
    /\ fetch' = Idle
    /\ answer' = NoAnswer
    /\ mirror' = MarkedStale
    /\ mutation' = NoMutation
    /\ wrote' = IF mutation.state = "reconciling" THEN mutation.at ELSE wrote

\* The connections that are left: what was sent on another is not read.
Left(open) == [p \in Peers |-> IF Open(p) /\ p \notin open THEN "closed" ELSE conn[p]]
Unread(open) == [p \in Peers |-> IF p \in open THEN hints[p] ELSE <<>>]
Keeps(open) == conn' = Left(open) /\ hints' = Unread(open)

\* acquire: only a newer process, or the same one again, takes over.
Accepts(i) ==
    accepted # Nobody => i = accepted \/ GenerationOf[i] > GenerationOf[accepted]
\* onFenced closes the connection there was.
Fenced(p) == Opened

Sync(kind, at) == [kind |-> kind, target |-> at]

\* The poll timer replaces whatever timer there is.
WithPoll(e) == [e EXCEPT !.timer = "poll"]
\* Wrong variant: the poll starts once, after the first synchronisation.
RescheduledOnce(op, e) == IF op.kind = "initial" THEN WithPoll(e) ELSE e
Rescheduled(op, e) == IF op.kind = "mutation" THEN e ELSE WithPoll(e)

\* A synchronisation that ended, and with it the mutation that waited.
Completes(op) ==
    /\ ops' = Tail(ops)
    /\ fetch' = Idle
    /\ IF op.kind = "mutation"
       THEN mutation' = NoMutation /\ wrote' = op.target
       ELSE UNCHANGED <<mutation, wrote>>

\* replaceSnapshot and applyChanges.
\* Wrong variant: what the snapshot does not name stays.
ReplacedMerging(m) ==
    [at |-> m.at, by |-> m.by, stale |-> FALSE,
     content |-> [n \in Names |-> IF m.content[n] = 0 THEN mirror.content[n] ELSE m.content[n]]]
Replaced(m) == [at |-> m.at, content |-> m.content, by |-> m.by, stale |-> FALSE]
Extended(at, batch) ==
    [mirror EXCEPT !.at = at, !.content = Applied(@, batch), !.stale = FALSE]

-----------------------------------------------------------------------------
(* The Box.                                                                *)

\* The listener of the connection sends a hint.
Hints(p) ==
    /\ Len(hints[p]) < MaxHints
    /\ hints' = [hints EXCEPT ![p] = Append(@, After)]

\* A change of its own, or by a local user; the hint may go unsent
\* (publishChange comes after a step that can fail).
BoxChanges(n, op) ==
    /\ Changes(n, op)
    /\ \/ (\E p \in Opened : Hints(p)) /\ faults' = faults
       \/ Opened = {} /\ UNCHANGED <<hints, faults>>
       \/ Opened # {} /\ Fails /\ hints' = hints
    /\ UNCHANGED <<conn, accepted, entry, ops, fetch, answer, mirror, mutation, wrote>>

\* The change a server asked for.
BoxMutates(n, op) ==
    /\ mutation.state = "asked"
    /\ Changes(n, op)
    /\ Hints(entry.peer)
    /\ mutation' = [state |-> "done", at |-> After]
    /\ UNCHANGED <<conn, accepted, entry, ops, fetch, answer, mirror, wrote, faults>>

\* A process that finds no database starts another epoch.
BoxStartsAnew ==
    /\ epoch < MaxEpoch
    /\ Opened = {}
    /\ epoch' = epoch + 1
    /\ resources' = Absent
    /\ UNCHANGED <<log, connVars, accepted, entry, ops, fetch, answer, mirror, mutation, wrote, faults>>

\* What the first synchronisation of the queue asks for: everything, or what
\* came after the mirror.
AsksForAll ==
    LET target == Head(ops).target
    IN  \/ fetch.whole
        \/ Head(ops).kind = "initial"
        \/ mirror.at = NoPoint
        \/ target # NoPoint /\ target.epoch # mirror.at.epoch

\* The handlers of inventory.getSnapshot and inventory.getChanges: the first
\* page fixes the revision that the pages after it go to.
Answer(p) ==
    LET through == IF fetch.batch = <<>> THEN Revision ELSE fetch.through
    IN  IF AsksForAll THEN SnapshotOf(p)
        ELSE IF Unavailable(mirror.at) THEN Resync
        ELSE Page(mirror.at.revision + Len(fetch.batch), through)

BoxAnswers(p) ==
    /\ Current(p)
    /\ ops # <<>>
    /\ answer = NoAnswer
    /\ answer' = Answer(p)
    /\ UNCHANGED <<boxVars, connVars, accepted, entry, ops, fetch, mirror, mutation, wrote,
                   faults>>

-----------------------------------------------------------------------------
(* The connections of the Box.                                             *)

\* A handshake; the connection before it is closed.
Handshake(p, i) ==
    /\ conn[p] = "unused"
    /\ \A q \in 1..(p - 1) : conn[q] # "unused"
    /\ Accepts(i)
    /\ accepted' = i
    /\ conn' = [Left(Opened \ Fenced(p)) EXCEPT ![p] = i]
    /\ hints' = Unread(Opened \ Fenced(p))
    /\ IF entry.peer \in Fenced(p) THEN Cleared
       ELSE UNCHANGED <<entry, ops, fetch, answer, mirror, mutation, wrote>>
    /\ UNCHANGED <<boxVars, faults>>

\* A newer process whose protocol is not understood says so: onUpgradeRequired.
ReportsUpgrade(i) ==
    /\ Accepts(i)
    /\ i # accepted
    /\ accepted' = i
    /\ Keeps(Opened \ {entry.peer})
    /\ Cleared
    /\ UNCHANGED <<boxVars, faults>>

\* The Box leaves, the network fails, or the user revokes its key.
Disconnects(p) ==
    /\ Open(p)
    /\ Keeps(Opened \ {p})
    /\ IF entry.peer = p THEN Cleared
       ELSE UNCHANGED <<entry, ops, fetch, answer, mirror, mutation, wrote>>
    /\ UNCHANGED <<boxVars, accepted, faults>>

\* A crash of the server; the fence and the mirror are durable.
Crashes ==
    /\ Fails
    /\ Keeps({})
    /\ entry' = NoEntry
    /\ ops' = <<>>
    /\ fetch' = Idle
    /\ answer' = NoAnswer
    /\ mutation' = NoMutation
    /\ UNCHANGED <<boxVars, accepted, mirror, wrote>>

\* The first request of the Box; its answer waits for the first synchronisation.
Register(p) ==
    /\ Open(p)
    /\ entry.peer = None
    /\ entry' = [NoEntry EXCEPT !.peer = p]
    /\ ops' = <<Sync("initial", NoPoint)>>
    /\ mirror' = MarkedStale
    /\ UNCHANGED <<boxVars, connVars, accepted, fetch, answer, mutation, wrote, faults>>

\* Wrong variant: the Box's word is taken.
MarkReadyUnsynced(p) ==
    /\ Current(p)
    /\ ~entry.ready
    /\ entry' = [entry EXCEPT !.ready = TRUE]
    /\ UNCHANGED <<boxVars, connVars, accepted, ops, fetch, answer, mirror, mutation, wrote, faults>>

MarkReady(p) ==
    /\ Current(p)
    /\ entry.synced
    /\ ~entry.ready
    /\ entry' = [entry EXCEPT !.ready = TRUE]
    /\ UNCHANGED <<boxVars, connVars, accepted, ops, fetch, answer, mirror, mutation, wrote, faults>>

-----------------------------------------------------------------------------
(* The synchronisation.                                                    *)

\* #mutateResource asks a Box that is ready.
Mutate ==
    /\ mutation = NoMutation
    /\ entry.ready
    /\ mutation' = [NoMutation EXCEPT !.state = "asked"]
    /\ UNCHANGED <<boxVars, connVars, accepted, entry, ops, fetch, answer, mirror, wrote, faults>>

\* Its request is refused, times out or is cancelled: a result is not read.
MutationFails ==
    /\ mutation.state \in {"asked", "done"}
    /\ Fails
    /\ mutation' = NoMutation
    /\ UNCHANGED <<boxVars, connVars, accepted, entry, ops, fetch, answer, mirror, wrote>>

\* Its result: the caller waits until the mirror has it.
ResultArrives ==
    /\ mutation.state = "done"
    /\ mutation' = [mutation EXCEPT !.state = "reconciling"]
    /\ ops' = Append(ops, Sync("mutation", mutation.at))
    /\ UNCHANGED <<boxVars, connVars, accepted, entry, fetch, answer, mirror, wrote, faults>>

\* handleInventoryChanged keeps the newest hint and starts its timer anew.
HintArrives(p) ==
    /\ Open(p)
    /\ hints[p] # <<>>
    /\ hints' = [hints EXCEPT ![p] = Tail(@)]
    /\ LET at == Head(hints[p])
           older == entry.hint.epoch = at.epoch /\ entry.hint.revision > at.revision
       IN  entry' = IF Current(p) /\ entry.synced
                    THEN [entry EXCEPT !.timer = "hint", !.hint = IF older THEN @ ELSE at]
                    ELSE entry
    /\ UNCHANGED <<boxVars, conn, accepted, ops, fetch, answer, mirror, mutation, wrote, faults>>

\* The timer of a hint or of the poll.
TimerFires ==
    /\ entry.timer # "none"
    /\ Len(ops) < MaxQueue
    /\ LET hinted == entry.timer = "hint"
       IN  /\ ops' = Append(ops, Sync(entry.timer, IF hinted THEN entry.hint ELSE NoPoint))
           /\ entry' = [entry EXCEPT !.timer = "none",
                                     !.hint = IF hinted THEN NoPoint ELSE @]
    /\ UNCHANGED <<boxVars, connVars, accepted, fetch, answer, mirror, mutation, wrote, faults>>

\* A request of the first synchronisation times out or is refused.
SyncFails ==
    /\ ops # <<>>
    /\ Fails
    /\ IF Head(ops).kind = "initial"
       THEN Cleared
       ELSE /\ Completes(Head(ops))
            /\ mirror' = MarkedStale
            /\ entry' = Rescheduled(Head(ops), entry)
            /\ answer' = NoAnswer
    /\ UNCHANGED <<boxVars, connVars, accepted>>

\* synchronizeInventory and #replaceInventorySnapshot.
SnapshotArrives ==
    /\ answer.kind = "snapshot"
    /\ answer' = NoAnswer
    /\ mirror' = Replaced(answer)
    /\ LET op == Head(ops)
           e == [entry EXCEPT !.synced = TRUE]
       IN  /\ entry' = IF op.kind = "initial" THEN WithPoll([e EXCEPT !.hint = NoPoint])
                       ELSE Rescheduled(op, e)
           /\ Completes(op)
    /\ UNCHANGED <<boxVars, connVars, accepted, faults>>

\* A page: the batch is applied when it is whole, and the loop ends when the
\* hint's revision is reached.  Sizes and the number of passes are not
\* modelled: any batch may be too large, and then a snapshot replaces it.
PageArrives ==
    /\ answer.kind = "page"
    /\ answer' = NoAnswer
    /\ LET batch == fetch.batch \o answer.changes
           reached == mirror.at.revision + Len(batch)
           op == Head(ops)
       IN  \/ /\ reached = answer.through
              /\ mirror' = Extended(Point(mirror.at.epoch, reached), batch)
              /\ IF op.target = NoPoint \/ reached >= op.target.revision
                 THEN Completes(op) /\ entry' = Rescheduled(op, entry)
                 ELSE fetch' = Idle /\ UNCHANGED <<entry, ops, mutation, wrote>>
           \/ /\ reached < answer.through
              /\ fetch' = [fetch EXCEPT !.batch = batch, !.through = answer.through]
              /\ UNCHANGED <<entry, ops, mirror, mutation, wrote>>
           \/ /\ batch # <<>>
              /\ fetch' = [Idle EXCEPT !.whole = TRUE]
              /\ UNCHANGED <<entry, ops, mirror, mutation, wrote>>
    /\ UNCHANGED <<boxVars, connVars, accepted, faults>>

\* InventoryResyncRequested, INVENTORY_RESYNC_REQUIRED.
ResyncArrives ==
    /\ answer.kind = "resync"
    /\ answer' = NoAnswer
    /\ fetch' = [Idle EXCEPT !.whole = TRUE]
    /\ UNCHANGED <<boxVars, connVars, accepted, entry, ops, mirror, mutation, wrote, faults>>

AnswerArrives == SnapshotArrives \/ PageArrives \/ ResyncArrives

-----------------------------------------------------------------------------
Next ==
    \/ \E n \in Names, op \in {"upsert", "delete"} : BoxChanges(n, op) \/ BoxMutates(n, op)
    \/ BoxStartsAnew
    \/ \E i \in Instances : ReportsUpgrade(i) \/ (\E p \in Peers : Handshake(p, i))
    \/ \E p \in Peers :
          \/ Disconnects(p)
          \/ Register(p)
          \/ MarkReady(p)
          \/ BoxAnswers(p)
          \/ HintArrives(p)
    \/ Crashes
    \/ Mutate
    \/ MutationFails
    \/ ResultArrives
    \/ TimerFires
    \/ SyncFails
    \/ AnswerArrives

Spec == Init /\ [][Next]_vars

\* Timers fire, the Box answers or the request fails, what was sent arrives.
\* Nothing says that a Box connects, stays or is asked for anything.
Fairness ==
    /\ WF_vars(TimerFires)
    /\ WF_vars(AnswerArrives)
    /\ \A p \in Peers : WF_vars(BoxAnswers(p)) /\ WF_vars(HintArrives(p))

FairSpec == Spec /\ Fairness

-----------------------------------------------------------------------------
(* What the mirror promises.                                               *)

Told(e, r) == Applied(Absent, Rows(e, 0, r))
Later(a, b) == a.epoch > b.epoch \/ (a.epoch = b.epoch /\ a.revision >= b.revision)

\* The mirror is, as a whole, what the Box's resources once were: never a mix
\* of two moments, whatever pages, resets, pruned logs and snapshots it was
\* put together from (applyChanges, replaceSnapshot).  And the tables of the
\* Box are what its log says (#appendChange).
MirrorIsPast ==
    /\ resources = Told(epoch, Revision)
    /\ mirror.at # NoPoint =>
          /\ mirror.at.epoch \in 1..epoch
          /\ mirror.at.revision <= Len(log[mirror.at.epoch])
          /\ mirror.content = Told(mirror.at.epoch, mirror.at.revision)

\* A Box is ready on an open connection whose own synchronisation ended: the
\* mirror was then replaced by what this process of the Box sent (markReady:
\* a cached revision that happens to be the same does not do).
ReadyMeansSynced ==
    entry.ready => /\ Open(entry.peer)
                   /\ mirror.at.epoch = epoch
                   /\ mirror.by = conn[entry.peer]

\* A mirror that is not marked stale shows every change whose caller was told
\* that it succeeded (#mutateResource).
ReadYourWrites == ~mirror.stale => Later(mirror.at, wrote)

\* While a connection is synchronised, the mirror keeps catching up with the
\* Box: lost hints, coalesced hints, hints whose timer the poll's replaced and
\* failed synchronisations only delay it.
MirrorConverges ==
    []<>(~entry.synced \/ (mirror.at = Newest /\ ~mirror.stale))

\* What the documents say and the code does not keep.
\* A process that is older than the accepted one is refused: not when its
\* handshake came before the newer process reported itself.
NewestIsRegistered == entry.peer # None => conn[entry.peer] = accepted

\* The inventory of a Box that is offline is marked stale: not after a crash
\* of the server.
OfflineIsStale == entry.peer = None => mirror.stale

=============================================================================
