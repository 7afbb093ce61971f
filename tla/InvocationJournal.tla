------------------------- MODULE InvocationJournal -------------------------
(***************************************************************************)
(* The invocation journal of a Runtime Box                                 *)
(* (apps/runtime-box/src/invocation-journal.ts): a file that holds one     *)
(* record for every Action the Box has started and one tombstone for every *)
(* Action whose evidence the Agent Server has acknowledged.  The journal   *)
(* is what lets the Box answer "was this grant already used, and how did   *)
(* it end" after a crash, a failed write or a lost connection.             *)
(*                                                                         *)
(* Every operation of the journal is synchronous, so each is one action.   *)
(* A write of the file either succeeds, is lost (it fails before the       *)
(* rename, the file keeps its old content) or is torn (it fails after the  *)
(* rename: the new content is on disk and the caller still gets an error). *)
(***************************************************************************)
EXTENDS Actions

CONSTANTS
    MaxRecords,      \* maxInvocationJournalRecords
    MaxTombstones    \* maxConsumedGrantTombstones

ASSUME JournalAssumption ==
    /\ MaxRecords \in Nat \ {0}
    /\ MaxTombstones \in Nat \ {0}

VARIABLES
    records,         \* #records: the state of each invocation's record in memory
    consumedGrants,  \* #consumedGrants: the tombstone of each invocation in memory
    disk,            \* what invocations.json holds
    boxUp,           \* whether the Box process is running
    expired,         \* the invocations whose grant has expired
    admitted,        \* history: how often begin() admitted each invocation
    recorded         \* history: the outcome first recorded for each invocation

journalVars == <<records, consumedGrants, disk, boxUp, expired, admitted, recorded>>

-----------------------------------------------------------------------------
RecordStates   == EvidenceStates \union {"absent", "prepared", "running"}
GrantStates    == {"none", "unconfirmed", "confirmed"}

JournalFile == [records : [Invocations -> RecordStates],
                consumedGrants : [Invocations -> GrantStates]]

\* The records the Box offers to the Agent Server: those that have an outcome.
listEvidence == {i \in Invocations : records[i] \in EvidenceStates}

\* The receipts the Agent Server has not confirmed yet.
UnconfirmedReceipts == {i \in Invocations : consumedGrants[i] = "unconfirmed"}

Held(r)    == {i \in Invocations : r[i] # "absent"}
Tombs(g)   == {i \in Invocations : g[i] # "none"}

\* Wrong variant of pruning: it forgets that the grant must have expired.
PruneTooEarly(g) ==
    [i \in Invocations |-> IF g[i] = "confirmed" THEN "none" ELSE g[i]]

\* A tombstone goes only when the server confirmed the receipt AND the grant
\* it stands for has expired, so that a replay would be refused anyway.
PruneExpiredGrantTombstones(g) ==
    [i \in Invocations |-> IF g[i] = "confirmed" /\ i \in expired THEN "none" ELSE g[i]]

\* The first outcome that ever stood in a record of each invocation.
FirstOutcome(r) ==
    [i \in Invocations |->
        IF recorded[i] = "none" /\ r[i] \in EvidenceStates THEN r[i] ELSE recorded[i]]

\* A write that reached the disk.
Persist(r, g) == disk' = [records |-> r, consumedGrants |-> g]

JournalInit ==
    /\ records = [i \in Invocations |-> "absent"]
    /\ consumedGrants = [i \in Invocations |-> "none"]
    /\ disk = [records |-> records, consumedGrants |-> consumedGrants]
    /\ boxUp = TRUE
    /\ expired = {}
    /\ admitted = [i \in Invocations |-> 0]
    /\ recorded = [i \in Invocations |-> "none"]

-----------------------------------------------------------------------------
(* begin().  The checks on identity, target and parameters come before and *)
(* leave the journal alone; what follows is the part that reads it.        *)

\* The grant is neither expired, nor used, nor in the way of a full journal.
GrantUsable(i) ==
    /\ boxUp
    /\ i \notin expired
    /\ PruneExpiredGrantTombstones(consumedGrants)[i] = "none"
    /\ records[i] = "absent"
    /\ Cardinality(Held(records)) < MaxRecords

\* An unexpired grant reaches the pruning step; an expired one does not.
PruneInBegin(i) ==
    consumedGrants' = IF i \in expired THEN consumedGrants
                                       ELSE PruneExpiredGrantTombstones(consumedGrants)

\* A second request for an invocation that succeeded returns the stored result.
Replayable(i) ==
    /\ boxUp
    /\ i \notin expired
    /\ PruneExpiredGrantTombstones(consumedGrants)[i] = "none"
    /\ records[i] = "succeeded"

BeginReplay(i) ==
    /\ Replayable(i)
    /\ PruneInBegin(i)
    /\ UNCHANGED <<records, disk, boxUp, expired, admitted, recorded>>

BeginRejected(i) ==
    /\ boxUp
    /\ ~GrantUsable(i)
    /\ ~Replayable(i)
    /\ PruneInBegin(i)
    /\ UNCHANGED <<records, disk, boxUp, expired, admitted, recorded>>

\* Both writes (prepared, then running) succeed: the Action may execute.
BeginAdmitted(i) ==
    /\ GrantUsable(i)
    /\ PruneInBegin(i)
    /\ records' = [records EXCEPT ![i] = "running"]
    /\ Persist(records', consumedGrants')
    /\ admitted' = [admitted EXCEPT ![i] = @ + 1]
    /\ UNCHANGED <<boxUp, expired, recorded>>

\* The first write is lost: the record is removed again.
BeginPrepareFailed(i) ==
    /\ GrantUsable(i)
    /\ PruneInBegin(i)
    /\ UNCHANGED <<records, disk, boxUp, expired, admitted, recorded>>

\* A write is torn, or the second one is lost: the record becomes
\* outcome_unknown, and the recovery write may be lost too, which leaves the
\* disk with whichever of the earlier states got there.
BeginUncertain(i) ==
    /\ GrantUsable(i)
    /\ PruneInBegin(i)
    /\ records' = [records EXCEPT ![i] = "outcome_unknown"]
    /\ \E written \in {"prepared", "running", "outcome_unknown"} :
           Persist([records EXCEPT ![i] = written], consumedGrants')
    /\ recorded' = FirstOutcome(records')
    /\ UNCHANGED <<boxUp, expired, admitted>>

-----------------------------------------------------------------------------
(* The end of an Action: succeed(), fail(), cancel(), outcomeUnknown().    *)

\* Wrong variant: the outcome stays in memory.
FinishUnwritten(i, state) ==
    /\ boxUp
    /\ records[i] = "running"
    /\ records' = [records EXCEPT ![i] = state]
    /\ recorded' = FirstOutcome(records')
    /\ UNCHANGED <<consumedGrants, disk, boxUp, expired, admitted>>

\* The write reached the disk (whether or not the caller is told so).
Finish(i, state) ==
    /\ boxUp
    /\ records[i] = "running"
    /\ records' = [records EXCEPT ![i] = state]
    /\ Persist(records', consumedGrants)
    /\ recorded' = FirstOutcome(records')
    /\ UNCHANGED <<consumedGrants, boxUp, expired, admitted>>

\* The write was lost: the previous record, still running, is put back.
FinishLost(i) ==
    /\ boxUp
    /\ records[i] = "running"
    /\ UNCHANGED journalVars

-----------------------------------------------------------------------------
(* acknowledge(): the server has stored the evidence of "ids"; each record *)
(* that has an outcome becomes a tombstone while there is room for one.    *)

\* What acknowledge() may turn into tombstones, given the pruned tombstones g:
\* as many of the acknowledgeable records as there is room for.
Acknowledgeable(ids, g) ==
    LET room       == MaxTombstones - Cardinality(Tombs(g))
        candidates == ids \intersect listEvidence
    IN  {taken \in SUBSET candidates :
             \/ taken = candidates /\ Cardinality(taken) <= room
             \/ Cardinality(taken) = room /\ room < Cardinality(candidates)}

\* The ids the Box reports as acknowledged: those it took now, and those
\* it had taken before.
AcknowledgedIds(ids, taken) ==
    taken \union {i \in ids : records[i] = "absent"
                              /\ PruneExpiredGrantTombstones(consumedGrants)[i] # "none"}

Acknowledge(ids, taken) ==
    LET pruned == PruneExpiredGrantTombstones(consumedGrants) IN
    /\ boxUp
    /\ taken \in Acknowledgeable(ids, pruned)
    /\ records' = [i \in Invocations |-> IF i \in taken THEN "absent" ELSE records[i]]
    /\ consumedGrants' = [i \in Invocations |-> IF i \in taken THEN "unconfirmed" ELSE pruned[i]]
    /\ IF AcknowledgedIds(ids, taken) = {}
         THEN UNCHANGED disk
         ELSE Persist(records', consumedGrants')
    /\ UNCHANGED <<boxUp, expired, admitted, recorded>>

\* The write was lost: records and tombstones are put back.
AcknowledgeLost(ids) ==
    /\ boxUp
    /\ consumedGrants' = PruneExpiredGrantTombstones(consumedGrants)
    /\ UNCHANGED <<records, disk, boxUp, expired, admitted, recorded>>

(* confirmAcknowledgements(): the server has stored the receipts of "ids". *)
ConfirmAcknowledgements(ids) ==
    /\ boxUp
    /\ consumedGrants' = [i \in Invocations |->
           IF i \in ids /\ consumedGrants[i] # "none" THEN "confirmed" ELSE consumedGrants[i]]
    /\ IF ids \intersect Tombs(consumedGrants) = {}
         THEN UNCHANGED disk
         ELSE Persist(records, consumedGrants')
    /\ UNCHANGED <<records, boxUp, expired, admitted, recorded>>

\* The write was lost: every tombstone it touched is set back to unconfirmed.
ConfirmLost(ids) ==
    /\ boxUp
    /\ consumedGrants' = [i \in Invocations |->
           IF i \in ids /\ consumedGrants[i] # "none" THEN "unconfirmed" ELSE consumedGrants[i]]
    /\ UNCHANGED <<records, disk, boxUp, expired, admitted, recorded>>

-----------------------------------------------------------------------------
\* The Box process dies: memory is gone, the file stays.
BoxCrash ==
    /\ boxUp
    /\ boxUp' = FALSE
    /\ records' = [i \in Invocations |-> "absent"]
    /\ consumedGrants' = [i \in Invocations |-> "none"]
    /\ UNCHANGED <<disk, expired, admitted, recorded>>

\* #load turns an Action that was under way into outcome_unknown.
Recovered(r) ==
    [i \in Invocations |-> IF r[i] \in {"prepared", "running"} THEN "outcome_unknown" ELSE r[i]]

\* The Box starts again and loads the file.
BoxRestart ==
    /\ ~boxUp
    /\ boxUp' = TRUE
    /\ records' = Recovered(disk.records)
    /\ consumedGrants' = PruneExpiredGrantTombstones(disk.consumedGrants)
    /\ IF records' = disk.records THEN UNCHANGED disk
                                  ELSE Persist(records', consumedGrants')
    /\ recorded' = FirstOutcome(records')
    /\ UNCHANGED <<expired, admitted>>

\* The write of the recovered records fails after the rename: the constructor
\* throws and the process does not start, but the file is the recovered one.
BoxRestartTorn ==
    /\ ~boxUp
    /\ Recovered(disk.records) # disk.records
    /\ Persist(Recovered(disk.records), PruneExpiredGrantTombstones(disk.consumedGrants))
    /\ UNCHANGED <<records, consumedGrants, boxUp, expired, admitted, recorded>>

\* Sixty seconds after it was issued a grant expires.
GrantExpires(i) ==
    /\ i \notin expired
    /\ expired' = expired \union {i}
    /\ UNCHANGED <<records, consumedGrants, disk, boxUp, admitted, recorded>>

-----------------------------------------------------------------------------
(* The journal on its own: any caller, any order of calls, any write may   *)
(* fail and the process may die between any two calls.                     *)

Begin(i) ==
    \/ BeginReplay(i)
    \/ BeginRejected(i)
    \/ BeginAdmitted(i)
    \/ BeginPrepareFailed(i)
    \/ BeginUncertain(i)

JournalNext ==
    \/ \E i \in Invocations :
           \/ Begin(i)
           \/ \E state \in EvidenceStates : Finish(i, state)
           \/ FinishLost(i)
           \/ GrantExpires(i)
    \/ \E ids \in SUBSET Invocations :
           \/ \E taken \in SUBSET Invocations : Acknowledge(ids, taken)
           \/ AcknowledgeLost(ids)
           \/ ids \subseteq UnconfirmedReceipts /\ ConfirmAcknowledgements(ids)
           \/ ids \subseteq UnconfirmedReceipts /\ ConfirmLost(ids)
    \/ BoxCrash
    \/ BoxRestart
    \/ BoxRestartTorn

JournalSpec == JournalInit /\ [][JournalNext]_journalVars

-----------------------------------------------------------------------------
JournalTypeOK ==
    /\ records \in [Invocations -> RecordStates]
    /\ consumedGrants \in [Invocations -> GrantStates]
    /\ disk \in JournalFile
    /\ boxUp \in BOOLEAN
    /\ expired \subseteq Invocations
    /\ admitted \in [Invocations -> Nat]
    /\ recorded \in [Invocations -> EvidenceStates \union {"none"}]

\* However often a grant is presented, and whatever fails or crashes in
\* between, the Box lets an Action start at most once on it.
GrantAdmittedOnce == \A i \in Invocations : admitted[i] <= 1

\* As long as a grant could be presented again, the Box remembers that an Action
\* was started on it, and would remember it after a crash: begin() finds a record
\* or a tombstone whatever was acknowledged, confirmed, pruned or written in between.
SpentGrantsAreRemembered ==
    \A i \in Invocations :
        admitted[i] # 0 /\ i \notin expired =>
            /\ boxUp => i \in Held(records) \union Tombs(consumedGrants)
            /\ i \in Held(disk.records) \union Tombs(disk.consumedGrants)

\* A crash at any moment loses no outcome the Box has offered and no receipt
\* it holds: loading the file gives the same evidence and keeps every tombstone.
CrashLosesNothing ==
    boxUp => /\ \A i \in listEvidence : Recovered(disk.records)[i] = records[i]
             /\ Tombs(consumedGrants) \subseteq Tombs(disk.consumedGrants)

\* Whatever fails, crashes or is read back, an invocation never shows two
\* different outcomes: every outcome on offer is the first one recorded.
OneOutcome ==
    \A i \in Invocations :
        /\ records[i] \in EvidenceStates => records[i] = recorded[i]
        /\ Recovered(disk.records)[i] \in EvidenceStates /\ recorded[i] # "none"
              => Recovered(disk.records)[i] = recorded[i]

\* The file never outgrows the schema the loader checks it against, so that
\* the Box can always start from what it wrote.
JournalLoads ==
    /\ Cardinality(Held(disk.records)) <= MaxRecords
    /\ Cardinality(Tombs(disk.consumedGrants)) <= MaxTombstones

\* On disk an outcome never changes and never just disappears: a record that
\* has one stays as it is until a tombstone replaces it, and the tombstone
\* stays until the server has confirmed its receipt.
OutcomeIsFinal ==
    [][\A i \in Invocations :
           /\ disk.records[i] \in EvidenceStates =>
                 \/ disk'.records[i] = disk.records[i]
                 \/ disk'.records[i] = "absent" /\ disk'.consumedGrants[i] = "unconfirmed"
           /\ disk.consumedGrants[i] = "unconfirmed" => disk'.consumedGrants[i] # "none"
      ]_journalVars
=============================================================================
