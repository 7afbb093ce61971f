----------------------------- MODULE Actions_proofs -----------------------------
(***************************************************************************)
(* Proofs about the Action pipeline, the Box's invocation journal in it    *)
(* and the approvals that Actions wait for, for any invocations, requests, *)
(* Sessions, commands, capacities and number of faults.                    *)
(*                                                                         *)
(* First the journal alone: an outcome is recorded once and survives every *)
(* crash, a grant is consumed once.  Then the pipeline, which drives the   *)
(* journal only as the journal module allows, so that everything proved of *)
(* the journal holds in it; no step of it revises a verdict; the evidence  *)
(* of an outcome travels from the Box to the server and its receipt back   *)
(* without ever being wrong; and so the pipeline implements ActionOutcome. *)
(*                                                                         *)
(* Approvals, from "The rows and the commands of the approvals" on: what   *)
(* is allowed was approved, decisions are final, and commands take effect  *)
(* once.                                                                   *)
(***************************************************************************)
EXTENDS ActionPipeline, Approvals, FiniteSetTheorems, TLAPS

-----------------------------------------------------------------------------
(* The journal: the state predicates have the types of the code's fields.  *)

\* Pruning keeps the shape of the table of tombstones.
LEMMA PruneType ==
    ASSUME NEW g \in [Invocations -> GrantStates]
    PROVE  PruneExpiredGrantTombstones(g) \in [Invocations -> GrantStates]
BY DEF PruneExpiredGrantTombstones, GrantStates

\* What #load makes of a file is again a table of records.
LEMMA RecoveredType ==
    ASSUME NEW r \in [Invocations -> RecordStates]
    PROVE  Recovered(r) \in [Invocations -> RecordStates]
BY DEF Recovered, RecordStates, EvidenceStates, TerminalStates

\* The history of first outcomes keeps its type.
LEMMA FirstOutcomeType ==
    ASSUME recorded \in [Invocations -> EvidenceStates \union {"none"}],
           NEW r \in [Invocations -> RecordStates]
    PROVE  FirstOutcome(r) \in [Invocations -> EvidenceStates \union {"none"}]
BY DEF FirstOutcome

\* Every step of the journal keeps every variable in its type.
LEMMA JournalTypeStep ==
    JournalTypeOK /\ [JournalNext]_journalVars => JournalTypeOK'
<1> SUFFICES ASSUME JournalTypeOK, [JournalNext]_journalVars
             PROVE  JournalTypeOK'
    OBVIOUS
<1> USE DEF JournalTypeOK, JournalFile
<1> DEFINE pruned == PruneExpiredGrantTombstones(consumedGrants)
<1>0. pruned \in [Invocations -> GrantStates]
    BY PruneType
<1>1. ASSUME NEW i \in Invocations, Begin(i)
      PROVE  JournalTypeOK'
    <2>1. consumedGrants' \in [Invocations -> GrantStates]
        BY <1>0, <1>1 DEF Begin, BeginReplay, BeginRejected, BeginAdmitted,
           BeginPrepareFailed, BeginUncertain, PruneInBegin
    <2>2. CASE BeginReplay(i) \/ BeginRejected(i) \/ BeginPrepareFailed(i)
        BY <2>1, <2>2 DEF BeginReplay, BeginRejected, BeginPrepareFailed
    <2>3. CASE BeginAdmitted(i)
        BY <2>1, <2>3 DEF BeginAdmitted, Persist, RecordStates
    <2>4. CASE BeginUncertain(i)
        <3>1. /\ records' \in [Invocations -> RecordStates]
              /\ disk' \in JournalFile
            BY <2>1, <2>4 DEF BeginUncertain, Persist, RecordStates, EvidenceStates
        <3> QED
            BY <2>1, <2>4, <3>1, FirstOutcomeType DEF BeginUncertain
    <2> QED
        BY <1>1, <2>2, <2>3, <2>4 DEF Begin
<1>2. ASSUME NEW i \in Invocations, NEW state \in EvidenceStates, Finish(i, state)
      PROVE  JournalTypeOK'
    <2>1. records' \in [Invocations -> RecordStates] /\ disk' \in JournalFile
        BY <1>2 DEF Finish, Persist, RecordStates
    <2> QED
        BY <1>2, <2>1, FirstOutcomeType DEF Finish
<1>3. ASSUME NEW i \in Invocations, FinishLost(i) \/ GrantExpires(i)
      PROVE  JournalTypeOK'
    BY <1>3 DEF FinishLost, GrantExpires, journalVars
<1>4. ASSUME NEW ids \in SUBSET Invocations, NEW taken \in SUBSET Invocations,
             Acknowledge(ids, taken)
      PROVE  JournalTypeOK'
    BY <1>0, <1>4 DEF Acknowledge, Persist, RecordStates, GrantStates
<1>5. ASSUME NEW ids \in SUBSET Invocations,
             AcknowledgeLost(ids) \/ ConfirmAcknowledgements(ids) \/ ConfirmLost(ids)
      PROVE  JournalTypeOK'
    BY <1>0, <1>5 DEF AcknowledgeLost, ConfirmAcknowledgements, ConfirmLost, Persist, GrantStates
<1>6. CASE BoxCrash
    BY <1>6 DEF BoxCrash, RecordStates, GrantStates
<1>7. CASE BoxRestart
    <2>1. /\ records' \in [Invocations -> RecordStates]
          /\ consumedGrants' \in [Invocations -> GrantStates]
        BY <1>7, RecoveredType, PruneType DEF BoxRestart
    <2>2. disk' \in JournalFile
        BY <1>7, <2>1 DEF BoxRestart, Persist
    <2> QED
        BY <1>7, <2>1, <2>2, FirstOutcomeType DEF BoxRestart
<1>8. CASE BoxRestartTorn
    BY <1>8, RecoveredType, PruneType DEF BoxRestartTorn, Persist
<1>9. CASE UNCHANGED journalVars
    BY <1>9 DEF journalVars
<1> QED
    BY <1>1, <1>2, <1>3, <1>4, <1>5, <1>6, <1>7, <1>8, <1>9 DEF JournalNext

LEMMA JournalTypeInit == JournalInit => JournalTypeOK
BY DEF JournalInit, JournalTypeOK, JournalFile, RecordStates, GrantStates

\* The fields of the journal, its file and its history always have their types.
THEOREM JournalTypeCorrect == JournalSpec => []JournalTypeOK
BY JournalTypeInit, JournalTypeStep, PTL DEF JournalSpec

-----------------------------------------------------------------------------
(* A grant that was spent leaves a trace, in memory and in the file, that  *)
(* outlasts every failure: this is what GrantAdmittedOnce rests on.        *)

Trace(r, g, e, i) == r[i] # "absent" \/ g[i] # "none" \/ i \in e

Spent(a, f, i) == a[i] # 0 \/ f[i] # "none"

TraceInv ==
    \A i \in Invocations :
        /\ admitted[i] <= 1
        /\ Spent(admitted, recorded, i) => /\ boxUp => Trace(records, consumedGrants, expired, i)
                       /\ Trace(disk.records, disk.consumedGrants, expired, i)

\* Pruning takes no trace away: what it drops had expired.
LEMMA PruneKeepsTrace ==
    ASSUME NEW r, NEW g \in [Invocations -> GrantStates], NEW i \in Invocations
    PROVE  Trace(r, PruneExpiredGrantTombstones(g), expired, i) <=> Trace(r, g, expired, i)
BY DEF Trace, PruneExpiredGrantTombstones, GrantStates

\* A grant that begin() may use has left no trace, so it was never spent.
LEMMA UsableIsUnspent ==
    ASSUME JournalTypeOK, TraceInv, NEW i \in Invocations, GrantUsable(i)
    PROVE  admitted[i] = 0 /\ recorded[i] = "none"
<1>1. consumedGrants \in [Invocations -> GrantStates]
    BY DEF JournalTypeOK
<1>2. boxUp /\ ~Trace(records, PruneExpiredGrantTombstones(consumedGrants), expired, i)
    BY DEF GrantUsable, Trace
<1>3. boxUp /\ ~Trace(records, consumedGrants, expired, i)
    BY <1>1, <1>2, PruneKeepsTrace
<1> QED
    BY <1>3 DEF TraceInv, Spent, JournalTypeOK

\* The history of first outcomes changes only where a record has an outcome.
LEMMA FirstOutcomeTrace ==
    ASSUME JournalTypeOK, NEW r \in [Invocations -> RecordStates], NEW i \in Invocations,
           recorded[i] = "none", FirstOutcome(r)[i] # "none"
    PROVE  r[i] # "absent"
BY DEF FirstOutcome, JournalTypeOK, EvidenceStates, TerminalStates

\* Every step keeps the trace of every spent grant.
LEMMA TraceStep ==
    JournalTypeOK /\ TraceInv /\ [JournalNext]_journalVars => TraceInv'
<1> SUFFICES ASSUME JournalTypeOK, TraceInv, [JournalNext]_journalVars, NEW j \in Invocations
             PROVE  /\ admitted'[j] <= 1
                    /\ Spent(admitted', recorded', j) => /\ boxUp' => Trace(records', consumedGrants', expired', j)
                                    /\ Trace(disk'.records, disk'.consumedGrants, expired', j)
    BY DEF TraceInv, Trace
<1> DEFINE Goal == /\ admitted'[j] <= 1
                   /\ Spent(admitted', recorded', j) => /\ boxUp' => Trace(records', consumedGrants', expired', j)
                                   /\ Trace(disk'.records, disk'.consumedGrants, expired', j)
           pruned == PruneExpiredGrantTombstones(consumedGrants)
<1>0. /\ pruned \in [Invocations -> GrantStates]
      /\ \A k \in Invocations : pruned[k] # consumedGrants[k] => k \in expired
    BY DEF JournalTypeOK, PruneExpiredGrantTombstones, GrantStates
<1>a. /\ admitted[j] <= 1
      /\ Spent(admitted, recorded, j) => /\ boxUp => Trace(records, consumedGrants, expired, j)
                     /\ Trace(disk.records, disk.consumedGrants, expired, j)
    BY DEF TraceInv
<1>1. ASSUME NEW i \in Invocations, Begin(i)
      PROVE  Goal
    <2>0. consumedGrants' \in {consumedGrants, pruned}
        BY <1>1 DEF Begin, BeginReplay, BeginRejected, BeginAdmitted,
           BeginPrepareFailed, BeginUncertain, PruneInBegin
    <2>1. CASE BeginReplay(i) \/ BeginRejected(i) \/ BeginPrepareFailed(i)
        BY <1>0, <1>a, <2>0, <2>1
           DEF BeginReplay, BeginRejected, BeginPrepareFailed, Spent, Trace
    <2>2. CASE BeginAdmitted(i)
        <3>1. admitted[i] = 0 /\ recorded[i] = "none" /\ boxUp
            BY <2>2, UsableIsUnspent DEF BeginAdmitted, GrantUsable
        <3> QED
            BY <1>0, <1>a, <2>0, <2>2, <3>1
               DEF BeginAdmitted, Persist, Spent, Trace, JournalTypeOK
    <2>3. CASE BeginUncertain(i)
        <3>1. admitted[i] = 0 /\ recorded[i] = "none" /\ boxUp
            BY <2>3, UsableIsUnspent DEF BeginUncertain, GrantUsable
        <3>2. /\ records' \in [Invocations -> RecordStates]
              /\ recorded' = FirstOutcome(records')
            BY <2>3 DEF BeginUncertain, JournalTypeOK, RecordStates, EvidenceStates
        <3>3. PICK written \in {"prepared", "running", "outcome_unknown"} :
                  disk' = [records |-> [records EXCEPT ![i] = written],
                           consumedGrants |-> consumedGrants']
            BY <2>3 DEF BeginUncertain, Persist
        <3>4. CASE j = i
            BY <2>3, <3>1, <3>3, <3>4 DEF BeginUncertain, Spent, Trace, JournalTypeOK
        <3>5. CASE j # i
            <4>1. recorded[j] = "none" /\ recorded'[j] # "none" => records[j] # "absent"
                BY <2>3, <3>2, <3>5, FirstOutcomeTrace DEF BeginUncertain, JournalTypeOK
            <4> QED
                BY <1>0, <1>a, <2>0, <2>3, <3>1, <3>3, <3>5, <4>1
                   DEF BeginUncertain, Spent, Trace, JournalTypeOK
        <3> QED
            BY <3>4, <3>5
    <2> QED
        BY <1>1, <2>1, <2>2, <2>3 DEF Begin
<1>2. ASSUME NEW i \in Invocations, NEW state \in EvidenceStates, Finish(i, state)
      PROVE  Goal
    <2>1. /\ records' \in [Invocations -> RecordStates]
          /\ recorded' = FirstOutcome(records')
          /\ records[j] # "absent" <=> records'[j] # "absent"
        BY <1>2 DEF Finish, JournalTypeOK, RecordStates, EvidenceStates, TerminalStates
    <2>2. recorded[j] = "none" /\ recorded'[j] # "none" => records'[j] # "absent"
        BY <2>1, FirstOutcomeTrace
    <2> QED
        BY <1>2, <1>a, <2>1, <2>2 DEF Finish, Persist, Spent, Trace
<1>3. ASSUME NEW i \in Invocations, FinishLost(i) \/ GrantExpires(i)
      PROVE  Goal
    BY <1>3, <1>a DEF FinishLost, GrantExpires, journalVars, Spent, Trace
<1>4. ASSUME NEW ids \in SUBSET Invocations, NEW taken \in SUBSET Invocations,
             Acknowledge(ids, taken)
      PROVE  Goal
    BY <1>0, <1>4, <1>a DEF Acknowledge, Persist, Spent, Trace
<1>5. ASSUME NEW ids \in SUBSET Invocations,
             AcknowledgeLost(ids) \/ ConfirmAcknowledgements(ids) \/ ConfirmLost(ids)
      PROVE  Goal
    BY <1>0, <1>5, <1>a DEF AcknowledgeLost, ConfirmAcknowledgements, ConfirmLost, Persist,
       Spent, Trace, JournalTypeOK
<1>6. CASE BoxCrash
    BY <1>6, <1>a DEF BoxCrash, Spent, Trace
<1>7. CASE BoxRestart \/ BoxRestartTorn
    <2> DEFINE loaded == PruneExpiredGrantTombstones(disk.consumedGrants)
    <2>1. /\ Recovered(disk.records) \in [Invocations -> RecordStates]
          /\ Recovered(disk.records)[j] # "absent" <=> disk.records[j] # "absent"
        BY DEF Recovered, JournalTypeOK, JournalFile, RecordStates, EvidenceStates
    <2>2. Trace(disk.records, loaded, expired, j) <=> Trace(disk.records, disk.consumedGrants, expired, j)
        BY PruneKeepsTrace DEF JournalTypeOK, JournalFile
    <2>3. CASE BoxRestart
        <3>1. recorded[j] = "none" /\ recorded'[j] # "none" => records'[j] # "absent"
            BY <2>1, <2>3, FirstOutcomeTrace DEF BoxRestart
        <3> QED
            BY <1>a, <2>1, <2>2, <2>3, <3>1 DEF BoxRestart, Persist, Spent, Trace
    <2>4. CASE BoxRestartTorn
        BY <1>a, <2>1, <2>2, <2>4 DEF BoxRestartTorn, Persist, Spent, Trace
    <2> QED
        BY <1>7, <2>3, <2>4
<1>8. CASE UNCHANGED journalVars
    BY <1>8, <1>a DEF journalVars, Spent, Trace
<1> QED
    BY <1>1, <1>2, <1>3, <1>4, <1>5, <1>6, <1>7, <1>8 DEF JournalNext

LEMMA TraceInit == JournalInit => TraceInv
BY DEF JournalInit, TraceInv, Spent

\* Whatever write fails and whenever the Box dies, no grant starts an Action
\* twice (begin() of the journal).
THEOREM GrantsAreOneTime == JournalSpec => []GrantAdmittedOnce
<1>1. JournalInit => JournalTypeOK /\ TraceInv
    BY JournalTypeInit, TraceInit
<1>2. (JournalTypeOK /\ TraceInv) /\ [JournalNext]_journalVars => (JournalTypeOK /\ TraceInv)'
    BY JournalTypeStep, TraceStep
<1>3. JournalTypeOK /\ TraceInv => GrantAdmittedOnce
    BY DEF TraceInv, GrantAdmittedOnce
<1> QED
    BY <1>1, <1>2, <1>3, PTL DEF JournalSpec

\* Nor does the Box forget that a grant was spent while it could still be
\* presented (#pruneExpiredGrantTombstones, acknowledge, confirmAcknowledgements).
THEOREM SpentGrantsStayKnown == JournalSpec => []SpentGrantsAreRemembered
<1>1. JournalInit => JournalTypeOK /\ TraceInv
    BY JournalTypeInit, TraceInit
<1>2. (JournalTypeOK /\ TraceInv) /\ [JournalNext]_journalVars => (JournalTypeOK /\ TraceInv)'
    BY JournalTypeStep, TraceStep
<1>3. JournalTypeOK /\ TraceInv => SpentGrantsAreRemembered
    BY DEF TraceInv, Spent, Trace, SpentGrantsAreRemembered, Held, Tombs
<1> QED
    BY <1>1, <1>2, <1>3, PTL DEF JournalSpec

-----------------------------------------------------------------------------
(* The outcome of an invocation: what stands in memory and what the file   *)
(* would be read back as are both the first outcome recorded.              *)

OutcomeInv ==
    \A i \in Invocations :
        /\ records[i] \in EvidenceStates => records[i] = recorded[i]
        /\ records[i] \in {"prepared", "running"} => recorded[i] = "none"
        /\ Recovered(disk.records)[i] \in EvidenceStates /\ recorded[i] # "none"
              => Recovered(disk.records)[i] = recorded[i]

\* FirstOutcome and Recovered at one invocation.
LEMMA FirstOutcomeAt ==
    ASSUME NEW r, NEW i \in Invocations
    PROVE  FirstOutcome(r)[i] = IF recorded[i] = "none" /\ r[i] \in EvidenceStates
                                  THEN r[i] ELSE recorded[i]
BY DEF FirstOutcome

LEMMA RecoveredAt ==
    ASSUME NEW r, NEW i \in Invocations
    PROVE  Recovered(r)[i] = IF r[i] \in {"prepared", "running"} THEN "outcome_unknown" ELSE r[i]
BY DEF Recovered

\* Every step keeps the outcomes.
LEMMA OutcomeStep ==
    JournalTypeOK /\ TraceInv /\ OutcomeInv /\ [JournalNext]_journalVars => OutcomeInv'
<1> SUFFICES ASSUME JournalTypeOK, TraceInv, OutcomeInv, [JournalNext]_journalVars,
                    NEW j \in Invocations
             PROVE  /\ records'[j] \in EvidenceStates => records'[j] = recorded'[j]
                    /\ records'[j] \in {"prepared", "running"} => recorded'[j] = "none"
                    /\ Recovered(disk'.records)[j] \in EvidenceStates /\ recorded'[j] # "none"
                          => Recovered(disk'.records)[j] = recorded'[j]
    BY DEF OutcomeInv, Recovered
<1> DEFINE Goal == /\ records'[j] \in EvidenceStates => records'[j] = recorded'[j]
                   /\ records'[j] \in {"prepared", "running"} => recorded'[j] = "none"
                   /\ Recovered(disk'.records)[j] \in EvidenceStates /\ recorded'[j] # "none"
                         => Recovered(disk'.records)[j] = recorded'[j]
<1>a. /\ records[j] \in EvidenceStates => records[j] = recorded[j]
      /\ records[j] \in {"prepared", "running"} => recorded[j] = "none"
      /\ Recovered(disk.records)[j] \in EvidenceStates /\ recorded[j] # "none"
            => Recovered(disk.records)[j] = recorded[j]
      /\ records[j] \in RecordStates
      /\ disk.records[j] \in RecordStates
      /\ recorded[j] \in EvidenceStates \union {"none"}
    BY DEF OutcomeInv, JournalTypeOK, JournalFile
<1>b. /\ Recovered(disk.records)[j] = IF disk.records[j] \in {"prepared", "running"}
                                        THEN "outcome_unknown" ELSE disk.records[j]
      /\ Recovered(disk'.records)[j] = IF disk'.records[j] \in {"prepared", "running"}
                                         THEN "outcome_unknown" ELSE disk'.records[j]
    BY RecoveredAt
<1>c. FirstOutcome(records')[j] = IF recorded[j] = "none" /\ records'[j] \in EvidenceStates
                                    THEN records'[j] ELSE recorded[j]
    BY FirstOutcomeAt
<1> USE DEF RecordStates, EvidenceStates, TerminalStates
<1>1. ASSUME disk' = disk, recorded' = recorded, records'[j] \in {records[j], "absent"}
      PROVE  Goal
    BY <1>1, <1>a, <1>b
<1>2. ASSUME NEW i \in Invocations, Begin(i)
      PROVE  Goal
    <2>1. CASE BeginReplay(i) \/ BeginRejected(i) \/ BeginPrepareFailed(i)
        BY <1>1, <2>1 DEF BeginReplay, BeginRejected, BeginPrepareFailed
    <2>2. CASE BeginAdmitted(i)
        <3>1. recorded[i] = "none"
            BY <2>2, UsableIsUnspent DEF BeginAdmitted
        <3>2. /\ records' = [records EXCEPT ![i] = "running"]
              /\ disk'.records = records'
              /\ recorded' = recorded
            BY <2>2 DEF BeginAdmitted, Persist
        <3> QED
            BY <1>a, <1>b, <3>1, <3>2 DEF JournalTypeOK
    <2>3. CASE BeginUncertain(i)
        <3>1. recorded[i] = "none"
            BY <2>3, UsableIsUnspent DEF BeginUncertain
        <3>2. PICK written \in {"prepared", "running", "outcome_unknown"} :
                  disk' = [records |-> [records EXCEPT ![i] = written],
                           consumedGrants |-> consumedGrants']
            BY <2>3 DEF BeginUncertain, Persist
        <3>3. /\ records' = [records EXCEPT ![i] = "outcome_unknown"]
              /\ recorded' = FirstOutcome(records')
            BY <2>3 DEF BeginUncertain
        <3> QED
            BY <1>a, <1>b, <1>c, <3>1, <3>2, <3>3 DEF JournalTypeOK
    <2> QED
        BY <1>2, <2>1, <2>2, <2>3 DEF Begin
<1>3. ASSUME NEW i \in Invocations, NEW state \in EvidenceStates, Finish(i, state)
      PROVE  Goal
    <2>1. /\ records[i] = "running"
          /\ records' = [records EXCEPT ![i] = state]
          /\ disk'.records = records'
          /\ recorded' = FirstOutcome(records')
        BY <1>3 DEF Finish, Persist
    <2>2. recorded[i] = "none"
        BY <2>1 DEF OutcomeInv
    <2> QED
        BY <1>a, <1>b, <1>c, <2>1, <2>2 DEF JournalTypeOK
<1>4. ASSUME NEW i \in Invocations, FinishLost(i) \/ GrantExpires(i)
      PROVE  Goal
    BY <1>1, <1>4 DEF FinishLost, GrantExpires, journalVars
<1>5. ASSUME NEW ids \in SUBSET Invocations, NEW taken \in SUBSET Invocations,
             Acknowledge(ids, taken)
      PROVE  Goal
    <2>1. /\ records'[j] \in {records[j], "absent"}
          /\ disk' = disk \/ disk'.records = records'
          /\ recorded' = recorded
        BY <1>5 DEF Acknowledge, Persist
    <2> QED
        BY <1>a, <1>b, <2>1
<1>6. ASSUME NEW ids \in SUBSET Invocations,
             AcknowledgeLost(ids) \/ ConfirmAcknowledgements(ids) \/ ConfirmLost(ids)
      PROVE  Goal
    <2>1. /\ records' = records
          /\ disk' = disk \/ disk'.records = records'
          /\ recorded' = recorded
        BY <1>6 DEF AcknowledgeLost, ConfirmAcknowledgements, ConfirmLost, Persist
    <2> QED
        BY <1>a, <1>b, <2>1
<1>7. CASE BoxCrash
    BY <1>1, <1>7 DEF BoxCrash
<1>8. CASE BoxRestart
    <2>1. /\ records' = Recovered(disk.records)
          /\ disk'.records = records'
          /\ recorded' = FirstOutcome(records')
        BY <1>8 DEF BoxRestart, Persist
    <2> QED
        BY <1>a, <1>b, <1>c, <2>1
<1>9. CASE BoxRestartTorn
    <2>1. /\ records' = records
          /\ disk'.records = Recovered(disk.records)
          /\ recorded' = recorded
        BY <1>9 DEF BoxRestartTorn, Persist
    <2> QED
        BY <1>a, <1>b, <2>1
<1>10. CASE UNCHANGED journalVars
    BY <1>1, <1>10 DEF journalVars
<1> QED
    BY <1>2, <1>3, <1>4, <1>5, <1>6, <1>7, <1>8, <1>9, <1>10 DEF JournalNext

LEMMA OutcomeInit == JournalInit => OutcomeInv
BY DEF JournalInit, OutcomeInv, EvidenceStates, TerminalStates

\* An invocation never shows two different outcomes, whatever fails between
\* the moments at which it is asked (listEvidence() before and after #load).
THEOREM OutcomeIsUnique == JournalSpec => []OneOutcome
<1>1. JournalInit => JournalTypeOK /\ TraceInv /\ OutcomeInv
    BY JournalTypeInit, TraceInit, OutcomeInit
<1>2. (JournalTypeOK /\ TraceInv /\ OutcomeInv) /\ [JournalNext]_journalVars
        => (JournalTypeOK /\ TraceInv /\ OutcomeInv)'
    BY JournalTypeStep, TraceStep, OutcomeStep
<1>3. OutcomeInv => OneOutcome
    BY DEF OutcomeInv, OneOutcome
<1> QED
    BY <1>1, <1>2, <1>3, PTL DEF JournalSpec

-----------------------------------------------------------------------------
(* Memory and file: while the Box runs they agree on every outcome and on  *)
(* every receipt that is still to be confirmed.                            *)

FileInv ==
    boxUp => \A i \in Invocations :
        /\ records[i] \in EvidenceStates => Recovered(disk.records)[i] = records[i]
        /\ disk.records[i] \in EvidenceStates => records[i] = disk.records[i]
        /\ consumedGrants[i] # "none" => disk.consumedGrants[i] # "none"
        /\ disk.consumedGrants[i] = "unconfirmed" => consumedGrants[i] = "unconfirmed"

\* Pruning drops only tombstones whose receipt is confirmed.
LEMMA PruneAt ==
    ASSUME NEW g \in [Invocations -> GrantStates], NEW i \in Invocations
    PROVE  /\ PruneExpiredGrantTombstones(g)[i] # "none" => g[i] # "none"
           /\ g[i] = "unconfirmed" => PruneExpiredGrantTombstones(g)[i] = "unconfirmed"
           /\ PruneExpiredGrantTombstones(g)[i] = "unconfirmed" => g[i] = "unconfirmed"
BY DEF PruneExpiredGrantTombstones, GrantStates

\* Every step keeps memory and file in agreement.
LEMMA FileStep ==
    JournalTypeOK /\ FileInv /\ [JournalNext]_journalVars => FileInv'
<1> SUFFICES ASSUME JournalTypeOK, FileInv, [JournalNext]_journalVars, boxUp',
                    NEW j \in Invocations
             PROVE  /\ records'[j] \in EvidenceStates => Recovered(disk'.records)[j] = records'[j]
                    /\ disk'.records[j] \in EvidenceStates => records'[j] = disk'.records[j]
                    /\ consumedGrants'[j] # "none" => disk'.consumedGrants[j] # "none"
                    /\ disk'.consumedGrants[j] = "unconfirmed" => consumedGrants'[j] = "unconfirmed"
    BY DEF FileInv, Recovered
<1> DEFINE Goal ==
               /\ records'[j] \in EvidenceStates => Recovered(disk'.records)[j] = records'[j]
               /\ disk'.records[j] \in EvidenceStates => records'[j] = disk'.records[j]
               /\ consumedGrants'[j] # "none" => disk'.consumedGrants[j] # "none"
               /\ disk'.consumedGrants[j] = "unconfirmed" => consumedGrants'[j] = "unconfirmed"
           pruned == PruneExpiredGrantTombstones(consumedGrants)
<1>a. boxUp =>
         /\ records[j] \in EvidenceStates => Recovered(disk.records)[j] = records[j]
         /\ disk.records[j] \in EvidenceStates => records[j] = disk.records[j]
         /\ consumedGrants[j] # "none" => disk.consumedGrants[j] # "none"
         /\ disk.consumedGrants[j] = "unconfirmed" => consumedGrants[j] = "unconfirmed"
    BY DEF FileInv
<1>b. /\ pruned[j] # "none" => consumedGrants[j] # "none"
      /\ consumedGrants[j] = "unconfirmed" => pruned[j] = "unconfirmed"
    BY PruneAt DEF JournalTypeOK
<1>c. /\ Recovered(disk.records)[j] = IF disk.records[j] \in {"prepared", "running"}
                                        THEN "outcome_unknown" ELSE disk.records[j]
      /\ Recovered(disk'.records)[j] = IF disk'.records[j] \in {"prepared", "running"}
                                         THEN "outcome_unknown" ELSE disk'.records[j]
    BY RecoveredAt
<1> USE DEF EvidenceStates, TerminalStates
<1>1. ASSUME disk' = [records |-> records', consumedGrants |-> consumedGrants']
      PROVE  Goal
    BY <1>1, <1>c
<1>2. ASSUME boxUp, disk' = disk, records' = records,
             consumedGrants' \in {consumedGrants, pruned}
      PROVE  Goal
    BY <1>2, <1>a, <1>b
<1>3. ASSUME NEW i \in Invocations, Begin(i)
      PROVE  Goal
    <2>1. CASE BeginReplay(i) \/ BeginRejected(i) \/ BeginPrepareFailed(i)
        BY <1>2, <2>1 DEF BeginReplay, BeginRejected, BeginPrepareFailed, PruneInBegin,
           Replayable, GrantUsable
    <2>2. CASE BeginAdmitted(i)
        BY <1>1, <2>2 DEF BeginAdmitted, Persist
    <2>3. CASE BeginUncertain(i)
        <3>1. PICK written \in {"prepared", "running", "outcome_unknown"} :
                  disk' = [records |-> [records EXCEPT ![i] = written],
                           consumedGrants |-> consumedGrants']
            BY <2>3 DEF BeginUncertain, Persist
        <3>2. records' = [records EXCEPT ![i] = "outcome_unknown"]
            BY <2>3 DEF BeginUncertain
        <3> QED
            BY <1>c, <3>1, <3>2 DEF JournalTypeOK
    <2> QED
        BY <1>3, <2>1, <2>2, <2>3 DEF Begin
<1>4. ASSUME NEW i \in Invocations, NEW state \in EvidenceStates, Finish(i, state)
      PROVE  Goal
    BY <1>1, <1>4 DEF Finish, Persist
<1>5. ASSUME NEW i \in Invocations, FinishLost(i) \/ GrantExpires(i)
      PROVE  Goal
    BY <1>a, <1>5 DEF FinishLost, GrantExpires, journalVars
<1>6. ASSUME NEW ids \in SUBSET Invocations, NEW taken \in SUBSET Invocations,
             Acknowledge(ids, taken)
      PROVE  Goal
    <2>1. CASE AcknowledgedIds(ids, taken) = {}
        <3>1. taken = {}
            BY <2>1 DEF AcknowledgedIds
        <3>2. /\ boxUp
              /\ disk' = disk
              /\ records'[j] = records[j]
              /\ consumedGrants'[j] = pruned[j]
            BY <1>6, <2>1, <3>1 DEF Acknowledge
        <3> QED
            BY <1>a, <1>b, <3>2
    <2>2. CASE AcknowledgedIds(ids, taken) # {}
        BY <1>1, <1>6, <2>2 DEF Acknowledge, Persist
    <2> QED
        BY <2>1, <2>2
<1>7. ASSUME NEW ids \in SUBSET Invocations, AcknowledgeLost(ids)
      PROVE  Goal
    BY <1>2, <1>7 DEF AcknowledgeLost
<1>8. ASSUME NEW ids \in SUBSET Invocations, ids \subseteq UnconfirmedReceipts,
             ConfirmAcknowledgements(ids) \/ ConfirmLost(ids)
      PROVE  Goal
    <2>1. CASE ConfirmLost(ids) \/ ids \intersect Tombs(consumedGrants) = {}
        <3>1. /\ boxUp /\ records' = records
              /\ disk' = disk
              /\ consumedGrants'[j] = consumedGrants[j]
            BY <1>8, <2>1 DEF ConfirmAcknowledgements, ConfirmLost, UnconfirmedReceipts, Tombs
        <3> QED
            BY <1>a, <3>1
    <2>2. CASE ConfirmAcknowledgements(ids) /\ ids \intersect Tombs(consumedGrants) # {}
        BY <1>1, <2>2 DEF ConfirmAcknowledgements, Persist
    <2> QED
        BY <1>8, <2>1, <2>2
<1>9. CASE BoxCrash
    BY <1>9 DEF BoxCrash
<1>10. CASE BoxRestart
    <2>1. CASE records' = disk.records
        <3>1. /\ disk' = disk
              /\ consumedGrants' = PruneExpiredGrantTombstones(disk.consumedGrants)
              /\ records' = Recovered(disk.records)
            BY <1>10, <2>1 DEF BoxRestart
        <3>2. /\ consumedGrants'[j] # "none" => disk.consumedGrants[j] # "none"
              /\ disk.consumedGrants[j] = "unconfirmed" => consumedGrants'[j] = "unconfirmed"
            BY <3>1, PruneAt DEF JournalTypeOK, JournalFile
        <3> QED
            BY <1>c, <2>1, <3>1, <3>2
    <2>2. CASE records' # disk.records
        BY <1>1, <1>10, <2>2 DEF BoxRestart, Persist
    <2> QED
        BY <2>1, <2>2
<1>11. CASE BoxRestartTorn
    BY <1>11 DEF BoxRestartTorn
<1>12. CASE UNCHANGED journalVars
    BY <1>a, <1>12 DEF journalVars
<1> QED
    BY <1>3, <1>4, <1>5, <1>6, <1>7, <1>8, <1>9, <1>10, <1>11, <1>12 DEF JournalNext

LEMMA FileInit == JournalInit => FileInv
BY DEF JournalInit, FileInv, EvidenceStates, TerminalStates

LEMMA FileInvariant == JournalSpec => [](JournalTypeOK /\ FileInv)
<1>1. JournalInit => JournalTypeOK /\ FileInv
    BY JournalTypeInit, FileInit
<1>2. (JournalTypeOK /\ FileInv) /\ [JournalNext]_journalVars => (JournalTypeOK /\ FileInv)'
    BY JournalTypeStep, FileStep
<1> QED
    BY <1>1, <1>2, PTL DEF JournalSpec

\* Reading the file back loses no outcome the Box has offered and no tombstone
\* it holds (#load after a crash at any point).
THEOREM CrashIsHarmless == JournalSpec => []CrashLosesNothing
<1>1. FileInv => CrashLosesNothing
    BY DEF FileInv, CrashLosesNothing, listEvidence, Tombs
<1> QED
    BY <1>1, FileInvariant, PTL

\* One step of OutcomeIsFinal, at one invocation.
Final(i) ==
    /\ disk.records[i] \in EvidenceStates =>
          \/ disk'.records[i] = disk.records[i]
          \/ disk'.records[i] = "absent" /\ disk'.consumedGrants[i] = "unconfirmed"
    /\ disk.consumedGrants[i] = "unconfirmed" => disk'.consumedGrants[i] # "none"

LEMMA FinalStep ==
    ASSUME JournalTypeOK, FileInv, JournalNext, NEW j \in Invocations
    PROVE  Final(j)
<1> DEFINE pruned == PruneExpiredGrantTombstones(consumedGrants)
<1>a. boxUp => /\ disk.records[j] \in EvidenceStates => records[j] = disk.records[j]
               /\ disk.consumedGrants[j] = "unconfirmed" => consumedGrants[j] = "unconfirmed"
    BY DEF FileInv
<1>b. consumedGrants[j] = "unconfirmed" => pruned[j] = "unconfirmed"
    BY PruneAt DEF JournalTypeOK
<1> USE DEF EvidenceStates, TerminalStates
<1>1. ASSUME disk' = disk
      PROVE  Final(j)
    BY <1>1 DEF Final
<1>2. ASSUME NEW i \in Invocations, Begin(i)
      PROVE  Final(j)
    <2>0. consumedGrants' \in {consumedGrants, pruned}
        BY <1>2 DEF Begin, BeginReplay, BeginRejected, BeginAdmitted,
           BeginPrepareFailed, BeginUncertain, PruneInBegin
    <2>1. CASE BeginReplay(i) \/ BeginRejected(i) \/ BeginPrepareFailed(i)
        BY <1>1, <2>1 DEF BeginReplay, BeginRejected, BeginPrepareFailed
    <2>2. CASE BeginAdmitted(i) \/ BeginUncertain(i)
        <3>1. PICK written \in {"prepared", "running", "outcome_unknown"} :
                  disk' = [records |-> [records EXCEPT ![i] = written],
                           consumedGrants |-> consumedGrants']
            BY <2>2 DEF BeginAdmitted, BeginUncertain, Persist
        <3>2. boxUp /\ records[i] = "absent"
            BY <2>2 DEF BeginAdmitted, BeginUncertain, GrantUsable
        <3> QED
            BY <1>a, <1>b, <2>0, <3>1, <3>2 DEF Final, JournalTypeOK
    <2> QED
        BY <1>2, <2>1, <2>2 DEF Begin
<1>3. ASSUME NEW i \in Invocations, NEW state \in EvidenceStates, Finish(i, state)
      PROVE  Final(j)
    BY <1>a, <1>3 DEF Finish, Persist, Final, JournalTypeOK
<1>4. ASSUME NEW i \in Invocations, FinishLost(i) \/ GrantExpires(i)
      PROVE  Final(j)
    BY <1>1, <1>4 DEF FinishLost, GrantExpires, journalVars
<1>5. ASSUME NEW ids \in SUBSET Invocations, NEW taken \in SUBSET Invocations,
             Acknowledge(ids, taken)
      PROVE  Final(j)
    BY <1>1, <1>a, <1>b, <1>5 DEF Acknowledge, Persist, Final
<1>6. ASSUME NEW ids \in SUBSET Invocations,
             AcknowledgeLost(ids) \/ ConfirmAcknowledgements(ids) \/ ConfirmLost(ids)
      PROVE  Final(j)
    BY <1>1, <1>a, <1>6 DEF AcknowledgeLost, ConfirmAcknowledgements, ConfirmLost, Persist, Final
<1>7. CASE BoxCrash
    BY <1>1, <1>7 DEF BoxCrash
<1>8. CASE BoxRestart \/ BoxRestartTorn
    <2>1. disk.records[j] \in EvidenceStates => Recovered(disk.records)[j] = disk.records[j]
        BY RecoveredAt
    <2>2. disk.consumedGrants[j] = "unconfirmed" =>
              PruneExpiredGrantTombstones(disk.consumedGrants)[j] = "unconfirmed"
        BY PruneAt DEF JournalTypeOK, JournalFile
    <2> QED
        BY <1>1, <1>8, <2>1, <2>2 DEF BoxRestart, BoxRestartTorn, Persist, Final
<1> QED
    BY <1>2, <1>3, <1>4, <1>5, <1>6, <1>7, <1>8 DEF JournalNext

\* On disk an outcome only ever gives way to its tombstone, and a tombstone
\* whose receipt the server has not confirmed is never dropped.
THEOREM OutcomesAreFinal == JournalSpec => OutcomeIsFinal
<1>1. JournalTypeOK /\ FileInv /\ [JournalNext]_journalVars
        => [\A i \in Invocations :
               /\ disk.records[i] \in EvidenceStates =>
                     \/ disk'.records[i] = disk.records[i]
                     \/ disk'.records[i] = "absent" /\ disk'.consumedGrants[i] = "unconfirmed"
               /\ disk.consumedGrants[i] = "unconfirmed" => disk'.consumedGrants[i] # "none"
           ]_journalVars
    BY FinalStep DEF Final
<1> QED
    BY <1>1, FileInvariant, PTL DEF JournalSpec, OutcomeIsFinal

-----------------------------------------------------------------------------
(* The capacities: the journal never holds more than its file may.         *)

BoundInv ==
    /\ Cardinality(Held(records)) <= MaxRecords
    /\ Cardinality(Tombs(consumedGrants)) <= MaxTombstones
    /\ JournalLoads

\* Sets of invocations are finite, and a smaller one has fewer members.
LEMMA Smaller ==
    ASSUME NEW S \in SUBSET Invocations, NEW T \in SUBSET S
    PROVE  /\ IsFiniteSet(S)
           /\ Cardinality(T) \in Nat
           /\ Cardinality(S) \in Nat
           /\ Cardinality(T) <= Cardinality(S)
BY InvocationsFinite, FS_Subset, FS_CardinalityType

LEMMA CountIsNat ==
    ASSUME NEW S \in SUBSET Invocations
    PROVE  Cardinality(S) \in Nat
BY Smaller

\* Pruning only removes tombstones.
LEMMA PruneShrinks ==
    ASSUME NEW g \in [Invocations -> GrantStates]
    PROVE  Cardinality(Tombs(PruneExpiredGrantTombstones(g))) <= Cardinality(Tombs(g))
<1>1. Tombs(g) \in SUBSET Invocations
    BY DEF Tombs
<1>2. Tombs(PruneExpiredGrantTombstones(g)) \in SUBSET Tombs(g)
    BY PruneAt DEF Tombs
<1> QED
    BY <1>1, <1>2, Smaller

\* Writing a record where there was none adds one.
LEMMA HeldGrows ==
    ASSUME NEW r \in [Invocations -> RecordStates], NEW i \in Invocations,
           NEW state \in RecordStates, r[i] = "absent"
    PROVE  Cardinality(Held([r EXCEPT ![i] = state])) <= Cardinality(Held(r)) + 1
<1>1. Held(r) \in SUBSET Invocations /\ i \notin Held(r)
    BY DEF Held
<1>2. Held([r EXCEPT ![i] = state]) \in SUBSET (Held(r) \union {i})
    BY DEF Held
<1>3. Cardinality(Held(r) \union {i}) = Cardinality(Held(r)) + 1
    BY <1>1, Smaller, FS_AddElement
<1>4. Held(r) \union {i} \in SUBSET Invocations
    BY <1>1
<1> QED
    BY <1>2, <1>3, <1>4, Smaller

\* Every step keeps the bounds.
LEMMA BoundStep ==
    JournalTypeOK /\ BoundInv /\ [JournalNext]_journalVars => BoundInv'
<1> SUFFICES ASSUME JournalTypeOK, BoundInv, [JournalNext]_journalVars
             PROVE  BoundInv'
    OBVIOUS
<1> DEFINE pruned == PruneExpiredGrantTombstones(consumedGrants)
<1>a. /\ consumedGrants \in [Invocations -> GrantStates]
      /\ disk.consumedGrants \in [Invocations -> GrantStates]
      /\ records \in [Invocations -> RecordStates]
      /\ MaxRecords \in Nat /\ MaxTombstones \in Nat
    BY JournalAssumption DEF JournalTypeOK, JournalFile
<1>b. /\ Cardinality(Tombs(pruned)) \in Nat
      /\ Cardinality(Tombs(consumedGrants)) \in Nat
      /\ Cardinality(Tombs(pruned)) <= MaxTombstones
    <2>1. Tombs(pruned) \in SUBSET Invocations /\ Tombs(consumedGrants) \in SUBSET Invocations
        BY DEF Tombs
    <2> QED
        BY <1>a, <2>1, PruneShrinks, Smaller DEF BoundInv
<1> USE DEF BoundInv, JournalLoads
<1>1. ASSUME disk' = disk \/ disk' = [records |-> records', consumedGrants |-> consumedGrants'],
             Cardinality(Held(records')) <= MaxRecords,
             Cardinality(Tombs(consumedGrants')) <= MaxTombstones
      PROVE  BoundInv'
    BY <1>1
<1>2. ASSUME NEW i \in Invocations, Begin(i)
      PROVE  BoundInv'
    <2>0. Cardinality(Tombs(consumedGrants')) <= MaxTombstones
        BY <1>b, <1>2 DEF Begin, BeginReplay, BeginRejected, BeginAdmitted,
           BeginPrepareFailed, BeginUncertain, PruneInBegin
    <2>1. CASE BeginReplay(i) \/ BeginRejected(i) \/ BeginPrepareFailed(i)
        BY <1>1, <2>0, <2>1 DEF BeginReplay, BeginRejected, BeginPrepareFailed
    <2>2. CASE BeginAdmitted(i) \/ BeginUncertain(i)
        <3>0. records[i] = "absent" /\ Cardinality(Held(records)) < MaxRecords
            BY <2>2 DEF BeginAdmitted, BeginUncertain, GrantUsable
        <3>1. ASSUME NEW state \in {"prepared", "running", "outcome_unknown"}
              PROVE  Cardinality(Held([records EXCEPT ![i] = state])) <= MaxRecords
            <4>1. state \in RecordStates
                BY DEF RecordStates, EvidenceStates
            <4>2. Cardinality(Held([records EXCEPT ![i] = state])) <= Cardinality(Held(records)) + 1
                BY <1>a, <3>0, <4>1, HeldGrows
            <4>3. /\ Cardinality(Held(records)) \in Nat
                  /\ Cardinality(Held([records EXCEPT ![i] = state])) \in Nat
                BY CountIsNat DEF Held
            <4> QED
                BY <1>a, <3>0, <4>2, <4>3
        <3>2. Cardinality(Held(records')) <= MaxRecords
            BY <2>2, <3>1 DEF BeginAdmitted, BeginUncertain
        <3>3. CASE BeginAdmitted(i)
            BY <1>1, <2>0, <3>2, <3>3 DEF BeginAdmitted, Persist
        <3>4. CASE BeginUncertain(i)
            <4>1. PICK written \in {"prepared", "running", "outcome_unknown"} :
                      disk' = [records |-> [records EXCEPT ![i] = written],
                               consumedGrants |-> consumedGrants']
                BY <3>4 DEF BeginUncertain, Persist
            <4> QED
                BY <2>0, <3>1, <3>2, <4>1
        <3> QED
            BY <2>2, <3>3, <3>4
    <2> QED
        BY <1>2, <2>1, <2>2 DEF Begin
<1>3. ASSUME NEW i \in Invocations, NEW state \in EvidenceStates, Finish(i, state)
      PROVE  BoundInv'
    <2>1. Held(records') = Held(records)
        BY <1>3, <1>a DEF Finish, Held, EvidenceStates, TerminalStates
    <2> QED
        BY <1>1, <1>3, <2>1 DEF Finish, Persist
<1>4. ASSUME NEW i \in Invocations, FinishLost(i) \/ GrantExpires(i)
      PROVE  BoundInv'
    BY <1>1, <1>4 DEF FinishLost, GrantExpires, journalVars
<1>5. ASSUME NEW ids \in SUBSET Invocations, NEW taken \in SUBSET Invocations,
             Acknowledge(ids, taken)
      PROVE  BoundInv'
    <2>1. /\ disk' = disk \/ disk' = [records |-> records', consumedGrants |-> consumedGrants']
          /\ Held(records') \in SUBSET Held(records)
          /\ Tombs(consumedGrants') = Tombs(pruned) \union taken
        BY <1>5 DEF Acknowledge, Persist, Held, Tombs
    <2>2. \/ Cardinality(taken) <= MaxTombstones - Cardinality(Tombs(pruned))
          \/ Cardinality(taken) = MaxTombstones - Cardinality(Tombs(pruned))
        BY <1>5 DEF Acknowledge, Acknowledgeable
    <2>3. /\ Tombs(pruned) \in SUBSET Invocations
          /\ Held(records) \in SUBSET Invocations
        BY DEF Tombs, Held
    <2>4. Cardinality(Tombs(pruned) \union taken) <= MaxTombstones
        <3>1. Cardinality(taken) \in Nat
            BY Smaller
        <3>2. Cardinality(Tombs(pruned) \union taken)
                 = Cardinality(Tombs(pruned)) + Cardinality(taken)
                     - Cardinality(Tombs(pruned) \intersect taken)
            BY <2>3, Smaller, FS_Union
        <3>3. Cardinality(Tombs(pruned) \intersect taken) \in Nat
            BY Smaller
        <3> QED
            BY <1>a, <1>b, <2>2, <3>1, <3>2, <3>3
    <2>5. Cardinality(Held(records')) <= MaxRecords
        <3>1. /\ Cardinality(Held(records')) \in Nat
              /\ Cardinality(Held(records)) \in Nat
              /\ Cardinality(Held(records')) <= Cardinality(Held(records))
            BY <2>1, <2>3, Smaller
        <3> QED
            BY <1>a, <3>1
    <2> QED
        BY <1>1, <2>1, <2>4, <2>5
<1>6. ASSUME NEW ids \in SUBSET Invocations, AcknowledgeLost(ids)
      PROVE  BoundInv'
    BY <1>1, <1>b, <1>6 DEF AcknowledgeLost
<1>7. ASSUME NEW ids \in SUBSET Invocations, ConfirmAcknowledgements(ids) \/ ConfirmLost(ids)
      PROVE  BoundInv'
    <2>1. Tombs(consumedGrants') = Tombs(consumedGrants) /\ records' = records
        BY <1>7 DEF ConfirmAcknowledgements, ConfirmLost, Tombs
    <2> QED
        BY <1>1, <1>7, <2>1 DEF ConfirmAcknowledgements, ConfirmLost, Persist
<1>8. CASE BoxCrash
    <2>1. Held(records') = {} /\ Tombs(consumedGrants') = {}
        BY <1>8 DEF BoxCrash, Held, Tombs
    <2>2. Cardinality(Held(records')) = 0 /\ Cardinality(Tombs(consumedGrants')) = 0
        BY <2>1, FS_EmptySet
    <2>3. disk' = disk
        BY <1>8 DEF BoxCrash
    <2> QED
        BY <1>1, <1>a, <2>2, <2>3
<1>9. CASE BoxRestart \/ BoxRestartTorn
    <2>1. Held(Recovered(disk.records)) = Held(disk.records)
        BY RecoveredAt DEF Held
    <2>2. Cardinality(Tombs(PruneExpiredGrantTombstones(disk.consumedGrants))) <= MaxTombstones
        <3>1. /\ Tombs(disk.consumedGrants) \in SUBSET Invocations
              /\ Tombs(PruneExpiredGrantTombstones(disk.consumedGrants)) \in SUBSET Invocations
            BY DEF Tombs
        <3> QED
            BY <1>a, <3>1, PruneShrinks, Smaller
    <2>3. CASE BoxRestart
        BY <1>1, <2>1, <2>2, <2>3 DEF BoxRestart, Persist
    <2>4. CASE BoxRestartTorn
        BY <2>1, <2>2, <2>4 DEF BoxRestartTorn, Persist
    <2> QED
        BY <1>9, <2>3, <2>4
<1>10. CASE UNCHANGED journalVars
    BY <1>1, <1>10 DEF journalVars
<1> QED
    BY <1>2, <1>3, <1>4, <1>5, <1>6, <1>7, <1>8, <1>9, <1>10 DEF JournalNext

LEMMA BoundInit == JournalInit => BoundInv
<1> SUFFICES ASSUME JournalInit
             PROVE  BoundInv
    OBVIOUS
<1>1. /\ Held(records) = {} /\ Tombs(consumedGrants) = {}
      /\ Held(disk.records) = {} /\ Tombs(disk.consumedGrants) = {}
    BY DEF JournalInit, Held, Tombs
<1> QED
    BY <1>1, FS_EmptySet, JournalAssumption DEF BoundInv, JournalLoads

\* The file always satisfies the limits #load checks it against, so a Box can
\* start from whatever it wrote.
THEOREM FileAlwaysLoads == JournalSpec => []JournalLoads
<1>1. JournalInit => JournalTypeOK /\ BoundInv
    BY JournalTypeInit, BoundInit
<1>2. (JournalTypeOK /\ BoundInv) /\ [JournalNext]_journalVars => (JournalTypeOK /\ BoundInv)'
    BY JournalTypeStep, BoundStep
<1>3. BoundInv => JournalLoads
    BY DEF BoundInv
<1> QED
    BY <1>1, <1>2, <1>3, PTL DEF JournalSpec

-----------------------------------------------------------------------------
(* The pipeline: the inductive invariant.                                  *)

IsRound(m) == m.type \in {"reconcile", "reconciled", "refused"}

\* There is one round of reconciliation at a time, its request is about
\* outcomes, and the receipts it is to confirm stay unconfirmed until it is over.
RoundOK ==
    /\ \A m \in net : IsRound(m) => boxUp /\ loop \in {"waiting", "acknowledging"}
    /\ \A m, n \in net : IsRound(m) /\ IsRound(n) => m = n
    /\ \A m \in net : m.type = "reconcile" =>
           /\ loop = "waiting"
           /\ m.items \subseteq Invocations
           /\ \A i \in m.items \ Local : m.states[i] \in EvidenceStates
           /\ m.receipts \subseteq UnconfirmedReceipts
    /\ \A m \in net : m.type = "reconciled" =>
           /\ m.acked \subseteq Invocations
           /\ loop = "waiting" => m.confirmed \subseteq UnconfirmedReceipts

IntentsOK == intents \in [Invocations -> Intent]

-----------------------------------------------------------------------------
(* What a step may do.                                                     *)

JournalStep == [JournalNext]_journalVars

\* A row keeps its terminal state, its acknowledgement and its receipt.
RowKept(i) ==
    /\ intents[i].state \in TerminalStates => intents'[i].state = intents[i].state
    /\ intents[i].acked => intents'[i].acked
    /\ intents[i].receipt => intents'[i].receipt

RowsKept == \A i \in Invocations : RowKept(i)

\* The same of a table on the way to the next one.
TableKept(t) ==
    /\ t \in [Invocations -> Intent]
    /\ \A i \in Invocations :
           /\ intents[i].state \in TerminalStates => t[i].state = intents[i].state
           /\ intents[i].acked => t[i].acked
           /\ intents[i].receipt => t[i].receipt

\* A step outside of the rounds: it adds no message of a round, and leaves the
\* loop and the unconfirmed receipts alone; or the connection is gone.
Aside ==
    \/ net' = {}
    \/ /\ \A m \in net' : IsRound(m) => m \in net
       /\ loop' = loop
       /\ \/ boxUp' = boxUp /\ UnconfirmedReceipts \subseteq UnconfirmedReceipts'
          \/ ~boxUp

Good == JournalStep /\ RoundOK' /\ IntentsOK' /\ RowsKept

\* A round that is not touched stays in order.
LEMMA AsideKeepsRound == ASSUME RoundOK, Aside PROVE RoundOK'
BY DEF RoundOK, Aside, IsRound, UnconfirmedReceipts

\* Rows that are not touched are kept.
LEMMA SameRows == ASSUME IntentsOK, UNCHANGED intents PROVE IntentsOK' /\ RowsKept
BY DEF IntentsOK, RowsKept, RowKept

\* Pruning never drops an unconfirmed tombstone.
LEMMA PruneKeepsUnconfirmed ==
    ASSUME NEW i \in Invocations, consumedGrants[i] = "unconfirmed"
    PROVE  PruneExpiredGrantTombstones(consumedGrants)[i] = "unconfirmed"
BY DEF PruneExpiredGrantTombstones

-----------------------------------------------------------------------------
(* The rows.                                                               *)

\* The server's own conclusions about a call.
LEMMA ConcludeKeeps ==
    ASSUME IntentsOK, NEW i \in Invocations,
           \/ CreateGrant(i) \/ ConsumeGrant(i) \/ CompleteLocal(i) \/ CancelUndispatched(i)
           \/ \E s \in EvidenceStates : Conclude(i, s)
    PROVE  IntentsOK' /\ RowsKept
<1> USE DEF IntentsOK, RowsKept, RowKept, Intent, IntentStates, EvidenceStates, TerminalStates
<1>1. CASE CreateGrant(i)
    BY <1>1 DEF CreateGrant, Exists
<1>2. CASE ConsumeGrant(i)
    BY <1>2 DEF ConsumeGrant
<1>3. CASE CompleteLocal(i)
    BY <1>3 DEF CompleteLocal
<1>4. CASE CancelUndispatched(i)
    BY <1>4 DEF CancelUndispatched, isTerminal
<1>5. ASSUME NEW s \in EvidenceStates, Conclude(i, s) PROVE IntentsOK' /\ RowsKept
    BY <1>5 DEF Conclude, isTerminal
<1> QED
    BY <1>1, <1>2, <1>3, <1>4, <1>5

\* Acknowledging rows, before or after their state was set.
LEMMA AckKeeps ==
    ASSUME NEW ids, NEW t, TableKept(t), intents' \in {t, Acked(t, ids)}
    PROVE  IntentsOK' /\ RowsKept
<1>1. CASE intents' = t
    BY <1>1 DEF TableKept, IntentsOK, RowsKept, RowKept
<1>2. CASE intents' = Acked(t, ids)
    BY <1>2 DEF TableKept, IntentsOK, RowsKept, RowKept, Acked, Intent
<1> QED
    BY <1>1, <1>2

\* Noting receipts, after rows were acknowledged.
LEMMA ReceiptKeeps ==
    ASSUME NEW ids, NEW t, TableKept(t), intents' = Receipted(t, ids)
    PROVE  IntentsOK' /\ RowsKept
BY DEF TableKept, IntentsOK, RowsKept, RowKept, Receipted, Intent

\* Evidence that does not conflict leaves a terminal row as it is.
LEMMA CompletedKeeps ==
    ASSUME IntentsOK, NEW m, NEW S, S \subseteq Accepted(m),
           \A i \in m.items \ Local : m.states[i] \in EvidenceStates
    PROVE  TableKept(Completed(intents, m, S))
BY DEF TableKept, IntentsOK, Completed, Accepted, Conflicts, Intent, IntentStates

\* So do markFailed and the marks of a table on the way.
LEMMA FailedKeeps == ASSUME IntentsOK, NEW i \in Invocations PROVE TableKept(Failed(i))
BY DEF TableKept, Failed, isTerminal, IntentsOK, Intent, IntentStates, EvidenceStates, TerminalStates

LEMMA MarksKeep ==
    ASSUME NEW t, TableKept(t), NEW ids
    PROVE  TableKept(Acked(t, ids)) /\ TableKept(Receipted(t, ids))
BY DEF TableKept, Acked, Receipted, Intent

\* Wherever a reconciliation is cut short.
LEMMA PartlyKept ==
    ASSUME IntentsOK, NEW m, \A i \in m.items \ Local : m.states[i] \in EvidenceStates,
           NEW t \in PartlyReconciled(m)
    PROVE  TableKept(t)
<1>1. ASSUME NEW S \in ThrownPrefixes(m) PROVE TableKept(Completed(intents, m, S))
    BY CompletedKeeps DEF ThrownPrefixes
<1>2. CASE \E S \in ThrownPrefixes(m) : t = Completed(intents, m, S)
    BY <1>1, <1>2
<1>3. CASE Accepted(m) = m.items
    <2> DEFINE all == Completed(intents, m, m.items)
    <2>1. TableKept(all)
        BY <1>1, <1>3 DEF ThrownPrefixes
    <2>2. (\E ids : t = Acked(all, ids)) \/ (\E ids : t = Receipted(Acked(all, m.items), ids))
             \/ (\E S \in ThrownPrefixes(m) : t = Completed(intents, m, S))
        BY DEF PartlyReconciled
    <2> HIDE DEF all
    <2> QED
        BY <1>2, <2>1, <2>2, MarksKeep
<1> QED
    BY <1>2, <1>3 DEF PartlyReconciled

-----------------------------------------------------------------------------
(* The groups of actions.                                                  *)

LEMMA ServerCallGood ==
    ASSUME RoundOK, IntentsOK, NEW i \in Invocations, ServerCall(i) PROVE Good
<1>1. UNCHANGED journalVars /\ loop' = loop
    BY DEF ServerCall, StartCall, ApprovalRefused, IssueGrant, UseGrant, Dispatch, NotDispatched,
       RunLocal, ReceiveResult, ReceiveToolError, ReceiveRejection, ReceiveError, AbandonCall,
       ReceiveAck, boxVars
<1>2. \A m \in net' : IsRound(m) => m \in net
    <2>1. net' \subseteq net \union {Invoke(i), Ack(i)}
        <3>1. CASE StartCall(i) \/ ApprovalRefused(i) \/ IssueGrant(i) \/ UseGrant(i)
            BY <3>1 DEF StartCall, ApprovalRefused, IssueGrant, UseGrant
        <3>2. CASE Dispatch(i) \/ NotDispatched(i) \/ RunLocal(i)
            BY <3>2 DEF Dispatch, NotDispatched, RunLocal, Send
        <3>3. CASE ReceiveResult(i) \/ ReceiveToolError(i)
            BY <3>3 DEF ReceiveResult, ReceiveToolError, Persisted, Answer
        <3>4. CASE ReceiveRejection(i) \/ ReceiveError(i) \/ AbandonCall(i) \/ ReceiveAck(i)
            BY <3>4 DEF ReceiveRejection, ReceiveError, AbandonCall, ReceiveAck
        <3> QED
            BY <3>1, <3>2, <3>3, <3>4 DEF ServerCall
    <2>2. ~IsRound(Invoke(i)) /\ ~IsRound(Ack(i))
        BY DEF IsRound, Invoke, Ack
    <2> QED
        BY <2>1, <2>2
<1>3. RoundOK'
    BY <1>1, <1>2, AsideKeepsRound DEF Aside, journalVars, UnconfirmedReceipts
<1>4. IntentsOK' /\ RowsKept
    <2>1. CASE StartCall(i) \/ ApprovalRefused(i) \/ Dispatch(i)
        BY <2>1, SameRows DEF StartCall, ApprovalRefused, Dispatch
    <2>2. CASE IssueGrant(i) \/ UseGrant(i) \/ NotDispatched(i)
        BY <2>2, ConcludeKeeps, SameRows DEF IssueGrant, UseGrant, NotDispatched
    <2>3. CASE RunLocal(i) \/ AbandonCall(i) \/ ReceiveError(i) \/ ReceiveRejection(i)
        BY <2>3, ConcludeKeeps DEF RunLocal, AbandonCall, ReceiveError, ReceiveRejection,
           MarkFailed, MarkCancelled, MarkOutcomeUnknown, EvidenceStates, TerminalStates
    <2>4. CASE ReceiveResult(i)
        <3>1. CASE Conflicts(intents, i, "succeeded")
            BY <2>4, <3>1, ConcludeKeeps DEF ReceiveResult, MarkOutcomeUnknown, EvidenceStates
        <3>2. CASE ~Conflicts(intents, i, "succeeded")
            <4> DEFINE t == [intents EXCEPT ![i].state = "succeeded"]
            <4>1. TableKept(t)
                BY <3>2 DEF TableKept, Conflicts, IntentsOK, Intent, IntentStates, EvidenceStates,
                   TerminalStates
            <4>2. intents' \in {t, Acked(t, {i})}
                BY <2>4, <3>2 DEF ReceiveResult, Persisted
            <4> QED
                BY <4>1, <4>2, AckKeeps
        <3> QED
            BY <3>1, <3>2
    <2>5. CASE ReceiveToolError(i)
        <3>1. TableKept(Failed(i))
            BY FailedKeeps
        <3>2. intents' \in {Failed(i), Acked(Failed(i), {i})}
            BY <2>5 DEF ReceiveToolError, Persisted
        <3> QED
            BY <3>1, <3>2, AckKeeps
    <2>6. CASE ReceiveAck(i)
        <3>1. intents' = Receipted(intents, {i}) \/ UNCHANGED intents
            BY <2>6 DEF ReceiveAck, MarkReceiptConfirmed
        <3>2. TableKept(intents)
            BY DEF TableKept, IntentsOK
        <3> QED
            BY <3>1, <3>2, ReceiptKeeps, SameRows
    <2> QED
        BY <2>1, <2>2, <2>3, <2>4, <2>5, <2>6 DEF ServerCall
<1> QED
    BY <1>1, <1>3, <1>4 DEF Good, JournalStep

LEMMA BoxCallGood ==
    ASSUME RoundOK, IntentsOK, NEW i \in Remote, BoxCall(i) PROVE Good
<1>0. i \in Invocations
    BY DEF Remote
<1>1. UNCHANGED intents /\ loop' = loop
    BY DEF BoxCall, RefuseInvoke, RejectInvoke, PrepareFails, PrepareUncertain, Accept, Execute,
       FinishHandler, FinishUnrecorded, HandleAck, boxVars
<1>2. \A m \in net' : IsRound(m) => m \in net
    BY DEF BoxCall, RefuseInvoke, RejectInvoke, PrepareFails, PrepareUncertain, Accept, Execute,
       FinishHandler, FinishUnrecorded, HandleAck, IsRound, Respond, Answer, Invoke, Ack, Reply,
       AckReply
<1>3. JournalStep /\ boxUp' = boxUp /\ UnconfirmedReceipts \subseteq UnconfirmedReceipts'
    <2>1. CASE UNCHANGED journalVars
        BY <2>1 DEF JournalStep, journalVars, UnconfirmedReceipts
    <2>2. CASE Begin(i)
        <3>1. JournalStep /\ boxUp' = boxUp
            BY <1>0, <2>2 DEF JournalStep, JournalNext, Begin, BeginReplay, BeginRejected,
               BeginAdmitted, BeginPrepareFailed, BeginUncertain
        <3>2. PruneInBegin(i)
            BY <2>2 DEF Begin, BeginReplay, BeginRejected, BeginAdmitted, BeginPrepareFailed,
               BeginUncertain
        <3> QED
            BY <3>1, <3>2, PruneKeepsUnconfirmed DEF PruneInBegin, UnconfirmedReceipts
    <2>3. CASE \E s \in EvidenceStates : Finish(i, s)
        BY <1>0, <2>3 DEF JournalStep, JournalNext, Finish, UnconfirmedReceipts
    <2>4. CASE \E taken \in SUBSET {i} : Acknowledge({i}, taken)
        <3>1. PICK taken \in SUBSET {i} : Acknowledge({i}, taken)
            BY <2>4
        <3>2. {i} \in SUBSET Invocations /\ taken \in SUBSET Invocations
            BY <1>0
        <3>3. JournalStep
            BY <3>1, <3>2 DEF JournalStep, JournalNext
        <3>4. boxUp' = boxUp /\ UnconfirmedReceipts \subseteq UnconfirmedReceipts'
            BY <3>1, PruneKeepsUnconfirmed DEF Acknowledge, UnconfirmedReceipts
        <3> QED
            BY <3>3, <3>4
    <2>5. CASE AcknowledgeLost({i})
        <3>1. {i} \in SUBSET Invocations
            BY <1>0
        <3>2. JournalStep
            BY <2>5, <3>1 DEF JournalStep, JournalNext
        <3> QED
            BY <2>5, <3>2, PruneKeepsUnconfirmed DEF AcknowledgeLost, UnconfirmedReceipts
    <2>6. FinishHandler(i) => \E s \in EvidenceStates : Finish(i, s)
        <3> SUFFICES ASSUME FinishHandler(i) PROVE \E s \in EvidenceStates : Finish(i, s)
            OBVIOUS
        <3>1. PICK ending \in Endings(i) : Finish(i, ending.state)
            BY DEF FinishHandler
        <3>2. ending.state \in EvidenceStates
            BY DEF Endings, Ending, EvidenceStates, TerminalStates
        <3> QED
            BY <3>1, <3>2
    <2>7. RefuseInvoke(i) \/ Execute(i) \/ FinishUnrecorded(i) => UNCHANGED journalVars
        BY DEF RefuseInvoke, Execute, FinishUnrecorded, FinishLost
    <2>8. RejectInvoke(i) \/ PrepareFails(i) \/ PrepareUncertain(i) \/ Accept(i) => Begin(i)
        BY DEF RejectInvoke, PrepareFails, PrepareUncertain, Accept, Begin
    <2>9. HandleAck(i) => \/ \E taken \in SUBSET {i} : Acknowledge({i}, taken)
                         \/ AcknowledgeLost({i})
        BY DEF HandleAck
    <2> QED
        BY <2>1, <2>2, <2>3, <2>4, <2>5, <2>6, <2>7, <2>8, <2>9 DEF BoxCall
<1>4. RoundOK'
    BY <1>1, <1>2, <1>3, AsideKeepsRound DEF Aside
<1> QED
    BY <1>1, <1>3, <1>4, SameRows DEF Good

LEMMA GrantRunsOutGood ==
    ASSUME RoundOK, IntentsOK, NEW i \in Invocations, GrantRunsOut(i) PROVE Good
<1>1. JournalStep
    BY DEF GrantRunsOut, JournalStep, JournalNext
<1>2. Aside
    BY DEF GrantRunsOut, GrantExpires, Aside, UnconfirmedReceipts, boxVars
<1> QED
    BY <1>1, <1>2, AsideKeepsRound, SameRows DEF Good, GrantRunsOut

\* A round begins only when none is under way.
LEMMA SendReconcileGood == ASSUME RoundOK, IntentsOK, SendReconcile PROVE Good
<1>1. PICK items \in Batches(listEvidence), receipts \in Batches(UnconfirmedReceipts) :
          net' = net \union {[type |-> "reconcile", items |-> items, receipts |-> receipts,
                     states |-> [i \in Remote |-> IF i \in items THEN records[i] ELSE "absent"]]}
    BY DEF SendReconcile, Send
<1> DEFINE new == [type |-> "reconcile", items |-> items, receipts |-> receipts,
                   states |-> [i \in Remote |-> IF i \in items THEN records[i] ELSE "absent"]]
<1>2. \A m \in net : ~IsRound(m)
    BY DEF SendReconcile, RoundOK
<1>3. items \subseteq listEvidence /\ receipts \subseteq UnconfirmedReceipts
    BY DEF Batches
<1>4. UNCHANGED <<journalVars, intents>> /\ boxUp /\ loop' = "waiting"
    BY DEF SendReconcile
<1>5. JournalStep /\ UnconfirmedReceipts' = UnconfirmedReceipts /\ boxUp'
    BY <1>4 DEF JournalStep, journalVars, UnconfirmedReceipts
<1>6. /\ new.type = "reconcile" /\ new.items \subseteq Invocations
      /\ new.receipts \subseteq UnconfirmedReceipts
    BY <1>3 DEF listEvidence
<1>7. \A i \in new.items \ Local : new.states[i] \in EvidenceStates
    BY <1>3 DEF listEvidence, Remote
<1>8. RoundOK'
    <2> HIDE DEF new
    <2>1. \A m \in net' : m \in net \/ m = new
        BY <1>1 DEF new
    <2>2. \A m \in net' : IsRound(m) => m = new
        BY <1>2, <2>1
    <2> QED
        BY <1>4, <1>5, <1>6, <1>7, <2>2 DEF RoundOK, IsRound
<1> QED
    BY <1>4, <1>5, <1>8, SameRows DEF Good

LEMMA ServerReconcileGood == ASSUME RoundOK, IntentsOK, ServerReconcile PROVE Good
<1>1. PICK m \in net :
        /\ m.type = "reconcile"
        /\ LET t == Acked(Completed(intents, m, m.items), m.items) IN
           IF Accepted(m) # m.items
             THEN /\ \E prefix \in ThrownPrefixes(m) : intents' = Completed(intents, m, prefix)
                  /\ Answer(m, [type |-> "refused"])
             ELSE IF \A i \in m.receipts : ReceiptAcceptable(t, i)
               THEN /\ intents' = Receipted(t, m.receipts)
                    /\ Answer(m, [type |-> "reconciled", acked |-> m.items,
                                  confirmed |-> m.receipts])
               ELSE /\ \E part \in SUBSET {i \in m.receipts : ReceiptAcceptable(t, i)} :
                           intents' = Receipted(t, part)
                    /\ Answer(m, [type |-> "refused"])
    BY DEF ServerReconcile
<1>2. UNCHANGED <<journalVars, loop>>
    BY DEF ServerReconcile, boxVars
<1>3. /\ loop = "waiting" /\ boxUp /\ m.items \subseteq Invocations
      /\ \A i \in m.items \ Local : m.states[i] \in EvidenceStates
      /\ m.receipts \subseteq UnconfirmedReceipts
      /\ \A n \in net : IsRound(n) => n = m
    BY <1>1 DEF RoundOK, IsRound
<1> DEFINE answer == [type |-> "reconciled", acked |-> m.items, confirmed |-> m.receipts]
           refusal == [type |-> "refused"]
<1>4. PICK r \in {answer, refusal} : net' = (net \ {m}) \union {r}
    BY <1>1 DEF Answer
<1>5. \A n \in net' : IsRound(n) => n = r
    BY <1>3, <1>4
<1>6. /\ r.type # "reconcile"
      /\ r.type = "reconciled" => r.acked = m.items /\ r.confirmed = m.receipts
    OBVIOUS
<1>7. RoundOK'
    <2> HIDE DEF answer, refusal
    <2>1. UnconfirmedReceipts' = UnconfirmedReceipts /\ boxUp' /\ loop' = "waiting"
        BY <1>2, <1>3 DEF journalVars, UnconfirmedReceipts
    <2> QED
        BY <1>3, <1>5, <1>6, <2>1 DEF RoundOK, IsRound
<1>8. IntentsOK' /\ RowsKept
    <2> DEFINE c(S) == Completed(intents, m, S)
    <2>1. ASSUME NEW S, S \subseteq Accepted(m) PROVE TableKept(c(S))
        BY <1>3, <2>1, CompletedKeeps
    <2>2. CASE \E prefix \in ThrownPrefixes(m) : intents' = c(prefix)
        <3>1. PICK prefix \in ThrownPrefixes(m) : intents' = c(prefix)
            BY <2>2
        <3>2. TableKept(c(prefix))
            BY <2>1 DEF ThrownPrefixes
        <3> QED
            BY <3>1, <3>2, AckKeeps
    <2>3. CASE Accepted(m) = m.items /\ \E ids : intents' = Receipted(Acked(c(m.items), m.items), ids)
        <3>1. PICK ids : intents' = Receipted(Acked(c(m.items), m.items), ids)
            BY <2>3
        <3>2. TableKept(c(m.items))
            BY <2>1, <2>3
        <3> HIDE DEF c
        <3>3. TableKept(Acked(c(m.items), m.items))
            BY <3>2, MarksKeep
        <3> QED
            BY <3>1, <3>3, ReceiptKeeps
    <2> QED
        BY <1>1, <2>2, <2>3
<1> QED
    BY <1>2, <1>7, <1>8 DEF Good, JournalStep

\* What was committed before the failure keeps the rows, the answer is a refusal.
LEMMA ServerReconcileFailsGood == ASSUME RoundOK, IntentsOK, ServerReconcileFails PROVE Good
<1>1. PICK m \in net :
        /\ m.type = "reconcile"
        /\ intents' \in PartlyReconciled(m)
        /\ Answer(m, [type |-> "refused"])
    BY DEF ServerReconcileFails
<1>2. UNCHANGED <<journalVars, loop>>
    BY DEF ServerReconcileFails, boxVars
<1>3. /\ loop = "waiting" /\ boxUp
      /\ \A i \in m.items \ Local : m.states[i] \in EvidenceStates
      /\ \A n \in net : IsRound(n) => n = m
    BY <1>1 DEF RoundOK, IsRound
<1>4. net' = (net \ {m}) \union {[type |-> "refused"]}
    BY <1>1 DEF Answer
<1>5. \A n \in net' : IsRound(n) => n = [type |-> "refused"]
    BY <1>3, <1>4
<1>6. RoundOK'
    BY <1>2, <1>3, <1>5 DEF RoundOK, IsRound, UnconfirmedReceipts, journalVars
<1>7. IntentsOK' /\ RowsKept
    <2>1. PICK t \in PartlyReconciled(m) : intents' = t
        BY <1>1
    <2>2. TableKept(t)
        BY <1>3, PartlyKept
    <2> QED
        BY <2>1, <2>2, AckKeeps
<1> QED
    BY <1>2, <1>6, <1>7 DEF Good, JournalStep

\* The Box confirms what is still unconfirmed.
LEMMA NoteConfirmedGood == ASSUME RoundOK, IntentsOK, NoteConfirmed PROVE Good
<1>1. PICK m \in net :
        /\ m.type = "reconciled"
        /\ \/ /\ ConfirmAcknowledgements(m.confirmed)
              /\ loop' = "acknowledging"
              /\ UNCHANGED net
           \/ /\ ConfirmAcknowledgements(m.confirmed) \/ ConfirmLost(m.confirmed)
              /\ loop' = "failed"
              /\ net' = net \ {m}
    BY DEF NoteConfirmed
<1>2. loop = "waiting" /\ UNCHANGED intents
    BY DEF NoteConfirmed
<1>3. /\ m.confirmed \subseteq UnconfirmedReceipts /\ boxUp /\ m.acked \subseteq Invocations
      /\ \A n \in net : IsRound(n) => n = m
    BY <1>1, <1>2 DEF RoundOK, IsRound
<1>4. JournalStep
    <2>1. m.confirmed \in SUBSET Invocations
        BY <1>3 DEF UnconfirmedReceipts
    <2> QED
        BY <1>1, <1>3, <2>1 DEF JournalStep, JournalNext
<1>5. boxUp'
    BY <1>1 DEF ConfirmAcknowledgements, ConfirmLost
<1>6. RoundOK'
    BY <1>1, <1>3, <1>5 DEF RoundOK, IsRound
<1> QED
    BY <1>2, <1>4, <1>6, SameRows DEF Good

LEMMA NoteAcknowledgedGood == ASSUME RoundOK, IntentsOK, NoteAcknowledged PROVE Good
<1>1. PICK m \in net :
        /\ m.type = "reconciled"
        /\ net' = net \ {m}
        /\ (\E taken \in SUBSET m.acked : Acknowledge(m.acked, taken)) \/ AcknowledgeLost(m.acked)
    BY DEF NoteAcknowledged
<1>2. UNCHANGED intents
    BY DEF NoteAcknowledged
<1>3. m.acked \in SUBSET Invocations /\ \A n \in net : IsRound(n) => n = m
    BY <1>1 DEF RoundOK, IsRound
<1>4. JournalStep
    <2>1. CASE AcknowledgeLost(m.acked)
        BY <1>3, <2>1 DEF JournalStep, JournalNext
    <2>2. ASSUME NEW taken \in SUBSET m.acked, Acknowledge(m.acked, taken) PROVE JournalStep
        <3>1. taken \in SUBSET Invocations
            BY <1>3
        <3> QED
            BY <1>3, <2>2, <3>1 DEF JournalStep, JournalNext
    <2> QED
        BY <1>1, <2>1, <2>2
<1>5. RoundOK'
    BY <1>1, <1>3 DEF RoundOK, IsRound
<1> QED
    BY <1>2, <1>4, <1>5, SameRows DEF Good

LEMMA ReconciliationGood == ASSUME RoundOK, IntentsOK, Reconciliation PROVE Good
<1>1. CASE BoxReady \/ RetryReconcile
    <2>1. UNCHANGED <<journalVars, intents, net>>
        BY <1>1 DEF BoxReady, RetryReconcile
    <2>2. \A m \in net : ~IsRound(m)
        BY <1>1 DEF BoxReady, RetryReconcile, RoundOK
    <2>3. RoundOK'
        BY <2>1, <2>2 DEF RoundOK, IsRound
    <2> QED
        BY <2>1, <2>3, SameRows DEF Good, JournalStep
<1>2. CASE ReconcileRefused
    <2>1. /\ UNCHANGED <<journalVars, intents>>
          /\ [type |-> "refused"] \in net /\ net' = net \ {[type |-> "refused"]}
        BY <1>2 DEF ReconcileRefused
    <2>2. \A m \in net' : ~IsRound(m)
        BY <2>1 DEF RoundOK, IsRound
    <2>3. RoundOK'
        BY <2>2 DEF RoundOK, IsRound
    <2> QED
        BY <2>1, <2>3, SameRows DEF Good, JournalStep
<1> QED
    BY <1>1, <1>2, SendReconcileGood, ServerReconcileGood, ServerReconcileFailsGood, NoteConfirmedGood,
       NoteAcknowledgedGood
    DEF Reconciliation

\* A lost connection puts what was waiting in doubt.
LEMMA UnknownsKeep == ASSUME IntentsOK, intents' = Unknowns(intents) PROVE IntentsOK' /\ RowsKept
BY DEF IntentsOK, Unknowns, RowsKept, RowKept, Intent, IntentStates, EvidenceStates

\* What a crash leaves behind, a restart completes.
LEMMA RestartKeeps ==
    ASSUME RoundOK, IntentsOK, NEW t \in MidwayRows, RecoverOnStartup(t) PROVE IntentsOK' /\ RowsKept
<1>1. TableKept(t)
    <2>1. CASE t = intents
        BY <2>1 DEF TableKept, IntentsOK
    <2>2. ASSUME NEW i \in Remote, ~Conflicts(intents, i, "succeeded"),
                 t = [intents EXCEPT ![i].state = "succeeded"]
          PROVE  TableKept(t)
        BY <2>2 DEF TableKept, Conflicts, IntentsOK, Intent, IntentStates, EvidenceStates,
           TerminalStates
    <2>3. ASSUME NEW m \in net, m.type = "reconcile", t \in PartlyReconciled(m)
          PROVE  TableKept(t)
        <3>1. \A i \in m.items \ Local : m.states[i] \in EvidenceStates
            BY <2>3 DEF RoundOK
        <3> QED
            BY <2>3, <3>1, PartlyKept
    <2>4. ASSUME NEW i \in Remote, t = Failed(i) PROVE TableKept(t)
        BY <2>4, FailedKeeps DEF Remote
    <2> QED
        BY <2>1, <2>2, <2>3, <2>4 DEF MidwayRows
<1>2. intents' = [i \in Invocations |->
        CASE t[i].state = "granted" ->
                 [t[i] EXCEPT !.state = "cancelled", !.acked = TRUE, !.receipt = TRUE]
          [] t[i].state = "running" ->
                 [t[i] EXCEPT !.state = "outcome_unknown", !.acked = @ \/ i \in Local]
          [] OTHER -> t[i]]
    BY DEF RecoverOnStartup
<1> QED
    <2>1. ASSUME NEW i \in Invocations PROVE intents'[i] \in Intent /\ RowKept(i)
        <3>1. t[i] \in Intent
            BY <1>1 DEF TableKept
        <3>2. CASE t[i].state = "granted"
            BY <1>1, <1>2, <3>1, <3>2 DEF TableKept, RowKept, Intent, IntentStates, EvidenceStates,
               TerminalStates
        <3>3. CASE t[i].state = "running"
            BY <1>1, <1>2, <3>1, <3>3 DEF TableKept, RowKept, Intent, IntentStates, EvidenceStates,
               TerminalStates
        <3>4. CASE t[i].state \notin {"granted", "running"}
            BY <1>1, <1>2, <3>1, <3>4 DEF TableKept, RowKept
        <3> QED
            BY <3>2, <3>3, <3>4
    <2> QED
        BY <1>2, <2>1 DEF IntentsOK, RowsKept

LEMMA EnvironmentGood == ASSUME RoundOK, IntentsOK, Environment PROVE Good
<1>1. CASE LinkDrops \/ ConnectionAttemptFails
    <2>1. UNCHANGED journalVars /\ net' = {} /\ intents' = Unknowns(intents)
        BY <1>1 DEF LinkDrops, ConnectionAttemptFails, Disconnected, PeerGone
    <2> QED
        BY <2>1, AsideKeepsRound, UnknownsKeep DEF Aside, Good, JournalStep
<1>2. CASE BoxDies
    <2>1. BoxCrash /\ net' = {} /\ intents' = Unknowns(intents)
        BY <1>2 DEF BoxDies, Disconnected, PeerGone
    <2> QED
        BY <2>1, AsideKeepsRound, UnknownsKeep DEF Aside, Good, JournalStep, JournalNext
<1>3. CASE Connect
    <2>1. UNCHANGED <<journalVars, intents, net, loop>>
        BY <1>3 DEF Connect, boxVars
    <2>2. Aside
        BY <2>1 DEF Aside, journalVars, UnconfirmedReceipts
    <2> QED
        BY <2>1, <2>2, AsideKeepsRound, SameRows DEF Good, JournalStep
<1>4. CASE BoxStarts
    <2>1. /\ BoxRestart \/ BoxRestartTorn
          /\ UNCHANGED <<intents, net, loop>>
        BY <1>4 DEF BoxStarts, boxVars
    <2>2. JournalStep /\ ~boxUp
        BY <2>1 DEF JournalStep, JournalNext, BoxRestart, BoxRestartTorn
    <2>3. Aside
        BY <2>1, <2>2 DEF Aside
    <2> QED
        BY <2>1, <2>2, <2>3, AsideKeepsRound, SameRows DEF Good
<1>5. CASE ServerRestarts
    <2>1. UNCHANGED journalVars /\ net' = {}
        BY <1>5 DEF ServerRestarts, Disconnected
    <2>2. IntentsOK' /\ RowsKept
        BY <1>5, RestartKeeps DEF ServerRestarts
    <2> QED
        BY <2>1, <2>2, AsideKeepsRound DEF Aside, Good, JournalStep
<1> QED
    BY <1>1, <1>2, <1>3, <1>4, <1>5 DEF Environment

-----------------------------------------------------------------------------
(* The theorems.                                                           *)

LEMMA StepGood == ASSUME RoundOK, IntentsOK, [Next]_vars PROVE Good
<1>1. CASE UNCHANGED vars
    <2>1. UNCHANGED <<journalVars, net, loop, intents>>
        BY <1>1 DEF vars, journalVars
    <2>2. Aside
        BY <2>1 DEF Aside, journalVars, UnconfirmedReceipts
    <2> QED
        BY <2>1, <2>2, AsideKeepsRound, SameRows DEF Good, JournalStep
<1>2. CASE Next
    BY <1>2, ServerCallGood, GrantRunsOutGood, BoxCallGood, ReconciliationGood, EnvironmentGood
    DEF Next
<1> QED
    BY <1>1, <1>2

LEMMA InitGood == Init => RoundOK /\ IntentsOK /\ JournalInit
BY DEF Init, RoundOK, RepositoryInit, IntentsOK, NoIntent, Intent, IntentStates

LEMMA PipelineInvariant == Spec => [](RoundOK /\ IntentsOK)
<1>1. RoundOK /\ IntentsOK /\ [Next]_vars => (RoundOK /\ IntentsOK)'
    BY StepGood DEF Good
<1> QED
    BY <1>1, InitGood, PTL DEF Spec

\* The pipeline is a user of the journal: every step of it is a step of
\* InvocationJournal or leaves the journal alone, whatever fails.  What is
\* proved of the journal under any caller therefore holds in the pipeline.
THEOREM PipelineUsesJournal == Spec => JournalSpec
<1>1. RoundOK /\ IntentsOK /\ [Next]_vars => [JournalNext]_journalVars
    BY StepGood DEF Good, JournalStep
<1> QED
    BY <1>1, InitGood, PipelineInvariant, PTL DEF Spec, JournalSpec

\* In the pipeline as well no grant starts an Action twice, an invocation has
\* one outcome, and a crash of the Box loses none (begin() and #load of the
\* Box's invocation-journal.ts).
THEOREM PipelineKeepsOutcomes ==
    Spec => [](GrantAdmittedOnce /\ OneOutcome /\ CrashLosesNothing /\ JournalLoads)
BY PipelineUsesJournal, GrantsAreOneTime, OutcomeIsUnique, CrashIsHarmless, FileAlwaysLoads, PTL

\* No late answer, timeout, lost connection, evidence or restart revises a
\* final verdict of the server or takes an acknowledgement or a receipt back.
THEOREM VerdictsAreFinal == Spec => VerdictIsFinal
<1>1. RoundOK /\ IntentsOK /\ [Next]_vars => [RowsKept]_vars
    BY StepGood DEF Good
<1>2. RowsKept => \A i \in Invocations :
           /\ intents[i].state \in TerminalStates => intents'[i].state = intents[i].state
           /\ intents[i].acked => intents'[i].acked
           /\ intents[i].receipt => intents'[i].receipt
    BY DEF RowsKept, RowKept
<1> QED
    BY <1>1, <1>2, PipelineInvariant, PTL DEF Spec, VerdictIsFinal

-----------------------------------------------------------------------------
(* The evidence of an outcome: what the server believes, what is in flight *)
(* and what the Box holds, for one Action that a Box executes.             *)

CallStates == {"idle", "approving", "granting", "granted", "waiting", "acking", "done"}

CallsOK == calls \in [Invocations -> CallStates]

\* The Box has never touched i, neither in memory nor on disk.
Untouched(i) ==
    /\ records[i] = "absent" /\ disk.records[i] = "absent"
    /\ consumedGrants[i] = "none" /\ disk.consumedGrants[i] = "none"
    /\ recorded[i] = "none"

\* The Box holds a receipt of i, in memory or on disk.
Tomb(i) == consumedGrants[i] # "none" \/ disk.consumedGrants[i] # "none"

\* The server has stored the outcome of i for good.
Stored(i) == intents[i].acked /\ recorded[i] # "none" /\ intents[i].state = recorded[i]

\* The grant of i was not sent yet.
Unsent(i) == ~intents[i].consumed \/ calls[i] = "granted"

\* The call of i is over and its grant will never reach the Box.
Gone(i) == calls[i] = "done" /\ Untouched(i) /\ Invoke(i) \notin net

\* How the server's row goes with its call.
CallInv(i) ==
    /\ calls[i] \in {"idle", "approving"} => intents[i].state = "none"
    /\ calls[i] = "granting" => intents[i].state = "granted"
    /\ calls[i] = "granted" => intents[i].state = "running" /\ intents[i].consumed
    /\ calls[i] = "waiting" =>
           /\ intents[i].consumed
           /\ \/ intents[i].state = "running"
              \/ recorded[i] # "none" /\ intents[i].state = recorded[i]
    /\ intents[i].state \in {"none", "granted"} => ~intents[i].consumed
    /\ Unsent(i) => /\ Untouched(i)
                    /\ Invoke(i) \notin net
                    /\ \A c \in Codes : Reply(i, c) \notin net

\* Where a final verdict comes from.  The third case is the one in which the
\* Box began an Action, failed it for its path and answered as if it had not.
VerdictInv(i) ==
    intents[i].state \in TerminalStates =>
        \/ intents[i].state = recorded[i]
        \/ intents[i].state = "cancelled" /\ Gone(i)
        \/ intents[i].state = "cancelled" /\ recorded[i] = "failed" /\ i \in Outside

\* What a reply says of i, while somebody waits for it.
Tells(i, c) ==
    /\ c = "result" => recorded[i] = "succeeded"
    /\ c = "tool_error" => recorded[i] = "failed"
    /\ c = "violation" => recorded[i] = "failed" /\ i \in Outside
    /\ c = "rejected" => Untouched(i) /\ Invoke(i) \notin net

\* What a round of reconciliation says of i.
Claims(i, m) ==
    /\ m.type = "reconcile" /\ i \in m.items => recorded[i] # "none" /\ m.states[i] = recorded[i]
    /\ m.type = "reconciled" /\ i \in m.acked => Stored(i)

\* Every message in flight is true of i.
NetInv(i) ==
    /\ Invoke(i) \in net => Untouched(i)
    /\ \A c \in Codes : Reply(i, c) \in net /\ calls[i] = "waiting" => Tells(i, c)
    /\ Ack(i) \in net => Stored(i)
    /\ \A m \in net : Claims(i, m)

TombInv(i) == Tomb(i) => Stored(i)

EvidenceInv(i) == CallInv(i) /\ VerdictInv(i) /\ NetInv(i) /\ TombInv(i)

-----------------------------------------------------------------------------
\* What the journal may do about i in a step of the pipeline.
BoxMove(i) ==
    /\ Untouched(i) => Untouched(i)' \/ (Invoke(i) \in net /\ Invoke(i) \notin net')
    /\ recorded[i] # "none" => recorded'[i] = recorded[i]
    /\ Tomb(i)' => Tomb(i) \/ Stored(i)

\* What may happen to the messages about i in such a step.
NetMove(i) ==
    /\ Invoke(i) \in net' => Invoke(i) \in net
    /\ \A c \in Codes : Reply(i, c) \in net' /\ Reply(i, c) \notin net =>
           /\ Invoke(i) \in net \/ calls[i] = "waiting"
           /\ calls[i] = "waiting" => Tells(i, c)'
    /\ Ack(i) \in net' => Ack(i) \in net
    /\ \A m \in net' : m \in net \/ Claims(i, m)'

\* What a step may do to the outcome of i and to what the server believes of
\* it: only one of them at a time, a belief never returns to "open", and only
\* an Action that has an outcome goes from doubt to "cancelled".
Advance(i) ==
    /\ BoxMove(i)
    /\ recorded'[i] # recorded[i] => intents'[i].state = intents[i].state
    /\ intents[i].state \in EvidenceStates => intents'[i].state \in EvidenceStates
    /\ intents[i].state = "outcome_unknown" /\ intents'[i].state = "cancelled"
          => recorded[i] # "none"

Kept(i) == EvidenceInv(i)' /\ Advance(i)

\* A step that leaves the row and the call of i alone.
LEMMA RowUnmoved ==
    ASSUME NEW i \in Remote, EvidenceInv(i), BoxMove(i), NetMove(i),
           intents'[i] = intents[i], calls'[i] = calls[i]
    PROVE  Kept(i)
<1> USE DEF EvidenceInv, BoxMove, NetMove
<1>1. Stored(i) => Stored(i)'
    BY DEF Stored
<1>2. Unsent(i)' = Unsent(i) /\ (Unsent(i) => Invoke(i) \notin net /\ calls[i] # "waiting")
    BY DEF Unsent, CallInv
<1>3. CallInv(i)'
    BY <1>2 DEF CallInv
<1>4. VerdictInv(i)'
    BY DEF VerdictInv, Gone, TerminalStates
<1>5. NetInv(i)'
    <2>1. Invoke(i) \in net' => Untouched(i)'
        BY DEF NetInv
    <2>2. \A c \in Codes : Reply(i, c) \in net' /\ calls'[i] = "waiting" => Tells(i, c)'
        BY DEF NetInv, Tells
    <2>3. \A m \in net' : Claims(i, m)'
        BY <1>1 DEF NetInv, Claims
    <2> QED
        BY <1>1, <2>1, <2>2, <2>3 DEF NetInv
<1>6. TombInv(i)'
    BY <1>1 DEF TombInv
<1>7. Advance(i)
    BY DEF Advance
<1> QED
    BY <1>3, <1>4, <1>5, <1>6, <1>7 DEF Kept

\* The messages are what they say they are.
LEMMA Letters ==
    ASSUME NEW i, NEW j, NEW c, NEW d, NEW b
    PROVE  /\ Invoke(i) # Reply(j, c) /\ Invoke(i) # Ack(j) /\ Invoke(i) # AckReply(j, b)
           /\ Reply(i, c) # Ack(j) /\ Reply(i, c) # AckReply(j, b) /\ Ack(i) # AckReply(j, b)
           /\ Invoke(i) = Invoke(j) => i = j
           /\ Reply(i, c) = Reply(j, d) => i = j /\ c = d
           /\ Ack(i) = Ack(j) => i = j
           /\ \A t \in {"reconcile", "reconciled", "refused"} :
                  /\ Invoke(i).type # t /\ Reply(i, c).type # t
                  /\ Ack(i).type # t /\ AckReply(i, b).type # t
BY DEF Invoke, Reply, Ack, AckReply

-----------------------------------------------------------------------------
\* FirstOutcome keeps what was recorded.
LEMMA StillUntouched ==
    ASSUME NEW i \in Remote, recorded' = recorded \/ recorded' = FirstOutcome(records'),
           recorded[i] = "none", records'[i] = "absent"
    PROVE  recorded'[i] = "none"
BY DEF FirstOutcome, Remote, EvidenceStates, TerminalStates

LEMMA OutcomeKept ==
    ASSUME NEW i \in Remote, recorded' = recorded \/ recorded' = FirstOutcome(records'),
           recorded[i] # "none"
    PROVE  recorded'[i] = recorded[i]
BY DEF FirstOutcome, Remote

\* begin() touches only the invocation it is called for.
LEMMA BeginMoves ==
    ASSUME JournalTypeOK, NEW j \in Remote, Begin(j), Invoke(j) \in net, Invoke(j) \notin net',
           NEW i \in Remote
    PROVE  BoxMove(i)
<1> DEFINE pruned == PruneExpiredGrantTombstones(consumedGrants)
<1>0. i \in Invocations /\ j \in Invocations
    BY DEF Remote
<1>1. /\ consumedGrants' \in {consumedGrants, pruned}
      /\ recorded' = recorded \/ recorded' = FirstOutcome(records')
      /\ pruned[i] # "none" => consumedGrants[i] # "none"
    BY <1>0, PruneAt DEF Begin, BeginReplay, BeginRejected, BeginAdmitted, BeginPrepareFailed,
       BeginUncertain, PruneInBegin, JournalTypeOK
<1>2. /\ consumedGrants'[i] # "none" => consumedGrants[i] # "none"
      /\ recorded[i] # "none" => recorded'[i] = recorded[i]
    BY <1>1, OutcomeKept
<1>3. \/ disk' = disk /\ records' = records
      \/ /\ disk'.consumedGrants = consumedGrants'
         /\ i # j => disk'.records[i] = records[i] /\ records'[i] = records[i]
    <2>1. CASE BeginAdmitted(j)
        BY <1>0, <2>1 DEF BeginAdmitted, Persist, JournalTypeOK
    <2>2. CASE BeginUncertain(j)
        BY <1>0, <2>2 DEF BeginUncertain, Persist, JournalTypeOK
    <2> QED
        BY <2>1, <2>2 DEF Begin, BeginReplay, BeginRejected, BeginPrepareFailed
<1>4. Tomb(i)' => Tomb(i)
    BY <1>2, <1>3 DEF Tomb
<1>5. i # j /\ Untouched(i) => Untouched(i)'
    BY <1>1, <1>2, <1>3, StillUntouched DEF Untouched
<1> QED
    BY <1>2, <1>4, <1>5 DEF BoxMove

\* The end of an Action is the end of one that was begun.
LEMMA FinishMoves ==
    ASSUME JournalTypeOK, NEW j \in Remote, NEW s \in EvidenceStates, Finish(j, s), NEW i \in Remote
    PROVE  BoxMove(i)
<1>1. /\ records[j] = "running" /\ records' = [records EXCEPT ![j] = s]
      /\ disk' = [records |-> records', consumedGrants |-> consumedGrants]
      /\ consumedGrants' = consumedGrants
      /\ recorded' = FirstOutcome(records')
    BY DEF Finish, Persist
<1>2. Untouched(i) => records'[i] = "absent"
    BY <1>1 DEF Untouched, JournalTypeOK, Remote
<1> QED
    BY <1>1, <1>2, StillUntouched, OutcomeKept DEF BoxMove, Untouched, Tomb

\* An acknowledgement turns evidence into a tombstone, and only what was told.
LEMMA AcknowledgeMoves ==
    ASSUME JournalTypeOK, OutcomeInv, NEW ids,
           (\E taken \in SUBSET ids : Acknowledge(ids, taken)) \/ AcknowledgeLost(ids),
           NEW i \in Remote, i \in ids => Stored(i)
    PROVE  BoxMove(i)
<1> DEFINE pruned == PruneExpiredGrantTombstones(consumedGrants)
<1>0. i \in Invocations /\ (pruned[i] # "none" => consumedGrants[i] # "none")
    BY PruneAt DEF Remote, JournalTypeOK
<1>1. CASE AcknowledgeLost(ids)
    BY <1>0, <1>1 DEF AcknowledgeLost, BoxMove, Untouched, Tomb
<1>2. ASSUME NEW taken \in SUBSET ids, Acknowledge(ids, taken) PROVE BoxMove(i)
    <2>1. /\ recorded' = recorded
          /\ records'[i] = IF i \in taken THEN "absent" ELSE records[i]
          /\ consumedGrants'[i] = IF i \in taken THEN "unconfirmed" ELSE pruned[i]
          /\ \/ disk' = disk
             \/ disk' = [records |-> records', consumedGrants |-> consumedGrants']
        BY <1>0, <1>2 DEF Acknowledge, Persist
    <2>2. i \in taken => Stored(i)
        OBVIOUS
    <2> QED
        BY <1>0, <2>1, <2>2 DEF BoxMove, Untouched, Tomb, Stored
<1> QED
    BY <1>1, <1>2

\* A confirmation touches only tombstones.
LEMMA ConfirmMoves ==
    ASSUME NEW ids, ConfirmAcknowledgements(ids) \/ ConfirmLost(ids), NEW i \in Remote
    PROVE  BoxMove(i)
BY DEF ConfirmAcknowledgements, ConfirmLost, Persist, BoxMove, Untouched, Tomb, Remote

\* A crash forgets, a restart remembers what the file holds.
LEMMA ProcessMoves ==
    ASSUME JournalTypeOK, BoxCrash \/ BoxRestart \/ BoxRestartTorn, NEW i \in Remote
    PROVE  BoxMove(i)
<1> DEFINE loaded == PruneExpiredGrantTombstones(disk.consumedGrants)
<1>0. /\ i \in Invocations
      /\ loaded[i] # "none" => disk.consumedGrants[i] # "none"
      /\ disk.records[i] = "absent" => Recovered(disk.records)[i] = "absent"
    BY PruneAt, RecoveredAt DEF Remote, JournalTypeOK, JournalFile
<1>1. CASE BoxCrash
    BY <1>0, <1>1 DEF BoxCrash, BoxMove, Untouched, Tomb
<1>2. CASE BoxRestart
    BY <1>0, <1>2, StillUntouched, OutcomeKept DEF BoxRestart, Persist, BoxMove, Untouched, Tomb
<1>3. CASE BoxRestartTorn
    BY <1>0, <1>3 DEF BoxRestartTorn, Persist, BoxMove, Untouched, Tomb
<1> QED
    BY <1>1, <1>2, <1>3

\* A step of the server leaves the Box alone.
LEMMA NoMove == ASSUME UNCHANGED <<records, consumedGrants, disk, recorded>>, NEW i \in Remote PROVE BoxMove(i)
BY DEF BoxMove, Untouched, Tomb

-----------------------------------------------------------------------------
(* The server's steps.                                                     *)

\* A step of the server about another invocation.
LEMMA ServerCallElsewhere ==
    ASSUME IntentsOK, CallsOK, NEW j \in Invocations, ServerCall(j), NEW i \in Remote, i # j,
           EvidenceInv(i)
    PROVE  Kept(i)
<1>1. calls'[i] = calls[i]
    BY DEF ServerCall, StartCall, ApprovalRefused, IssueGrant, UseGrant, Dispatch, NotDispatched,
       RunLocal, ReceiveResult, ReceiveToolError, Persisted, ReceiveRejection, ReceiveError,
       AbandonCall, ReceiveAck, Goto, CallsOK, Remote
<1>2. intents'[i] = intents[i]
    <2> USE DEF IntentsOK, Remote
    <2>1. CASE StartCall(j) \/ ApprovalRefused(j) \/ Dispatch(j)
        BY <2>1 DEF StartCall, ApprovalRefused, Dispatch
    <2>2. CASE IssueGrant(j) \/ UseGrant(j) \/ NotDispatched(j)
        BY <2>2 DEF IssueGrant, UseGrant, NotDispatched, CreateGrant, ConsumeGrant,
           CancelUndispatched
    <2>3. CASE RunLocal(j) \/ AbandonCall(j) \/ ReceiveError(j) \/ ReceiveRejection(j)
        BY <2>3 DEF RunLocal, AbandonCall, ReceiveError, ReceiveRejection, CompleteLocal,
           MarkFailed, MarkCancelled, MarkOutcomeUnknown, Conclude, CancelUndispatched
    <2>4. CASE ReceiveResult(j) \/ ReceiveToolError(j)
        BY <2>4 DEF ReceiveResult, ReceiveToolError, Persisted, Failed, MarkOutcomeUnknown,
           Conclude, Acked
    <2>5. CASE ReceiveAck(j)
        BY <2>5 DEF ReceiveAck, MarkReceiptConfirmed, Receipted
    <2> QED
        BY <2>1, <2>2, <2>3, <2>4, <2>5 DEF ServerCall
<1>3. UNCHANGED <<records, consumedGrants, disk, recorded>>
    BY DEF ServerCall, StartCall, ApprovalRefused, IssueGrant, UseGrant, Dispatch, NotDispatched,
       RunLocal, ReceiveResult, ReceiveToolError, ReceiveRejection, ReceiveError, AbandonCall,
       ReceiveAck, journalVars
<1>4. net' \subseteq net \union {Invoke(j), Ack(j)}
    BY DEF ServerCall, StartCall, ApprovalRefused, IssueGrant, UseGrant, Dispatch, NotDispatched,
       RunLocal, ReceiveResult, ReceiveToolError, Persisted, ReceiveRejection, ReceiveError,
       AbandonCall, ReceiveAck, Send, Answer
<1>5. NetMove(i)
    BY <1>4, Letters DEF NetMove, Claims
<1> QED
    BY <1>1, <1>2, <1>3, <1>5, NoMove, RowUnmoved

\* A step of the server leaves the messages true if what it sends is, and if
\* the replies it begins to wait for are.
LEMMA NetStays ==
    ASSUME NEW i \in Remote, NetInv(i), TombInv(i), UNCHANGED <<records, consumedGrants, disk, recorded>>,
           Stored(i) => Stored(i)',
           net' \subseteq net \union {Invoke(i), Ack(i)},
           Invoke(i) \in net' => Invoke(i) \in net \/ Untouched(i),
           Ack(i) \in net' => Ack(i) \in net \/ Stored(i)',
           calls'[i] = "waiting" =>
               /\ Invoke(i) \in net' => Invoke(i) \in net \/ \A c \in Codes : Reply(i, c) \notin net
               /\ calls[i] = "waiting" \/ \A c \in Codes : Reply(i, c) \notin net
    PROVE  NetInv(i)' /\ TombInv(i)'
<1>1. UNCHANGED <<Untouched(i), Tomb(i)>>
    BY DEF Untouched, Tomb
<1>2. \A m \in net' : Claims(i, m)'
    BY Letters DEF NetInv, Claims
<1>3. \A c \in Codes : Reply(i, c) \in net' /\ calls'[i] = "waiting" => Tells(i, c)'
    BY <1>1, Letters DEF NetInv, Tells
<1> QED
    BY <1>1, <1>2, <1>3 DEF NetInv, TombInv

\* A step of the server about a call to the Box.
LEMMA ServerCallHere ==
    ASSUME JournalTypeOK, IntentsOK, CallsOK, NEW i \in Remote, EvidenceInv(i), ServerCall(i)
    PROVE  EvidenceInv(i)'
<1> DEFINE row == intents[i]
           Still == UNCHANGED <<records, consumedGrants, disk, recorded>>
<1>0. /\ i \in Invocations /\ i \notin Local
      /\ row \in Intent /\ intents \in [Invocations -> Intent]
      /\ calls \in [Invocations -> CallStates]
    BY DEF Remote, IntentsOK, CallsOK
<1>a. Still => UNCHANGED <<Untouched(i), Tomb(i)>>
    BY DEF Untouched, Tomb
<1>b. Stored(i) => row.state \in EvidenceStates /\ ~Untouched(i)
    BY <1>0 DEF Stored, Untouched, JournalTypeOK
<1>c. CallInv(i) /\ VerdictInv(i) /\ NetInv(i) /\ TombInv(i)
    BY DEF EvidenceInv
<1>1. CASE StartCall(i) \/ ApprovalRefused(i)
    <2>1. /\ Still /\ intents' = intents /\ net' = net
          /\ calls[i] \in {"idle", "approving"} /\ calls'[i] \in {"approving", "done"}
        BY <1>0, <1>1 DEF StartCall, ApprovalRefused, Goto, journalVars
    <2>2. CallInv(i)' /\ VerdictInv(i)'
        BY <1>a, <1>c, <2>1 DEF CallInv, VerdictInv, Gone, Unsent, TerminalStates
    <2>3. NetInv(i)' /\ TombInv(i)'
        BY <1>c, <2>1, NetStays DEF Stored
    <2> QED
        BY <2>2, <2>3 DEF EvidenceInv
<1>2. CASE IssueGrant(i) \/ UseGrant(i)
    <2>1. /\ Still /\ net' = net
          /\ calls[i] \in {"approving", "granting"} /\ calls'[i] \in {"granting", "granted", "done"}
        BY <1>0, <1>2 DEF IssueGrant, UseGrant, Goto, journalVars
    <2>2. row.state \in {"none", "granted"} /\ ~row.consumed
        BY <1>c, <2>1 DEF CallInv
    <2>3. \/ calls'[i] = "granting" /\ intents'[i] = [row EXCEPT !.state = "granted"]
          \/ calls'[i] = "granted" /\ intents'[i] = [row EXCEPT !.state = "running", !.consumed = TRUE]
          \/ calls'[i] = "done" /\ intents'[i] = [row EXCEPT !.state = "running", !.consumed = TRUE]
          \/ calls'[i] = "done" /\ intents'[i] = row
        BY <1>0, <1>2 DEF IssueGrant, UseGrant, Goto, CreateGrant, ConsumeGrant
    <2>4. /\ intents'[i].state \in {"none", "granted", "running"}
          /\ calls'[i] = "granted" => intents'[i].state = "running"
          /\ intents'[i].consumed <=> intents'[i].state = "running"
          /\ calls'[i] = "granting" => intents'[i].state = "granted"
        BY <1>0, <2>2, <2>3 DEF Intent
    <2>5. CallInv(i)' /\ VerdictInv(i)'
        BY <1>a, <1>c, <2>1, <2>2, <2>4 DEF CallInv, VerdictInv, Unsent, TerminalStates
    <2>6. ~Stored(i)
        BY <1>b, <2>2 DEF EvidenceStates, TerminalStates
    <2>7. NetInv(i)' /\ TombInv(i)'
        BY <1>c, <2>1, <2>6, NetStays
    <2> QED
        BY <2>5, <2>7 DEF EvidenceInv
<1>3. CASE Dispatch(i)
    <2>1. /\ Still /\ intents' = intents /\ net' = net \union {Invoke(i)}
          /\ calls[i] = "granted" /\ calls'[i] = "waiting"
        BY <1>0, <1>3 DEF Dispatch, Goto, Send, journalVars
    <2>2. /\ Untouched(i) /\ row.state = "running" /\ row.consumed
          /\ \A c \in Codes : Reply(i, c) \notin net
        BY <1>c, <2>1 DEF CallInv, Unsent
    <2>3. CallInv(i)' /\ VerdictInv(i)'
        BY <1>a, <1>c, <2>1, <2>2 DEF CallInv, VerdictInv, Unsent, TerminalStates
    <2>4. NetInv(i)' /\ TombInv(i)'
        BY <1>c, <2>1, <2>2, Letters, NetStays DEF Stored
    <2> QED
        BY <2>3, <2>4 DEF EvidenceInv
<1>4. CASE NotDispatched(i)
    <2>1. /\ Still /\ net' = net /\ calls[i] = "granted" /\ calls'[i] = "done"
        BY <1>0, <1>4 DEF NotDispatched, Goto, journalVars
    <2>2. Untouched(i) /\ Invoke(i) \notin net /\ row.state = "running" /\ row.consumed
        BY <1>c, <2>1 DEF CallInv, Unsent
    <2>3. intents'[i].state = "cancelled" /\ intents'[i].consumed
        BY <1>0, <1>4, <2>2 DEF NotDispatched, CancelUndispatched, isTerminal, TerminalStates, Intent
    <2>4. CallInv(i)' /\ VerdictInv(i)'
        BY <1>a, <1>c, <2>1, <2>2, <2>3 DEF CallInv, VerdictInv, Gone, Unsent
    <2>5. NetInv(i)' /\ TombInv(i)'
        BY <1>b, <1>c, <2>1, <2>2, NetStays
    <2> QED
        BY <2>4, <2>5 DEF EvidenceInv
<1>5. CASE RunLocal(i)
    BY <1>0, <1>5 DEF RunLocal
<1>6. ASSUME NEW s \in {"succeeded", "failed"}, calls[i] = "waiting", recorded[i] = s, Still,
             net' \subseteq net \union {Ack(i)},
             calls'[i] \in {"done", "acking"},
             \/ intents'[i] = row /\ net' \subseteq net
             \/ intents'[i] = [row EXCEPT !.state = s] /\ net' \subseteq net
             \/ intents'[i] = [row EXCEPT !.state = s, !.acked = TRUE]
             \/ intents'[i] = [row EXCEPT !.acked = TRUE] /\ row.state \in TerminalStates
      PROVE  EvidenceInv(i)'
    <2>1. row.consumed /\ ~Untouched(i) /\ (row.state = "running" \/ row.state = s)
        BY <1>c, <1>6 DEF CallInv, Untouched
    <2>2. /\ intents'[i].consumed
          /\ row.acked => intents'[i].acked
          /\ \/ intents'[i] = row /\ net' \subseteq net
             \/ intents'[i].state = s /\ (intents'[i].acked \/ net' \subseteq net)
        BY <1>0, <1>6, <2>1 DEF Intent, TerminalStates
    <2>3. CallInv(i)' /\ VerdictInv(i)'
        BY <1>a, <1>c, <1>6, <2>1, <2>2 DEF CallInv, VerdictInv, Unsent, TerminalStates
    <2>4. Stored(i) => Stored(i)'
        BY <1>6, <2>1, <2>2 DEF Stored
    <2>5. Ack(i) \in net' => Ack(i) \in net \/ Stored(i)'
        BY <1>6, <2>2 DEF Stored
    <2>6. NetInv(i)' /\ TombInv(i)'
        BY <1>c, <1>6, <2>4, <2>5, Letters, NetStays
    <2> QED
        BY <2>3, <2>6 DEF EvidenceInv
<1>7. CASE ReceiveResult(i)
    <2>1. /\ Still /\ calls[i] = "waiting" /\ Reply(i, "result") \in net
          /\ net' \subseteq net \union {Ack(i)}
          /\ calls'[i] \in {"done", "acking"}
        BY <1>0, <1>7 DEF ReceiveResult, Persisted, Goto, Answer, journalVars
    <2>2. recorded[i] = "succeeded"
        BY <1>c, <2>1 DEF NetInv, Tells, Codes
    <2>3. row.state # "none" /\ row.consumed
        BY <1>c, <2>1, <2>2 DEF CallInv
    <2>4. CASE Conflicts(intents, i, "succeeded")
        <3>1. row.state \in TerminalStates
            BY <1>0, <2>3, <2>4 DEF Conflicts
        <3>2. intents' = intents /\ net' \subseteq net
            BY <1>7, <2>4, <3>1 DEF ReceiveResult, MarkOutcomeUnknown, Conclude, isTerminal
        <3> QED
            BY <1>6, <2>1, <2>2, <3>2
    <2>5. CASE ~Conflicts(intents, i, "succeeded")
        <3>1. \/ intents'[i] = [row EXCEPT !.state = "succeeded", !.acked = TRUE]
              \/ intents'[i] = [row EXCEPT !.state = "succeeded"] /\ net' \subseteq net
            BY <1>0, <1>7, <2>5 DEF ReceiveResult, Persisted, Acked, Intent
        <3> QED
            BY <1>6, <2>1, <2>2, <3>1
    <2> QED
        BY <2>4, <2>5
<1>8. CASE ReceiveToolError(i)
    <2>1. /\ Still /\ calls[i] = "waiting" /\ Reply(i, "tool_error") \in net
          /\ net' \subseteq net \union {Ack(i)}
          /\ calls'[i] \in {"done", "acking"}
        BY <1>0, <1>8 DEF ReceiveToolError, Persisted, Goto, Answer, journalVars
    <2>2. recorded[i] = "failed"
        BY <1>c, <2>1 DEF NetInv, Tells, Codes
    <2>3. \/ intents'[i] = IF row.state \in TerminalStates THEN [row EXCEPT !.acked = TRUE]
                                    ELSE [row EXCEPT !.state = "failed", !.acked = TRUE]
          \/ /\ net' \subseteq net
             /\ intents'[i] = IF row.state \in TerminalStates THEN row
                                       ELSE [row EXCEPT !.state = "failed"]
        BY <1>0, <1>8 DEF ReceiveToolError, Persisted, Failed, Acked, Intent, isTerminal
    <2> QED
        BY <1>6, <2>1, <2>2, <2>3
<1>9. CASE ReceiveRejection(i)
    <2>1. /\ Still /\ net' \subseteq net /\ calls[i] = "waiting" /\ calls'[i] = "done"
          /\ Reply(i, "rejected") \in net \/ Reply(i, "violation") \in net
        BY <1>0, <1>9 DEF ReceiveRejection, Goto, journalVars
    <2>2. \/ Untouched(i) /\ Invoke(i) \notin net
          \/ recorded[i] = "failed" /\ i \in Outside
        BY <1>c, <2>1 DEF NetInv, Tells, Codes
    <2>3. row.consumed /\ (row.state = "running" \/ (recorded[i] # "none" /\ row.state = recorded[i]))
        BY <1>c, <2>1 DEF CallInv
    <2>4. IF row.state \in TerminalStates THEN intents'[i] = row
             ELSE intents'[i].state = "cancelled" /\ intents'[i].consumed
        BY <1>0, <1>9 , <2>3 DEF ReceiveRejection, CancelUndispatched, isTerminal, Intent
    <2>5. CallInv(i)' /\ VerdictInv(i)'
        BY <1>a, <1>c, <2>1, <2>2, <2>3, <2>4
        DEF CallInv, VerdictInv, Gone, Unsent, Untouched, TerminalStates
    <2>6. Stored(i) => Stored(i)'
        BY <1>b, <2>1, <2>2, <2>4 DEF Stored, TerminalStates
    <2>7. NetInv(i)' /\ TombInv(i)'
        BY <1>c, <2>1, <2>6, NetStays
    <2> QED
        BY <2>5, <2>7 DEF EvidenceInv
<1>10. CASE ReceiveError(i) \/ AbandonCall(i)
    <2>1. /\ Still /\ net' \subseteq net /\ calls[i] = "waiting" /\ calls'[i] = "done"
        BY <1>0, <1>10 DEF ReceiveError, AbandonCall, Goto, journalVars
    <2>2. row.consumed /\ (row.state = "running" \/ (recorded[i] # "none" /\ row.state = recorded[i]))
        BY <1>c, <2>1 DEF CallInv
    <2>3. IF row.state \in TerminalStates THEN intents'[i] = row
             ELSE intents'[i] = [row EXCEPT !.state = "outcome_unknown"]
        BY <1>0, <1>10, <2>2
        DEF ReceiveError, AbandonCall, MarkOutcomeUnknown, Conclude, isTerminal, Intent
    <2>4. CallInv(i)' /\ VerdictInv(i)'
        BY <1>0, <1>a, <1>c, <2>1, <2>2, <2>3 DEF CallInv, VerdictInv, Gone, Unsent, TerminalStates, Intent
    <2>5. Stored(i) => Stored(i)'
        BY <1>0, <1>b, <2>1, <2>3 DEF Stored, EvidenceStates, Intent
    <2>6. NetInv(i)' /\ TombInv(i)'
        BY <1>c, <2>1, <2>5, NetStays
    <2> QED
        BY <2>4, <2>6 DEF EvidenceInv
<1>11. CASE ReceiveAck(i)
    <2>1. /\ Still /\ net' \subseteq net /\ calls[i] = "acking" /\ calls'[i] = "done"
          /\ intents'[i] \in {row, [row EXCEPT !.receipt = TRUE]}
        BY <1>0, <1>11 DEF ReceiveAck, MarkReceiptConfirmed, Receipted, Goto, journalVars
    <2>2. /\ intents'[i].state = row.state /\ intents'[i].acked = row.acked
          /\ intents'[i].consumed = row.consumed
        BY <1>0, <2>1 DEF Intent
    <2>3. CallInv(i)' /\ VerdictInv(i)'
        BY <1>a, <1>c, <2>1, <2>2 DEF CallInv, VerdictInv, Gone, Unsent
    <2>4. NetInv(i)' /\ TombInv(i)'
        BY <1>c, <2>1, <2>2, NetStays DEF Stored
    <2> QED
        BY <2>3, <2>4 DEF EvidenceInv
<1> QED
    BY <1>1, <1>2, <1>3, <1>4, <1>5, <1>7, <1>8, <1>9, <1>10, <1>11 DEF ServerCall

\* Such a step learns the outcome, is in doubt or gives an Action up.
LEMMA ServerCallAdvances ==
    ASSUME IntentsOK, NEW i \in Remote, EvidenceInv(i), ServerCall(i)
    PROVE  Advance(i)
<1> DEFINE row == intents[i]
<1>0. /\ i \in Invocations /\ i \notin Local
      /\ row \in Intent /\ intents \in [Invocations -> Intent]
      /\ CallInv(i)
    BY DEF Remote, IntentsOK, EvidenceInv
<1>1. UNCHANGED <<records, consumedGrants, disk, recorded>>
    BY DEF ServerCall, StartCall, ApprovalRefused, IssueGrant, UseGrant, Dispatch, NotDispatched,
       RunLocal, ReceiveResult, ReceiveToolError, ReceiveRejection, ReceiveError, AbandonCall,
       ReceiveAck, journalVars
<1>2. ASSUME \/ intents'[i].state = row.state
             \/ row.state \notin EvidenceStates
             \/ intents'[i].state \in EvidenceStates \ {"cancelled"}
             \/ intents'[i].state = "cancelled" /\ recorded[i] # "none"
      PROVE  Advance(i)
    BY <1>1, <1>2, NoMove DEF Advance, EvidenceStates, TerminalStates
<1> USE DEF EvidenceStates, TerminalStates
<1>3. CASE StartCall(i) \/ ApprovalRefused(i) \/ Dispatch(i) \/ ReceiveAck(i)
    <2>1. intents'[i] = row \/ intents'[i] = [row EXCEPT !.receipt = TRUE]
        BY <1>0, <1>3 DEF StartCall, ApprovalRefused, Dispatch, ReceiveAck, MarkReceiptConfirmed,
           Receipted
    <2> QED
        BY <1>0, <1>2, <2>1 DEF Intent
<1>4. CASE IssueGrant(i) \/ UseGrant(i) \/ NotDispatched(i)
    <2>1. row.state \in {"none", "granted", "running"}
        BY <1>0, <1>4 DEF IssueGrant, UseGrant, NotDispatched, CallInv
    <2> QED
        BY <1>2, <2>1
<1>5. CASE RunLocal(i)
    BY <1>0, <1>5 DEF RunLocal
<1>6. CASE ReceiveResult(i) \/ ReceiveToolError(i) \/ ReceiveError(i) \/ AbandonCall(i)
    <2>1. intents'[i].state \in {row.state, "succeeded", "failed", "outcome_unknown"}
        BY <1>0, <1>6 DEF ReceiveResult, ReceiveToolError, Persisted, Failed, ReceiveError, AbandonCall,
           MarkOutcomeUnknown, Conclude, isTerminal, Acked, Intent
    <2> QED
        BY <1>2, <2>1
<1>7. CASE ReceiveRejection(i)
    <2>1. row.state = "running" \/ recorded[i] # "none"
        BY <1>0, <1>7 DEF ReceiveRejection, CallInv
    <2>2. intents'[i].state \in {row.state, "cancelled"}
        BY <1>0, <1>7 DEF ReceiveRejection, CancelUndispatched, isTerminal, Intent
    <2> QED
        BY <1>2, <2>1, <2>2
<1> QED
    BY <1>3, <1>4, <1>5, <1>6, <1>7 DEF ServerCall

-----------------------------------------------------------------------------
(* The Box's steps.                                                        *)

\* What the handler of j does to any invocation.
LEMMA BoxCallInv ==
    ASSUME JournalTypeOK, OutcomeInv, IntentsOK, NEW j \in Remote, BoxCall(j),
           NEW i \in Remote, EvidenceInv(i), EvidenceInv(j)
    PROVE  Kept(i)
<1>0. /\ i \in Invocations /\ j \in Invocations
      /\ UNCHANGED <<intents, calls>>
    BY DEF Remote, BoxCall, RefuseInvoke, RejectInvoke, PrepareFails, PrepareUncertain, Accept, Execute,
       FinishHandler, FinishUnrecorded, HandleAck, serverVars
<1>1. ASSUME BoxMove(i), NetMove(i) PROVE Kept(i)
    BY <1>0, <1>1, RowUnmoved
<1>2. CASE RefuseInvoke(j)
    <2>1. PICK code \in {"rejected", "error"} :
          /\ Invoke(j) \in net /\ net' = (net \ {Invoke(j)}) \union {Reply(j, code)}
          /\ UNCHANGED <<records, consumedGrants, disk, recorded>>
        BY <1>2 DEF RefuseInvoke, Answer, journalVars
    <2>2. Untouched(j)'
        BY <2>1 DEF EvidenceInv, NetInv, Untouched
    <2>3. NetMove(i)
        BY <2>1, <2>2, Letters DEF NetMove, Tells, Claims
    <2> QED
        BY <1>1, <2>1, <2>3, NoMove
<1>3. CASE RejectInvoke(j) \/ PrepareFails(j)
    <2>1. /\ Invoke(j) \in net /\ net' = (net \ {Invoke(j)}) \union {Reply(j, "rejected")}
          /\ Begin(j)
          /\ UNCHANGED <<records, disk, recorded>>
        BY <1>3 DEF RejectInvoke, PrepareFails, Answer, Begin, BeginRejected, BeginPrepareFailed
    <2>2. Invoke(j) \notin net'
        BY <2>1, Letters
    <2>3. BoxMove(i)
        BY <2>1, <2>2, BeginMoves
    <2>4. Untouched(j) /\ consumedGrants' \in {consumedGrants, PruneExpiredGrantTombstones(consumedGrants)}
        BY <1>3, <2>1 DEF EvidenceInv, NetInv, RejectInvoke, PrepareFails, BeginRejected,
           BeginPrepareFailed, PruneInBegin
    <2>5. Untouched(j)'
        BY <1>0, <2>1, <2>4, PruneAt DEF Untouched, JournalTypeOK
    <2>6. NetMove(i)
        BY <2>1, <2>5, Letters DEF NetMove, Tells, Claims
    <2> QED
        BY <1>1, <2>3, <2>6
<1>4. CASE PrepareUncertain(j) \/ Accept(j)
    <2>1. /\ Invoke(j) \in net
          /\ Begin(j)
          /\ \/ net' = net \ {Invoke(j)}
             \/ net' = (net \ {Invoke(j)}) \union {Reply(j, "error")}
        BY <1>4 DEF PrepareUncertain, Accept, Answer, Begin
    <2>2. Invoke(j) \notin net'
        BY <2>1, Letters
    <2>3. NetMove(i)
        BY <2>1, Letters DEF NetMove, Tells, Claims
    <2> QED
        BY <1>1, <2>1, <2>2, <2>3, BeginMoves
<1>5. CASE Execute(j)
    <2>1. UNCHANGED <<records, consumedGrants, disk, recorded, net>>
        BY <1>5 DEF Execute, journalVars
    <2> QED
        BY <1>1, <2>1, NoMove DEF NetMove
<1>6. CASE FinishHandler(j)
    <2>1. PICK ending \in Endings(j) : Finish(j, ending.state) /\ Respond(j, ending.code)
        BY <1>6 DEF FinishHandler
    <2>2. /\ ending.state \in EvidenceStates
          /\ ending.code = "result" => ending.state = "succeeded"
          /\ ending.code = "tool_error" => ending.state = "failed"
          /\ ending.code = "violation" => ending.state = "failed" /\ j \in Outside
          /\ ending.code # "rejected"
        BY DEF Endings, Ending, EvidenceStates, TerminalStates
    <2>3. recorded'[j] = ending.state
        <3>1. recorded[j] = "none" /\ records'[j] = ending.state /\ recorded' = FirstOutcome(records')
            BY <1>0, <2>1 DEF Finish, OutcomeInv, JournalTypeOK
        <3> QED
            BY <1>0, <2>2, <3>1, FirstOutcomeAt
    <2>4. \/ net' = net \ {Invoke(j)}
          \/ calls[j] = "waiting" /\ net' = (net \ {Invoke(j)}) \union {Reply(j, ending.code)}
        BY <2>1 DEF Respond
    <2>5. NetMove(i)
        BY <2>2, <2>3, <2>4, Letters DEF NetMove, Tells, Claims
    <2> QED
        BY <1>1, <2>1, <2>2, <2>5, FinishMoves
<1>7. CASE FinishUnrecorded(j)
    <2>1. UNCHANGED <<records, consumedGrants, disk, recorded>>
        BY <1>7 DEF FinishUnrecorded, FinishLost, journalVars
    <2>2. \/ net' = net \ {Invoke(j)}
          \/ calls[j] = "waiting" /\ net' = (net \ {Invoke(j)}) \union {Reply(j, "error")}
        BY <1>7 DEF FinishUnrecorded, Respond
    <2>3. NetMove(i)
        BY <2>2, Letters DEF NetMove, Tells, Claims
    <2> QED
        BY <1>1, <2>1, <2>3, NoMove
<1>8. CASE HandleAck(j)
    <2>1. /\ Ack(j) \in net
          /\ (\E taken \in SUBSET {j} : Acknowledge({j}, taken)) \/ AcknowledgeLost({j})
          /\ \E b : net' = (net \ {Ack(j)}) \union {AckReply(j, b)}
        BY <1>8 DEF HandleAck, Answer
    <2>2. Stored(j)
        BY <2>1 DEF EvidenceInv, NetInv
    <2>3. NetMove(i)
        BY <2>1, Letters DEF NetMove, Claims
    <2>4. i \in {j} => Stored(i)
        BY <2>2
    <2>5. BoxMove(i)
        BY <2>1, <2>4, AcknowledgeMoves
    <2> QED
        BY <1>1, <2>3, <2>5
<1> QED
    BY <1>2, <1>3, <1>4, <1>5, <1>6, <1>7, <1>8 DEF BoxCall

-----------------------------------------------------------------------------
(* The rounds of reconciliation.                                           *)

\* The Box tells what it holds, and that is what was recorded.
LEMMA SendReconcileInv ==
    ASSUME JournalTypeOK, OutcomeInv, SendReconcile, NEW i \in Remote, EvidenceInv(i)
    PROVE  Kept(i)
<1>1. PICK items \in Batches(listEvidence), receipts \in Batches(UnconfirmedReceipts) :
          net' = net \union {[type |-> "reconcile", items |-> items, receipts |-> receipts,
                     states |-> [k \in Remote |-> IF k \in items THEN records[k] ELSE "absent"]]}
    BY DEF SendReconcile, Send
<1>2. PICK new : new = [type |-> "reconcile", items |-> items, receipts |-> receipts,
                    states |-> [k \in Remote |-> IF k \in items THEN records[k] ELSE "absent"]]
    OBVIOUS
<1>3. UNCHANGED <<records, consumedGrants, disk, recorded, intents, calls>>
    BY DEF SendReconcile, journalVars, serverVars
<1>4. i \in items => recorded[i] # "none" /\ new.states[i] = recorded[i]
    BY <1>2 DEF Batches, listEvidence, OutcomeInv, EvidenceStates, TerminalStates
<1>5. Claims(i, new)'
    BY <1>2, <1>3, <1>4 DEF Claims
<1>6. new # Invoke(i) /\ new # Ack(i) /\ \A c : new # Reply(i, c)
    BY <1>2 DEF Invoke, Ack, Reply
<1>7. NetMove(i)
    BY <1>1, <1>2, <1>5, <1>6 DEF NetMove
<1> QED
    BY <1>3, <1>7, NoMove, RowUnmoved

\* Rows that evidence completed, as far as the server got.
LEMMA CompletedRow ==
    ASSUME IntentsOK, NEW m \in net, m.type = "reconcile", NEW S \in ThrownPrefixes(m),
           NEW i \in Remote, NetInv(i), NEW t, t = Completed(intents, m, S)
    PROVE  /\ t[i].consumed = intents[i].consumed /\ t[i].acked = intents[i].acked
           /\ \/ t[i] = intents[i] /\ i \notin S
              \/ /\ recorded[i] # "none" /\ t[i].state = recorded[i] /\ i \in m.items
                 /\ intents[i].consumed /\ intents[i].state # "none"
                 /\ intents[i].state \in TerminalStates => intents[i].state = recorded[i]
<1>0. i \in Invocations /\ intents[i] \in Intent
    BY DEF Remote, IntentsOK
<1>1. CASE i \in S
    <2>1. i \in m.items /\ ~Conflicts(intents, i, m.states[i])
        BY <1>1 DEF ThrownPrefixes, Accepted
    <2>2. recorded[i] # "none" /\ m.states[i] = recorded[i]
        BY <2>1 DEF NetInv, Claims
    <2>3. t[i] = [intents[i] EXCEPT !.state = recorded[i]]
        BY <1>0, <1>1, <2>2 DEF Completed
    <2> QED
        BY <1>0, <2>1, <2>2, <2>3 DEF Conflicts, Intent
<1>2. CASE i \notin S
    BY <1>0, <1>2 DEF Completed
<1> QED
    BY <1>1, <1>2

\* A table on the way has taken over the outcome of i, or left it.
Learns(i, t) ==
    /\ t[i] \in Intent
    /\ t[i].consumed = intents[i].consumed
    /\ intents[i].acked => t[i].acked
    /\ \/ t[i].state = intents[i].state
       \/ /\ recorded[i] # "none" /\ t[i].state = recorded[i]
          /\ intents[i].consumed
          /\ intents[i].state \in TerminalStates => intents[i].state = recorded[i]

\* The row wherever a reconciliation is cut short.
LEMMA PartlyRow ==
    ASSUME JournalTypeOK, IntentsOK, NEW m \in net, m.type = "reconcile", NEW i \in Remote, NetInv(i),
           NEW t \in PartlyReconciled(m)
    PROVE  Learns(i, t)
<1>0. i \in Invocations /\ intents[i] \in Intent /\ recorded[i] \in EvidenceStates \union {"none"}
    BY DEF Remote, IntentsOK, JournalTypeOK
<1>1. ASSUME NEW S \in ThrownPrefixes(m) PROVE Learns(i, Completed(intents, m, S))
    <2>1. PICK u : u = Completed(intents, m, S)
        OBVIOUS
    <2>2. u[i] \in {intents[i], [intents[i] EXCEPT !.state = recorded[i]]}
        BY <1>0, <2>1 DEF Completed, ThrownPrefixes, Accepted, NetInv, Claims
    <2>3. u[i] \in Intent
        BY <1>0, <2>1, <2>2, CompletedRow DEF Intent, IntentStates
    <2> QED
        BY <2>1, <2>3, CompletedRow DEF Learns
<1>2. ASSUME NEW u, Learns(i, u), NEW ids PROVE Learns(i, Acked(u, ids)) /\ Learns(i, Receipted(u, ids))
    BY <1>0, <1>2 DEF Learns, Acked, Receipted, Intent
<1>3. CASE \E S \in ThrownPrefixes(m) : t = Completed(intents, m, S)
    BY <1>1, <1>3
<1>4. CASE Accepted(m) = m.items
    <2> DEFINE all == Completed(intents, m, m.items)
    <2>1. Learns(i, all)
        BY <1>1, <1>4 DEF ThrownPrefixes
    <2>2. (\E ids : t = Acked(all, ids)) \/ (\E ids : t = Receipted(Acked(all, m.items), ids))
             \/ (\E S \in ThrownPrefixes(m) : t = Completed(intents, m, S))
        BY DEF PartlyReconciled
    <2> HIDE DEF all
    <2> QED
        BY <1>2, <1>3, <2>1, <2>2
<1> QED
    BY <1>3, <1>4 DEF PartlyReconciled

\* A row that took over the outcome keeps the invariant.
LEMMA LearntInv ==
    ASSUME JournalTypeOK, NEW i \in Remote, EvidenceInv(i),
           UNCHANGED <<records, consumedGrants, disk, recorded>>,
           calls'[i] = calls[i], NetMove(i), NEW t, intents' = t, Learns(i, t)
    PROVE  Kept(i)
<1> USE DEF Learns
<1>0. /\ UNCHANGED <<Untouched(i), Tomb(i), Unsent(i)>>
      /\ recorded[i] \in EvidenceStates \union {"none"}
    BY DEF Untouched, Tomb, Unsent, JournalTypeOK, Remote
<1>1. Stored(i) => Stored(i)'
    BY DEF Stored
<1>2. CallInv(i)'
    BY <1>0 DEF EvidenceInv, CallInv, Unsent, Untouched, NetMove, EvidenceStates, TerminalStates
<1>3. VerdictInv(i)'
    BY <1>0 DEF EvidenceInv, VerdictInv, Gone, NetMove
<1>4. NetInv(i)' /\ TombInv(i)'
    <2>1. \A m \in net' : Claims(i, m)'
        BY <1>1 DEF EvidenceInv, NetInv, NetMove, Claims
    <2>2. \A c \in Codes : Reply(i, c) \in net' /\ calls'[i] = "waiting" => Tells(i, c)'
        BY <1>0 DEF EvidenceInv, NetInv, NetMove, Tells
    <2> QED
        BY <1>0, <1>1, <2>1, <2>2 DEF EvidenceInv, NetInv, TombInv, NetMove
<1>5. Advance(i)
    BY <1>0, NoMove DEF Advance, EvidenceStates
<1> QED
    BY <1>2, <1>3, <1>4, <1>5 DEF EvidenceInv, Kept

\* The server takes the evidence, or as much of it as it could.
LEMMA ServerReconcileInv ==
    ASSUME JournalTypeOK, IntentsOK, ServerReconcile \/ ServerReconcileFails,
           NEW i \in Remote, EvidenceInv(i)
    PROVE  Kept(i)
<1>0. /\ i \in Invocations
      /\ UNCHANGED <<records, consumedGrants, disk, recorded, calls>>
    BY DEF Remote, ServerReconcile, ServerReconcileFails, journalVars, serverVars
<1>1. PICK m, t :
          /\ m \in net /\ m.type = "reconcile"
          /\ t \in PartlyReconciled(m) /\ intents' = t
          /\ \/ net' = (net \ {m}) \union {[type |-> "refused"]}
             \/ /\ Accepted(m) = m.items
                /\ t = Receipted(Acked(Completed(intents, m, m.items), m.items), m.receipts)
                /\ net' = (net \ {m}) \union {[type |-> "reconciled", acked |-> m.items,
                                                confirmed |-> m.receipts]}
    <2>1. CASE ServerReconcileFails
        BY <2>1 DEF ServerReconcileFails, Answer
    <2>2. CASE ServerReconcile
        <3>1. PICK m \in net :
            /\ m.type = "reconcile"
            /\ LET t == Acked(Completed(intents, m, m.items), m.items) IN
               IF Accepted(m) # m.items
                 THEN /\ \E prefix \in ThrownPrefixes(m) : intents' = Completed(intents, m, prefix)
                      /\ Answer(m, [type |-> "refused"])
                 ELSE IF \A k \in m.receipts : ReceiptAcceptable(t, k)
                   THEN /\ intents' = Receipted(t, m.receipts)
                        /\ Answer(m, [type |-> "reconciled", acked |-> m.items,
                                      confirmed |-> m.receipts])
                   ELSE /\ \E part \in SUBSET {k \in m.receipts : ReceiptAcceptable(t, k)} :
                               intents' = Receipted(t, part)
                        /\ Answer(m, [type |-> "refused"])
            BY <2>2 DEF ServerReconcile
        <3>2. CASE Accepted(m) # m.items
            BY <3>1, <3>2 DEF Answer, PartlyReconciled
        <3>3. CASE Accepted(m) = m.items
            <4> DEFINE acked == Acked(Completed(intents, m, m.items), m.items)
                       fine == {k \in m.receipts : ReceiptAcceptable(acked, k)}
            <4>1. {Receipted(acked, part) : part \in SUBSET fine} \subseteq PartlyReconciled(m)
                BY <3>3 DEF PartlyReconciled
            <4>2. CASE \A k \in m.receipts : ReceiptAcceptable(acked, k)
                <5>1. m.receipts \in SUBSET fine
                    BY <4>2
                <5>2. intents' = Receipted(acked, m.receipts)
                    BY <3>1, <3>3, <4>2
                <5>3. net' = (net \ {m}) \union {[type |-> "reconciled", acked |-> m.items,
                                                  confirmed |-> m.receipts]}
                    BY <3>1, <3>3, <4>2 DEF Answer
                <5> HIDE DEF fine
                <5> QED
                    BY <3>1, <3>3, <4>1, <5>1, <5>2, <5>3
            <4>3. CASE ~\A k \in m.receipts : ReceiptAcceptable(acked, k)
                <5>1. PICK part \in SUBSET fine : intents' = Receipted(acked, part)
                    BY <3>1, <3>3, <4>3
                <5>2. net' = (net \ {m}) \union {[type |-> "refused"]}
                    BY <3>1, <3>3, <4>3 DEF Answer
                <5> HIDE DEF fine
                <5> QED
                    BY <3>1, <4>1, <5>1, <5>2
            <4> QED
                BY <4>2, <4>3
        <3> QED
            BY <3>2, <3>3
    <2> QED
        BY <2>1, <2>2
<1>2. Learns(i, t)
    BY <1>1, PartlyRow DEF EvidenceInv
<1>3. NetMove(i)
    <2>1. CASE net' = (net \ {m}) \union {[type |-> "refused"]}
        BY <2>1 DEF NetMove, Claims, Invoke, Reply, Ack
    <2>2. CASE net' # (net \ {m}) \union {[type |-> "refused"]}
        <3>1. PICK u, v :
              /\ u = Completed(intents, m, m.items) /\ v = Acked(u, m.items)
              /\ t = Receipted(v, m.receipts) /\ m.items \in ThrownPrefixes(m)
              /\ net' = (net \ {m}) \union {[type |-> "reconciled", acked |-> m.items,
                                              confirmed |-> m.receipts]}
            BY <1>1, <2>2 DEF ThrownPrefixes
        <3>2. i \in m.items => Stored(i)'
            <4> SUFFICES ASSUME i \in m.items PROVE Stored(i)'
                OBVIOUS
            <4>1. recorded[i] # "none" /\ u[i].state = recorded[i]
                BY <1>1, <3>1, CompletedRow DEF EvidenceInv
            <4>2. u[i] \in Intent
                <5>1. u \in PartlyReconciled(m)
                    BY <3>1 DEF PartlyReconciled
                <5> QED
                    BY <1>1, <5>1, PartlyRow DEF EvidenceInv, Learns
            <4>3. v[i] \in Intent /\ v[i].acked /\ v[i].state = u[i].state
                BY <1>0, <3>1, <4>2 DEF Acked, Intent
            <4>4. t[i].acked /\ t[i].state = u[i].state
                BY <1>0, <3>1, <4>3 DEF Receipted, Intent
            <4> QED
                BY <1>0, <1>1, <4>1, <4>4 DEF Stored
        <3>3. PICK new : new = [type |-> "reconciled", acked |-> m.items, confirmed |-> m.receipts]
            OBVIOUS
        <3>4. Claims(i, new)'
            BY <3>2, <3>3 DEF Claims
        <3>5. new # Invoke(i) /\ new # Ack(i) /\ \A c : new # Reply(i, c)
            BY <3>3 DEF Invoke, Ack, Reply
        <3> QED
            BY <3>1, <3>3, <3>4, <3>5 DEF NetMove
    <2> QED
        BY <2>1, <2>2
<1> QED
    BY <1>0, <1>1, <1>2, <1>3, LearntInv

\* Nothing else in a round moves a row.
LEMMA ReconciliationInv ==
    ASSUME JournalTypeOK, OutcomeInv, IntentsOK, Reconciliation, NEW i \in Remote, EvidenceInv(i)
    PROVE  Kept(i)
<1>1. CASE BoxReady \/ ReconcileRefused \/ RetryReconcile
    <2>1. /\ UNCHANGED <<records, consumedGrants, disk, recorded, intents, calls>>
          /\ net' \subseteq net
        BY <1>1 DEF BoxReady, ReconcileRefused, RetryReconcile, journalVars, serverVars
    <2> QED
        BY <2>1, NoMove, RowUnmoved DEF NetMove
<1>2. CASE NoteConfirmed
    <2>1. /\ UNCHANGED <<intents, calls>> /\ net' \subseteq net
          /\ \E ids : ConfirmAcknowledgements(ids) \/ ConfirmLost(ids)
        BY <1>2 DEF NoteConfirmed, serverVars
    <2> QED
        BY <2>1, ConfirmMoves, RowUnmoved DEF NetMove
<1>3. CASE NoteAcknowledged
    <2>1. PICK m \in net :
            /\ m.type = "reconciled"
            /\ net' = net \ {m}
            /\ (\E taken \in SUBSET m.acked : Acknowledge(m.acked, taken)) \/ AcknowledgeLost(m.acked)
        BY <1>3 DEF NoteAcknowledged
    <2>2. UNCHANGED <<intents, calls>>
        BY <1>3 DEF NoteAcknowledged, serverVars
    <2>3. i \in m.acked => Stored(i)
        BY <2>1 DEF EvidenceInv, NetInv, Claims
    <2>4. BoxMove(i)
        BY <2>1, <2>3, AcknowledgeMoves
    <2> QED
        BY <2>1, <2>2, <2>4, RowUnmoved DEF NetMove
<1> QED
    BY <1>1, <1>2, <1>3, SendReconcileInv, ServerReconcileInv DEF Reconciliation

-----------------------------------------------------------------------------
(* Lost connections, crashes and restarts.                                 *)

\* Both sides lose what was in flight: a call that waited is over and in doubt.
LEMMA CutOffInv ==
    ASSUME JournalTypeOK, IntentsOK, CallsOK, NEW i \in Remote, EvidenceInv(i), BoxMove(i),
           Untouched(i) => Untouched(i)', recorded' = recorded, net' = {}, PeerGone
    PROVE  Kept(i)
<1> DEFINE row == intents[i]
<1>0. i \in Invocations /\ row \in Intent /\ recorded[i] \in EvidenceStates \union {"none"}
    BY DEF Remote, IntentsOK, JournalTypeOK
<1>1. calls'[i] = IF calls[i] \in {"waiting", "acking"} THEN "done" ELSE calls[i]
    BY <1>0 DEF PeerGone, CallsFail
<1>2. /\ intents'[i].consumed = row.consumed /\ intents'[i].acked = row.acked
      /\ intents'[i].state = IF calls[i] = "waiting" /\ row.state \notin TerminalStates
                               THEN "outcome_unknown" ELSE row.state
    BY <1>0 DEF PeerGone, Unknowns, Intent
<1>3. Stored(i) => Stored(i)'
    BY <1>0, <1>2 DEF Stored, EvidenceInv, CallInv, BoxMove, EvidenceStates
<1>4. CallInv(i)'
    BY <1>0, <1>1, <1>2 DEF EvidenceInv, CallInv, Unsent, TerminalStates
<1>5. VerdictInv(i)'
    BY <1>0, <1>1, <1>2 DEF EvidenceInv, VerdictInv, Gone, BoxMove, TerminalStates
<1>6. NetInv(i)' /\ TombInv(i)'
    BY <1>3 DEF EvidenceInv, NetInv, TombInv, BoxMove
<1>7. Advance(i)
    BY <1>2 DEF Advance, EvidenceStates
<1> QED
    BY <1>4, <1>5, <1>6, <1>7 DEF EvidenceInv, Kept

\* A crash of the server leaves part of what it was about to commit.
LEMMA MidwayRow ==
    ASSUME JournalTypeOK, IntentsOK, NEW t \in MidwayRows, NEW i \in Remote, EvidenceInv(i)
    PROVE  Learns(i, t)
<1>0. i \in Invocations /\ intents[i] \in Intent /\ recorded[i] \in EvidenceStates \union {"none"}
    BY DEF Remote, IntentsOK, JournalTypeOK
<1>1. CASE t = intents
    BY <1>0, <1>1 DEF Learns
<1>2. ASSUME NEW j \in Remote, calls[j] = "waiting", Reply(j, "result") \in net,
             ~Conflicts(intents, j, "succeeded"), t = [intents EXCEPT ![j].state = "succeeded"]
      PROVE  Learns(i, t)
    <2>1. CASE j = i
        <3>1. recorded[i] = "succeeded"
            BY <1>2, <2>1 DEF EvidenceInv, NetInv, Tells, Codes
        <3> QED
            BY <1>0, <1>2, <2>1, <3>1 DEF Learns, Conflicts, Intent, IntentStates, EvidenceStates,
               TerminalStates, IntentsOK
    <2>2. CASE j # i
        BY <1>0, <1>2, <2>2 DEF Learns, IntentsOK
    <2> QED
        BY <2>1, <2>2
<1>3. ASSUME NEW j \in Remote, calls[j] = "waiting", Reply(j, "tool_error") \in net, t = Failed(j)
      PROVE  Learns(i, t)
    <2>1. CASE j = i
        <3>1. recorded[i] = "failed"
            BY <1>3, <2>1 DEF EvidenceInv, NetInv, Tells, Codes
        <3>2. intents[i].consumed
            BY <1>3, <2>1 DEF EvidenceInv, CallInv
        <3> QED
            BY <1>0, <1>3, <2>1, <3>1, <3>2 DEF Learns, Failed, isTerminal, Intent, IntentStates,
               EvidenceStates, TerminalStates, IntentsOK
    <2>2. CASE j # i
        BY <1>0, <1>3, <2>2 DEF Learns, Failed, IntentsOK
    <2> QED
        BY <2>1, <2>2
<1>4. ASSUME NEW m \in net, m.type = "reconcile", t \in PartlyReconciled(m)
      PROVE  Learns(i, t)
    BY <1>4, PartlyRow DEF EvidenceInv
<1> QED
    BY <1>1, <1>2, <1>3, <1>4 DEF MidwayRows

\* recoverOnStartup: what was never sent is cancelled, the rest is in doubt.
LEMMA ServerRestartsInv ==
    ASSUME JournalTypeOK, IntentsOK, CallsOK, ServerRestarts, NEW i \in Remote, EvidenceInv(i)
    PROVE  Kept(i)
<1> DEFINE row == intents[i]
<1>1. PICK t \in MidwayRows : RecoverOnStartup(t)
    BY DEF ServerRestarts
<1>0. /\ i \in Invocations /\ i \notin Local /\ recorded[i] \in EvidenceStates \union {"none"}
      /\ UNCHANGED <<records, consumedGrants, disk, recorded>> /\ net' = {}
      /\ calls'[i] = IF calls[i] = "idle" THEN "idle" ELSE "done"
    BY DEF Remote, JournalTypeOK, ServerRestarts, Disconnected, journalVars
<1>2. /\ t[i] \in Intent
      /\ t[i].consumed = row.consumed /\ (row.acked => t[i].acked)
      /\ \/ t[i].state = row.state
         \/ /\ recorded[i] # "none" /\ t[i].state = recorded[i]
            /\ row.consumed
            /\ row.state \in TerminalStates => row.state = recorded[i]
    BY MidwayRow DEF Learns
<1>3. /\ intents'[i].consumed = row.consumed
      /\ row.acked => intents'[i].acked
      /\ intents'[i].state = IF t[i].state = "granted" THEN "cancelled"
                             ELSE IF t[i].state = "running" THEN "outcome_unknown" ELSE t[i].state
    BY <1>0, <1>1, <1>2 DEF RecoverOnStartup, Intent
<1>4. Untouched(i)' = Untouched(i) /\ Tomb(i)' = Tomb(i)
    BY <1>0 DEF Untouched, Tomb
<1>5. Stored(i) => Stored(i)'
    BY <1>0, <1>2, <1>3 DEF Stored, EvidenceStates, TerminalStates
<1>6. CallInv(i)'
    BY <1>0, <1>2, <1>3, <1>4 DEF EvidenceInv, CallInv, Unsent, EvidenceStates, TerminalStates
<1>7. VerdictInv(i)'
    <2>1. CASE t[i].state = "granted"
        <3>1. row.state = "granted" /\ calls[i] # "idle" /\ Untouched(i)
            BY <1>0, <1>2, <2>1 DEF EvidenceInv, CallInv, Unsent, EvidenceStates, TerminalStates
        <3> QED
            BY <1>0, <1>3, <1>4, <2>1, <3>1 DEF VerdictInv, Gone
    <2>2. CASE t[i].state # "granted"
        BY <1>0, <1>2, <1>3, <1>4, <2>2 DEF EvidenceInv, VerdictInv, Gone, TerminalStates
    <2> QED
        BY <2>1, <2>2
<1>8. NetInv(i)' /\ TombInv(i)'
    BY <1>0, <1>4, <1>5 DEF EvidenceInv, NetInv, TombInv
<1>9. Advance(i)
    BY <1>0, <1>2, <1>3, NoMove DEF Advance, EvidenceStates, TerminalStates
<1> QED
    BY <1>6, <1>7, <1>8, <1>9 DEF EvidenceInv, Kept

LEMMA EnvironmentInv ==
    ASSUME JournalTypeOK, IntentsOK, CallsOK, Environment, NEW i \in Remote, EvidenceInv(i)
    PROVE  Kept(i)
<1>1. CASE LinkDrops \/ ConnectionAttemptFails
    <2>1. UNCHANGED <<records, consumedGrants, disk, recorded>> /\ net' = {} /\ PeerGone
        BY <1>1 DEF LinkDrops, ConnectionAttemptFails, Disconnected, journalVars
    <2> QED
        BY <2>1, NoMove, CutOffInv DEF Untouched
<1>2. CASE BoxDies
    <2>1. BoxCrash /\ net' = {} /\ PeerGone
        BY <1>2 DEF BoxDies, Disconnected
    <2>2. Untouched(i) => Untouched(i)'
        BY <2>1 DEF Untouched, BoxCrash, Remote
    <2> QED
        BY <2>1, <2>2, ProcessMoves, CutOffInv DEF BoxCrash
<1>3. CASE Connect
    <2>1. UNCHANGED <<records, consumedGrants, disk, recorded, intents, calls, net>>
        BY <1>3 DEF Connect, journalVars, serverVars
    <2> QED
        BY <2>1, NoMove, RowUnmoved DEF NetMove
<1>4. CASE BoxStarts
    <2>1. (BoxRestart \/ BoxRestartTorn) /\ UNCHANGED <<intents, calls, net>>
        BY <1>4 DEF BoxStarts, serverVars
    <2> QED
        BY <2>1, ProcessMoves, RowUnmoved DEF NetMove
<1>5. CASE ServerRestarts
    BY <1>5, ServerRestartsInv
<1> QED
    BY <1>1, <1>2, <1>3, <1>4, <1>5 DEF Environment

-----------------------------------------------------------------------------
(* The invariant and what follows from it.                                 *)

\* Besides it only the journal's own invariants and RoundOK are needed.
IInv == IntentsOK /\ CallsOK /\ \A i \in Remote : EvidenceInv(i)

LEMMA CallsStay == ASSUME CallsOK, [Next]_vars PROVE CallsOK'
<1> USE DEF CallsOK, CallStates
<1>2. ASSUME NEW i \in Invocations, ServerCall(i) PROVE CallsOK'
    BY <1>2 DEF ServerCall, StartCall, ApprovalRefused, IssueGrant, UseGrant, Dispatch,
       NotDispatched, RunLocal, ReceiveResult, ReceiveToolError, Persisted, ReceiveRejection,
       ReceiveError, AbandonCall, ReceiveAck, Goto
<1>3. ASSUME NEW i \in Invocations, GrantRunsOut(i) PROVE CallsOK'
    BY <1>3 DEF GrantRunsOut, serverVars
<1>4. ASSUME NEW i \in Remote, BoxCall(i) PROVE CallsOK'
    BY <1>4 DEF BoxCall, RefuseInvoke, RejectInvoke, PrepareFails, PrepareUncertain, Accept, Execute,
       FinishHandler, FinishUnrecorded, HandleAck, serverVars
<1>5. CASE Reconciliation
    BY <1>5 DEF Reconciliation, SendReconcile, BoxReady, ServerReconcile, ServerReconcileFails,
       NoteConfirmed, NoteAcknowledged, ReconcileRefused, RetryReconcile, serverVars
<1>6. CASE Environment
    BY <1>6 DEF Environment, Connect, LinkDrops, ConnectionAttemptFails, BoxDies, BoxStarts,
       ServerRestarts, PeerGone, CallsFail, serverVars
<1>7. CASE UNCHANGED vars
    BY <1>7 DEF vars
<1> QED
    BY <1>2, <1>3, <1>4, <1>5, <1>6, <1>7 DEF Next

LEMMA IInvStep ==
    ASSUME JournalTypeOK, OutcomeInv, RoundOK, IInv, [Next]_vars
    PROVE  IInv' /\ \A i \in Remote : Advance(i)
<1>1. IntentsOK' /\ CallsOK'
    BY StepGood, CallsStay DEF Good, IInv
<1>2. ASSUME NEW i \in Remote PROVE Kept(i)
    <2>0. /\ IntentsOK /\ CallsOK /\ \A j \in Remote : EvidenceInv(j)
          /\ i \in Invocations
        BY DEF IInv, Remote
    <2>1. ASSUME NEW j \in Invocations, ServerCall(j) PROVE Kept(i)
        BY <2>0, <2>1, ServerCallElsewhere, ServerCallHere, ServerCallAdvances DEF Kept
    <2>2. ASSUME NEW j \in Remote, BoxCall(j) PROVE Kept(i)
        BY <2>0, <2>2, BoxCallInv
    <2>3. ASSUME UNCHANGED vars \/ \E j \in Invocations : GrantRunsOut(j) PROVE Kept(i)
        <3>1. UNCHANGED <<records, consumedGrants, disk, recorded, intents, calls, net>>
            BY <2>3 DEF vars, GrantRunsOut, GrantExpires, serverVars
        <3> QED
            BY <2>0, <3>1, NoMove, RowUnmoved DEF NetMove
    <2>4. CASE Reconciliation
        BY <2>0, <2>4, ReconciliationInv
    <2>5. CASE Environment
        BY <2>0, <2>5, EnvironmentInv
    <2> QED
        BY <2>1, <2>2, <2>3, <2>4, <2>5 DEF Next
<1> QED
    BY <1>1, <1>2 DEF IInv, Kept

LEMMA IInvInit == Init => IInv
<1> SUFFICES ASSUME Init PROVE IInv
    OBVIOUS
<1>1. IntentsOK /\ CallsOK
    BY InitGood DEF Init, CallsOK, CallStates
<1>2. ASSUME NEW i \in Remote PROVE EvidenceInv(i)
    <2>1. /\ i \in Invocations /\ net = {} /\ calls[i] = "idle" /\ intents[i] = NoIntent
          /\ Untouched(i)
        BY DEF Remote, Init, RepositoryInit, JournalInit, Untouched
    <2> QED
        BY <2>1 DEF EvidenceInv, CallInv, VerdictInv, NetInv, TombInv, NoIntent, Unsent, Untouched,
           Tomb, TerminalStates
<1> QED
    BY <1>1, <1>2 DEF IInv

LEMMA JournalFacts == JournalSpec => [](JournalTypeOK /\ OutcomeInv)
<1>1. JournalInit => JournalTypeOK /\ TraceInv /\ OutcomeInv
    BY JournalTypeInit, TraceInit, OutcomeInit
<1>2. (JournalTypeOK /\ TraceInv /\ OutcomeInv) /\ [JournalNext]_journalVars
        => (JournalTypeOK /\ TraceInv /\ OutcomeInv)'
    BY JournalTypeStep, TraceStep, OutcomeStep
<1> QED
    BY <1>1, <1>2, PTL DEF JournalSpec

\* The invariant of the whole pipeline.
LEMMA Invariant == Spec => [](JournalTypeOK /\ OutcomeInv /\ RoundOK /\ IInv)
<1>1. JournalTypeOK /\ OutcomeInv /\ RoundOK /\ IInv /\ [Next]_vars => IInv'
    BY IInvStep
<1> QED
    BY <1>1, IInvInit, PipelineInvariant, PipelineUsesJournal, JournalFacts, PTL DEF Spec

\* A tombstone stands for an outcome the server has stored: acknowledge() and
\* its callers never turn evidence into a receipt too early, whatever messages
\* are lost and whichever side dies.
THEOREM ReceiptsFollowEvidence == Spec => []ReceiptAfterEvidence
<1>1. IInv => ReceiptAfterEvidence
    BY DEF IInv, EvidenceInv, TombInv, Tomb, Stored, ReceiptAfterEvidence
<1> QED
    BY <1>1, Invariant, PTL

\* EvidenceAcceptable, of one Action.
Acceptable(i) ==
    LET held == IF boxUp THEN records[i] ELSE Recovered(disk.records)[i]
    IN  held \in EvidenceStates => ~Conflicts(intents, i, held)

\* What the Box holds was recorded, so the row is not terminal or agrees.
LEMMA HeldIsAcceptable ==
    ASSUME JournalTypeOK, OutcomeInv, IInv, NEW i \in Remote \ Outside PROVE Acceptable(i)
<1> DEFINE held == IF boxUp THEN records[i] ELSE Recovered(disk.records)[i]
<1> SUFFICES ASSUME held \in EvidenceStates PROVE ~Conflicts(intents, i, held)
    BY DEF Acceptable
<1>0. /\ i \in Invocations /\ i \notin Local
      /\ Recovered(disk.records)[i] = "absent" <=> disk.records[i] = "absent"
    BY RecoveredAt DEF Remote, JournalTypeOK, JournalFile, RecordStates
<1>1. EvidenceInv(i)
    BY DEF IInv
<1>2. ~Untouched(i)
    BY <1>0 DEF Untouched, EvidenceStates, TerminalStates
<1>3. intents[i].consumed /\ intents[i].state # "none"
    BY <1>1, <1>2 DEF EvidenceInv, CallInv, Unsent
<1>4. ASSUME intents[i].state \in TerminalStates PROVE intents[i].state = held
    <2>1. intents[i].state = recorded[i]
        BY <1>1, <1>2, <1>4 DEF EvidenceInv, VerdictInv, Gone
    <2> QED
        BY <1>0, <1>4, <2>1 DEF OutcomeInv, TerminalStates
<1> QED
    BY <1>0, <1>3, <1>4 DEF Conflicts

\* complete() never refuses what the Box holds or would load after a crash,
\* except for a call whose path leaves the workspace (tool-handler.ts answers
\* that one with a code the registry takes for "never began").
THEOREM EvidenceIsAcceptable == Spec => [](\A i \in Remote \ Outside : Acceptable(i))
<1>1. JournalTypeOK /\ OutcomeInv /\ IInv => \A i \in Remote \ Outside : Acceptable(i)
    BY HeldIsAcceptable
<1> QED
    BY <1>1, Invariant, PTL

\* Without such calls reconciliation never meets an evidence conflict.
THEOREM EvidenceAlwaysAcceptable == ASSUME Outside = {} PROVE Spec => []EvidenceAcceptable
<1>1. (\A i \in Remote \ Outside : Acceptable(i)) => EvidenceAcceptable
    BY DEF Acceptable, EvidenceAcceptable
<1> QED
    BY <1>1, EvidenceIsAcceptable, PTL

-----------------------------------------------------------------------------
(* The refinement of ActionOutcome.                                        *)

\* What the server says of an Action whose intent is in state s.
Verdict(s) == CASE s \in TerminalStates    -> s
                [] s = "outcome_unknown"  -> "unknown"
                [] OTHER                  -> "open"

\* A step of the pipeline is a step of ActionOutcome for every Action.
LEMMA StepMoves ==
    ASSUME JournalTypeOK, IntentsOK, RowsKept, JournalTypeOK', IntentsOK',
           NEW i \in Remote \ Outside, EvidenceInv(i), EvidenceInv(i)', Advance(i)
    PROVE  Outcome!Move(recorded[i], Verdict(intents[i].state),
                        recorded'[i], Verdict(intents'[i].state))
<1> DEFINE s == intents[i].state
           u == intents'[i].state
<1>0. /\ s \in IntentStates /\ u \in IntentStates
      /\ recorded[i] \in EvidenceStates \union {"none"}
      /\ recorded'[i] \in EvidenceStates \union {"none"}
    BY DEF JournalTypeOK, IntentsOK, Intent, Remote
<1>1. /\ s \in TerminalStates => u = s
      /\ recorded[i] # "none" => recorded'[i] = recorded[i]
      /\ recorded'[i] # recorded[i] => u = s
      /\ s \in EvidenceStates => u \in EvidenceStates
      /\ s = "outcome_unknown" /\ u = "cancelled" => recorded[i] # "none"
    BY DEF RowsKept, RowKept, Advance, BoxMove, Remote
<1>2. ASSUME recorded'[i] # recorded[i] PROVE s \notin TerminalStates
    BY <1>1, <1>2 DEF EvidenceInv, VerdictInv, Gone, Advance, BoxMove, Untouched
<1>3. u \in TerminalStates => u = recorded'[i] \/ (u = "cancelled" /\ recorded'[i] = "none")
    BY DEF EvidenceInv, VerdictInv, Gone, Untouched
<1> USE DEF IntentStates, EvidenceStates, TerminalStates
<1> HIDE DEF s, u
<1>4. CASE recorded'[i] # recorded[i]
    <2>1. Outcome!Recorded(recorded[i], Verdict(s), recorded'[i], Verdict(u))
        BY <1>0, <1>1, <1>2, <1>4 DEF Outcome!Recorded, Verdict
    <2> QED
        BY <2>1 DEF Outcome!Move, s, u
<1>5. CASE recorded'[i] = recorded[i]
    <2>1. CASE s \in TerminalStates \/ s = u
        <3>1. Verdict(u) = Verdict(s)
            BY <1>1, <2>1
        <3> QED
            BY <1>5, <3>1 DEF Outcome!Move, s, u
    <2>2. CASE s \notin TerminalStates /\ u = recorded[i] /\ u # "none"
        <3>1. Outcome!Learnt(recorded[i], Verdict(s), recorded'[i], Verdict(u))
            BY <1>0, <1>5, <2>2 DEF Outcome!Learnt, Outcome!Says, Verdict
        <3> QED
            BY <3>1 DEF Outcome!Move, s, u
    <2>3. CASE s \notin TerminalStates /\ u \in TerminalStates /\ u # recorded[i]
        <3>1. Outcome!GivenUp(recorded[i], Verdict(s), recorded'[i], Verdict(u))
            BY <1>0, <1>1, <1>3, <1>5, <2>3 DEF Outcome!GivenUp, Verdict
        <3> QED
            BY <3>1 DEF Outcome!Move, s, u
    <2>4. CASE s \notin TerminalStates /\ u = "outcome_unknown" /\ s # u
        <3>1. Outcome!Doubted(recorded[i], Verdict(s), recorded'[i], Verdict(u))
            BY <1>0, <1>5, <2>4 DEF Outcome!Doubted, Verdict
        <3> QED
            BY <3>1 DEF Outcome!Move, s, u
    <2>5. CASE s \notin EvidenceStates /\ u \notin EvidenceStates
        <3>1. Verdict(s) = "open" /\ Verdict(u) = "open"
            BY <2>5 DEF Verdict
        <3> QED
            BY <1>5, <3>1 DEF Outcome!Move, s, u
    <2> QED
        BY <1>0, <1>1, <2>1, <2>2, <2>3, <2>4, <2>5
<1> QED
    BY <1>4, <1>5

\* The abstract state of the refinement.
truthBar == [i \in Remote |-> recorded[i]]
verdictBar == [i \in Remote |-> Verdict(intents[i].state)]

LEMMA StepRefines ==
    ASSUME Outside = {}, JournalTypeOK, OutcomeInv, RoundOK, IInv, JournalTypeOK', IInv', [Next]_vars
    PROVE  Outcome!OutcomeNext
<1>1. ASSUME NEW i \in Remote
      PROVE  /\ recorded'[i] \in Outcome!Truths
             /\ Verdict(intents'[i].state) \in Outcome!Verdicts
             /\ Outcome!Move(recorded[i], Verdict(intents[i].state),
                             recorded'[i], Verdict(intents'[i].state))
    <2>1. Advance(i) /\ RowsKept
        BY IInvStep, StepGood DEF IInv, Good
    <2>2. Outcome!Move(recorded[i], Verdict(intents[i].state),
                       recorded'[i], Verdict(intents'[i].state))
        BY <2>1, StepMoves DEF IInv
    <2>3. recorded'[i] \in Outcome!Truths
        BY DEF JournalTypeOK, Remote, Outcome!Truths, EvidenceStates, Outcome!EvidenceStates,
           TerminalStates, Outcome!TerminalStates
    <2>4. Verdict(intents'[i].state) \in Outcome!Verdicts
        BY DEF Verdict, Outcome!Verdicts, TerminalStates, Outcome!TerminalStates
    <2> QED
        BY <2>2, <2>3, <2>4
<1> QED
    BY <1>1 DEF Outcome!OutcomeNext, Verdict

LEMMA InitRefines == ASSUME Init PROVE Outcome!OutcomeInit
<1>1. \A i \in Remote : recorded[i] = "none" /\ intents[i].state = "none"
    BY DEF Init, JournalInit, RepositoryInit, NoIntent, Remote
<1> QED
    BY <1>1 DEF Outcome!OutcomeInit, TerminalStates

\* The pipeline implements ActionOutcome, for every Box, batch size and number
\* of faults: a verdict of the server is learnt from the Box, is a doubt, or
\* gives up an Action that never started, and that in this order only.
THEOREM PipelineRefinesOutcome == ASSUME Outside = {} PROVE Spec => ImplementsOutcome
<1>1. JournalTypeOK /\ OutcomeInv /\ RoundOK /\ IInv /\ JournalTypeOK' /\ IInv' /\ [Next]_vars
          => Outcome!OutcomeNext
    BY StepRefines
<1>2. Init => Outcome!OutcomeInit
    BY InitRefines
<1> QED
    BY <1>1, <1>2, Invariant, PTL DEF Spec, ImplementsOutcome, Outcome!OutcomeSpec

-----------------------------------------------------------------------------
(* What ActionOutcome implies, and so what the pipeline keeps.             *)

\* A step of one Action keeps the verdict true and revises nothing.
LEMMA MoveIsTrue ==
    ASSUME NEW t \in Outcome!Truths, NEW v \in Outcome!Verdicts,
           NEW t2 \in Outcome!Truths, NEW v2 \in Outcome!Verdicts,
           v \in TerminalStates => v = t \/ (v = "cancelled" /\ t = "none"),
           Outcome!Move(t, v, t2, v2)
    PROVE  /\ v2 \in TerminalStates => v2 = t2 \/ (v2 = "cancelled" /\ t2 = "none")
           /\ t # "none" => t2 = t
           /\ v \in TerminalStates => v2 = v
<1> USE DEF TerminalStates
<1>1. CASE Outcome!Recorded(t, v, t2, v2)
    BY <1>1 DEF Outcome!Recorded
<1>2. CASE Outcome!Learnt(t, v, t2, v2)
    BY <1>2 DEF Outcome!Learnt, Outcome!Says, Outcome!Truths, Outcome!EvidenceStates, Outcome!TerminalStates
<1>3. CASE Outcome!Doubted(t, v, t2, v2)
    BY <1>3 DEF Outcome!Doubted
<1>4. CASE Outcome!GivenUp(t, v, t2, v2)
    BY <1>4 DEF Outcome!GivenUp
<1>5. CASE t2 = t /\ v2 = v
    BY <1>5
<1> QED
    BY <1>1, <1>2, <1>3, <1>4, <1>5 DEF Outcome!Move

\* What NothingRevised asks of one step.
NoneRevised ==
    \A i \in Remote :
        /\ recorded[i] # "none" => recorded'[i] = recorded[i]
        /\ Verdict(intents[i].state) \in TerminalStates =>
               Verdict(intents'[i].state) = Verdict(intents[i].state)

\* Every step of ActionOutcome keeps the verdicts true, and revises nothing.
LEMMA OutcomeStepTrue ==
    ASSUME Outcome!OutcomeTypeOK, Outcome!VerdictIsTruth, Outcome!OutcomeNext
    PROVE  Outcome!OutcomeTypeOK' /\ Outcome!VerdictIsTruth' /\ NoneRevised
<1>1. Outcome!OutcomeTypeOK'
    BY DEF Outcome!OutcomeNext, Outcome!OutcomeTypeOK
<1>2. ASSUME NEW i \in Remote
      PROVE  LET v == Verdict(intents[i].state)
                 w == Verdict(intents'[i].state)
             IN  /\ w \in TerminalStates => w = recorded'[i] \/ (w = "cancelled" /\ recorded'[i] = "none")
                 /\ recorded[i] # "none" => recorded'[i] = recorded[i]
                 /\ v \in TerminalStates => w = v
    <2> DEFINE v == Verdict(intents[i].state)
               w == Verdict(intents'[i].state)
    <2>1. /\ recorded[i] \in Outcome!Truths /\ recorded'[i] \in Outcome!Truths
          /\ v \in Outcome!Verdicts /\ w \in Outcome!Verdicts
        BY <1>1 DEF Outcome!OutcomeTypeOK, Verdict
    <2>2. Outcome!Move(recorded[i], v, recorded'[i], w)
        BY DEF Outcome!OutcomeNext, Verdict
    <2>3. v \in TerminalStates => v = recorded[i] \/ (v = "cancelled" /\ recorded[i] = "none")
        BY DEF Outcome!VerdictIsTruth, Verdict, Outcome!TerminalStates, TerminalStates
    <2> HIDE DEF v, w
    <2>4. /\ w \in TerminalStates => w = recorded'[i] \/ (w = "cancelled" /\ recorded'[i] = "none")
          /\ recorded[i] # "none" => recorded'[i] = recorded[i]
          /\ v \in TerminalStates => w = v
        BY <2>1, <2>2, <2>3, MoveIsTrue
    <2> QED
        BY <2>4 DEF v, w
<1>3. Outcome!VerdictIsTruth'
    BY <1>2 DEF Outcome!VerdictIsTruth, Verdict, Outcome!TerminalStates, TerminalStates
<1> QED
    BY <1>1, <1>2, <1>3 DEF NoneRevised

LEMMA OutcomeInitTrue == Outcome!OutcomeInit => Outcome!OutcomeTypeOK /\ Outcome!VerdictIsTruth
BY DEF Outcome!OutcomeInit, Outcome!OutcomeTypeOK, Outcome!VerdictIsTruth, Outcome!Truths,
   Outcome!Verdicts, Outcome!TerminalStates, Outcome!EvidenceStates

LEMMA OutcomeStutters ==
    ASSUME UNCHANGED Outcome!outcomeVars, Outcome!OutcomeTypeOK, Outcome!VerdictIsTruth
    PROVE  Outcome!OutcomeTypeOK' /\ Outcome!VerdictIsTruth'
BY DEF Outcome!outcomeVars, Outcome!OutcomeTypeOK, Outcome!VerdictIsTruth

\* In ActionOutcome a final verdict of the server is what happened to the Action.
THEOREM VerdictsAreTrue == Outcome!OutcomeSpec => []Outcome!VerdictIsTruth
<1>1. Outcome!OutcomeTypeOK /\ Outcome!VerdictIsTruth /\ [Outcome!OutcomeNext]_(Outcome!outcomeVars)
          => (Outcome!OutcomeTypeOK /\ Outcome!VerdictIsTruth)'
    BY OutcomeStepTrue, OutcomeStutters
<1> QED
    BY <1>1, OutcomeInitTrue, PTL DEF Outcome!OutcomeSpec

\* In ActionOutcome neither an outcome nor a final verdict is ever revised.
THEOREM OutcomesStand == Outcome!OutcomeSpec => Outcome!NothingRevised
<1>1. Outcome!OutcomeTypeOK /\ Outcome!VerdictIsTruth /\ [Outcome!OutcomeNext]_(Outcome!outcomeVars)
          => (Outcome!OutcomeTypeOK /\ Outcome!VerdictIsTruth)'
    BY OutcomeStepTrue, OutcomeStutters
<1>2. Outcome!OutcomeTypeOK /\ Outcome!VerdictIsTruth /\ [Outcome!OutcomeNext]_(Outcome!outcomeVars)
          => [NoneRevised]_(Outcome!outcomeVars)
    BY OutcomeStepTrue
<1>3. [NoneRevised]_(Outcome!outcomeVars) => [\A i \in Remote :
           /\ truthBar[i] # "none" => truthBar'[i] = truthBar[i]
           /\ verdictBar[i] \in Outcome!TerminalStates => verdictBar'[i] = verdictBar[i]]_(Outcome!outcomeVars)
    BY DEF NoneRevised, truthBar, verdictBar, TerminalStates, Outcome!TerminalStates
<1> QED
    BY <1>1, <1>2, <1>3, OutcomeInitTrue, PTL
    DEF Outcome!OutcomeSpec, Outcome!NothingRevised, truthBar, verdictBar, Verdict

\* So the pipeline keeps both: what it says of an Action in the end is what the
\* Box did, and nobody ever hears two stories.
THEOREM PipelineTellsTheTruth ==
    ASSUME Outside = {} PROVE Spec => []Outcome!VerdictIsTruth /\ Outcome!NothingRevised
BY PipelineRefinesOutcome, VerdictsAreTrue, OutcomesStand, PTL DEF ImplementsOutcome


-----------------------------------------------------------------------------
(* The rows and the commands of the approvals.                             *)

\* The fields a command has.
LEMMA CommandFields ==
    ASSUME NEW c \in Command
    PROVE  /\ c.type = "decide" =>
                /\ c.request \in Requests
                /\ c.state \in {"approved", "rejected"}
                /\ c.revision \in Nat
           /\ c.type = "policy" =>
                /\ c.session \in Sessions
                /\ c.allowAll \in BOOLEAN
                /\ c.revision \in Nat
                /\ c.requests \in SUBSET Requests
BY DEF Command

\* A created row is pending or, with "allow all" and no risk against it,
\* approved by the policy.
LEMMA CreatedRow ==
    ASSUME NEW r \in Requests, requests \in [Requests -> Row]
    PROVE  /\ Created(r) \in [Requests -> Row]
           /\ Created(r)[r].state = IF AutoApproved(r) THEN "approved" ELSE "pending"
           /\ Created(r)[r].via = IF AutoApproved(r) THEN "policy" ELSE "none"
           /\ \A q \in Requests \ {r} : Created(r)[q] = requests[q]
BY DEF Created, Row, States, NoRow
\* A restart leaves policies, none of an earlier revision.
LEMMA PoliciesReset ==
    ASSUME policies \in [Sessions -> Policy], Restart
    PROVE  /\ policies' \in [Sessions -> Policy]
           /\ \A s \in Sessions : policies'[s].revision >= policies[s].revision
<1> DEFINE Reset(p) == [exists |-> TRUE, allowAll |-> FALSE, revision |-> p.revision + 1,
                      key |-> NoKey]
<1>1. \A p \in Policy : /\ Reset(p) \in Policy
                       /\ p.revision \in Nat /\ Reset(p).revision = p.revision + 1
    BY DEF Policy
<1>2. policies' = [s \in Sessions |->
                      IF policies[s].allowAll THEN Reset(policies[s]) ELSE policies[s]]
    BY DEF Restart
<1> HIDE DEF Reset
<1>3. ASSUME NEW s \in Sessions
      PROVE  policies'[s] \in Policy /\ policies'[s].revision >= policies[s].revision
    <2>1. policies[s] \in Policy
        OBVIOUS
    <2>2. policies'[s] = Reset(policies[s]) \/ policies'[s] = policies[s]
        BY <1>2
    <2>3. Reset(policies[s]) \in Policy /\ Reset(policies[s]).revision >= policies[s].revision
        BY <1>1, <2>1
    <2> QED
        BY <1>1, <2>1, <2>2, <2>3
<1> QED
    BY <1>2, <1>3

-----------------------------------------------------------------------------
(* What a step may do to a row, to the gate and to a command.              *)

\* A user's command to approve r exists.
UserApproves(r) ==
    \E k \in Keys : /\ commands[k].type = "decide"
                    /\ commands[k].request = r
                    /\ commands[k].state = "approved"

\* A row is made, resolved or deleted along with its Session, or it stays.
RowMoves(r) ==
    \/ requests'[r] = requests[r]
    \/ /\ ~Asked(r)
       /\ requests'[r].state = "approved" => r \notin Critical
    \/ /\ Pending(r)
       /\ requests'[r].state \in Resolved
       /\ requests'[r].state = "approved" =>
              r \notin Critical \/ (requests'[r].via = "user" /\ UserApproves(r))
    \/ requests'[r] = NoRow /\ SessionOf[r] \notin visible'

\* Rows expired, cancelled or decided in one go.
LEMMA TerminatedMoves ==
    ASSUME ApprovalTypeOK, NEW R, \A r \in R \intersect Requests : Pending(r),
           NEW state \in Resolved, state # "approved",
           NEW key \in Keys \union {NoKey}, NEW via \in {"none", "user", "policy", "system"},
           requests' = Terminated(requests, R, state, key, via)
    PROVE  requests' \in [Requests -> Row] /\ \A r \in Requests : RowMoves(r)
<1>1. /\ requests' \in [Requests -> Row]
      /\ \A r \in Requests : /\ r \in R => requests'[r].state = state
                             /\ r \notin R => requests'[r] = requests[r]
    BY DEF ApprovalTypeOK, Terminated, Row, States, Resolved
<1>2. ASSUME NEW r \in Requests
      PROVE  RowMoves(r)
    <2>1. CASE r \in R
        BY <1>1, <2>1 DEF RowMoves
    <2>2. CASE r \notin R
        BY <1>1, <2>2 DEF RowMoves
    <2> QED
        BY <2>1, <2>2
<1> QED
    BY <1>1, <1>2

\* Every step moves the rows so.
LEMMA RowsMove ==
    ASSUME ApprovalTypeOK, [ApprovalNext]_approvalVars
    PROVE  requests' \in [Requests -> Row] /\ \A r \in Requests : RowMoves(r)
<1> DEFINE Goal == requests' \in [Requests -> Row] /\ \A r \in Requests : RowMoves(r)
<1> SUFFICES Goal
    OBVIOUS
<1>0. requests \in [Requests -> Row] /\ commands \in [Keys -> Command]
    BY DEF ApprovalTypeOK
<1>1. ASSUME requests' = requests PROVE Goal
    BY <1>0, <1>1 DEF RowMoves
<1>2. ASSUME NEW r \in Requests, RequireApproval(r) \/ RequireFails(r)
      PROVE  Goal
    <2>1. requests' = Created(r) /\ ~Asked(r)
        BY <1>2 DEF RequireApproval, RequireFails, CanRequire
    <2> QED
        BY <1>0, <2>1, CreatedRow DEF RowMoves, AutoApproved
<1>3. ASSUME NEW r \in Requests, RequireAborted(r)
      PROVE  Goal
    <2>1. /\ requests' = Terminated(Created(r), {r}, "cancelled", NoKey, "system")
          /\ ~Asked(r)
        BY <1>3 DEF RequireAborted, CanRequire
    <2>2. /\ Created(r) \in [Requests -> Row]
          /\ \A q \in Requests \ {r} : Created(r)[q] = requests[q]
        BY <1>0, CreatedRow
    <2>3. /\ requests' \in [Requests -> Row]
          /\ requests'[r].state = "cancelled"
          /\ \A q \in Requests \ {r} : requests'[q] = Created(r)[q]
        BY <2>1, <2>2 DEF Terminated, Row, States
    <2> QED
        BY <2>1, <2>2, <2>3 DEF RowMoves
<1>4. ASSUME NEW r \in Requests, Abort(r)
      PROVE  Goal
    <2>1. CASE Pending(r) /\ requests' # requests
        <3>1. requests' = Terminated(requests, {r}, "cancelled", NoKey, "system")
            BY <1>4, <2>1 DEF Abort
        <3> QED
            BY <2>1, <3>1, TerminatedMoves DEF Resolved
    <2>2. CASE ~Pending(r) \/ requests' = requests
        BY <1>1, <1>4, <2>2 DEF Abort
    <2> QED
        BY <2>1, <2>2
<1>5. ASSUME NEW k \in Keys, NEW r \in Requests, Decide(k, r)
      PROVE  Goal
    <2>1. /\ requests' = Terminated(requests, {r}, commands[k].state, k, "user")
          /\ Pending(r)
          /\ commands[k].type = "decide" /\ commands[k].request = r
        BY <1>5 DEF Decide, Delivers
    <2>2. commands[k].state \in {"approved", "rejected"}
        BY <1>0, <2>1, CommandFields
    <2>3. commands[k].state \in Resolved
        BY <2>2 DEF Resolved
    <2>4. /\ requests' \in [Requests -> Row]
          /\ requests'[r].state = commands[k].state /\ requests'[r].via = "user"
          /\ \A q \in Requests \ {r} : requests'[q] = requests[q]
        BY <1>0, <2>1, <2>2 DEF Terminated, Row, States
    <2> QED
        BY <2>1, <2>3, <2>4 DEF RowMoves, UserApproves
<1>6. ASSUME NEW k \in Keys, NEW r \in Requests, DecideExpires(k, r)
      PROVE  Goal
    BY <1>6, TerminatedMoves DEF DecideExpires, Resolved
<1>7. ASSUME NEW k \in Keys, NEW s \in Sessions, UpdatePolicy(k, s)
      PROVE  Goal
    <2> DEFINE R == {r \in commands[k].requests : Pending(r)}
               late == Terminated(requests, R \intersect due, "expired", NoKey, "none")
    <2>1. requests' = Terminated(late, R \ due, "approved", k, "policy")
        BY <1>7 DEF UpdatePolicy
    <2>2. \A r \in R : Pending(r) /\ r \notin Critical
        BY <1>7 DEF UpdatePolicy, PolicyAcceptable
    <2>3. /\ late \in [Requests -> Row]
          /\ \A r \in Requests : /\ r \in R \intersect due => late[r].state = "expired"
                                 /\ r \notin R \intersect due => late[r] = requests[r]
        BY <1>0 DEF Terminated, Row, States
    <2> HIDE DEF late
    <2>4. /\ requests' \in [Requests -> Row]
          /\ \A r \in Requests : /\ r \in R \ due => requests'[r].state = "approved"
                                 /\ r \notin R \ due => requests'[r] = late[r]
        BY <2>1, <2>3 DEF Terminated, Row, States
    <2> QED
        BY <2>2, <2>3, <2>4 DEF RowMoves, Resolved
<1>8. CASE SweepExpired
    BY <1>8, TerminatedMoves DEF SweepExpired, Resolved
<1>9. CASE Restart
    BY <1>9, TerminatedMoves DEF Restart, Resolved
<1>10. ASSUME NEW s \in Sessions, Retire(s)
       PROVE  Goal
    <2>1. \A r \in Requests : IF r \in OfSession(s) THEN requests'[r] = NoRow
                                                  ELSE requests'[r] = requests[r]
        BY <1>10 DEF Retire
    <2>2. requests' \in [Requests -> Row]
        BY <1>0, <1>10 DEF Retire, Row, NoRow, States
    <2> QED
        BY <1>10, <2>1, <2>2 DEF RowMoves, Retire, OfSession
<1>11. ASSUME NEW r \in Requests, DeadlinePasses(r)
       PROVE  Goal
    BY <1>1, <1>11 DEF DeadlinePasses
<1>12. ASSUME NEW k \in Keys, Compose(k)
       PROVE  Goal
    BY <1>1, <1>12 DEF Compose, ComposeDecision, ComposePolicy
<1>13. ASSUME NEW k \in Keys, NEW r \in Requests, DecideSuperseded(k, r)
       PROVE  Goal
    BY <1>1, <1>13 DEF DecideSuperseded
<1>14. ASSUME NEW k \in Keys, NEW s \in Sessions, PolicyRetried(k, s)
       PROVE  Goal
    BY <1>1, <1>14 DEF PolicyRetried
<1>15. CASE UNCHANGED approvalVars
    BY <1>1, <1>15 DEF approvalVars
<1>16. ASSUME NEW k \in Keys, Deliver(k)
       PROVE  Goal
    BY <1>5, <1>6, <1>7, <1>13, <1>14, <1>16 DEF Deliver
<1> HIDE DEF Goal
<1> QED
    BY <1>2, <1>3, <1>4, <1>8, <1>9, <1>10, <1>11, <1>12, <1>15, <1>16
    DEF ApprovalNext

\* A decision is final, for as long as the Session exists: no client, sweep,
\* abort or restart changes a resolved request.
LEMMA DecisionsFinalStep ==
    ASSUME ApprovalTypeOK, [ApprovalNext]_approvalVars, NEW r \in Requests,
           requests[r].state \in Resolved, SessionOf[r] \in visible'
    PROVE  requests'[r] = requests[r]
BY RowsMove DEF RowMoves, Asked, Pending, Resolved

-----------------------------------------------------------------------------
(* Type correctness.                                                       *)

GateStates == {"none", "waiting", "allowed", "refused"}

\* What a step may tell the callers: "allowed" only of an approved row.
GateMoves(r) ==
    \/ gate'[r] = gate[r]
    \/ gate'[r] \in {"waiting", "refused"}
    \/ gate'[r] = "allowed" /\ requests'[r].state = "approved"

\* Every step tells its callers so, and keeps the waiters and the count of
\* faults in their types.
LEMMA GateMove ==
    ASSUME ApprovalTypeOK, [ApprovalNext]_approvalVars
    PROVE  /\ gate' \in [Requests -> GateStates]
           /\ waiting' \subseteq Requests
           /\ flushFaults' \in 0..MaxFlushFaults
           /\ \A r \in Requests : GateMoves(r)
<1> DEFINE Goal == /\ gate' \in [Requests -> GateStates]
                   /\ waiting' \subseteq Requests
                   /\ flushFaults' \in 0..MaxFlushFaults
                   /\ \A r \in Requests : GateMoves(r)
<1> SUFFICES Goal
    OBVIOUS
<1>0. /\ gate \in [Requests -> GateStates] /\ waiting \subseteq Requests
      /\ flushFaults \in 0..MaxFlushFaults /\ MaxFlushFaults \in Nat
      /\ requests \in [Requests -> Row] /\ commands \in [Keys -> Command]
    BY ApprovalsAssumption DEF ApprovalTypeOK, GateStates
<1>1. ASSUME gate' = gate, waiting' = waiting, flushFaults' = flushFaults
      PROVE  Goal
    BY <1>0, <1>1 DEF GateMoves
<1>2. ASSUME NEW R, FlushAndSettle(R, requests')
      PROVE  Goal
    <2>1. CASE Settle(R, requests') /\ UNCHANGED flushFaults
        BY <1>0, <2>1 DEF Settle, GateMoves, GateStates
    <2>2. CASE flushFaults < MaxFlushFaults /\ flushFaults' = flushFaults + 1 /\ UNCHANGED <<waiting, gate>>
        BY <1>0, <2>2 DEF GateMoves
    <2> QED
        BY <1>2, <2>1, <2>2 DEF FlushAndSettle
<1>3. ASSUME NEW r \in Requests, RequireApproval(r)
      PROVE  Goal
    <2>1. requests'[r].state = IF AutoApproved(r) THEN "approved" ELSE "pending"
        BY <1>0, <1>3, CreatedRow DEF RequireApproval
    <2> QED
        BY <1>0, <1>3, <2>1 DEF RequireApproval, GateMoves, GateStates
<1>4. ASSUME NEW r \in Requests, RequireAborted(r) \/ RequireFails(r) \/ Abort(r)
      PROVE  Goal
    BY <1>0, <1>4 DEF RequireAborted, RequireFails, Abort, GateMoves, GateStates
<1>5. ASSUME NEW k \in Keys, NEW r \in Requests,
             Decide(k, r) \/ DecideExpires(k, r) \/ DecideSuperseded(k, r)
      PROVE  Goal
    <2>1. FlushAndSettle({r}, requests')
        BY <1>5 DEF Decide, DecideExpires, DecideSuperseded
    <2> QED
        BY <1>2, <2>1
<1>6. ASSUME NEW k \in Keys, NEW s \in Sessions, PolicyRetried(k, s) \/ UpdatePolicy(k, s)
      PROVE  Goal
    <2>1. CASE commands[k].requests = {}
        BY <1>1, <1>6, <2>1 DEF PolicyRetried, UpdatePolicy
    <2>2. CASE commands[k].requests # {}
        <3>1. FlushAndSettle(commands[k].requests, requests')
            BY <1>6, <2>2 DEF PolicyRetried, UpdatePolicy
        <3> QED
            BY <1>2, <3>1
    <2> QED
        BY <2>1, <2>2
<1>7. ASSUME SweepExpired
      PROVE  Goal
    BY <1>2, <1>7 DEF SweepExpired
<1>8. ASSUME Restart
      PROVE  Goal
    BY <1>0, <1>8 DEF Restart, GateMoves, GateStates
<1>9. ASSUME NEW s \in Sessions, Retire(s)
      PROVE  Goal
    BY <1>1, <1>9 DEF Retire
<1>10. ASSUME NEW r \in Requests, DeadlinePasses(r)
       PROVE  Goal
    BY <1>1, <1>10 DEF DeadlinePasses
<1>11. ASSUME NEW k \in Keys, Compose(k)
       PROVE  Goal
    BY <1>1, <1>11 DEF Compose, ComposeDecision, ComposePolicy
<1>12. ASSUME UNCHANGED approvalVars
       PROVE  Goal
    BY <1>1, <1>12 DEF approvalVars
<1> HIDE DEF Goal
<1> QED
    BY <1>3, <1>4, <1>5, <1>6, <1>7, <1>8, <1>9, <1>10, <1>11, <1>12 DEF ApprovalNext, Deliver

\* Every step keeps every variable in its type.
LEMMA TypeStep ==
    ASSUME ApprovalTypeOK, [ApprovalNext]_approvalVars
    PROVE  ApprovalTypeOK'
<1>1. /\ requests' \in [Requests -> Row]
      /\ gate' \in [Requests -> GateStates]
      /\ waiting' \subseteq Requests
      /\ flushFaults' \in 0..MaxFlushFaults
    BY RowsMove, GateMove
<1> DEFINE Rest == /\ policies' \in [Sessions -> Policy]
                   /\ due' \subseteq Requests
                   /\ visible' \subseteq Sessions
                   /\ commands' \in [Keys -> Command]
                   /\ applied' \in [Keys -> Nat]
<1> SUFFICES Rest
    BY <1>1 DEF ApprovalTypeOK, GateStates
<1>0. /\ policies \in [Sessions -> Policy] /\ due \subseteq Requests
      /\ visible \subseteq Sessions /\ commands \in [Keys -> Command]
      /\ applied \in [Keys -> Nat] /\ requests \in [Requests -> Row]
    BY DEF ApprovalTypeOK
<1>2. ASSUME NEW k \in Keys, NEW r \in Requests, NEW state \in {"approved", "rejected"},
             ComposeDecision(k, r, state)
      PROVE  Rest
    <2>1. requests[r].revision \in Nat
        BY <1>0 DEF Row
    <2>2. [type |-> "decide", request |-> r, state |-> state,
           revision |-> requests[r].revision] \in Command
        BY <2>1 DEF Command
    <2> QED
        BY <1>0, <1>2, <2>2 DEF ComposeDecision
<1>3. ASSUME NEW k \in Keys, NEW s \in Sessions, NEW allowAll \in BOOLEAN,
             NEW R \in {{}} \union {{r} : r \in Requests}, ComposePolicy(k, s, allowAll, R)
      PROVE  Rest
    <2>1. policies[s].revision \in Nat
        BY <1>0 DEF Policy
    <2>2. [type |-> "policy", session |-> s, allowAll |-> allowAll, requests |-> R,
           revision |-> policies[s].revision] \in Command
        BY <2>1 DEF Command
    <2> QED
        BY <1>0, <1>3, <2>2 DEF ComposePolicy
<1>4. ASSUME NEW k \in Keys, NEW r \in Requests, Decide(k, r)
      PROVE  Rest
    BY <1>0, <1>4 DEF Decide
<1>5. ASSUME NEW k \in Keys, NEW s \in Sessions, UpdatePolicy(k, s)
      PROVE  Rest
    <2>1. commands[k].allowAll \in BOOLEAN
        BY <1>0, <1>5, CommandFields DEF UpdatePolicy, PolicyAcceptable, DeliversPolicy
    <2>2. [exists |-> TRUE, allowAll |-> commands[k].allowAll,
           revision |-> policies[s].revision + 1, key |-> k] \in Policy
        BY <1>0, <2>1 DEF Policy
    <2>3. policies' = [policies EXCEPT ![s] = [exists |-> TRUE, allowAll |-> commands[k].allowAll,
                           revision |-> policies[s].revision + 1, key |-> k]]
        BY <1>5 DEF UpdatePolicy
    <2>4. policies' \in [Sessions -> Policy]
        BY <1>0, <2>2, <2>3
    <2>5. /\ applied' = [applied EXCEPT ![k] = applied[k] + 1]
          /\ due' = due /\ visible' = visible /\ commands' = commands
        BY <1>5 DEF UpdatePolicy
    <2>6. applied' \in [Keys -> Nat]
        BY <1>0, <2>5
    <2> QED
        BY <1>0, <2>4, <2>5, <2>6
<1>6. ASSUME Restart
      PROVE  Rest
    <2>1. policies' \in [Sessions -> Policy]
        BY <1>0, <1>6, PoliciesReset
    <2> QED
        BY <1>0, <1>6, <2>1 DEF Restart
<1>7. ASSUME NEW s \in Sessions, Retire(s)
      PROVE  Rest
    BY <1>0, <1>7 DEF Retire, Policy, NoPolicy
<1>8. ASSUME NEW r \in Requests,
             \/ RequireApproval(r) \/ RequireAborted(r) \/ RequireFails(r) \/ Abort(r)
             \/ DeadlinePasses(r)
      PROVE  Rest
    BY <1>0, <1>8 DEF RequireApproval, RequireAborted, RequireFails, Abort, DeadlinePasses
<1>9. ASSUME NEW k \in Keys, NEW r \in Requests, DecideExpires(k, r) \/ DecideSuperseded(k, r)
      PROVE  Rest
    BY <1>0, <1>9 DEF DecideExpires, DecideSuperseded
<1>10. ASSUME NEW k \in Keys, NEW s \in Sessions, PolicyRetried(k, s)
       PROVE  Rest
    BY <1>0, <1>10 DEF PolicyRetried
<1>11. ASSUME SweepExpired \/ UNCHANGED approvalVars
       PROVE  Rest
    BY <1>0, <1>11 DEF SweepExpired, approvalVars
<1> HIDE DEF Rest
<1> QED
    BY <1>2, <1>3, <1>4, <1>5, <1>6, <1>7, <1>8, <1>9, <1>10, <1>11 DEF ApprovalNext, Compose, Deliver

\* The initial state has the types.
LEMMA TypeInit == ApprovalInit => ApprovalTypeOK
BY ApprovalsAssumption
DEF ApprovalInit, ApprovalTypeOK, Row, Policy, Command, NoRow, NoPolicy, States

\* Requests, policies, waiters and commands always have their types: no
\* transaction leaves a row in a state the others do not know.
THEOREM ApprovalsTypeCorrect == ApprovalSpec => []ApprovalTypeOK
<1>1. ApprovalTypeOK /\ [ApprovalNext]_approvalVars => ApprovalTypeOK'
    BY TypeStep
<1> QED
    BY TypeInit, <1>1, PTL DEF ApprovalSpec

\* A decision is final, for as long as the Session exists: no client, sweep,
\* abort or restart changes a resolved request.
THEOREM DecisionsAreFinal == ApprovalSpec => DecisionIsFinal
<1>1. ASSUME ApprovalTypeOK, [ApprovalNext]_approvalVars
      PROVE  [\A r \in Requests : requests[r].state \in Resolved /\ SessionOf[r] \in visible' =>
                 requests'[r] = requests[r]]_approvalVars
    BY <1>1, RowsMove DEF RowMoves, Asked, Pending, Resolved
<1> QED
    BY ApprovalsTypeCorrect, <1>1, PTL DEF ApprovalSpec, DecisionIsFinal

-----------------------------------------------------------------------------
(* The gate.                                                               *)

\* Commands stay, and a Session that is deleted does not come back.
LEMMA CommandsStay ==
    ASSUME ApprovalTypeOK, [ApprovalNext]_approvalVars
    PROVE  /\ \A k \in Keys : commands[k].type # "none" => commands'[k] = commands[k]
           /\ visible' \subseteq visible
<1>1. commands \in [Keys -> Command]
    BY DEF ApprovalTypeOK
<1>2. ASSUME NEW k \in Keys, Compose(k)
      PROVE  /\ \A q \in Keys : commands[q].type # "none" => commands'[q] = commands[q]
             /\ visible' \subseteq visible
    BY <1>1, <1>2 DEF Compose, ComposeDecision, ComposePolicy
<1>3. ASSUME UNCHANGED commands, visible' \subseteq visible
      PROVE  /\ \A q \in Keys : commands[q].type # "none" => commands'[q] = commands[q]
             /\ visible' \subseteq visible
    BY <1>3
<1>4. ASSUME NEW k \in Keys, Deliver(k)
      PROVE  UNCHANGED commands /\ visible' \subseteq visible
    BY <1>4 DEF Deliver, Decide, DecideExpires, DecideSuperseded, PolicyRetried, UpdatePolicy
<1>5. ASSUME NEW r \in Requests,
             \/ RequireApproval(r) \/ RequireAborted(r) \/ RequireFails(r) \/ Abort(r)
             \/ DeadlinePasses(r)
      PROVE  UNCHANGED commands /\ visible' \subseteq visible
    BY <1>5 DEF RequireApproval, RequireAborted, RequireFails, Abort, DeadlinePasses
<1>6. ASSUME SweepExpired \/ Restart \/ UNCHANGED approvalVars \/ \E s \in Sessions : Retire(s)
      PROVE  UNCHANGED commands /\ visible' \subseteq visible
    BY <1>6 DEF SweepExpired, Restart, Retire, approvalVars
<1> QED
    BY <1>2, <1>3, <1>4, <1>5, <1>6 DEF ApprovalNext

\* The gate opens only for a request that is approved, and stays right: an
\* approved row is never taken back.
THEOREM GateFollowsDecision == ApprovalSpec => []AllowedMeansApproved
<1>1. ApprovalInit => AllowedMeansApproved
    BY DEF ApprovalInit, AllowedMeansApproved
<1>2. ASSUME ApprovalTypeOK, AllowedMeansApproved, [ApprovalNext]_approvalVars
      PROVE  AllowedMeansApproved'
    <2> SUFFICES ASSUME NEW r \in Requests, gate'[r] = "allowed", SessionOf[r] \in visible'
                 PROVE  requests'[r].state = "approved"
        BY DEF AllowedMeansApproved
    <2>1. SessionOf[r] \in visible
        BY <1>2, CommandsStay
    <2>2. CASE gate[r] = "allowed"
        <3>1. requests[r].state = "approved"
            BY <1>2, <2>1, <2>2 DEF AllowedMeansApproved
        <3>2. requests'[r] = requests[r]
            BY <1>2, <3>1, DecisionsFinalStep DEF Resolved
        <3> QED
            BY <3>1, <3>2
    <2>3. CASE gate[r] # "allowed"
        BY <1>2, <2>3, GateMove DEF GateMoves
    <2> QED
        BY <2>2, <2>3
<1> QED
    BY <1>1, <1>2, ApprovalsTypeCorrect, PTL DEF ApprovalSpec

\* A request that is not overridable passes by a user's own command only.
THEOREM CriticalIsDecidedByUser == ApprovalSpec => []CriticalNeedsUser
<1>1. ApprovalInit => CriticalNeedsUser
    BY ApprovalsAssumption DEF ApprovalInit, CriticalNeedsUser, NoRow
<1>2. ASSUME ApprovalTypeOK, CriticalNeedsUser, [ApprovalNext]_approvalVars
      PROVE  CriticalNeedsUser'
    <2> SUFFICES ASSUME NEW r \in Critical, requests'[r].state = "approved"
                 PROVE  requests'[r].via = "user" /\ UserApproves(r)'
        BY DEF CriticalNeedsUser, UserApproves
    <2>1. r \in Requests
        BY ApprovalsAssumption
    <2>2. requests'[r].via = "user" /\ UserApproves(r)
        <3>1. CASE requests'[r] = requests[r]
            BY <1>2, <2>1, <3>1 DEF CriticalNeedsUser, UserApproves
        <3>2. CASE requests'[r] # requests[r]
            BY <1>2, <2>1, <3>2, RowsMove DEF RowMoves, NoRow
        <3> QED
            BY <3>1, <3>2
    <2>3. UserApproves(r)'
        BY <1>2, <2>2, CommandsStay DEF UserApproves
    <2> QED
        BY <2>2, <2>3
<1> QED
    BY <1>1, <1>2, ApprovalsTypeCorrect, PTL DEF ApprovalSpec

-----------------------------------------------------------------------------
(* Waiters and commands.                                                   *)

\* As long as no flush fails, whoever waits waits for a pending request: each
\* transaction that resolves a request is followed by the word to its waiter.
THEOREM WaitersWaitForPending == ApprovalSpec => []WaitersArePending
<1>1. ApprovalInit => WaitersArePending
    BY DEF ApprovalInit, WaitersArePending
<1>2. ASSUME ApprovalTypeOK, WaitersArePending, [ApprovalNext]_approvalVars
      PROVE  WaitersArePending'
    <2> DEFINE Goal == flushFaults' = 0 => \A r \in waiting' : requests'[r].state = "pending"
    <2> SUFFICES Goal
        BY DEF WaitersArePending, Pending
    <2>0. /\ waiting \subseteq Requests /\ flushFaults \in Nat
          /\ requests \in [Requests -> Row] /\ commands \in [Keys -> Command]
          /\ flushFaults = 0 => \A r \in waiting : requests[r].state = "pending"
        BY <1>2, ApprovalsAssumption DEF ApprovalTypeOK, WaitersArePending, Pending
    <2>1. ASSUME NEW R, FlushAndSettle(R, requests'),
                 \A r \in Requests \ R : requests'[r] = requests[r]
          PROVE  Goal
        <3>1. CASE waiting' = waiting \ R /\ flushFaults' = flushFaults
            BY <2>0, <2>1, <3>1
        <3>2. CASE flushFaults' = flushFaults + 1
            BY <2>0, <3>2
        <3> QED
            BY <2>1, <3>1, <3>2 DEF FlushAndSettle, Settle
    <2>2. ASSUME waiting' = waiting, flushFaults' = flushFaults, requests' = requests
          PROVE  Goal
        BY <2>0, <2>2
    <2>3. ASSUME NEW r \in Requests, RequireApproval(r)
          PROVE  Goal
        <3>1. /\ requests'[r].state = IF AutoApproved(r) THEN "approved" ELSE "pending"
              /\ \A q \in Requests \ {r} : requests'[q] = requests[q]
            BY <2>0, <2>3, CreatedRow DEF RequireApproval
        <3>2. ~Asked(r) /\ flushFaults' = flushFaults
            BY <2>3 DEF RequireApproval, CanRequire
        <3>3. waiting' = IF AutoApproved(r) THEN waiting ELSE waiting \union {r}
            BY <2>3 DEF RequireApproval
        <3> QED
            BY <2>0, <3>1, <3>2, <3>3 DEF Asked
    <2>4. ASSUME NEW r \in Requests, RequireAborted(r)
          PROVE  Goal
        <3>1. /\ \A q \in Requests \ {r} : Created(r)[q] = requests[q]
              /\ requests' = Terminated(Created(r), {r}, "cancelled", NoKey, "system")
              /\ waiting' = waiting /\ flushFaults' = flushFaults /\ ~Asked(r)
            BY <2>0, <2>4, CreatedRow DEF RequireAborted, CanRequire
        <3>2. \A q \in Requests \ {r} : requests'[q] = requests[q]
            BY <3>1 DEF Terminated
        <3> QED
            BY <2>0, <3>1, <3>2 DEF Asked
    <2>5. ASSUME NEW r \in Requests, RequireFails(r)
          PROVE  Goal
        BY <2>0, <2>5 DEF RequireFails
    <2>6. ASSUME NEW r \in Requests, Abort(r)
          PROVE  Goal
        <3>1. waiting' = waiting \ {r} /\ flushFaults' \in {flushFaults, flushFaults + 1}
            BY <2>6 DEF Abort
        <3>2. \A q \in Requests \ {r} : requests'[q] = requests[q]
            BY <2>6 DEF Abort, Terminated
        <3> QED
            BY <2>0, <3>1, <3>2
    <2>7. ASSUME NEW k \in Keys, NEW r \in Requests,
                 Decide(k, r) \/ DecideExpires(k, r) \/ DecideSuperseded(k, r)
          PROVE  Goal
        <3>1. FlushAndSettle({r}, requests')
            BY <2>7 DEF Decide, DecideExpires, DecideSuperseded
        <3>2. \A q \in Requests \ {r} : requests'[q] = requests[q]
            BY <2>7 DEF Decide, DecideExpires, DecideSuperseded, Terminated
        <3> QED
            BY <2>1, <3>1, <3>2
    <2>8. ASSUME NEW k \in Keys, NEW s \in Sessions, PolicyRetried(k, s)
          PROVE  Goal
        <3>1. CASE commands[k].requests = {}
            BY <2>2, <2>8, <3>1 DEF PolicyRetried
        <3>2. CASE commands[k].requests # {}
            <4>1. FlushAndSettle(commands[k].requests, requests') /\ requests' = requests
                BY <2>8, <3>2 DEF PolicyRetried
            <4> QED
                BY <2>1, <4>1
        <3> QED
            BY <3>1, <3>2
    <2>9. ASSUME NEW k \in Keys, NEW s \in Sessions, UpdatePolicy(k, s)
          PROVE  Goal
        <3>1. \A q \in Requests \ commands[k].requests : requests'[q] = requests[q]
            BY <2>9 DEF UpdatePolicy, Terminated
        <3>2. CASE commands[k].requests = {}
            BY <2>0, <2>9, <3>1, <3>2 DEF UpdatePolicy
        <3>3. CASE commands[k].requests # {}
            <4>1. FlushAndSettle(commands[k].requests, requests')
                BY <2>9, <3>3 DEF UpdatePolicy
            <4> QED
                BY <2>1, <3>1, <4>1
        <3> QED
            BY <3>2, <3>3
    <2>10. ASSUME SweepExpired
           PROVE  Goal
        <3> DEFINE R == {r \in due : Pending(r)}
        <3>1. FlushAndSettle(R, requests')
            BY <2>10 DEF SweepExpired
        <3>2. \A q \in Requests \ R : requests'[q] = requests[q]
            BY <2>10 DEF SweepExpired, Terminated
        <3> HIDE DEF R
        <3> QED
            BY <2>1, <3>1, <3>2
    <2>11. ASSUME Restart
           PROVE  Goal
        BY <2>11 DEF Restart
    <2>12. ASSUME NEW s \in Sessions, Retire(s)
           PROVE  Goal
        <3>1. /\ waiting' = waiting /\ flushFaults' = flushFaults
              /\ \A q \in waiting : q \notin OfSession(s)
              /\ \A q \in Requests \ OfSession(s) : requests'[q] = requests[q]
            BY <2>12 DEF Retire
        <3> QED
            BY <2>0, <3>1
    <2>13. ASSUME NEW r \in Requests, DeadlinePasses(r)
           PROVE  Goal
        BY <2>2, <2>13 DEF DeadlinePasses
    <2>14. ASSUME NEW k \in Keys, Compose(k)
           PROVE  Goal
        BY <2>2, <2>14 DEF Compose, ComposeDecision, ComposePolicy
    <2>15. ASSUME UNCHANGED approvalVars
           PROVE  Goal
        BY <2>2, <2>15 DEF approvalVars
    <2> HIDE DEF Goal
    <2> QED
        BY <1>2, <2>3, <2>4, <2>5, <2>6, <2>7, <2>8, <2>9, <2>10, <2>11, <2>12, <2>13, <2>14,
           <2>15 DEF ApprovalNext, Deliver
<1> QED
    BY <1>1, <1>2, ApprovalsTypeCorrect, PTL DEF ApprovalSpec

\* The inductive invariant of the commands: one that took effect cannot do so
\* again, because its request is resolved, or because the policy has moved on
\* from the revision it names, or because the Session is gone.
CommandSpent ==
    \A k \in Keys : applied[k] # 0 =>
        /\ applied[k] = 1
        /\ commands[k].type \in {"decide", "policy"}
        /\ commands[k].type = "decide" =>
              \/ SessionOf[commands[k].request] \notin visible
              \/ requests[commands[k].request].state \in Resolved
        /\ commands[k].type = "policy" =>
              \/ commands[k].session \notin visible
              \/ policies[commands[k].session].revision > commands[k].revision

\* The revision of a policy never falls while its Session exists, and a
\* command that takes effect was not spent, and is now.
LEMMA CommandMoves ==
    ASSUME ApprovalTypeOK, [ApprovalNext]_approvalVars
    PROVE  /\ \A s \in Sessions \intersect visible' : policies'[s].revision >= policies[s].revision
           /\ \A k \in Keys : \/ applied'[k] = applied[k]
                              \/ /\ applied'[k] = applied[k] + 1
                                 /\ commands'[k] = commands[k]
                                 /\ \/ /\ commands[k].type = "decide"
                                       /\ SessionOf[commands[k].request] \in visible
                                       /\ Pending(commands[k].request)
                                       /\ requests'[commands[k].request].state \in Resolved
                                    \/ /\ commands[k].type = "policy"
                                       /\ commands[k].session \in visible
                                       /\ policies[commands[k].session].revision = commands[k].revision
                                       /\ policies'[commands[k].session].revision > commands[k].revision
<1> DEFINE Applies(k) ==
              /\ applied'[k] = applied[k] + 1
              /\ commands'[k] = commands[k]
              /\ \/ /\ commands[k].type = "decide"
                    /\ SessionOf[commands[k].request] \in visible
                    /\ Pending(commands[k].request)
                    /\ requests'[commands[k].request].state \in Resolved
                 \/ /\ commands[k].type = "policy"
                    /\ commands[k].session \in visible
                    /\ policies[commands[k].session].revision = commands[k].revision
                    /\ policies'[commands[k].session].revision > commands[k].revision
           Goal == /\ \A s \in Sessions \intersect visible' :
                          policies'[s].revision >= policies[s].revision
                   /\ \A k \in Keys : applied'[k] = applied[k] \/ Applies(k)
<1> SUFFICES Goal
    OBVIOUS
<1>0. /\ requests \in [Requests -> Row] /\ policies \in [Sessions -> Policy]
      /\ commands \in [Keys -> Command] /\ applied \in [Keys -> Nat]
      /\ \A s \in Sessions : policies[s].revision \in Nat
    BY DEF ApprovalTypeOK, Policy
<1>1. ASSUME policies' = policies, applied' = applied
      PROVE  Goal
    BY <1>0, <1>1
<1>2. ASSUME NEW k \in Keys, NEW r \in Requests, Decide(k, r)
      PROVE  Goal
    <2>1. /\ commands[k].type = "decide" /\ commands[k].request = r
          /\ SessionOf[r] \in visible /\ Pending(r)
          /\ requests' = Terminated(requests, {r}, commands[k].state, k, "user")
          /\ applied' = [applied EXCEPT ![k] = applied[k] + 1]
          /\ policies' = policies /\ commands' = commands
        BY <1>2 DEF Decide, Delivers
    <2>2. commands[k].state \in Resolved
        BY <1>0, <2>1, CommandFields DEF Resolved
    <2>3. requests'[r].state \in Resolved
        BY <2>1, <2>2 DEF Terminated
    <2>4. applied'[k] = applied[k] + 1 /\ \A q \in Keys \ {k} : applied'[q] = applied[q]
        BY <1>0, <2>1
    <2>5. Applies(k)
        BY <2>1, <2>3, <2>4
    <2> HIDE DEF Applies
    <2> QED
        BY <1>0, <2>1, <2>4, <2>5
<1>3. ASSUME NEW k \in Keys, NEW s \in Sessions, UpdatePolicy(k, s)
      PROVE  Goal
    <2>1. /\ commands[k].type = "policy" /\ commands[k].session = s /\ s \in visible
          /\ commands[k].revision = policies[s].revision
          /\ applied' = [applied EXCEPT ![k] = applied[k] + 1]
          /\ commands' = commands
        BY <1>3 DEF UpdatePolicy, PolicyAcceptable, DeliversPolicy
    <2>2. /\ policies'[s].revision = policies[s].revision + 1
          /\ \A t \in Sessions \ {s} : policies'[t] = policies[t]
        BY <1>0, <1>3 DEF UpdatePolicy
    <2>3. applied'[k] = applied[k] + 1 /\ \A q \in Keys \ {k} : applied'[q] = applied[q]
        BY <1>0, <2>1
    <2>4. Applies(k)
        BY <1>0, <2>1, <2>2, <2>3
    <2> HIDE DEF Applies
    <2> QED
        BY <1>0, <2>2, <2>3, <2>4
<1>4. ASSUME Restart
      PROVE  Goal
    <2>1. applied' = applied
        BY <1>4 DEF Restart
    <2>2. \A s \in Sessions : policies'[s].revision >= policies[s].revision
        BY <1>0, <1>4, PoliciesReset
    <2> QED
        BY <2>1, <2>2
<1>5. ASSUME NEW s \in Sessions, Retire(s)
      PROVE  Goal
    <2>1. /\ applied' = applied /\ s \notin visible'
          /\ \A t \in Sessions \ {s} : policies'[t] = policies[t]
        BY <1>0, <1>5 DEF Retire
    <2> QED
        BY <1>0, <2>1
<1>6. ASSUME NEW r \in Requests,
             \/ RequireApproval(r) \/ RequireAborted(r) \/ RequireFails(r) \/ Abort(r)
             \/ DeadlinePasses(r)
      PROVE  Goal
    BY <1>1, <1>6 DEF RequireApproval, RequireAborted, RequireFails, Abort, DeadlinePasses
<1>7. ASSUME NEW k \in Keys, NEW r \in Requests, DecideExpires(k, r) \/ DecideSuperseded(k, r)
      PROVE  Goal
    BY <1>1, <1>7 DEF DecideExpires, DecideSuperseded
<1>8. ASSUME NEW k \in Keys, NEW s \in Sessions, PolicyRetried(k, s)
      PROVE  Goal
    BY <1>1, <1>8 DEF PolicyRetried
<1>9. ASSUME NEW k \in Keys, Compose(k)
      PROVE  Goal
    BY <1>1, <1>9 DEF Compose, ComposeDecision, ComposePolicy
<1>10. ASSUME SweepExpired \/ UNCHANGED approvalVars
       PROVE  Goal
    BY <1>1, <1>10 DEF SweepExpired, approvalVars
<1> HIDE DEF Goal
<1> QED
    BY <1>2, <1>3, <1>4, <1>5, <1>6, <1>7, <1>8, <1>9, <1>10 DEF ApprovalNext, Deliver

\* However often a command is delivered, and whatever restarts, sweeps and
\* other commands come in between, it takes effect at most once.
THEOREM CommandsAreIdempotent == ApprovalSpec => []CommandAppliedOnce
<1>1. ApprovalInit => CommandSpent
    BY DEF ApprovalInit, CommandSpent
<1>2. ASSUME ApprovalTypeOK, CommandSpent, [ApprovalNext]_approvalVars
      PROVE  CommandSpent'
    <2> SUFFICES ASSUME NEW k \in Keys, applied'[k] # 0
                 PROVE  /\ applied'[k] = 1
                        /\ commands'[k].type \in {"decide", "policy"}
                        /\ commands'[k].type = "decide" =>
                              \/ SessionOf[commands'[k].request] \notin visible'
                              \/ requests'[commands'[k].request].state \in Resolved
                        /\ commands'[k].type = "policy" =>
                              \/ commands'[k].session \notin visible'
                              \/ policies'[commands'[k].session].revision > commands'[k].revision
        BY DEF CommandSpent
    <2>0. /\ commands[k] \in Command /\ visible' \subseteq visible /\ visible \subseteq Sessions
          /\ policies \in [Sessions -> Policy] /\ applied[k] \in Nat
        BY <1>2, CommandsStay DEF ApprovalTypeOK
    <2>1. CASE applied'[k] = applied[k]
        <3>1. commands'[k] = commands[k]
            BY <1>2, <2>1, CommandsStay DEF CommandSpent
        <3>2. CASE commands[k].type = "decide"
            <4>1. commands[k].request \in Requests
                BY <2>0, <3>2, CommandFields
            <4>2. CASE requests[commands[k].request].state \in Resolved
                BY <1>2, <2>1, <3>1, <3>2, <4>1, <4>2, DecisionsFinalStep DEF CommandSpent
            <4>3. CASE requests[commands[k].request].state \notin Resolved
                BY <1>2, <2>0, <2>1, <3>1, <3>2, <4>3 DEF CommandSpent
            <4> QED
                BY <4>2, <4>3
        <3>3. CASE commands[k].type = "policy"
            <4> DEFINE s == commands[k].session
            <4>1. s \in Sessions /\ commands[k].revision \in Nat
                BY <2>0, <3>3, CommandFields
            <4>2. /\ applied[k] = 1
                  /\ s \notin visible \/ policies[s].revision > commands[k].revision
                BY <1>2, <2>1, <3>3 DEF CommandSpent
            <4>3. policies[s].revision \in Nat /\ policies'[s].revision \in Nat
                BY <1>2, <4>1, TypeStep DEF ApprovalTypeOK, Policy
            <4>4. s \notin visible' \/ policies'[s].revision >= policies[s].revision
                BY <1>2, <4>1, CommandMoves
            <4> QED
                BY <2>0, <2>1, <3>1, <3>3, <4>1, <4>2, <4>3, <4>4
        <3> QED
            BY <1>2, <2>1, <3>2, <3>3 DEF CommandSpent
    <2>2. CASE applied'[k] # applied[k]
        <3>1. applied[k] = 0
            <4>1. CASE commands[k].type = "decide"
                BY <1>2, <2>0, <2>2, <4>1, CommandMoves DEF CommandSpent, Pending, Resolved
            <4>2. CASE commands[k].type = "policy"
                <5>1. commands[k].session \in Sessions /\ commands[k].revision \in Nat
                    BY <2>0, <4>2, CommandFields
                <5> QED
                    BY <1>2, <2>2, <4>2, <5>1, CommandMoves DEF CommandSpent
            <4> QED
                BY <1>2, <2>2, <4>1, <4>2, CommandMoves
        <3> QED
            BY <1>2, <2>0, <2>2, <3>1, CommandMoves
    <2> QED
        BY <2>1, <2>2
<1>3. ApprovalTypeOK /\ CommandSpent => CommandAppliedOnce
    BY DEF ApprovalTypeOK, CommandSpent, CommandAppliedOnce
<1> QED
    BY <1>1, <1>2, <1>3, ApprovalsTypeCorrect, PTL DEF ApprovalSpec
================================================================================
