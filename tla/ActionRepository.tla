-------------------------- MODULE ActionRepository --------------------------
(***************************************************************************)
(* The Agent Server's durable record of Actions: the intent and the        *)
(* execution grant of every invocation                                     *)
(* (packages/database/src/action-repository.ts, table action_intents and   *)
(* table execution_grants).  Each operation is one SQLite transaction, so  *)
(* each is one action; an operation that throws leaves the row alone.      *)
(*                                                                         *)
(* A row is [state, acked, receipt, consumed]: acked stands for            *)
(* serverAckedAtMs, receipt for boxReceiptConfirmedAtMs and consumed for   *)
(* the grant's consumedAtMs being set.  The result of a succeeded Action   *)
(* is not modelled: one invocation has one result, so "succeeded" is the   *)
(* state and the result hash together.                                     *)
(***************************************************************************)
EXTENDS Actions

CONSTANT
    Local            \* those whose target is the Agent Server itself (server MCP)

ASSUME RepositoryAssumption == Local \subseteq Invocations

VARIABLE intents     \* the rows of action_intents, joined with their grants

-----------------------------------------------------------------------------
IntentStates == EvidenceStates \union {"none", "granted", "running"}

Intent == [state : IntentStates, acked : BOOLEAN, receipt : BOOLEAN, consumed : BOOLEAN]

NoIntent == [state |-> "none", acked |-> FALSE, receipt |-> FALSE, consumed |-> FALSE]

RepositoryInit == intents = [i \in Invocations |-> NoIntent]

isTerminal(i) == intents[i].state \in TerminalStates
Exists(i)     == intents[i].state # "none"

\* createGrant: the invocation id is unique, a second insert throws.
CreateGrant(i) ==
    /\ ~Exists(i)
    /\ intents' = [intents EXCEPT ![i].state = "granted"]

\* consumeGrant: once, and only while the intent awaits execution.
ConsumeGrant(i) ==
    /\ intents[i].state = "granted"
    /\ ~intents[i].consumed
    /\ intents' = [intents EXCEPT ![i].state = "running", ![i].consumed = TRUE]

\* markFailed, markCancelled and markOutcomeUnknown: what the caller concluded
\* without evidence.  A terminal row stays as it is; a server-side Action has
\* no Box to wait for, so its evidence counts as acknowledged at once.
Conclude(i, state) ==
    /\ Exists(i)
    /\ IF isTerminal(i)
         THEN UNCHANGED intents
         ELSE intents' = [intents EXCEPT ![i].state = state,
                                         ![i].acked = @ \/ i \in Local]

MarkFailed(i)         == Conclude(i, "failed")
MarkCancelled(i)      == Conclude(i, "cancelled")
MarkOutcomeUnknown(i) == Conclude(i, "outcome_unknown")

\* cancelUndispatched: the Action never reached a Box, so there is nothing to
\* acknowledge and no receipt to wait for.
CancelUndispatched(i) ==
    /\ Exists(i)
    /\ IF isTerminal(i)
         THEN UNCHANGED intents
         ELSE intents' = [intents EXCEPT ![i].state = "cancelled",
                                         ![i].acked = TRUE, ![i].receipt = TRUE]

\* complete() throws ActionEvidenceConflictError when it cannot accept "state"
\* as the outcome the Box of i reports in table t.
Conflicts(t, i, state) ==
    \/ t[i].state = "none"
    \/ i \in Local
    \/ ~t[i].consumed
    \/ t[i].state \in TerminalStates /\ t[i].state # state

\* complete: evidence from the Box replaces whatever the server believed,
\* unless that was terminal.
Complete(i, state) ==
    /\ ~Conflicts(intents, i, state)
    /\ intents' = [intents EXCEPT ![i].state = state]

\* completeLocal: the result of a server-side Action, persisted in-process.
CompleteLocal(i) ==
    /\ i \in Local
    /\ intents[i].consumed
    /\ \/ /\ intents[i].state = "running"
          /\ intents' = [intents EXCEPT ![i].state = "succeeded", ![i].acked = TRUE]
       \/ /\ intents[i].state = "succeeded"
          /\ UNCHANGED intents

\* markServerAcked throws on a row that has no outcome yet.
Ackable(t, i) == t[i].state \in EvidenceStates

Acked(t, ids) == [i \in Invocations |-> IF i \in ids THEN [t[i] EXCEPT !.acked = TRUE] ELSE t[i]]

MarkServerAcked(ids) ==
    /\ \A i \in ids : Ackable(intents, i)
    /\ intents' = Acked(intents, ids)

\* markReceiptConfirmed skips an invocation it does not know and throws on one
\* whose evidence is not acknowledged.
ReceiptAcceptable(t, i) == t[i].state = "none" \/ (t[i].acked /\ i \notin Local)

Receipted(t, ids) ==
    [i \in Invocations |->
        IF i \in ids /\ t[i].state # "none" THEN [t[i] EXCEPT !.receipt = TRUE] ELSE t[i]]

MarkReceiptConfirmed(ids) ==
    /\ \A i \in ids : ReceiptAcceptable(intents, i)
    /\ intents' = Receipted(intents, ids)

\* Wrong variant: a restart cancels what was running.
RecoverByCancelling(t) ==
    intents' = [i \in Invocations |->
        IF t[i].state \in {"granted", "running"}
          THEN [t[i] EXCEPT !.state = "cancelled", !.acked = TRUE, !.receipt = TRUE] ELSE t[i]]

\* recoverOnStartup: no caller survived the restart.  A grant that was never
\* consumed was never sent; anything that was running may have happened.  t is
\* the table the crash left.
RecoverOnStartup(t) ==
    intents' = [i \in Invocations |->
        CASE t[i].state = "granted" ->
                 [t[i] EXCEPT !.state = "cancelled", !.acked = TRUE, !.receipt = TRUE]
          [] t[i].state = "running" ->
                 [t[i] EXCEPT !.state = "outcome_unknown", !.acked = @ \/ i \in Local]
          [] OTHER -> t[i]]

\* hasUnacknowledgedForSession: what keeps a Session from being deleted.
Unacknowledged(i) ==
    Exists(i) /\ IF i \in Local THEN ~intents[i].acked ELSE ~intents[i].receipt
=============================================================================
