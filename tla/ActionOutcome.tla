--------------------------- MODULE ActionOutcome ---------------------------
(***************************************************************************)
(* What the Action pipeline promises, without how: each Action has one     *)
(* outcome (the one a Box records) and one verdict (the one the Agent      *)
(* Server shows to the user, to the model and to whoever deletes the       *)
(* Session).  The server may be without a verdict, may be in doubt, and    *)
(* may give an Action up that never started; apart from that its verdict   *)
(* is the outcome, and it does not change.                                 *)
(*                                                                         *)
(* ActionPipeline implements this module.                                  *)
(***************************************************************************)
EXTENDS Actions

VARIABLES
    truth,      \* the outcome of each Action, "none" while it has none
    verdict     \* what the server says of it: open, unknown or an outcome

outcomeVars == <<truth, verdict>>

Truths   == EvidenceStates \union {"none"}
Verdicts == TerminalStates \union {"open", "unknown"}

\* What the server says once it has learnt outcome s.
Says(s) == IF s = "outcome_unknown" THEN "unknown" ELSE s

OutcomeInit ==
    /\ truth = [i \in Invocations |-> "none"]
    /\ verdict = [i \in Invocations |-> "open"]

-----------------------------------------------------------------------------
(* What may happen to one Action: from truth t and verdict v to t2 and v2. *)

\* The Box records the outcome; an Action the server gave up never has one.
Recorded(t, v, t2, v2) == t = "none" /\ v \in {"open", "unknown"} /\ t2 # "none" /\ v2 = v

\* The server learns the outcome.
Learnt(t, v, t2, v2) == t # "none" /\ v \in {"open", "unknown"} /\ t2 = t /\ v2 = Says(t)

\* The server is in doubt: a timeout, a lost connection, a crash.
Doubted(t, v, t2, v2) == v = "open" /\ v2 = "unknown" /\ t2 = t

\* The server gives the Action up, because it never started.
GivenUp(t, v, t2, v2) == t = "none" /\ v = "open" /\ t2 = t /\ v2 = "cancelled"

Move(t, v, t2, v2) ==
    \/ Recorded(t, v, t2, v2)
    \/ Learnt(t, v, t2, v2)
    \/ Doubted(t, v, t2, v2)
    \/ GivenUp(t, v, t2, v2)
    \/ t2 = t /\ v2 = v

\* One message or one restart may settle several Actions at once.
OutcomeNext ==
    /\ truth' \in [Invocations -> Truths]
    /\ verdict' \in [Invocations -> Verdicts]
    /\ \A i \in Invocations : Move(truth[i], verdict[i], truth'[i], verdict'[i])

OutcomeSpec == OutcomeInit /\ [][OutcomeNext]_outcomeVars

-----------------------------------------------------------------------------
OutcomeTypeOK ==
    /\ truth \in [Invocations -> Truths]
    /\ verdict \in [Invocations -> Verdicts]

\* A final verdict of the server is what happened: it is the outcome the Box
\* recorded, or "cancelled" for an Action that has no outcome and never will.
VerdictIsTruth ==
    \A i \in Invocations :
        verdict[i] \in TerminalStates =>
            \/ verdict[i] = truth[i]
            \/ verdict[i] = "cancelled" /\ truth[i] = "none"

\* Neither an outcome nor a final verdict is ever revised.
NothingRevised ==
    [][\A i \in Invocations :
           /\ truth[i] # "none" => truth'[i] = truth[i]
           /\ verdict[i] \in TerminalStates => verdict'[i] = verdict[i]]_outcomeVars
=============================================================================
