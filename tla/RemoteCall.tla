----------------------------- MODULE RemoteCall -----------------------------
(***************************************************************************)
(* What calls over a process connection promise: each is carried out at    *)
(* most once; a result or a refusal is the truth; whoever gives up knows   *)
(* nothing.  The promise of packages/process-rpc-core/src/peer.ts.         *)
(***************************************************************************)
CONSTANT Requests

VARIABLES
    known,     \* what the caller knows of each call
    fate       \* what became of it at the other end

callVars == <<known, fate>>

Knowledge == {"nothing", "ok", "failed", "refused", "unknown"}
Fates == {"open", "running", "done", "failed", "refused"}

CallInit ==
    /\ known = [r \in Requests |-> "nothing"]
    /\ fate = [r \in Requests |-> "open"]

-----------------------------------------------------------------------------
(* What may happen to one call: from k and f to k2 and f2.                 *)

\* The other end takes the call, or refuses it for good.
Decided(k, f, k2, f2) == f = "open" /\ f2 \in {"running", "refused"} /\ k2 = k

Finished(k, f, k2, f2) == f = "running" /\ f2 \in {"done", "failed"} /\ k2 = k

\* An error may be told of a result that could not be sent.
Learnt(k, f, k2, f2) ==
    /\ k = "nothing"
    /\ \/ k2 = "ok" /\ f = "done"
       \/ k2 = "failed" /\ f \in {"done", "failed"}
       \/ k2 = "refused" /\ f = "refused"
    /\ f2 = f

\* The call is refused before it is sent.
Withheld(k, f, k2, f2) == k = "nothing" /\ f = "open" /\ k2 = "refused" /\ f2 = "refused"

\* A deadline, a cancellation or a lost connection.
GivenUp(k, f, k2, f2) == k = "nothing" /\ k2 = "unknown" /\ f2 = f

Move(k, f, k2, f2) ==
    \/ Decided(k, f, k2, f2)
    \/ Finished(k, f, k2, f2)
    \/ Learnt(k, f, k2, f2)
    \/ Withheld(k, f, k2, f2)
    \/ GivenUp(k, f, k2, f2)
    \/ k2 = k /\ f2 = f

\* A connection that closes ends several calls at once.
CallNext ==
    /\ known' \in [Requests -> Knowledge]
    /\ fate' \in [Requests -> Fates]
    /\ \A r \in Requests : Move(known[r], fate[r], known'[r], fate'[r])

CallSpec == CallInit /\ [][CallNext]_callVars

-----------------------------------------------------------------------------
\* A call that is known to be refused is never carried out; one that is known
\* to have succeeded was.
KnowledgeIsTruth ==
    \A r \in Requests :
        /\ known[r] = "ok" => fate[r] = "done"
        /\ known[r] = "failed" => fate[r] \in {"done", "failed"}
        /\ known[r] = "refused" => fate[r] = "refused"

=============================================================================
