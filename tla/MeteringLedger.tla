--------------------------- MODULE MeteringLedger ---------------------------
(***************************************************************************)
(* Metering seen as the ledger it implements on one day with a fail-closed *)
(* backend: the reservation records are the lines of QuotaLedger, and the  *)
(* token counters are the sums of what the lines hold.                     *)
(***************************************************************************)
EXTENDS Metering, FiniteSetsExt

\* The sum of the values of f over S.
SumOver(f, S) == MapThenSumSet(LAMBDA x : f[x], S)

\* The requests that a token counter counts.
CountedBy(k) == {r \in Requests : k \in TokenKeys(r, k[3])}

\* On one day with a fail-closed backend every token counter equals the sum of
\* what its requests are charged: each admission and each settle is counted
\* once and the clamp of SETTLE_LUA never discards anything.
Conservation ==
    \A k \in Keys :
        k[1] \in {"c:tokens", "p:tokens", "m:tokens"} =>
            bucket[k] = SumOver(charge, CountedBy(k))

\* A record that expires unsettled closes its line like a settled one.
Line == [r \in Requests |-> CASE rsvKey[r] = "absent" -> "none"
                              [] rsvKey[r] = "open" -> "open"
                              [] OTHER -> "closed"]

Ledger == INSTANCE QuotaLedger WITH line <- Line

\* On one day Redis, its scripts and their callers implement the ledger, with
\* deadlines, lost and late commands, repeated settles and expiring
\* reservations.
RefinesLedger == Ledger!Spec
=============================================================================
