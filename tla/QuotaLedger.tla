---------------------------- MODULE QuotaLedger ----------------------------
(***************************************************************************)
(* What the metering promises for one day, without Redis, keys, scripts,   *)
(* deadlines or lost commands: a ledger with one line per request.  A line *)
(* is opened only while the sums of the client's and the provider's lines  *)
(* leave room for it, is corrected to the real usage at most once, and is  *)
(* never struck out: a request that is never reconciled keeps its budget.  *)
(***************************************************************************)
EXTENDS Integers, FiniteSetsExt

CONSTANTS Requests, ClientOf, ProviderOf, Reserves, Usages,
          ClientTokensPerDay, ClientRequestsPerDay, ProviderTokensPerDay

VARIABLES line,    \* "none", "open" or "closed"
          charge   \* the tokens each line holds

vars == <<line, charge>>

Sum(rs) == MapThenSumSet(LAMBDA r : charge[r], rs)
OfClient(r) == {q \in Requests : ClientOf[q] = ClientOf[r]}
OfProvider(r) == {q \in Requests : ProviderOf[q] = ProviderOf[r]}
Within(limit, n) == limit >= 0 => n =< limit

Init ==
    /\ line = [r \in Requests |-> "none"]
    /\ charge = [r \in Requests |-> 0]

Open(r, n) ==
    /\ line[r] = "none"
    /\ Within(ClientTokensPerDay, Sum(OfClient(r)) + n)
    /\ Within(ProviderTokensPerDay, Sum(OfProvider(r)) + n)
    /\ Within(ClientRequestsPerDay,
              Cardinality({q \in OfClient(r) : line[q] # "none"}) + 1)
    /\ line' = [line EXCEPT ![r] = "open"]
    /\ charge' = [charge EXCEPT ![r] = n]

Reconcile(r, u) ==
    /\ line[r] = "open"
    /\ line' = [line EXCEPT ![r] = "closed"]
    /\ charge' = [charge EXCEPT ![r] = u]

\* Nobody reconciles the line any more; its budget stays consumed.
Forfeit(r) ==
    /\ line[r] = "open"
    /\ line' = [line EXCEPT ![r] = "closed"]
    /\ UNCHANGED charge

Next == \E r \in Requests :
    \/ \E n \in Reserves : Open(r, n)
    \/ \E u \in Usages : Reconcile(r, u)
    \/ Forfeit(r)

Spec == Init /\ [][Next]_vars
=============================================================================
