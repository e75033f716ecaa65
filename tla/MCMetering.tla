----------------------------- MODULE MCMetering -----------------------------
(***************************************************************************)
(* Small instances of Metering: two clients that share one provider, so    *)
(* that the client and the provider budgets bind at different requests.    *)
(***************************************************************************)
EXTENDS MeteringLedger, TLC

CONSTANTS r1, r2, r3, alice, bob, prov, gpt

MCRequests == {r1, r2, r3}
MCTwoRequests == {r1, r2}
MCClients == {alice, bob}
MCProviders == {prov}
MCModels == {gpt}
MCClientOf == [r \in Requests |-> IF r = r3 THEN bob ELSE alice]
MCProviderOf == [r \in Requests |-> prov]
MCModelOf == [r \in Requests |-> gpt]
MCReserves == {1, 2}
MCOneReserve == {2}
MCUsages == {0, 1, 3}
MCBoundaryUsages == {0, 3}
MCSmallUsages == {0, 1}

\* One gateway fails closed, the other open.
MCMixed == {r1}

\* r1 and r2 are alike: the same client, provider and model.
Symmetry == Permutations({r1, r2})
=============================================================================
