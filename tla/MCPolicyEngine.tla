--------------------------- MODULE MCPolicyEngine ---------------------------
(***************************************************************************)
(* A small instance of PolicyEngine: an attacker with enough requests for  *)
(* a block, a bystander, and budgets that their requests use up.           *)
(***************************************************************************)
EXTENDS PolicyEngine, TLC

CONSTANTS r1, r2, r3, r4, eve, bob, main, backup, spare

MCAttackRequests == {r1, r2, r3, r4}
MCClients == {eve, bob}
MCClientOf == [r \in Requests |-> IF r = r4 THEN bob ELSE eve]
MCProviders == {main, backup, spare}
MCChain == <<main, backup>>
MCFindings == {1, 2}
MCOneAmount == {1}

Unlimited == 100
Rule(p, lo, target) ==
    [provider |-> p, lo |-> lo, hi |-> Unlimited, switch_to |-> target]

\* Everybody has a budget; one that is well past it passes on to backup, which
\* is then not asked for its own.
MCBudgetRules == <<Rule(main, 2, backup), Rule(None, 1, None)>>

\* The attacker's requests are alike.
AttackSymmetry == Permutations({r1, r2, r3})
=============================================================================
