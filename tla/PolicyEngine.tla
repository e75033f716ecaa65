---------------------------- MODULE PolicyEngine ----------------------------
(***************************************************************************)
(* Routing in the Rust gateway: PolicyEngine (rust/fwllm-gateway/src/      *)
(* router.rs), the injection verdict that feeds it (inspectors/chain.rs)   *)
(* and the tasks that carry the verdicts to it (state.rs).                 *)
(*                                                                         *)
(* The engine is one value behind a lock, so each of its methods is one    *)
(* step.  What is hard is between the steps: a request is routed by the    *)
(* counters of that moment and charged when it has been served, an attack  *)
(* is counted by a task spawned when it is seen, and blocks, overrides,    *)
(* windows and days end by the clock.                                      *)
(***************************************************************************)
EXTENDS Integers, Sequences, FiniteSets

CONSTANTS
    Requests, Clients, ClientOf,
    Providers,
    None,           \* no provider
    Chain,          \* routing.default_chain
    Rules,          \* routing.rules
    Amounts,        \* total tokens of a served request
    Findings,       \* severity ranks the injection scan may end with
    BlockSeverity,  \* inspectors.injection.block_severity_gte, as a rank
    Blocking,       \* TRUE: inspectors.injection.mode is "block", not "log"
    MinSeverity,    \* attack_failover.min_severity, as a rank
    Count, Window, BlockSource, BlockTtl, SwitchTo, Cooldown,
                    \* the rest of attack_failover, which is enabled
    DayLen,         \* ticks of a day
    MaxTime         \* bound: the last tick

NoFinding == -1

\* A rule applies to one provider or, with None, to all; its threshold holds
\* for the counts lo..hi; switch_to = None stands for next_in_chain.
RuleSet == [provider : Providers \cup {None}, lo : Nat, hi : Nat,
            switch_to : Providers \cup {None}]

ASSUME PolicyAssumption ==
    /\ ClientOf \in [Requests -> Clients]
    /\ None \notin Providers
    /\ Chain \in Seq(Providers) /\ Chain # <<>>
    /\ Rules \in Seq(RuleSet)
    /\ Amounts \subseteq Nat
    /\ \E n \in Amounts : \A m \in Amounts : m =< n
    /\ Findings \subseteq 0..3
    /\ BlockSeverity \in 0..3 /\ MinSeverity \in 0..3
    /\ Blocking \in BOOLEAN /\ BlockSource \in BOOLEAN
    /\ SwitchTo \in Providers \cup {None}
    /\ Count \in Nat \ {0}
    /\ Window \in Nat /\ BlockTtl \in Nat /\ Cooldown \in Nat
    /\ DayLen \in Nat \ {0}
    /\ MaxTime \in Nat

VARIABLES
    now,        \* the clock
    override,   \* override_provider
    until,      \* override_until
    blocked,    \* blocked_sources (0: no entry)
    attacks,    \* attack_times, each with the request that caused it
    tokens,     \* provider_tokens, by provider and day
    events,     \* the tasks spawned by publish that have not run
    pc,         \* what has become of each request
    route       \* the provider it was routed to

(***************************************************************************)
(* Bookkeeping that the program does not keep, for the properties.         *)
(***************************************************************************)
VARIABLES
    routedAt,   \* when each request was routed
    hits,       \* every attack counted against a client
    spent,      \* those that a block or a switch has used up
    overBudget, \* the rules ruled the provider out when it was chosen
    peak        \* the most requests a provider has had in flight at once

engine == <<override, until, blocked, attacks, tokens>>
ghosts == <<routedAt, hits, spent, overBudget, peak>>
vars == <<now, override, until, blocked, attacks, tokens, events, pc,
          route, routedAt, hits, spent, overBudget, peak>>

Day(t) == t \div DayLen
Days == 0..Day(MaxTime)
Times == 0..MaxTime
Hits == [r : Requests, at : Times]

TypeOK ==
    /\ now \in Times
    /\ override \in Providers \cup {None}
    /\ until \in Nat
    /\ blocked \in [Clients -> Nat]
    /\ attacks \in [Clients -> SUBSET Hits]
    /\ \A c \in Clients : Cardinality(attacks[c]) < Count
    /\ tokens \in [Providers \X Days -> Nat]
    /\ events \subseteq [r : Requests, severity : 0..3]
    /\ pc \in [Requests -> {"new", "inspecting", "serving", "served", "failed",
                            "blocked", "blocked_source", "rate_limited"}]
    /\ route \in [Requests -> Providers \cup {None}]
    /\ routedAt \in [Requests -> Times]
    /\ hits \in [Clients -> SUBSET Hits]
    /\ spent \in [Clients -> SUBSET Hits]
    /\ overBudget \in [Requests -> BOOLEAN]
    /\ peak \in [Providers -> Nat]

Init ==
    /\ now = 0
    /\ override = None
    /\ until = 0
    /\ blocked = [c \in Clients |-> 0]
    /\ attacks = [c \in Clients |-> {}]
    /\ tokens = [pd \in Providers \X Days |-> 0]
    /\ events = {}
    /\ pc = [r \in Requests |-> "new"]
    /\ route = [r \in Requests |-> None]
    /\ routedAt = [r \in Requests |-> 0]
    /\ hits = [c \in Clients |-> {}]
    /\ spent = [c \in Clients |-> {}]
    /\ overBudget = [r \in Requests |-> FALSE]
    /\ peak = [p \in Providers |-> 0]

-----------------------------------------------------------------------------
(***************************************************************************)
(* PolicyEngine::resolve.                                                  *)
(***************************************************************************)
First(S) == CHOOSE i \in S : \A j \in S : i =< j

\* Slip: a rule without a provider applies to none.
ViolatesNamed(p, rule) ==
    /\ rule.provider = p
    /\ tokens[<<p, Day(now)>>] \in rule.lo..rule.hi

\* violates_rule, with Threshold::matches on today's count.
Violates(p, rule) ==
    /\ rule.provider \in {None, p}
    /\ tokens[<<p, Day(now)>>] \in rule.lo..rule.hi

Violated(p) == {i \in DOMAIN Rules : Violates(p, Rules[i])}

\* Slip: an override is applied for as long as it is stored.
AnyOverride == override # None

\* The cooldown is not over yet.
Overridden == override # None /\ now < until

\* The chain, behind the override while one is in force.  dedup only drops a
\* candidate equal to the one before it, which decides the same.
Candidates == (IF Overridden THEN <<override>> ELSE <<>>) \o Chain

\* What one candidate decides: itself, the target of its first violated rule,
\* or None when the next candidate has to be asked.
Verdict(p) ==
    IF Violated(p) = {} THEN p ELSE Rules[First(Violated(p))].switch_to

\* The provider resolve returns; None is BudgetExhausted.
Serving ==
    LET deciding == {i \in DOMAIN Candidates : Verdict(Candidates[i]) # None}
    IN  IF deciding = {} THEN None ELSE Verdict(Candidates[First(deciding)])

\* Slip: the block is looked up by its presence in the past, not the future.
BlockOver(c) == blocked[c] < now /\ blocked[c] # 0

IsBlocked(c) == blocked[c] > now

InFlight(p) ==
    {r \in Requests : route[r] = p /\ pc[r] \in {"inspecting", "serving"}}

\* An expired override is forgotten on the way, but not by a refused source.
Resolve(r) ==
    /\ pc[r] = "new"
    /\ IF IsBlocked(ClientOf[r])
       THEN /\ pc' = [pc EXCEPT ![r] = "blocked_source"]
            /\ UNCHANGED <<override, route, routedAt, overBudget, peak>>
       ELSE /\ override' = IF Overridden THEN override ELSE None
            /\ IF Serving = None
               THEN /\ pc' = [pc EXCEPT ![r] = "rate_limited"]
                    /\ UNCHANGED <<route, routedAt, overBudget, peak>>
               ELSE /\ pc' = [pc EXCEPT ![r] = "inspecting"]
                    /\ route' = [route EXCEPT ![r] = Serving]
                    /\ routedAt' = [routedAt EXCEPT ![r] = now]
                    /\ overBudget' =
                         [overBudget EXCEPT ![r] = Violated(Serving) # {}]
                    /\ LET n == Cardinality(InFlight(Serving)) + 1
                       IN  peak' = [peak EXCEPT ![Serving] = IF n > @ THEN n ELSE @]
    /\ UNCHANGED <<now, until, blocked, attacks, tokens, events,
                   hits, spent>>

-----------------------------------------------------------------------------
(***************************************************************************)
(* Detection.                                                              *)
(***************************************************************************)

\* process_request_with_client up to the verdict: a finding at or above
\* block_severity_gte is published by a spawned task, and in block mode the
\* request ends there.
Inspect(r, finding) ==
    /\ pc[r] = "inspecting"
    /\ LET published == finding # NoFinding /\ finding >= BlockSeverity IN
         /\ events' = IF published
                      THEN events \cup {[r |-> r, severity |-> finding]}
                      ELSE events
         /\ pc' = [pc EXCEPT ![r] = IF published /\ Blocking THEN "blocked"
                                    ELSE "serving"]
    /\ UNCHANGED <<now, engine, route, ghosts>>

\* Slips: the window is not pruned, or its far end is left out.
KeptForever(c) == attacks[c]
KeptShort(c) == {h \in attacks[c] : h.at > now - Window}

\* The entries of the window that are young enough.
Kept(c) == {h \in attacks[c] : h.at >= now - Window}

\* Slip: one attack more is waited for.
ReachedLate(entry) == Cardinality(entry) > Count

Reached(entry) == Cardinality(entry) >= Count

\* on_attack_detected, when the task gets the lock.
OnAttackDetected(e) ==
    LET c == ClientOf[e.r]
        hit == [r |-> e.r, at |-> now]
        entry == Kept(c) \cup {hit}
    IN  /\ events' = events \ {e}
        /\ IF e.severity < MinSeverity
           THEN UNCHANGED <<override, until, blocked, attacks, hits, spent>>
           ELSE /\ hits' = [hits EXCEPT ![c] = @ \cup {hit}]
                /\ IF ~Reached(entry)
                   THEN /\ attacks' = [attacks EXCEPT ![c] = entry]
                        /\ UNCHANGED <<override, until, blocked, spent>>
                   ELSE /\ attacks' = [attacks EXCEPT ![c] = {}]
                        /\ spent' = [spent EXCEPT ![c] = @ \cup entry]
                        /\ blocked' = IF BlockSource
                             THEN [blocked EXCEPT ![c] = now + BlockTtl]
                             ELSE blocked
                        /\ IF SwitchTo # None
                           THEN override' = SwitchTo /\ until' = now + Cooldown
                           ELSE UNCHANGED <<override, until>>
        /\ UNCHANGED <<now, tokens, pc, route, routedAt, overBudget,
                       peak>>

-----------------------------------------------------------------------------
(***************************************************************************)
(* Serving.                                                                *)
(***************************************************************************)

\* record_tokens_today, after the answer.
Serve(r, n) ==
    /\ pc[r] = "serving"
    /\ pc' = [pc EXCEPT ![r] = "served"]
    /\ tokens' = [tokens EXCEPT ![<<route[r], Day(now)>>] = @ + n]
    /\ UNCHANGED <<now, override, until, blocked, attacks, events,
                   route, ghosts>>

\* The DLP or the quota refuses, the provider fails, or the client leaves:
\* nothing is recorded.
Fail(r) ==
    /\ pc[r] = "serving"
    /\ pc' = [pc EXCEPT ![r] = "failed"]
    /\ UNCHANGED <<now, engine, events, route, ghosts>>

Tick ==
    /\ now < MaxTime
    /\ now' = now + 1
    /\ UNCHANGED <<engine, events, pc, route, ghosts>>

-----------------------------------------------------------------------------
Next ==
    \/ \E r \in Requests :
         \/ Resolve(r)
         \/ \E finding \in Findings \cup {NoFinding} : Inspect(r, finding)
         \/ \E n \in Amounts : Serve(r, n)
         \/ Fail(r)
    \/ \E e \in events : OnAttackDetected(e)
    \/ Tick

Spec == Init /\ [][Next]_vars

-----------------------------------------------------------------------------
(***************************************************************************)
(* Properties.                                                             *)
(***************************************************************************)

Within(h, t) == t - Window =< h.at /\ h.at =< t

\* A source is blocked only for Count attacks of its own that were counted
\* inside one window; nobody is blocked by another client's attacks.  (An attack
\* has the time of the task that counts it, not the time it was seen.)
BlockIsEarned ==
    \A c \in Clients : blocked[c] # 0 =>
        /\ BlockSource
        /\ Cardinality({h \in hits[c] : Within(h, blocked[c] - BlockTtl)})
             >= Count

\* No Count attacks of a client that have led to nothing were counted inside one
\* window: pruning the list by the clock of a later attack never loses one that
\* matters.
NoMissedAttack ==
    \A c \in Clients : \A h \in hits[c] \ spent[c] :
        Cardinality({g \in hits[c] \ spent[c] : Within(g, h.at)}) < Count

\* No request of a client is routed between the instant it was blocked and the
\* end of the block.
IsolatedWhileBlocked ==
    \A r \in Requests :
        LET end == blocked[ClientOf[r]] IN
        route[r] # None /\ end # 0 =>
            routedAt[r] =< end - BlockTtl \/ routedAt[r] >= end

\* A provider that the failover alone can choose gets requests only within the
\* cooldown of the last switch or of one before it.
FailoverEnds ==
    \A r \in Requests :
        route[r] # None /\ (\A i \in DOMAIN Chain : Chain[i] # route[r])
            /\ (\A i \in DOMAIN Rules : Rules[i].switch_to # route[r])
        => \E c \in Clients : \E h \in spent[c] :
             h.at =< routedAt[r] /\ routedAt[r] < h.at + Cooldown

MaxAmount == CHOOSE n \in Amounts : \A m \in Amounts : m =< n

\* A budget is overspent only by requests that were in flight together: each
\* was routed while the count allowed it, on whatever day it was charged.  A
\* provider that is over a budget is chosen only as the target of a rule, whose
\* own budgets are not looked at.  (A rule that holds from 0 on is no budget.)
OvershootBounded ==
    /\ \A r \in Requests :
          overBudget[r] => \E j \in DOMAIN Rules : Rules[j].switch_to = route[r]
    /\ \A p \in Providers, d \in Days, i \in DOMAIN Rules :
          /\ Rules[i].provider \in {None, p} /\ Rules[i].lo > 0
          /\ tokens[<<p, d>>] =< Rules[i].hi
          /\ \A j \in DOMAIN Rules : Rules[j].switch_to # p
          => tokens[<<p, d>>] < Rules[i].lo + MaxAmount * peak[p]
=============================================================================
