---------------------------- MODULE PolicyProofs ----------------------------
(***************************************************************************)
(* Proofs about PolicyEngine for any number of requests, clients,          *)
(* providers, rules and ticks: blocks are earned and respected, no attack  *)
(* is missed, the failover ends with its cooldown, and a budget is         *)
(* overspent only by requests that were in flight together.                *)
(***************************************************************************)
EXTENDS PolicyEngine, FiniteSetTheorems, WellFoundedInduction, TLAPS

-----------------------------------------------------------------------------
(* The invariants.                                                         *)

\* Only finitely many attacks have been counted and requests routed, and the
\* window of a client holds attacks of that client.
FiniteInv ==
    /\ \A c \in Clients : IsFiniteSet(hits[c]) /\ attacks[c] \subseteq hits[c]
    /\ IsFiniteSet({r \in Requests : route[r] # None})

\* Nothing recorded lies in the future, and a request has a route exactly from
\* the moment it is routed.
TimeInv ==
    /\ \A c \in Clients : \A h \in hits[c] : h.at =< now
    /\ \A r \in Requests : routedAt[r] =< now
    /\ \A r \in Requests : pc[r] = "new" => route[r] = None
    /\ \A r \in Requests : pc[r] \in {"inspecting", "serving"} => route[r] # None

\* Every counted attack that led to nothing and is young enough to matter is
\* still in the window.
WindowInv ==
    \A c \in Clients : \A h \in hits[c] \ spent[c] :
        h.at >= now - Window => h \in attacks[c]

\* An override in force was set by a hit that was used up then.
SwitchInv ==
    override # None => \E c \in Clients : \E h \in spent[c] :
        h.at =< now /\ until = h.at + Cooldown

\* The budget of rule i binds provider p.
Binds(p, i) ==
    /\ Rules[i].provider \in {None, p} /\ Rules[i].lo > 0
    /\ \A j \in DOMAIN Rules : Rules[j].switch_to # p

\* What is in flight on a provider never exceeded its peak.
PeakInv == \A p \in Providers : Cardinality(InFlight(p)) =< peak[p]

\* Once a budget of today is used up, what is spent and what the requests in
\* flight can still spend stay within the bound; the past days did.
Room(p, i) ==
    /\ tokens[<<p, Day(now)>>] \in Rules[i].lo..Rules[i].hi =>
         tokens[<<p, Day(now)>>] + MaxAmount * Cardinality(InFlight(p))
           < Rules[i].lo + MaxAmount * peak[p]
    /\ \A d \in Days : d < Day(now) /\ tokens[<<p, d>>] =< Rules[i].hi =>
         tokens[<<p, d>>] < Rules[i].lo + MaxAmount * peak[p]

RoomInv == \A p \in Providers, i \in DOMAIN Rules : Binds(p, i) => Room(p, i)

\* Nothing is charged to a day before it begins.
FutureInv ==
    \A p \in Providers, d \in Days : d > Day(now) => tokens[<<p, d>>] = 0

-----------------------------------------------------------------------------
(* Facts about the operators.                                              *)

\* A nonempty set of naturals has a least element.
LEMMA LeastNatural ==
    ASSUME NEW S, S \subseteq Nat, S # {}
    PROVE  \E m \in S : \A n \in S : m =< n
<1> DEFINE R == OpToRel(<, Nat)
<1>1. IsWellFoundedOn(R, Nat)
  BY NatLessThanWellFounded
<1>2. \A x, y \in Nat : <<x, y>> \in R <=> x < y
  BY DEF OpToRel
<1> HIDE DEF R
<1>3. PICK m \in S : \A n \in S : ~(<<n, m>> \in R)
  BY <1>1, WFMin
<1>4. \A n \in S : n \in Nat /\ m \in Nat /\ ~(n < m)
  BY <1>2, <1>3
<1>5. \A n \in S : m =< n
  BY <1>4
<1> QED  BY <1>3, <1>5

\* First picks an element of a nonempty set of positions.
LEMMA FirstIsIn ==
    ASSUME NEW S, S \subseteq Nat, S # {}
    PROVE  First(S) \in S /\ \A j \in S : First(S) =< j
<1>1. \E i \in S : \A j \in S : i =< j
  BY LeastNatural
<1> QED  BY <1>1 DEF First

\* A rule that a provider violates is one of the rules, and its target is a
\* provider or the next in the chain.
LEMMA RuleTypes ==
    ASSUME NEW i \in DOMAIN Rules
    PROVE  /\ Rules[i].switch_to \in Providers \cup {None}
           /\ Rules[i].lo \in Nat /\ Rules[i].hi \in Nat
<1>1. Rules \in Seq(RuleSet)
  BY PolicyAssumption
<1>2. Rules[i] \in RuleSet
  BY <1>1
<1> QED  BY <1>2 DEF RuleSet

\* What a candidate decides: itself, when no rule rules it out, or a target.
LEMMA VerdictValue ==
    ASSUME NEW p
    PROVE  \/ Verdict(p) = p /\ Violated(p) = {}
           \/ \E j \in DOMAIN Rules : Verdict(p) = Rules[j].switch_to
<1>1. CASE Violated(p) = {}
  BY <1>1 DEF Verdict
<1>2. CASE Violated(p) # {}
  <2>1. Violated(p) \subseteq DOMAIN Rules
    BY DEF Violated
  <2>2. DOMAIN Rules \subseteq Nat
    BY PolicyAssumption
  <2>3. First(Violated(p)) \in Violated(p)
    BY <1>2, <2>1, <2>2, FirstIsIn
  <2> QED  BY <1>2, <2>1, <2>3 DEF Verdict
<1> QED  BY <1>1, <1>2

\* A candidate is the override in force or an element of the chain.
LEMMA CandidateValue ==
    ASSUME override \in Providers \cup {None}, NEW i \in DOMAIN Candidates
    PROVE  \/ Overridden /\ Candidates[i] = override
           \/ \E j \in DOMAIN Chain : Candidates[i] = Chain[j]
<1>1. Chain \in Seq(Providers)
  BY PolicyAssumption
<1>2. CASE Overridden
  <2>1. override \in Providers
    BY <1>2 DEF Overridden
  <2>2. Candidates = <<override>> \o Chain
    BY <1>2 DEF Candidates
  <2>3. <<override>> \in Seq(Providers) /\ Len(<<override>>) = 1
    BY <2>1
  <2>4. /\ Candidates \in Seq(Providers)
        /\ Len(Candidates) = 1 + Len(Chain)
        /\ i \in 1..(1 + Len(Chain))
    BY <1>1, <2>2, <2>3
  <2>5. CASE i = 1
    BY <1>1, <1>2, <2>2, <2>3, <2>5
  <2>6. CASE i # 1
    <3>1. i - 1 \in DOMAIN Chain
      BY <1>1, <2>4, <2>6
    <3>2. Candidates[i] = Chain[i - 1]
      BY <1>1, <2>2, <2>3, <2>4, <2>6
    <3> QED  BY <3>1, <3>2
  <2> QED  BY <2>5, <2>6
<1>3. CASE ~Overridden
  <2>1. Candidates = <<>> \o Chain
    BY <1>3 DEF Candidates
  <2>2. Candidates = Chain
    BY <1>1, <2>1
  <2> QED  BY <2>2
<1> QED  BY <1>2, <1>3

\* The provider resolve returns: a candidate that no rule rules out, or the
\* target of a rule.
LEMMA ServingValue ==
    ASSUME override \in Providers \cup {None}, Serving # None
    PROVE  /\ Serving \in Providers
           /\ \/ /\ Violated(Serving) = {}
                 /\ \/ Overridden /\ Serving = override
                    \/ \E j \in DOMAIN Chain : Serving = Chain[j]
              \/ \E j \in DOMAIN Rules : Serving = Rules[j].switch_to
<1> DEFINE deciding == {i \in DOMAIN Candidates : Verdict(Candidates[i]) # None}
<1>0. Chain \in Seq(Providers)
  BY PolicyAssumption
<1>1. deciding # {} /\ Serving = Verdict(Candidates[First(deciding)])
  BY DEF Serving
<1>2. DOMAIN Candidates \subseteq Nat
  <2>1. CASE Overridden
    <3>1. <<override>> \in Seq(Providers)
      BY <2>1 DEF Overridden
    <3>2. Candidates \in Seq(Providers)
      BY <1>0, <2>1, <3>1 DEF Candidates
    <3> QED  BY <3>2
  <2>2. CASE ~Overridden
    <3>1. Candidates \in Seq(Providers)
      BY <1>0, <2>2 DEF Candidates
    <3> QED  BY <3>1
  <2> QED  BY <2>1, <2>2
<1>3. PICK i \in DOMAIN Candidates : Serving = Verdict(Candidates[i])
  <2>1. deciding \subseteq Nat
    BY <1>2
  <2>2. First(deciding) \in deciding
    BY <1>1, <2>1, FirstIsIn
  <2> QED  BY <1>1, <2>2
<1>4. CASE \E j \in DOMAIN Rules : Serving = Rules[j].switch_to
  BY <1>4, RuleTypes
<1>5. CASE Serving = Candidates[i] /\ Violated(Candidates[i]) = {}
  <2>1. \/ Overridden /\ Serving = override
        \/ \E j \in DOMAIN Chain : Serving = Chain[j]
    BY <1>5, CandidateValue
  <2>2. Serving \in Providers
    BY <1>0, <2>1
  <2> QED  BY <1>5, <2>1, <2>2
<1> QED  BY <1>3, <1>4, <1>5, VerdictValue

\* The most a served request is charged.
LEMMA MaxAmountValue ==
    MaxAmount \in Nat /\ \A n \in Amounts : n \in Nat /\ n =< MaxAmount
<1>1. MaxAmount \in Amounts /\ \A n \in Amounts : n =< MaxAmount
  BY PolicyAssumption DEF MaxAmount
<1> QED  BY <1>1, PolicyAssumption

\* Days are numbered, and a later tick belongs to the same or a later day.
LEMMA DayOrder ==
    ASSUME NEW s \in Nat, NEW t \in Nat, s =< t
    PROVE  Day(s) \in Nat /\ Day(t) \in Nat /\ Day(s) =< Day(t)
<1>1. DayLen \in Nat /\ DayLen > 0
  BY PolicyAssumption
<1> QED  BY <1>1 DEF Day

\* Every tick has its day.
LEMMA DayType ==
    ASSUME NEW t \in Times
    PROVE  Day(t) \in Days
<1>1. t \in Nat /\ MaxTime \in Nat /\ t =< MaxTime
  BY PolicyAssumption DEF Times
<1> QED  BY <1>1, DayOrder DEF Days

-----------------------------------------------------------------------------
(* What a step may touch.                                                  *)

\* What one verdict does to the engine: it is too mild to count, or it is
\* counted, or it completes the window and the engine acts on it.
Hit(e) == [r |-> e.r, at |-> now]
Entry(e) == Kept(ClientOf[e.r]) \cup {Hit(e)}

Ignored == UNCHANGED <<override, until, blocked, attacks, hits, spent>>

Counted(e) ==
    /\ ~Reached(Entry(e))
    /\ hits' = [hits EXCEPT ![ClientOf[e.r]] = hits[ClientOf[e.r]] \cup {Hit(e)}]
    /\ attacks' = [attacks EXCEPT ![ClientOf[e.r]] = Entry(e)]
    /\ UNCHANGED <<override, until, blocked, spent>>

Acted(e) ==
    /\ Reached(Entry(e))
    /\ hits' = [hits EXCEPT ![ClientOf[e.r]] = hits[ClientOf[e.r]] \cup {Hit(e)}]
    /\ attacks' = [attacks EXCEPT ![ClientOf[e.r]] = {}]
    /\ spent' = [spent EXCEPT ![ClientOf[e.r]] = spent[ClientOf[e.r]] \cup Entry(e)]
    /\ \/ BlockSource /\ blocked' = [blocked EXCEPT ![ClientOf[e.r]] = now + BlockTtl]
       \/ blocked' = blocked
    /\ \/ SwitchTo # None /\ override' = SwitchTo /\ until' = now + Cooldown
       \/ UNCHANGED <<override, until>>

\* on_attack_detected does one of the three, for a client that exists.
LEMMA AttackCases ==
    ASSUME TypeOK, NEW e \in events, OnAttackDetected(e)
    PROVE  /\ e.r \in Requests /\ ClientOf[e.r] \in Clients /\ Hit(e) \in Hits
           /\ Hit(e).at = now
           /\ Ignored \/ Counted(e) \/ Acted(e)
           /\ UNCHANGED <<now, tokens, pc, route, routedAt, overBudget, peak>>
           /\ events' \subseteq events
<1>1. e.r \in Requests /\ now \in Times
  BY DEF TypeOK
<1>2. ClientOf[e.r] \in Clients
  BY <1>1, PolicyAssumption
<1>3. Hit(e) \in Hits /\ Hit(e).at = now
  BY <1>1 DEF Hit, Hits
<1>4. /\ UNCHANGED <<now, tokens, pc, route, routedAt, overBudget, peak>>
      /\ events' \subseteq events
  BY DEF OnAttackDetected
<1>5. ASSUME e.severity < MinSeverity
      PROVE  Ignored
  BY <1>5 DEF OnAttackDetected, Ignored
<1>6. ASSUME ~(e.severity < MinSeverity), ~Reached(Entry(e))
      PROVE  Counted(e)
  BY <1>6 DEF OnAttackDetected, Counted, Entry, Hit
<1>7. ASSUME ~(e.severity < MinSeverity), Reached(Entry(e))
      PROVE  Acted(e)
  <2>1. /\ hits' = [hits EXCEPT ![ClientOf[e.r]] = hits[ClientOf[e.r]] \cup {Hit(e)}]
        /\ attacks' = [attacks EXCEPT ![ClientOf[e.r]] = {}]
        /\ spent' = [spent EXCEPT ![ClientOf[e.r]] = spent[ClientOf[e.r]] \cup Entry(e)]
    BY <1>7 DEF OnAttackDetected, Entry, Hit
  <2>2. blocked' = IF BlockSource
                   THEN [blocked EXCEPT ![ClientOf[e.r]] = now + BlockTtl]
                   ELSE blocked
    BY <1>7 DEF OnAttackDetected, Entry, Hit
  <2>3. IF SwitchTo # None
        THEN override' = SwitchTo /\ until' = now + Cooldown
        ELSE UNCHANGED <<override, until>>
    BY <1>7 DEF OnAttackDetected, Entry, Hit
  <2> QED  BY <1>7, <2>1, <2>2, <2>3 DEF Acted
<1> QED  BY <1>2, <1>3, <1>1, <1>4, <1>5, <1>6, <1>7

\* The three things a resolve does: refuse the source, refuse for the budget,
\* route.
Routed(r) ==
    /\ Serving # None
    /\ override' = IF Overridden THEN override ELSE None
    /\ pc' = [pc EXCEPT ![r] = "inspecting"]
    /\ route' = [route EXCEPT ![r] = Serving]
    /\ routedAt' = [routedAt EXCEPT ![r] = now]
    /\ overBudget' = [overBudget EXCEPT ![r] = Violated(Serving) # {}]
    /\ LET n == Cardinality(InFlight(Serving)) + 1
       IN  peak' = [peak EXCEPT ![Serving] =
                      IF n > peak[Serving] THEN n ELSE peak[Serving]]

RefusedAt(r) ==
    /\ pc' = [pc EXCEPT ![r] = "blocked_source"]
         \/ pc' = [pc EXCEPT ![r] = "rate_limited"]
    /\ override' \in {override, None}
    /\ UNCHANGED <<route, routedAt, overBudget, peak>>

\* PolicyEngine::resolve does one of the two, and routes no blocked source.
LEMMA ResolveCases ==
    ASSUME NEW r \in Requests, Resolve(r)
    PROVE  /\ pc[r] = "new"
           /\ RefusedAt(r) \/ (Routed(r) /\ ~IsBlocked(ClientOf[r]))
           /\ UNCHANGED <<now, until, blocked, attacks, tokens, events, hits, spent>>
<1>1. CASE IsBlocked(ClientOf[r])
  BY <1>1 DEF Resolve, RefusedAt
<1>2. CASE ~IsBlocked(ClientOf[r]) /\ Serving = None
  BY <1>2 DEF Resolve, RefusedAt
<1>3. CASE ~IsBlocked(ClientOf[r]) /\ Serving # None
  BY <1>3 DEF Resolve, Routed
<1>4. /\ pc[r] = "new"
      /\ UNCHANGED <<now, until, blocked, attacks, tokens, events, hits, spent>>
  BY DEF Resolve
<1> QED  BY <1>1, <1>2, <1>3, <1>4

\* record_tokens_today adds the amount to the provider's count of today.
LEMMA ChargeValue ==
    ASSUME TypeOK, NEW r \in Requests, NEW n \in Amounts, Serve(r, n)
    PROVE  /\ tokens' \in [Providers \X Days -> Nat]
           /\ \A p \in Providers, d \in Days :
                tokens'[<<p, d>>] = IF p = route[r] /\ d = Day(now)
                                THEN tokens[<<p, d>>] + n ELSE tokens[<<p, d>>]
<1> DEFINE at == <<route[r], Day(now)>>
<1>1. n \in Nat /\ tokens \in [Providers \X Days -> Nat]
  BY PolicyAssumption DEF TypeOK
<1>2. tokens' = [tokens EXCEPT ![at] = tokens[at] + n]
  BY DEF Serve
<1>3. \A p \in Providers, d \in Days : <<p, d>> = at <=> p = route[r] /\ d = Day(now)
  OBVIOUS
<1> HIDE DEF at
<1>4. at \in Providers \X Days => tokens[at] + n \in Nat
  BY <1>1
<1>5. tokens' \in [Providers \X Days -> Nat]
  BY <1>1, <1>2, <1>4
<1>6. \A p \in Providers, d \in Days : <<p, d>> \in Providers \X Days
  OBVIOUS
<1>7. \A x \in Providers \X Days :
        tokens'[x] = IF x = at THEN tokens[x] + n ELSE tokens[x]
  BY <1>1, <1>2
<1> QED  BY <1>3, <1>5, <1>6, <1>7

\* Only verdicts touch the blocks, the windows and the switch's deadline, only
\* a resolve touches what is recorded at the routing.
LEMMA WhoTouches ==
    ASSUME [Next]_vars
    PROVE  \/ \E e \in events : OnAttackDetected(e)
           \/ \E r \in Requests : Resolve(r)
           \/ /\ UNCHANGED <<override, until, blocked, attacks, hits, spent,
                             route, routedAt, overBudget, peak>>
              /\ \/ Tick
                 \/ \E r \in Requests : \E f \in Findings \cup {NoFinding} : Inspect(r, f)
                 \/ \E r \in Requests : \E n \in Amounts : Serve(r, n)
                 \/ \E r \in Requests : Fail(r)
                 \/ UNCHANGED vars
<1>1. CASE UNCHANGED vars
  BY <1>1 DEF vars
<1>2. CASE Tick
  BY <1>2 DEF Tick, engine, ghosts
<1>3. ASSUME NEW r \in Requests, NEW f \in Findings \cup {NoFinding}, Inspect(r, f)
      PROVE  UNCHANGED <<override, until, blocked, attacks, hits, spent,
                         route, routedAt, overBudget, peak>>
  BY <1>3 DEF Inspect, engine, ghosts
<1>4. ASSUME NEW r \in Requests, NEW n \in Amounts, Serve(r, n)
      PROVE  UNCHANGED <<override, until, blocked, attacks, hits, spent,
                         route, routedAt, overBudget, peak>>
  BY <1>4 DEF Serve, ghosts
<1>5. ASSUME NEW r \in Requests, Fail(r)
      PROVE  UNCHANGED <<override, until, blocked, attacks, hits, spent,
                         route, routedAt, overBudget, peak>>
  BY <1>5 DEF Fail, engine, ghosts
<1> QED  BY <1>1, <1>2, <1>3, <1>4, <1>5 DEF Next

-----------------------------------------------------------------------------
(* Type correctness.                                                       *)

\* A finite window with one more hit is finite, and its size a natural.
LEMMA EntryFinite ==
    ASSUME FiniteInv, NEW e, ClientOf[e.r] \in Clients
    PROVE  /\ IsFiniteSet(Entry(e)) /\ Cardinality(Entry(e)) \in Nat
           /\ IsFiniteSet(hits[ClientOf[e.r]] \cup {Hit(e)})
           /\ Entry(e) \subseteq hits[ClientOf[e.r]] \cup {Hit(e)}
<1> DEFINE c == ClientOf[e.r]
<1>1. IsFiniteSet(hits[c]) /\ Kept(c) \subseteq hits[c]
  BY DEF FiniteInv, Kept
<1>2. IsFiniteSet(hits[c] \cup {Hit(e)})
  BY <1>1, FS_AddElement
<1>3. Entry(e) \subseteq hits[c] \cup {Hit(e)}
  BY <1>1 DEF Entry
<1>4. IsFiniteSet(Entry(e))
  BY <1>2, <1>3, FS_Subset
<1> QED  BY <1>2, <1>3, <1>4, FS_CardinalityType

\* What is in flight on a provider is finite.
LEMMA InFlightFinite ==
    ASSUME FiniteInv, NEW p \in Providers
    PROVE  IsFiniteSet(InFlight(p)) /\ Cardinality(InFlight(p)) \in Nat
<1>1. InFlight(p) \subseteq {r \in Requests : route[r] # None}
  BY PolicyAssumption DEF InFlight
<1>2. IsFiniteSet(InFlight(p))
  BY <1>1, FS_Subset DEF FiniteInv
<1> QED  BY <1>2, FS_CardinalityType

\* Every variable keeps its type; in particular a window never holds as many
\* attacks as a block needs, because the one that completes it clears it.
THEOREM PolicyTypeCorrect == Spec => [](TypeOK /\ FiniteInv)
<1>1. Init => TypeOK /\ FiniteInv
  <2> SUFFICES ASSUME Init
               PROVE  TypeOK /\ FiniteInv
    OBVIOUS
  <2>1. TypeOK
    BY PolicyAssumption, FS_EmptySet DEF Init, TypeOK, Times
  <2>2. {r \in Requests : route[r] # None} = {}
    BY DEF Init
  <2>3. FiniteInv
    BY <2>2, FS_EmptySet DEF Init, FiniteInv
  <2> QED  BY <2>1, <2>3
<1>2. TypeOK /\ FiniteInv /\ [Next]_vars => TypeOK' /\ FiniteInv'
  <2> SUFFICES ASSUME TypeOK, FiniteInv, [Next]_vars
               PROVE  TypeOK' /\ FiniteInv'
    OBVIOUS
  <2>1. ASSUME NEW e \in events, OnAttackDetected(e)
        PROVE  TypeOK' /\ FiniteInv'
    <3> DEFINE c == ClientOf[e.r]
               added == hits[c] \cup {Hit(e)}
    <3>1. /\ c \in Clients /\ Hit(e) \in Hits
          /\ Ignored \/ Counted(e) \/ Acted(e)
          /\ UNCHANGED <<now, tokens, pc, route, routedAt, overBudget, peak>>
          /\ events' \subseteq events
      BY <2>1, AttackCases
    <3>2. /\ IsFiniteSet(added) /\ Entry(e) \subseteq added
          /\ Cardinality(Entry(e)) \in Nat
      BY <3>1, EntryFinite
    <3>3. added \subseteq Hits /\ now \in Nat
      BY <3>1 DEF TypeOK, Times
    <3>4. Count \in Nat /\ Count > 0 /\ BlockTtl \in Nat /\ Cooldown \in Nat
            /\ SwitchTo \in Providers \cup {None}
      BY PolicyAssumption
    <3>5. CASE Ignored
      BY <3>1, <3>5 DEF Ignored, TypeOK, FiniteInv
    <3>6. CASE Counted(e)
      <4>1. Cardinality(Entry(e)) < Count
        BY <3>2, <3>4, <3>6 DEF Counted, Reached
      <4>2. /\ hits' = [hits EXCEPT ![c] = added]
            /\ attacks' = [attacks EXCEPT ![c] = Entry(e)]
            /\ UNCHANGED <<override, until, blocked, spent>>
        BY <3>6 DEF Counted
      <4> HIDE DEF c, added
      <4>3. TypeOK'
        BY <3>1, <3>2, <3>3, <4>1, <4>2 DEF TypeOK
      <4>4. FiniteInv'
        BY <3>1, <3>2, <4>2 DEF TypeOK, FiniteInv
      <4> QED  BY <4>3, <4>4
    <3>7. CASE Acted(e)
      <4>1. /\ hits' = [hits EXCEPT ![c] = added]
            /\ attacks' = [attacks EXCEPT ![c] = {}]
            /\ spent' = [spent EXCEPT ![c] = spent[c] \cup Entry(e)]
            /\ \/ blocked' = [blocked EXCEPT ![c] = now + BlockTtl]
               \/ blocked' = blocked
            /\ \/ SwitchTo # None /\ override' = SwitchTo /\ until' = now + Cooldown
               \/ UNCHANGED <<override, until>>
        BY <3>7 DEF Acted
      <4> HIDE DEF c, added
      <4>2. /\ hits' \in [Clients -> SUBSET Hits]
            /\ attacks' \in [Clients -> SUBSET Hits]
            /\ spent' \in [Clients -> SUBSET Hits]
        BY <3>1, <3>2, <3>3, <4>1 DEF TypeOK
      <4>3. \A d \in Clients : Cardinality(attacks'[d]) < Count
        BY <3>4, <4>1, FS_EmptySet DEF TypeOK
      <4>4. blocked' \in [Clients -> Nat]
        BY <3>3, <3>4, <4>1 DEF TypeOK
      <4>5. override' \in Providers \cup {None} /\ until' \in Nat
        BY <3>3, <3>4, <4>1 DEF TypeOK
      <4>6. TypeOK'
        BY <3>1, <4>2, <4>3, <4>4, <4>5 DEF TypeOK
      <4>7. FiniteInv'
        BY <3>1, <3>2, <4>1 DEF TypeOK, FiniteInv
      <4> QED  BY <4>6, <4>7
    <3> QED  BY <3>1, <3>5, <3>6, <3>7
  <2>2. ASSUME NEW r \in Requests, Resolve(r)
        PROVE  TypeOK' /\ FiniteInv'
    <3>1. /\ RefusedAt(r) \/ Routed(r)
          /\ UNCHANGED <<now, until, blocked, attacks, tokens, events, hits, spent>>
      BY <2>2, ResolveCases
    <3>2. CASE RefusedAt(r)
      BY <3>1, <3>2 DEF RefusedAt, TypeOK, FiniteInv
    <3>3. CASE Routed(r)
      <4>1. Serving \in Providers
        BY <3>3, ServingValue DEF Routed, TypeOK
      <4>2. Cardinality(InFlight(Serving)) \in Nat
        BY <4>1, InFlightFinite
      <4> DEFINE n == Cardinality(InFlight(Serving)) + 1
                 v == IF n > peak[Serving] THEN n ELSE peak[Serving]
      <4>3. v \in Nat
        BY <4>1, <4>2 DEF TypeOK
      <4>4. peak' = [peak EXCEPT ![Serving] = v]
        BY <3>3 DEF Routed
      <4> HIDE DEF n, v
      <4>5. peak' \in [Providers -> Nat]
        BY <4>3, <4>4 DEF TypeOK
      <4>6. /\ override' \in Providers \cup {None}
            /\ pc' = [pc EXCEPT ![r] = "inspecting"]
            /\ route' = [route EXCEPT ![r] = Serving]
            /\ routedAt' = [routedAt EXCEPT ![r] = now]
        BY <3>3 DEF Routed, TypeOK
      <4>7. overBudget' \in [Requests -> BOOLEAN]
        <5>1. (Violated(Serving) # {}) \in BOOLEAN
          OBVIOUS
        <5> QED  BY <3>3, <5>1 DEF Routed, TypeOK
      <4>8. TypeOK'
        BY <3>1, <4>1, <4>5, <4>6, <4>7 DEF TypeOK
      <4>9. {q \in Requests : route'[q] # None} = {q \in Requests : route[q] # None} \cup {r}
        BY <4>1, <4>6, PolicyAssumption DEF TypeOK
      <4>10. IsFiniteSet({q \in Requests : route'[q] # None})
        BY <4>9, FS_AddElement DEF FiniteInv
      <4> QED  BY <3>1, <4>8, <4>10 DEF FiniteInv
    <3> QED  BY <3>1, <3>2, <3>3
  <2>3. CASE Tick
    <3>1. now' \in Times
      BY <2>3, PolicyAssumption DEF Tick, TypeOK, Times
    <3> QED  BY <2>3, <3>1 DEF Tick, engine, ghosts, TypeOK, FiniteInv
  <2>4. ASSUME NEW r \in Requests, NEW f \in Findings \cup {NoFinding}, Inspect(r, f)
        PROVE  TypeOK' /\ FiniteInv'
    <3>1. /\ pc' = [pc EXCEPT ![r] = "blocked"] \/ pc' = [pc EXCEPT ![r] = "serving"]
          /\ \/ events' = events
             \/ f # NoFinding /\ events' = events \cup {[r |-> r, severity |-> f]}
          /\ UNCHANGED <<now, engine, route, ghosts>>
      BY <2>4 DEF Inspect
    <3>2. f # NoFinding => f \in 0..3
      BY PolicyAssumption
    <3>3. events' \subseteq [r : Requests, severity : 0..3]
      BY <3>1, <3>2 DEF TypeOK
    <3> QED  BY <3>1, <3>3 DEF engine, ghosts, TypeOK, FiniteInv
  <2>5. ASSUME NEW r \in Requests, NEW n \in Amounts, Serve(r, n)
        PROVE  TypeOK' /\ FiniteInv'
    <3>1. n \in Nat
      BY PolicyAssumption
    <3>2. tokens' \in [Providers \X Days -> Nat]
      BY <2>5, ChargeValue
    <3> QED  BY <2>5, <3>2 DEF Serve, ghosts, TypeOK, FiniteInv
  <2>6. ASSUME NEW r \in Requests, Fail(r)
        PROVE  TypeOK' /\ FiniteInv'
    BY <2>6 DEF Fail, engine, ghosts, TypeOK, FiniteInv
  <2>7. CASE UNCHANGED vars
    BY <2>7 DEF vars, TypeOK, FiniteInv
  <2> QED
    BY <2>1, <2>2, <2>3, <2>4, <2>5, <2>6, <2>7, WhoTouches
<1> QED
  BY <1>1, <1>2, PTL DEF Spec
-----------------------------------------------------------------------------
(* Blocks.                                                                 *)

\* No timestamp of the engine is ahead of its clock.
LEMMA TimeInvariant == Spec => []TimeInv
<1>1. Init => TimeInv
  BY DEF Init, TimeInv
<1>2. TypeOK /\ TimeInv /\ [Next]_vars => TimeInv'
  <2> SUFFICES ASSUME TypeOK, TimeInv, [Next]_vars
               PROVE  TimeInv'
    OBVIOUS
  <2>0. now \in Nat
    BY DEF TypeOK, Times
  <2>1. ASSUME NEW e \in events, OnAttackDetected(e)
        PROVE  TimeInv'
    <3>1. /\ ClientOf[e.r] \in Clients /\ Hit(e).at = now
          /\ Ignored \/ Counted(e) \/ Acted(e)
          /\ UNCHANGED <<now, pc, route, routedAt>>
      BY <2>1, AttackCases
    <3>2. \A c \in Clients : hits'[c] \subseteq hits[c] \cup {Hit(e)}
      BY <3>1 DEF Ignored, Counted, Acted, TypeOK
    <3>3. \A c \in Clients : \A h \in hits'[c] : h.at =< now'
      BY <2>0, <3>1, <3>2 DEF TimeInv
    <3> QED  BY <3>1, <3>3 DEF TimeInv
  <2>2. ASSUME NEW r \in Requests, Resolve(r)
        PROVE  TimeInv'
    <3>1. /\ RefusedAt(r) \/ Routed(r)
          /\ UNCHANGED <<now, hits>>
      BY <2>2, ResolveCases
    <3>2. CASE RefusedAt(r)
      BY <3>1, <3>2 DEF RefusedAt, TypeOK, TimeInv
    <3>3. CASE Routed(r)
      BY <2>0, <3>1, <3>3 DEF Routed, TypeOK, TimeInv
    <3> QED  BY <3>1, <3>2, <3>3
  <2>3. CASE Tick
    <3>1. /\ now' = now + 1
          /\ UNCHANGED <<hits, routedAt, pc, route>>
      BY <2>3 DEF Tick, ghosts
    <3>2. \A c \in Clients : \A h \in hits[c] : h.at \in Nat
      BY DEF TypeOK, Hits, Times
    <3>3. \A r \in Requests : routedAt[r] \in Nat
      BY DEF TypeOK, Times
    <3> QED  BY <2>0, <3>1, <3>2, <3>3 DEF TimeInv
  <2>4. ASSUME NEW r \in Requests, NEW f \in Findings \cup {NoFinding}, Inspect(r, f)
        PROVE  TimeInv'
    <3>1. /\ pc[r] = "inspecting"
          /\ pc' = [pc EXCEPT ![r] = "blocked"] \/ pc' = [pc EXCEPT ![r] = "serving"]
          /\ UNCHANGED <<now, route, hits, routedAt>>
      BY <2>4 DEF Inspect, ghosts
    <3> QED  BY <3>1 DEF TypeOK, TimeInv
  <2>5. ASSUME NEW r \in Requests, NEW n \in Amounts, Serve(r, n)
        PROVE  TimeInv'
    BY <2>5 DEF Serve, ghosts, TypeOK, TimeInv
  <2>6. ASSUME NEW r \in Requests, Fail(r)
        PROVE  TimeInv'
    BY <2>6 DEF Fail, ghosts, TypeOK, TimeInv
  <2>7. CASE UNCHANGED vars
    BY <2>7 DEF vars, TimeInv
  <2> QED
    BY <2>1, <2>2, <2>3, <2>4, <2>5, <2>6, <2>7, WhoTouches
<1> QED
  BY <1>1, <1>2, PolicyTypeCorrect, PTL DEF Spec

\* blocked_sources: no request of a client is routed between the instant of
\* its block and the end of it, however requests and verdicts interleave.
THEOREM IsolationSafe == Spec => []IsolatedWhileBlocked
<1>1. Init => IsolatedWhileBlocked
  BY DEF Init, IsolatedWhileBlocked
<1>2. TypeOK /\ TimeInv /\ IsolatedWhileBlocked /\ [Next]_vars => IsolatedWhileBlocked'
  <2> SUFFICES ASSUME TypeOK, TimeInv, IsolatedWhileBlocked, [Next]_vars,
                      NEW q \in Requests
               PROVE  LET end == blocked'[ClientOf[q]] IN
                      route'[q] # None /\ end # 0 =>
                        routedAt'[q] =< end - BlockTtl \/ routedAt'[q] >= end
    BY DEF IsolatedWhileBlocked
  <2>0. /\ now \in Nat /\ BlockTtl \in Nat
        /\ ClientOf[q] \in Clients /\ blocked[ClientOf[q]] \in Nat
        /\ routedAt[q] \in Nat /\ routedAt[q] =< now
    BY PolicyAssumption DEF TypeOK, Times, TimeInv
  <2>1. ASSUME NEW e \in events, OnAttackDetected(e)
        PROVE  LET end == blocked'[ClientOf[q]] IN
               route'[q] # None /\ end # 0 =>
                 routedAt'[q] =< end - BlockTtl \/ routedAt'[q] >= end
    <3>1. /\ Ignored \/ Counted(e) \/ Acted(e)
          /\ UNCHANGED <<route, routedAt>>
      BY <2>1, AttackCases
    <3>2. \/ blocked' = blocked
          \/ blocked' = [blocked EXCEPT ![ClientOf[e.r]] = now + BlockTtl]
      BY <3>1 DEF Ignored, Counted, Acted
    <3>3. blocked'[ClientOf[q]] \in {blocked[ClientOf[q]], now + BlockTtl}
      BY <2>0, <3>2 DEF TypeOK
    <3> QED  BY <2>0, <3>1, <3>3 DEF IsolatedWhileBlocked
  <2>2. ASSUME NEW r \in Requests, Resolve(r)
        PROVE  LET end == blocked'[ClientOf[q]] IN
               route'[q] # None /\ end # 0 =>
                 routedAt'[q] =< end - BlockTtl \/ routedAt'[q] >= end
    <3>1. /\ RefusedAt(r) \/ (Routed(r) /\ ~IsBlocked(ClientOf[r]))
          /\ UNCHANGED blocked
      BY <2>2, ResolveCases
    <3>2. \/ UNCHANGED <<route, routedAt>>
          \/ /\ ~IsBlocked(ClientOf[r])
             /\ routedAt' = [routedAt EXCEPT ![r] = now]
             /\ q # r => route'[q] = route[q]
      BY <3>1 DEF RefusedAt, Routed, TypeOK
    <3>3. CASE UNCHANGED <<route, routedAt>>
      BY <3>1, <3>3 DEF IsolatedWhileBlocked
    <3>4. CASE ~IsBlocked(ClientOf[r]) /\ q = r /\ routedAt'[q] = now
      BY <2>0, <3>1, <3>4 DEF IsBlocked
    <3>5. CASE q # r /\ route'[q] = route[q] /\ routedAt'[q] = routedAt[q]
      BY <3>1, <3>5 DEF IsolatedWhileBlocked
    <3> QED  BY <3>2, <3>3, <3>4, <3>5 DEF TypeOK
  <2>3. CASE UNCHANGED <<blocked, route, routedAt>>
    BY <2>3 DEF IsolatedWhileBlocked
  <2> QED  BY <2>1, <2>2, <2>3, WhoTouches
<1> QED
  BY <1>1, <1>2, PolicyTypeCorrect, TimeInvariant, PTL DEF Spec

\* on_attack_detected: a source is blocked only for Count attacks of its own that
\* were counted inside one window, and only when blocking sources is configured.
THEOREM BlockSafe == Spec => []BlockIsEarned
<1>1. Init => BlockIsEarned
  BY DEF Init, BlockIsEarned
<1>2. TypeOK /\ FiniteInv /\ TimeInv /\ BlockIsEarned /\ [Next]_vars => BlockIsEarned'
  <2> SUFFICES ASSUME TypeOK, FiniteInv, TimeInv, BlockIsEarned, [Next]_vars
               PROVE  BlockIsEarned'
    OBVIOUS
  <2>0. /\ now \in Nat /\ BlockTtl \in Nat /\ Count \in Nat /\ Window \in Nat
    BY PolicyAssumption DEF TypeOK, Times
  <2>1. ASSUME NEW e \in events, OnAttackDetected(e)
        PROVE  BlockIsEarned'
    <3>1. /\ ClientOf[e.r] \in Clients /\ Hit(e).at = now
          /\ Ignored \/ Counted(e) \/ Acted(e)
      BY <2>1, AttackCases
    <3>2. /\ IsFiniteSet(Entry(e)) /\ Cardinality(Entry(e)) \in Nat
          /\ IsFiniteSet(hits[ClientOf[e.r]] \cup {Hit(e)})
          /\ Entry(e) \subseteq hits[ClientOf[e.r]] \cup {Hit(e)}
      BY <3>1, EntryFinite
    <3>3. \A h \in Entry(e) : Within(h, now)
      <4>1. \A h \in Kept(ClientOf[e.r]) : h.at >= now - Window /\ h.at =< now
                /\ h.at \in Nat
        BY <3>1 DEF Kept, FiniteInv, TimeInv, TypeOK, Hits, Times
      <4> QED  BY <2>0, <3>1, <4>1 DEF Entry, Within
    <3>4. SUFFICES ASSUME NEW c \in Clients, blocked'[c] # 0
                   PROVE  /\ BlockSource
                          /\ Cardinality({h \in hits'[c] :
                                Within(h, blocked'[c] - BlockTtl)}) >= Count
      BY DEF BlockIsEarned, Within
    <3>5. hits[c] \subseteq hits'[c] /\ IsFiniteSet(hits'[c])
      <4>1. \/ hits' = hits
            \/ hits' = [hits EXCEPT ![ClientOf[e.r]] = hits[ClientOf[e.r]] \cup {Hit(e)}]
        BY <3>1 DEF Ignored, Counted, Acted
      <4>2. \/ hits'[c] = hits[c]
            \/ c = ClientOf[e.r] /\ hits'[c] = hits[c] \cup {Hit(e)}
        BY <4>1 DEF TypeOK
      <4> QED  BY <3>2, <4>2 DEF FiniteInv
    <3>6. CASE blocked'[c] = blocked[c]
      <4> DEFINE old == {h \in hits[c] : Within(h, blocked[c] - BlockTtl)}
                 new == {h \in hits'[c] : Within(h, blocked[c] - BlockTtl)}
      <4>1. BlockSource /\ Cardinality(old) >= Count
        BY <3>4, <3>6 DEF BlockIsEarned
      <4>2. old \subseteq new /\ new \subseteq hits'[c]
        BY <3>5
      <4>3. IsFiniteSet(new) /\ IsFiniteSet(old)
        BY <3>5, <4>2, FS_Subset
      <4>4. Cardinality(old) =< Cardinality(new)
        BY <4>2, <4>3, FS_Subset
      <4>5. Cardinality(new) \in Nat /\ Cardinality(old) \in Nat
        BY <4>3, FS_CardinalityType
      <4> HIDE DEF old
      <4>6. Cardinality(new) >= Count
        BY <2>0, <4>1, <4>4, <4>5
      <4> QED  BY <3>6, <4>1, <4>6
    <3>7. CASE blocked'[c] # blocked[c]
      <4>1. /\ Acted(e) /\ BlockSource
            /\ blocked' = [blocked EXCEPT ![ClientOf[e.r]] = now + BlockTtl]
        BY <3>1, <3>7 DEF Ignored, Counted, Acted
      <4>2. c = ClientOf[e.r] /\ blocked'[c] = now + BlockTtl
        BY <3>7, <4>1 DEF TypeOK
      <4>3. blocked'[c] - BlockTtl = now
        BY <2>0, <4>2
      <4> DEFINE new == {h \in hits'[c] : Within(h, blocked'[c] - BlockTtl)}
      <4>4. hits'[c] = hits[c] \cup {Hit(e)}
        BY <4>1, <4>2 DEF Acted, TypeOK
      <4>5. Entry(e) \subseteq new /\ new \subseteq hits'[c]
        BY <3>2, <3>3, <4>2, <4>3, <4>4
      <4>6. IsFiniteSet(new)
        BY <3>5, <4>5, FS_Subset
      <4>7. Cardinality(Entry(e)) =< Cardinality(new) /\ Cardinality(new) \in Nat
        BY <4>5, <4>6, FS_Subset, FS_CardinalityType
      <4>8. Cardinality(Entry(e)) >= Count
        BY <4>1 DEF Acted, Reached
      <4> HIDE DEF new
      <4>9. Cardinality(new) >= Count
        BY <2>0, <3>2, <4>7, <4>8
      <4> QED  BY <4>1, <4>9 DEF new
    <3> QED  BY <3>6, <3>7
  <2>2. CASE UNCHANGED <<blocked, hits>>
    BY <2>2 DEF BlockIsEarned, Within
  <2> QED  BY <2>1, <2>2, WhoTouches, ResolveCases
<1> QED
  BY <1>1, <1>2, PolicyTypeCorrect, TimeInvariant, PTL DEF Spec

\* A part of too few attacks is too few.
LEMMA PartIsFewer ==
    ASSUME NEW T, IsFiniteSet(T), Cardinality(T) < Count, NEW S, S \subseteq T
    PROVE  Cardinality(S) < Count
<1>1. IsFiniteSet(S) /\ Cardinality(S) =< Cardinality(T)
  BY FS_Subset
<1>2. Cardinality(S) \in Nat /\ Cardinality(T) \in Nat /\ Count \in Nat
  BY <1>1, FS_CardinalityType, PolicyAssumption
<1> QED  BY <1>1, <1>2

\* What a verdict leaves of the attacks that have led to nothing: one that is
\* acted on adds none, one that is counted adds at most its own.
LEMMA PendingHits ==
    ASSUME TypeOK, NEW e \in events, OnAttackDetected(e), NEW c \in Clients
    PROVE  \/ /\ hits'[c] \ spent'[c] \subseteq hits[c] \ spent[c]
              /\ attacks'[c] = attacks[c]
           \/ /\ c = ClientOf[e.r] /\ Reached(Entry(e))
              /\ hits'[c] \ spent'[c] \subseteq (hits[c] \ spent[c]) \ Entry(e)
           \/ /\ c = ClientOf[e.r] /\ ~Reached(Entry(e))
              /\ hits'[c] \ spent'[c] \subseteq (hits[c] \ spent[c]) \cup {Hit(e)}
              /\ attacks'[c] = Entry(e)
<1>1. Ignored \/ Counted(e) \/ Acted(e)
  BY AttackCases
<1>2. CASE Ignored
  BY <1>2 DEF Ignored
<1>3. CASE Counted(e)
  <2>1. /\ ~Reached(Entry(e)) /\ spent' = spent
        /\ hits' = [hits EXCEPT ![ClientOf[e.r]] = hits[ClientOf[e.r]] \cup {Hit(e)}]
        /\ attacks' = [attacks EXCEPT ![ClientOf[e.r]] = Entry(e)]
    BY <1>3 DEF Counted
  <2> QED  BY <2>1 DEF TypeOK
<1>4. CASE Acted(e)
  <2>1. /\ Reached(Entry(e))
        /\ hits' = [hits EXCEPT ![ClientOf[e.r]] = hits[ClientOf[e.r]] \cup {Hit(e)}]
        /\ attacks' = [attacks EXCEPT ![ClientOf[e.r]] = {}]
        /\ spent' = [spent EXCEPT ![ClientOf[e.r]] = spent[ClientOf[e.r]] \cup Entry(e)]
    BY <1>4 DEF Acted
  <2>2. Hit(e) \in Entry(e)
    BY DEF Entry
  <2> QED  BY <2>1, <2>2 DEF TypeOK
<1> QED  BY <1>1, <1>2, <1>3, <1>4

\* on_attack_detected prunes the window by the clock of the attack at hand: it
\* never drops one that a later attack could still be counted with.
LEMMA WindowInvariant == Spec => []WindowInv
<1>1. Init => WindowInv
  BY DEF Init, WindowInv
<1>2. TypeOK /\ WindowInv /\ [Next]_vars => WindowInv'
  <2> SUFFICES ASSUME TypeOK, WindowInv, [Next]_vars
               PROVE  WindowInv'
    OBVIOUS
  <2>0. now \in Nat /\ Window \in Nat
    BY PolicyAssumption DEF TypeOK, Times
  <2>1. ASSUME NEW e \in events, OnAttackDetected(e)
        PROVE  WindowInv'
    <3>1. now' = now
      BY <2>1, AttackCases
    <3>2. ASSUME NEW c \in Clients, NEW h \in hits'[c] \ spent'[c],
                 h.at >= now - Window
          PROVE  h \in attacks'[c]
      <4>1. h \in hits[c] \ spent[c] /\ c = ClientOf[e.r] => h \in Entry(e)
        BY <3>2 DEF WindowInv, Entry, Kept
      <4>2. Hit(e) \in Entry(e)
        BY DEF Entry
      <4> QED  BY <2>1, <3>2, <4>1, <4>2, PendingHits DEF WindowInv
    <3> QED  BY <3>1, <3>2 DEF WindowInv
  <2>2. CASE Tick
    <3>1. now' = now + 1 /\ UNCHANGED <<hits, spent, attacks>>
      BY <2>2 DEF Tick, engine, ghosts
    <3>2. \A c \in Clients : \A h \in hits[c] : h.at \in Nat
      BY DEF TypeOK, Hits, Times
    <3> QED  BY <2>0, <3>1, <3>2 DEF WindowInv
  <2>3. CASE UNCHANGED <<now, hits, spent, attacks>>
    BY <2>3 DEF WindowInv
  <2>4. ASSUME NEW r \in Requests, Resolve(r)
        PROVE  UNCHANGED <<now, hits, spent, attacks>>
    BY <2>4, ResolveCases
  <2>5. \/ \E e \in events : OnAttackDetected(e)
        \/ Tick
        \/ UNCHANGED <<now, hits, spent, attacks>>
    BY <2>4, WhoTouches DEF Inspect, Serve, Fail, vars
  <2> QED  BY <2>1, <2>2, <2>3, <2>5
<1> QED
  BY <1>1, <1>2, PolicyTypeCorrect, PTL DEF Spec

\* No Count attacks of a client that have led to nothing were counted inside one
\* window, whatever the order in which the tasks run (on_attack_detected).
THEOREM NoMissedAttackSafe == Spec => []NoMissedAttack
<1>1. Init => NoMissedAttack
  BY DEF Init, NoMissedAttack
<1>2. TypeOK /\ FiniteInv /\ TimeInv /\ WindowInv /\ NoMissedAttack /\ [Next]_vars
        => NoMissedAttack'
  <2> SUFFICES ASSUME TypeOK, FiniteInv, TimeInv, WindowInv, NoMissedAttack, [Next]_vars
               PROVE  NoMissedAttack'
    OBVIOUS
  <2>0. now \in Nat /\ Window \in Nat /\ Count \in Nat
    BY PolicyAssumption DEF TypeOK, Times
  <2>1. ASSUME NEW e \in events, OnAttackDetected(e)
        PROVE  NoMissedAttack'
    <3> SUFFICES ASSUME NEW c \in Clients, NEW h \in hits'[c] \ spent'[c]
                 PROVE  Cardinality({g \in hits'[c] \ spent'[c] : Within(g, h.at)})
                          < Count
      BY DEF NoMissedAttack, Within
    <3> DEFINE U == hits[c] \ spent[c]
               V == hits'[c] \ spent'[c]
               new == {g \in V : Within(g, h.at)}
               old == {g \in U : Within(g, h.at)}
    <3>1. \A g \in U : g.at \in Nat /\ g.at =< now
      BY DEF TypeOK, Hits, Times, TimeInv
    <3>2. Hit(e).at = now /\ ClientOf[e.r] \in Clients
      BY <2>1, AttackCases
    <3>3. IsFiniteSet(old)
      <4>1. old \subseteq hits[c]
        OBVIOUS
      <4> QED  BY <4>1, FS_Subset DEF FiniteInv
    <3>4. h \in U => Cardinality(old) < Count
      BY DEF NoMissedAttack
    <3>5. CASE V \subseteq U
      <4>1. new \subseteq old /\ h \in U
        BY <3>5
      <4> HIDE DEF new, old
      <4> QED  BY <3>3, <3>4, <4>1, PartIsFewer DEF new
    <3>6. CASE c = ClientOf[e.r] /\ ~Reached(Entry(e)) /\ V \subseteq U \cup {Hit(e)}
      <4>1. IsFiniteSet(Entry(e)) /\ Cardinality(Entry(e)) < Count
        <5>1. IsFiniteSet(Entry(e)) /\ Cardinality(Entry(e)) \in Nat
          BY <3>2, EntryFinite
        <5>2. ~(Cardinality(Entry(e)) >= Count)
          BY <3>6 DEF Reached
        <5> QED  BY <2>0, <5>1, <5>2
      <4>2. CASE h.at = now
        <5>1. \A g \in U : g.at >= now - Window => g \in Entry(e)
          BY <3>6 DEF WindowInv, Entry, Kept
        <5>2. Hit(e) \in Entry(e)
          BY DEF Entry
        <5>3. new \subseteq Entry(e)
          BY <3>6, <4>2, <5>1, <5>2, <2>0, <3>1 DEF Within
        <5> HIDE DEF new
        <5> QED  BY <4>1, <5>3, PartIsFewer DEF new
      <4>3. CASE h.at # now
        <5>1. h \in U /\ h.at < now
          BY <2>0, <3>1, <3>2, <3>6, <4>3
        <5>2. ~Within(Hit(e), h.at)
          BY <2>0, <3>1, <3>2, <5>1 DEF Within
        <5>3. new \subseteq old
          BY <3>6, <5>2
        <5> HIDE DEF new, old
        <5> QED  BY <3>3, <3>4, <5>1, <5>3, PartIsFewer DEF new
      <4> QED  BY <4>2, <4>3
    <3>7. V \subseteq U
            \/ (c = ClientOf[e.r] /\ ~Reached(Entry(e)) /\ V \subseteq U \cup {Hit(e)})
      BY <2>1, PendingHits
    <3> QED  BY <3>5, <3>6, <3>7
  <2>2. CASE UNCHANGED <<hits, spent>>
    BY <2>2 DEF NoMissedAttack, Within
  <2> QED  BY <2>1, <2>2, WhoTouches, ResolveCases
<1> QED
  BY <1>1, <1>2, PolicyTypeCorrect, TimeInvariant, WindowInvariant, PTL DEF Spec

-----------------------------------------------------------------------------
(* The failover.                                                           *)

\* What a verdict does to the switch: it sets it for a cooldown that begins
\* with an attack it uses up, or leaves it alone; nothing used up is forgotten.
LEMMA SwitchCases ==
    ASSUME TypeOK, NEW e \in events, OnAttackDetected(e)
    PROVE  /\ \A c \in Clients : spent[c] \subseteq spent'[c]
           /\ \/ UNCHANGED <<override, until>>
              \/ /\ until' = now + Cooldown /\ Hit(e).at = now
                 /\ ClientOf[e.r] \in Clients /\ Hit(e) \in spent'[ClientOf[e.r]]
<1>1. /\ Ignored \/ Counted(e) \/ Acted(e)
      /\ ClientOf[e.r] \in Clients /\ Hit(e).at = now
  BY AttackCases
<1>2. CASE Ignored
  BY <1>2 DEF Ignored
<1>3. CASE Counted(e)
  BY <1>3 DEF Counted
<1>4. CASE Acted(e)
  <2>1. spent' = [spent EXCEPT ![ClientOf[e.r]] = spent[ClientOf[e.r]] \cup Entry(e)]
    BY <1>4 DEF Acted
  <2>2. Hit(e) \in Entry(e)
    BY DEF Entry
  <2>3. until' = now + Cooldown \/ UNCHANGED <<override, until>>
    BY <1>4 DEF Acted
  <2>4. /\ \A c \in Clients : spent[c] \subseteq spent'[c]
        /\ Hit(e) \in spent'[ClientOf[e.r]]
    BY <1>1, <2>1, <2>2 DEF TypeOK
  <2> QED  BY <1>1, <2>3, <2>4
<1> QED  BY <1>1, <1>2, <1>3, <1>4

\* override_until is the end of the cooldown of an attack that was used up.
LEMMA SwitchInvariant == Spec => []SwitchInv
<1>1. Init => SwitchInv
  BY DEF Init, SwitchInv
<1>2. TypeOK /\ SwitchInv /\ [Next]_vars => SwitchInv'
  <2> SUFFICES ASSUME TypeOK, SwitchInv, [Next]_vars
               PROVE  SwitchInv'
    OBVIOUS
  <2>0. now \in Nat
    BY DEF TypeOK, Times
  <2>1. ASSUME NEW e \in events, OnAttackDetected(e)
        PROVE  SwitchInv'
    <3>1. now' = now
      BY <2>1, AttackCases
    <3>2. CASE UNCHANGED <<override, until>>
      BY <2>1, <3>1, <3>2, SwitchCases DEF SwitchInv
    <3>3. CASE /\ until' = now + Cooldown /\ Hit(e).at = now
               /\ ClientOf[e.r] \in Clients /\ Hit(e) \in spent'[ClientOf[e.r]]
      <4>1. Hit(e).at =< now' /\ until' = Hit(e).at + Cooldown
        BY <2>0, <3>1, <3>3
      <4>2. PICK d \in Clients : d = ClientOf[e.r]
        BY <3>3
      <4>3. PICK g \in spent'[d] : g.at =< now' /\ until' = g.at + Cooldown
        BY <3>3, <4>1, <4>2
      <4> QED  BY <4>3 DEF SwitchInv
    <3> QED  BY <2>1, <3>2, <3>3, SwitchCases
  <2>2. ASSUME NEW r \in Requests, Resolve(r)
        PROVE  SwitchInv'
    <3>1. override' \in {override, None} /\ UNCHANGED <<now, until, spent>>
      BY <2>2, ResolveCases DEF RefusedAt, Routed
    <3> QED  BY <3>1 DEF SwitchInv
  <2>3. CASE Tick
    <3>1. now' = now + 1 /\ UNCHANGED <<override, until, spent>>
      BY <2>3 DEF Tick, engine, ghosts
    <3>2. \A c \in Clients : \A h \in spent[c] : h.at \in Nat
      BY DEF TypeOK, Hits, Times
    <3>3. \A c \in Clients : \A h \in spent[c] : h.at =< now => h.at =< now'
      BY <2>0, <3>1, <3>2
    <3> QED  BY <3>1, <3>3 DEF SwitchInv
  <2>4. CASE UNCHANGED <<now, override, until, spent>>
    BY <2>4 DEF SwitchInv
  <2>5. \/ \E e \in events : OnAttackDetected(e)
        \/ \E r \in Requests : Resolve(r)
        \/ Tick
        \/ UNCHANGED <<now, override, until, spent>>
    BY WhoTouches DEF Inspect, Serve, Fail, vars
  <2> QED  BY <2>1, <2>2, <2>3, <2>4, <2>5
<1> QED
  BY <1>1, <1>2, PolicyTypeCorrect, PTL DEF Spec

\* PolicyEngine::resolve: a provider that neither the chain nor a rule names
\* gets requests only within the cooldown of a switch.
THEOREM FailoverSafe == Spec => []FailoverEnds
<1>1. Init => FailoverEnds
  BY DEF Init, FailoverEnds
<1>2. TypeOK /\ SwitchInv /\ FailoverEnds /\ [Next]_vars => FailoverEnds'
  <2> SUFFICES ASSUME TypeOK, SwitchInv, FailoverEnds, [Next]_vars,
                      NEW q \in Requests, route'[q] # None,
                      \A i \in DOMAIN Chain : Chain[i] # route'[q],
                      \A i \in DOMAIN Rules : Rules[i].switch_to # route'[q]
               PROVE  \E c \in Clients : \E h \in spent'[c] :
                        h.at =< routedAt'[q] /\ routedAt'[q] < h.at + Cooldown
    BY DEF FailoverEnds
  <2>1. CASE route'[q] = route[q] /\ routedAt'[q] = routedAt[q]
             /\ \A c \in Clients : spent[c] \subseteq spent'[c]
    BY <2>1 DEF FailoverEnds
  <2>2. ASSUME NEW e \in events, OnAttackDetected(e)
        PROVE  route'[q] = route[q] /\ routedAt'[q] = routedAt[q]
                 /\ \A c \in Clients : spent[c] \subseteq spent'[c]
    BY <2>2, AttackCases, SwitchCases
  <2>3. ASSUME NEW r \in Requests, Resolve(r)
        PROVE  \E c \in Clients : \E h \in spent'[c] :
                 h.at =< routedAt'[q] /\ routedAt'[q] < h.at + Cooldown
    <3>1. /\ RefusedAt(r) \/ Routed(r)
          /\ spent' = spent
      BY <2>3, ResolveCases
    <3>2. CASE RefusedAt(r)
      BY <2>1, <3>1, <3>2 DEF RefusedAt
    <3>3. CASE Routed(r) /\ q # r
      BY <2>1, <3>1, <3>3 DEF Routed, TypeOK
    <3>4. CASE Routed(r) /\ q = r
      <4>1. route'[q] = Serving /\ routedAt'[q] = now /\ Serving # None
        BY <3>4 DEF Routed, TypeOK
      <4>2. Overridden
        BY <4>1, ServingValue DEF TypeOK
      <4>3. PICK c \in Clients : \E h \in spent[c] :
              h.at =< now /\ until = h.at + Cooldown
        BY <4>2 DEF Overridden, SwitchInv
      <4> QED  BY <3>1, <4>1, <4>2, <4>3 DEF Overridden
    <3> QED  BY <3>1, <3>2, <3>3, <3>4
  <2> QED  BY <2>1, <2>2, <2>3, WhoTouches
<1> QED
  BY <1>1, <1>2, PolicyTypeCorrect, SwitchInvariant, PTL DEF Spec

-----------------------------------------------------------------------------
(* Budgets.                                                                *)

\* The facts about products that the budget argument needs.
LEMMA ProductFacts ==
    ASSUME NEW m \in Nat, NEW a \in Nat, NEW b \in Nat, a =< b
    PROVE  m * a \in Nat /\ m * b \in Nat /\ m * a =< m * b
<1>1. PICK k \in Nat : b = a + k
  <2>1. b - a \in Nat /\ b = a + (b - a)
    OBVIOUS
  <2> QED  BY <2>1
<1>2. m * a \in Nat /\ m * k \in Nat
  OBVIOUS
<1>3. m * (a + k) = m * a + m * k
  OBVIOUS
<1> QED  BY <1>1, <1>2, <1>3

\* One request less in flight is one charge less to come.
LEMMA ProductStep ==
    ASSUME NEW m \in Nat, NEW a \in Nat
    PROVE  m * (a + 1) = m * a + m
OBVIOUS

\* A budget bounds what is charged on any day: the past ones, today and the
\* days to come.
LEMMA BudgetBound ==
    ASSUME TypeOK, FiniteInv, FutureInv,
           NEW p \in Providers, NEW i \in DOMAIN Rules, Binds(p, i), Room(p, i),
           NEW d \in Days, tokens[<<p, d>>] =< Rules[i].hi
    PROVE  tokens[<<p, d>>] < Rules[i].lo + MaxAmount * peak[p]
<1> DEFINE t == tokens[<<p, d>>]
           n == Cardinality(InFlight(p))
           lo == Rules[i].lo
           hi == Rules[i].hi
<1>1. lo \in Nat /\ hi \in Nat /\ lo > 0
  BY RuleTypes DEF Binds
<1>2. t \in Nat /\ peak[p] \in Nat /\ d \in Nat
  BY PolicyAssumption DEF TypeOK, Days, Day
<1>3. MaxAmount * n \in Nat /\ MaxAmount * peak[p] \in Nat
  BY <1>2, InFlightFinite, MaxAmountValue, ProductFacts
<1>4. now \in Nat /\ Day(now) \in Nat
  BY DayOrder DEF TypeOK, Times
<1>5. CASE d < Day(now)
  BY <1>5 DEF Room
<1>6. CASE d = Day(now)
  <2>1. t \in lo..hi => t + MaxAmount * n < lo + MaxAmount * peak[p]
    BY <1>6 DEF Room
  <2>2. t =< hi
    OBVIOUS
  <2> HIDE DEF t, n, lo, hi
  <2>3. t < lo + MaxAmount * peak[p]
    BY <1>1, <1>2, <1>3, <2>1, <2>2
  <2> QED  BY <2>3 DEF t, lo
<1>7. CASE d > Day(now)
  <2>1. t = 0
    BY <1>7 DEF FutureInv
  <2> HIDE DEF t, lo
  <2>2. t < lo + MaxAmount * peak[p]
    BY <1>1, <1>3, <2>1
  <2> QED  BY <2>2 DEF t, lo
<1> QED  BY <1>2, <1>4, <1>5, <1>6, <1>7

\* A step of the same tick that charges nothing and takes no more requests in
\* flight than it raises the peak keeps the room.
LEMMA RoomKept ==
    ASSUME TypeOK, FiniteInv, TypeOK', FiniteInv',
           UNCHANGED <<now, tokens>>,
           NEW p \in Providers, NEW i \in DOMAIN Rules, Room(p, i),
           peak[p] =< peak'[p],
           \/ Cardinality(InFlight(p)') =< Cardinality(InFlight(p))
           \/ ~(tokens[<<p, Day(now)>>] \in Rules[i].lo..Rules[i].hi)
    PROVE  Room(p, i)'
<1> DEFINE t == tokens[<<p, Day(now)>>]
           n == Cardinality(InFlight(p))
           k == Cardinality(InFlight(p)')
           lo == Rules[i].lo
           hi == Rules[i].hi
<1>1. lo \in Nat /\ hi \in Nat
  BY RuleTypes
<1>2. /\ \A d \in Days : tokens[<<p, d>>] \in Nat
      /\ peak[p] \in Nat /\ peak'[p] \in Nat
  BY DEF TypeOK
<1>3. n \in Nat
  BY InFlightFinite
<1>4. k \in Nat
  <2>1. InFlight(p)' \subseteq {r \in Requests : route'[r] # None}
    BY PolicyAssumption DEF InFlight
  <2> QED  BY <2>1, FS_Subset, FS_CardinalityType DEF FiniteInv
<1>5. t \in Nat
  BY <1>2, DayType DEF TypeOK
<1> DEFINE top == MaxAmount * peak[p]
           top2 == MaxAmount * peak'[p]
           rest == MaxAmount * n
           rest2 == MaxAmount * k
<1>6. top \in Nat /\ top2 \in Nat /\ top =< top2
  BY <1>2, MaxAmountValue, ProductFacts
<1>7. rest \in Nat /\ rest2 \in Nat /\ (k =< n => rest2 =< rest)
  <2>1. k =< n \/ n =< k
    BY <1>3, <1>4
  <2> QED  BY <1>3, <1>4, <2>1, MaxAmountValue, ProductFacts
<1>8. t \in lo..hi => t + rest < lo + top
  BY DEF Room
<1>9. \A d \in Days : d < Day(now) /\ tokens[<<p, d>>] =< hi => tokens[<<p, d>>] < lo + top
  BY DEF Room
<1> HIDE DEF top, top2, rest, rest2, t, n, k, lo, hi
<1>10. t \in lo..hi => t + rest2 < lo + top2
  BY <1>1, <1>3, <1>4, <1>5, <1>6, <1>7, <1>8 DEF t, lo, hi, n, k
<1>11. \A d \in Days : d < Day(now) /\ tokens[<<p, d>>] =< hi => tokens[<<p, d>>] < lo + top2
  BY <1>1, <1>2, <1>6, <1>9
<1> QED  BY <1>10, <1>11 DEF Room, top2, rest2, t, k, lo, hi

\* A request that ends leaves the requests in flight of its provider.
LEMMA Leaving ==
    ASSUME TypeOK, FiniteInv, NEW r \in Requests,
           pc[r] \in {"inspecting", "serving"}, route' = route,
           pc' = [pc EXCEPT ![r] = pc'[r]],
           pc'[r] \notin {"inspecting", "serving"},
           NEW p \in Providers
    PROVE  /\ p # route[r] => InFlight(p)' = InFlight(p)
           /\ p = route[r] => Cardinality(InFlight(p)) = Cardinality(InFlight(p)') + 1
           /\ Cardinality(InFlight(p)') \in Nat
           /\ Cardinality(InFlight(p)') =< Cardinality(InFlight(p))
<1>1. InFlight(p)' = InFlight(p) \ {r}
  <2>1. \A q \in Requests : q # r => pc'[q] = pc[q]
    BY DEF TypeOK
  <2> QED  BY <2>1 DEF InFlight
<1>2. p # route[r] => InFlight(p)' = InFlight(p)
  BY <1>1 DEF InFlight
<1>3. p = route[r] => r \in InFlight(p)
  BY DEF InFlight
<1>4. IsFiniteSet(InFlight(p)) /\ Cardinality(InFlight(p)) \in Nat
  BY InFlightFinite
<1>5. /\ IsFiniteSet(InFlight(p)')
      /\ Cardinality(InFlight(p)')
           = IF r \in InFlight(p) THEN Cardinality(InFlight(p)) - 1
             ELSE Cardinality(InFlight(p))
  BY <1>1, <1>4, FS_RemoveElement
<1>6. Cardinality(InFlight(p)') \in Nat
  BY <1>5, FS_CardinalityType
<1> QED  BY <1>2, <1>3, <1>4, <1>5, <1>6

\* A request that is routed joins those in flight of its provider alone, and
\* the peak of that provider keeps up with them.
LEMMA Joining ==
    ASSUME TypeOK, FiniteInv, TimeInv, PeakInv, NEW r \in Requests,
           pc[r] = "new", Routed(r), NEW p \in Providers
    PROVE  /\ p # Serving => InFlight(p)' = InFlight(p) /\ peak'[p] = peak[p]
           /\ peak[p] =< peak'[p]
           /\ Cardinality(InFlight(p)') =< peak'[p]
<1>1. Serving \in Providers
  BY ServingValue DEF Routed, TypeOK
<1>2. /\ pc' = [pc EXCEPT ![r] = "inspecting"]
      /\ route' = [route EXCEPT ![r] = Serving]
  BY DEF Routed
<1>3. route[r] = None /\ None \notin Providers
  BY PolicyAssumption DEF TimeInv
<1> DEFINE n == Cardinality(InFlight(Serving)) + 1
           v == IF n > peak[Serving] THEN n ELSE peak[Serving]
<1>4. peak' = [peak EXCEPT ![Serving] = v]
  BY DEF Routed
<1>5. peak'[Serving] = v /\ (p # Serving => peak'[p] = peak[p])
  BY <1>1, <1>4 DEF TypeOK
<1>6. peak[p] \in Nat /\ Cardinality(InFlight(p)) \in Nat
        /\ IsFiniteSet(InFlight(p)) /\ Cardinality(InFlight(p)) =< peak[p]
  BY InFlightFinite DEF TypeOK, PeakInv
<1>7. CASE p # Serving
  <2>1. InFlight(p)' = InFlight(p)
    BY <1>2, <1>3, <1>7 DEF InFlight, TypeOK
  <2> QED  BY <1>5, <1>6, <1>7, <2>1
<1>8. CASE p = Serving
  <2>1. InFlight(p)' = InFlight(p) \cup {r} /\ r \notin InFlight(p)
    BY <1>2, <1>8 DEF InFlight, TypeOK
  <2>2. Cardinality(InFlight(p)') = Cardinality(InFlight(p)) + 1
    BY <1>6, <2>1, FS_AddElement
  <2> QED  BY <1>5, <1>6, <1>8, <2>2
<1> QED  BY <1>7, <1>8

\* A provider that no rule switches to is chosen only while no budget of it is
\* used up.
LEMMA ChosenWithinBudget ==
    ASSUME TypeOK, Serving # None, NEW i \in DOMAIN Rules, Binds(Serving, i)
    PROVE  ~(tokens[<<Serving, Day(now)>>] \in Rules[i].lo..Rules[i].hi)
<1>1. Violated(Serving) = {}
  BY ServingValue DEF TypeOK, Binds
<1>2. ~Violates(Serving, Rules[i])
  BY <1>1 DEF Violated
<1> QED  BY <1>2 DEF Violates, Binds

\* Charging a request in flight uses room that was kept for it.
LEMMA ChargeKeepsRoom ==
    ASSUME TypeOK, FiniteInv, PeakInv, NEW p \in Providers,
           NEW i \in DOMAIN Rules, Binds(p, i), Room(p, i),
           NEW n \in Amounts, UNCHANGED <<now, peak>>,
           Cardinality(InFlight(p)') \in Nat,
           Cardinality(InFlight(p)) = Cardinality(InFlight(p)') + 1,
           \A d \in Days : tokens'[<<p, d>>] = IF d = Day(now)
                             THEN tokens[<<p, d>>] + n ELSE tokens[<<p, d>>]
    PROVE  Room(p, i)'
<1> DEFINE t == tokens[<<p, Day(now)>>]
           k == Cardinality(InFlight(p)')
           lo == Rules[i].lo
           hi == Rules[i].hi
           rest == MaxAmount * Cardinality(InFlight(p))
           rest2 == MaxAmount * k
           top == MaxAmount * peak[p]
<1>1. lo \in Nat /\ hi \in Nat
  BY RuleTypes
<1>2. t \in Nat /\ Day(now) \in Days /\ peak[p] \in Nat
  BY DayType DEF TypeOK
<1>3. n \in Nat /\ MaxAmount \in Nat /\ n =< MaxAmount
  BY MaxAmountValue
<1>4. rest = rest2 + MaxAmount
  BY <1>3, ProductStep
<1>5. rest2 \in Nat
  BY <1>3, ProductFacts
<1>6. rest =< top /\ top \in Nat
  BY <1>2, <1>3, InFlightFinite, ProductFacts DEF PeakInv
<1>7. t \in lo..hi => t + rest < lo + top
  BY DEF Room
<1>8. \A d \in Days : d < Day(now) /\ tokens[<<p, d>>] =< hi
                        => tokens[<<p, d>>] < lo + top
  BY DEF Room
<1>9. tokens'[<<p, Day(now)>>] = t + n
  BY <1>2
<1>10. Day(now) \in Int /\ \A d \in Days : d \in Int
  BY <1>2 DEF Days
<1>11. \A d \in Days : d < Day(now) => tokens'[<<p, d>>] = tokens[<<p, d>>]
  BY <1>10
<1> HIDE DEF t, k, lo, hi, rest, rest2, top
<1>12. t + n \in lo..hi => (t + n) + rest2 < lo + top
  BY <1>1, <1>2, <1>3, <1>4, <1>5, <1>6, <1>7
<1> QED  BY <1>8, <1>9, <1>11, <1>12 DEF Room, t, k, lo, hi, rest2, top

\* record_tokens_today charges only today.
LEMMA FutureInvariant == Spec => []FutureInv
<1>1. Init => FutureInv
  BY DEF Init, FutureInv
<1>2. TypeOK /\ FutureInv /\ [Next]_vars => FutureInv'
  <2> SUFFICES ASSUME TypeOK, FutureInv, [Next]_vars,
                      NEW p \in Providers, NEW d \in Days, d > Day(now')
               PROVE  tokens'[<<p, d>>] = 0
    BY DEF FutureInv, Day
  <2>0. now \in Nat /\ d \in Int /\ Day(now) \in Nat
    BY DayOrder DEF TypeOK, Times, Days
  <2>1. CASE UNCHANGED <<now, tokens>>
    BY <2>1 DEF FutureInv
  <2>2. CASE Tick
    <3>1. now' = now + 1 /\ tokens' = tokens
      BY <2>2 DEF Tick, engine
    <3>2. Day(now) =< Day(now') /\ Day(now') \in Nat
      BY <2>0, <3>1, DayOrder
    <3>3. d > Day(now)
      BY <2>0, <3>2
    <3> QED  BY <3>1, <3>3 DEF FutureInv
  <2>3. ASSUME NEW r \in Requests, NEW n \in Amounts, Serve(r, n)
        PROVE  tokens'[<<p, d>>] = 0
    <3>1. now' = now
      BY <2>3 DEF Serve
    <3>2. d # Day(now)
      BY <2>0, <3>1
    <3>3. tokens'[<<p, d>>] = tokens[<<p, d>>]
      BY <2>3, <3>2, ChargeValue
    <3> QED  BY <3>1, <3>3 DEF FutureInv
  <2>4. ASSUME NEW e \in events, OnAttackDetected(e)
        PROVE  UNCHANGED <<now, tokens>>
    BY <2>4, AttackCases
  <2>5. ASSUME NEW r \in Requests, Resolve(r)
        PROVE  UNCHANGED <<now, tokens>>
    BY <2>5, ResolveCases
  <2> QED
    BY <2>1, <2>2, <2>3, <2>4, <2>5, WhoTouches DEF Inspect, Fail, engine, vars
<1> QED
  BY <1>1, <1>2, PolicyTypeCorrect, PTL DEF Spec

\* What each step does to the requests in flight and to the room of a budget.
LEMMA RoomStep ==
    ASSUME TypeOK, FiniteInv, TypeOK', FiniteInv', TimeInv, FutureInv, PeakInv,
           RoomInv, [Next]_vars
    PROVE  PeakInv' /\ RoomInv'
<1> SUFFICES ASSUME NEW p \in Providers
             PROVE  /\ Cardinality(InFlight(p)') =< peak'[p]
                    /\ \A i \in DOMAIN Rules : Binds(p, i) => Room(p, i)'
  <2>1. \A q \in Providers, i \in DOMAIN Rules : Binds(q, i)' <=> Binds(q, i)
    BY DEF Binds
  <2> QED  BY <2>1 DEF PeakInv, RoomInv
<1>0. /\ Cardinality(InFlight(p)) =< peak[p] /\ peak[p] \in Nat
      /\ Cardinality(InFlight(p)) \in Nat
      /\ \A i \in DOMAIN Rules : Binds(p, i) => Room(p, i)
  BY InFlightFinite DEF PeakInv, RoomInv, TypeOK
<1>1. CASE /\ UNCHANGED <<now, tokens, peak>>
           /\ Cardinality(InFlight(p)') \in Nat
           /\ Cardinality(InFlight(p)') =< Cardinality(InFlight(p))
  <2>1. peak'[p] = peak[p] /\ peak[p] =< peak'[p]
    BY <1>0, <1>1
  <2>2. Cardinality(InFlight(p)') =< peak'[p]
    BY <1>0, <1>1, <2>1
  <2>3. ASSUME NEW i \in DOMAIN Rules, Binds(p, i)
        PROVE  Room(p, i)'
    BY <1>0, <1>1, <2>1, <2>3, RoomKept
  <2> QED  BY <2>2, <2>3
<1>2. CASE UNCHANGED <<now, tokens, peak>> /\ InFlight(p)' = InFlight(p)
  BY <1>0, <1>1, <1>2
<1>3. ASSUME NEW e \in events, OnAttackDetected(e)
      PROVE  UNCHANGED <<now, tokens, peak>> /\ InFlight(p)' = InFlight(p)
  BY <1>3, AttackCases DEF InFlight
<1>4. ASSUME NEW r \in Requests, Resolve(r), RefusedAt(r)
      PROVE  UNCHANGED <<now, tokens, peak>> /\ InFlight(p)' = InFlight(p)
  <2>1. pc[r] = "new" /\ UNCHANGED <<now, tokens>>
    BY <1>4, ResolveCases
  <2> QED  BY <1>4, <2>1 DEF RefusedAt, InFlight, TypeOK
<1>5. ASSUME NEW r \in Requests, Resolve(r), Routed(r)
      PROVE  /\ Cardinality(InFlight(p)') =< peak'[p]
             /\ \A i \in DOMAIN Rules : Binds(p, i) => Room(p, i)'
  <2>1. pc[r] = "new" /\ UNCHANGED <<now, tokens>> /\ Serving # None
    BY <1>5, ResolveCases DEF Routed
  <2>2. /\ p # Serving => InFlight(p)' = InFlight(p)
        /\ peak[p] =< peak'[p]
        /\ Cardinality(InFlight(p)') =< peak'[p]
    BY <1>5, <2>1, Joining
  <2>3. ASSUME NEW i \in DOMAIN Rules, Binds(p, i)
        PROVE  Room(p, i)'
    <3>1. CASE p = Serving
      <4>1. ~(tokens[<<p, Day(now)>>] \in Rules[i].lo..Rules[i].hi)
        BY <2>1, <2>3, <3>1, ChosenWithinBudget
      <4> QED  BY <1>0, <2>1, <2>2, <2>3, <4>1, RoomKept
    <3>2. CASE p # Serving
      <4>1. Cardinality(InFlight(p)') =< Cardinality(InFlight(p))
        BY <1>0, <2>2, <3>2
      <4> QED  BY <1>0, <2>1, <2>2, <2>3, <4>1, RoomKept
    <3> QED  BY <3>1, <3>2
  <2> QED  BY <2>2, <2>3
<1>6. ASSUME NEW r \in Requests, NEW f \in Findings \cup {NoFinding}, Inspect(r, f)
      PROVE  /\ UNCHANGED <<now, tokens, peak>>
             /\ \/ InFlight(p)' = InFlight(p)
                \/ /\ Cardinality(InFlight(p)') \in Nat
                   /\ Cardinality(InFlight(p)') =< Cardinality(InFlight(p))
  <2>1. /\ pc[r] = "inspecting"
        /\ pc' = [pc EXCEPT ![r] = "blocked"] \/ pc' = [pc EXCEPT ![r] = "serving"]
        /\ UNCHANGED <<now, tokens, route, peak>>
    BY <1>6 DEF Inspect, engine, ghosts
  <2>2. CASE pc' = [pc EXCEPT ![r] = "serving"]
    BY <2>1, <2>2 DEF InFlight, TypeOK
  <2>3. CASE pc' = [pc EXCEPT ![r] = "blocked"]
    <3>1. pc'[r] = "blocked"
      BY <2>3 DEF TypeOK
    <3> QED  BY <2>1, <2>3, <3>1, Leaving
  <2> QED  BY <2>1, <2>2, <2>3
<1>7. ASSUME NEW r \in Requests, NEW n \in Amounts, Serve(r, n)
      PROVE  /\ Cardinality(InFlight(p)') =< peak'[p]
             /\ \A i \in DOMAIN Rules : Binds(p, i) => Room(p, i)'
  <2>1. /\ pc[r] = "serving" /\ pc' = [pc EXCEPT ![r] = "served"]
        /\ UNCHANGED <<now, route, peak>>
    BY <1>7 DEF Serve, ghosts
  <2>2. /\ p # route[r] => InFlight(p)' = InFlight(p)
        /\ p = route[r] => Cardinality(InFlight(p)) = Cardinality(InFlight(p)') + 1
        /\ Cardinality(InFlight(p)') \in Nat
        /\ Cardinality(InFlight(p)') =< Cardinality(InFlight(p))
    <3>1. pc'[r] = "served"
      BY <2>1 DEF TypeOK
    <3> QED  BY <2>1, <3>1, Leaving
  <2>3. Cardinality(InFlight(p)') =< peak'[p]
    BY <1>0, <2>1, <2>2
  <2>4. \A d \in Days : tokens'[<<p, d>>] = IF p = route[r] /\ d = Day(now)
                          THEN tokens[<<p, d>>] + n ELSE tokens[<<p, d>>]
    BY <1>7, ChargeValue
  <2>5. ASSUME NEW i \in DOMAIN Rules, Binds(p, i), p = route[r]
        PROVE  Room(p, i)'
    BY <1>0, <2>1, <2>2, <2>4, <2>5, ChargeKeepsRoom
  <2>6. ASSUME NEW i \in DOMAIN Rules, Binds(p, i), p # route[r]
        PROVE  Room(p, i)'
    <3>1. \A d \in Days : tokens'[<<p, d>>] = tokens[<<p, d>>]
      BY <2>4, <2>6
    <3>2. tokens'[<<p, Day(now)>>] = tokens[<<p, Day(now)>>]
      BY <3>1, DayType DEF TypeOK
    <3> QED  BY <1>0, <2>1, <2>2, <2>6, <3>1, <3>2 DEF Room
  <2> QED  BY <2>3, <2>5, <2>6
<1>8. ASSUME NEW r \in Requests, Fail(r)
      PROVE  /\ UNCHANGED <<now, tokens, peak>>
             /\ Cardinality(InFlight(p)') \in Nat
             /\ Cardinality(InFlight(p)') =< Cardinality(InFlight(p))
  <2>1. /\ pc[r] = "serving" /\ pc' = [pc EXCEPT ![r] = "failed"]
        /\ UNCHANGED <<now, tokens, route, peak>>
    BY <1>8 DEF Fail, engine, ghosts
  <2>2. pc'[r] = "failed"
    BY <2>1 DEF TypeOK
  <2> QED  BY <2>1, <2>2, Leaving
<1>9. ASSUME Tick
      PROVE  /\ Cardinality(InFlight(p)') =< peak'[p]
             /\ \A i \in DOMAIN Rules : Binds(p, i) => Room(p, i)'
  <2>1. now' = now + 1 /\ UNCHANGED <<tokens, peak, pc, route>>
    BY <1>9 DEF Tick, engine, ghosts
  <2>2. InFlight(p)' = InFlight(p)
    BY <2>1 DEF InFlight
  <2>3. ASSUME NEW i \in DOMAIN Rules, Binds(p, i)
        PROVE  Room(p, i)'
    <3>1. \A d \in Days : tokens[<<p, d>>] =< Rules[i].hi =>
            tokens[<<p, d>>] < Rules[i].lo + MaxAmount * peak[p]
      BY <1>0, <2>3, BudgetBound
    <3>2. /\ now \in Nat /\ now' \in Times /\ Day(now) \in Nat /\ Day(now') \in Nat
          /\ Day(now) =< Day(now')
      BY <2>1, DayOrder DEF TypeOK, Times
    <3>3. CASE Day(now') = Day(now)
      BY <1>0, <2>1, <2>2, <2>3, <3>1, <3>3 DEF Room
    <3>4. CASE Day(now') > Day(now)
      <4>1. tokens[<<p, Day(now')>>] = 0
        BY <3>2, <3>4, DayType DEF FutureInv
      <4>2. Rules[i].lo \in Nat /\ Rules[i].lo > 0 /\ Rules[i].hi \in Nat
        BY <2>3, RuleTypes DEF Binds
      <4>3. ~(tokens[<<p, Day(now')>>] \in Rules[i].lo..Rules[i].hi)
        BY <4>1, <4>2
      <4> QED  BY <2>1, <3>1, <4>3 DEF Room
    <3> QED  BY <3>2, <3>3, <3>4
  <2> QED  BY <1>0, <2>1, <2>2, <2>3
<1>10. CASE UNCHANGED vars
  BY <1>2, <1>10 DEF vars, InFlight
<1> QED
  BY <1>1, <1>2, <1>3, <1>4, <1>5, <1>6, <1>7, <1>8, <1>9, <1>10,
     WhoTouches, ResolveCases

\* A budget is overspent only by requests that were in flight together, and a
\* provider over its budget is chosen only as the target of a rule.
THEOREM OvershootSafe == Spec => []OvershootBounded
<1> DEFINE Chosen == \A r \in Requests :
             overBudget[r] => \E j \in DOMAIN Rules : Rules[j].switch_to = route[r]
<1>1. Init => PeakInv /\ RoomInv /\ Chosen
  <2> SUFFICES ASSUME Init
               PROVE  PeakInv /\ RoomInv /\ Chosen
    OBVIOUS
  <2>1. \A p \in Providers : Cardinality(InFlight(p)) = 0
    <3>1. \A p \in Providers : InFlight(p) = {}
      BY DEF Init, InFlight
    <3> QED  BY <3>1, FS_EmptySet
  <2>2. PeakInv
    BY <2>1 DEF Init, PeakInv
  <2>3. now = 0 /\ Day(now) = 0
    BY PolicyAssumption DEF Init, Day
  <2>4. ASSUME NEW p \in Providers, NEW i \in DOMAIN Rules, Binds(p, i)
        PROVE  Room(p, i)
    <3>1. Rules[i].lo \in Nat /\ Rules[i].lo > 0
      BY <2>4, RuleTypes DEF Binds
    <3>2. 0 \in Days
      BY <2>3, DayType, PolicyAssumption DEF Times
    <3>3. tokens[<<p, Day(now)>>] = 0
      BY <2>3, <3>2 DEF Init
    <3>4. \A d \in Days : ~(d < Day(now))
      BY <2>3 DEF Days
    <3>5. ~(tokens[<<p, Day(now)>>] \in Rules[i].lo..Rules[i].hi)
      BY <3>1, <3>3, RuleTypes
    <3> QED  BY <3>4, <3>5 DEF Room
  <2>5. Chosen
    BY DEF Init
  <2> QED  BY <2>2, <2>4, <2>5 DEF RoomInv
<1>2. /\ TypeOK /\ FiniteInv /\ TypeOK' /\ FiniteInv' /\ TimeInv /\ FutureInv
      /\ PeakInv /\ RoomInv /\ [Next]_vars
      => PeakInv' /\ RoomInv'
  BY RoomStep
<1>3. TypeOK /\ Chosen /\ [Next]_vars => Chosen'
  <2> SUFFICES ASSUME TypeOK, Chosen, [Next]_vars
               PROVE  Chosen'
    OBVIOUS
  <2>1. CASE UNCHANGED <<overBudget, route>>
    BY <2>1
  <2>2. ASSUME NEW r \in Requests, Routed(r)
        PROVE  Chosen'
    <3>1. /\ overBudget' = [overBudget EXCEPT ![r] = Violated(Serving) # {}]
          /\ route' = [route EXCEPT ![r] = Serving]
      BY <2>2 DEF Routed
    <3>2. overBudget'[r] => Violated(Serving) # {}
      BY <3>1 DEF TypeOK
    <3>3. route'[r] = Serving
      BY <3>1 DEF TypeOK
    <3>4. \A q \in Requests : q # r =>
            overBudget'[q] = overBudget[q] /\ route'[q] = route[q]
      BY <3>1 DEF TypeOK
    <3>5. Violated(Serving) # {} =>
            \E j \in DOMAIN Rules : Rules[j].switch_to = Serving
      BY <2>2, ServingValue DEF Routed, TypeOK
    <3>6. overBudget'[r] => \E j \in DOMAIN Rules : Rules[j].switch_to = route'[r]
      BY <3>2, <3>3, <3>5
    <3> QED  BY <3>4, <3>6
  <2>3. ASSUME NEW r \in Requests, RefusedAt(r)
        PROVE  UNCHANGED <<overBudget, route>>
    BY <2>3 DEF RefusedAt
  <2>4. ASSUME NEW e \in events, OnAttackDetected(e)
        PROVE  UNCHANGED <<overBudget, route>>
    BY <2>4, AttackCases
  <2> QED  BY <2>1, <2>2, <2>3, <2>4, WhoTouches, ResolveCases
<1>4. TypeOK /\ FiniteInv /\ FutureInv /\ RoomInv /\ Chosen => OvershootBounded
  BY BudgetBound DEF OvershootBounded, RoomInv, Binds
<1> QED
  BY <1>1, <1>2, <1>3, <1>4, PolicyTypeCorrect, TimeInvariant, FutureInvariant, PTL
  DEF Spec
=============================================================================
