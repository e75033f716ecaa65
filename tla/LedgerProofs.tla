---------------------------- MODULE LedgerProofs ----------------------------
(***************************************************************************)
(* Proofs about MeteringLedger: on one day with a fail-closed backend the  *)
(* counters of Redis are the sums of what their requests are charged, and  *)
(* the scripts and their callers implement QuotaLedger, for any finite set *)
(* of requests, any quotas and any interleaving.                           *)
(*                                                                         *)
(* A sum over a finite set is a fold, which is a recursive definition.     *)
(* What the proofs need of it follows from one characterisation: it is the *)
(* value of any additive measure on the subsets.  The inductions take the  *)
(* form of a smallest counterexample among the subsets of a finite set.    *)
(***************************************************************************)
EXTENDS MeteringLedger, MeteringProofs, FiniteSetTheorems, WellFoundedInduction

-----------------------------------------------------------------------------
(* Sums over finite sets.                                                  *)

\* w measures the subsets of S by adding up f.
Additive(w, S, f) ==
    /\ w \in [SUBSET S -> Int]
    /\ w[{}] = 0
    /\ \A T \in SUBSET S : \A x \in S \ T : w[T \cup {x}] = w[T] + f[x]

\* A nonempty family of subsets of a finite set has a smallest member.
LEMMA SmallestSet ==
    ASSUME NEW S, IsFiniteSet(S), NEW B, B \subseteq SUBSET S, B # {}
    PROVE  \E T \in B : \A U \in B : U \subseteq T => U = T
<1>1. IsWellFoundedOn(StrictSubsetOrdering(S), SUBSET S)
  BY FS_StrictSubsetOrderingWellFounded, FS_FiniteSubsetsOfFinite
<1>2. PICK T \in B : \A U \in B : ~(<<U, T>> \in StrictSubsetOrdering(S))
  BY <1>1, WFMin
<1>3. \A U \in B : U \subseteq T => U = T
  BY <1>2 DEF StrictSubsetOrdering
<1> QED  BY <1>3

\* Integers can be added up over the subsets of a finite set.
LEMMA MeasureExists ==
    ASSUME NEW S, IsFiniteSet(S), NEW f, \A x \in S : f[x] \in Int
    PROVE  \E w : Additive(w, S, f)
<1> DEFINE B == {T \in SUBSET S : ~\E w : Additive(w, T, f)}
<1> SUFFICES ASSUME B # {}
             PROVE  FALSE
  OBVIOUS
<1>0. B \subseteq SUBSET S
  OBVIOUS
<1>1. PICK T \in B : \A U \in B : U \subseteq T => U = T
  <2> HIDE DEF B
  <2> QED  BY <1>0, SmallestSet
<1>2. T # {}
  <2> SUFFICES ASSUME T = {}
               PROVE  FALSE
    OBVIOUS
  <2> DEFINE w == [s \in SUBSET {} |-> 0]
  <2>1. Additive(w, {}, f)
    BY DEF Additive
  <2> QED  BY <1>1, <2>1
<1>3. PICK x \in T : TRUE
  BY <1>2
<1>4. PICK v : Additive(v, T \ {x}, f)
  <2>1. T \ {x} \in SUBSET S /\ T \ {x} \subseteq T /\ T \ {x} # T
    BY <1>1, <1>3
  <2>2. T \ {x} \notin B
    BY <1>1, <2>1
  <2> QED  BY <2>1, <2>2
<1> DEFINE w == [s \in SUBSET T |-> IF x \in s THEN v[s \ {x}] + f[x] ELSE v[s]]
<1>5. f[x] \in Int /\ \A y \in T : f[y] \in Int
  BY <1>1, <1>3
<1>6. v \in [SUBSET (T \ {x}) -> Int] /\ v[{}] = 0
  BY <1>4 DEF Additive
<1>7. \A s \in SUBSET T : s \ {x} \in SUBSET (T \ {x})
  OBVIOUS
<1>8. \A s \in SUBSET T : x \notin s => s \in SUBSET (T \ {x})
  OBVIOUS
<1>9. w \in [SUBSET T -> Int]
  BY <1>5, <1>6, <1>7, <1>8
<1>10. w[{}] = 0
  BY <1>6
<1>11. ASSUME NEW s \in SUBSET T, NEW y \in T \ s
       PROVE  w[s \cup {y}] = w[s] + f[y]
  <2>1. s \cup {y} \in SUBSET T
    OBVIOUS
  <2>2. CASE y = x
    <3>1. (s \cup {y}) \ {x} = s
      BY <1>11, <2>2
    <3> QED  BY <2>1, <2>2, <3>1
  <2>3. CASE y # x /\ x \notin s
    <3>1. x \notin s \cup {y} /\ y \in (T \ {x}) \ s /\ s \in SUBSET (T \ {x})
      BY <2>3
    <3>2. v[s \cup {y}] = v[s] + f[y]
      BY <1>4, <3>1 DEF Additive
    <3> QED  BY <2>1, <2>3, <3>1, <3>2
  <2>4. CASE y # x /\ x \in s
    <3>1. /\ x \in s \cup {y} /\ y \in (T \ {x}) \ (s \ {x})
          /\ s \ {x} \in SUBSET (T \ {x})
          /\ (s \cup {y}) \ {x} = (s \ {x}) \cup {y}
      BY <2>4
    <3>2. v[(s \ {x}) \cup {y}] = v[s \ {x}] + f[y]
      BY <1>4, <3>1 DEF Additive
    <3>3. w[s \cup {y}] = v[(s \ {x}) \cup {y}] + f[x]
      BY <2>1, <3>1
    <3>4. w[s] = v[s \ {x}] + f[x]
      BY <2>4
    <3>5. v[s \ {x}] \in Int
      BY <1>6, <3>1
    <3> HIDE DEF w
    <3> QED  BY <1>5, <3>2, <3>3, <3>4, <3>5
  <2> QED  BY <2>2, <2>3, <2>4
<1>12. Additive(w, T, f)
  BY <1>9, <1>10, <1>11 DEF Additive
<1> QED  BY <1>1, <1>12

\* The fold that SumOver is made of computes any such measure.
LEMMA SumIsMeasure ==
    ASSUME NEW S, IsFiniteSet(S), NEW f, \A x \in S : f[x] \in Int, NEW w, Additive(w, S, f)
    PROVE  SumOver(f, S) = w[S]
<1> DEFINE pick(s) == CHOOSE x \in s : TRUE
           Rec(g) == [s \in SUBSET S |->
                        IF s = {} THEN 0 ELSE f[pick(s)] + g[s \ {pick(s)}]]
           iter == CHOOSE g : g = Rec(g)
<1>1. SumOver(f, S) = iter[S]
  BY DEF SumOver, MapThenSumSet, MapThenFoldSet
<1>2. \A s \in SUBSET S : s # {} => pick(s) \in s
  OBVIOUS
<1> HIDE DEF pick
<1>3. ASSUME NEW s \in SUBSET S, s # {}
      PROVE  w[s] = f[pick(s)] + w[s \ {pick(s)}]
  <2>1. /\ pick(s) \in S \ (s \ {pick(s)}) /\ s \ {pick(s)} \in SUBSET S
        /\ (s \ {pick(s)}) \cup {pick(s)} = s
    BY <1>2, <1>3
  <2>2. w[s] = w[s \ {pick(s)}] + f[pick(s)]
    BY <2>1 DEF Additive
  <2>3. w[s \ {pick(s)}] \in Int /\ f[pick(s)] \in Int
    BY <2>1 DEF Additive
  <2> QED  BY <2>2, <2>3
<1>4. w = Rec(w)
  BY <1>3 DEF Additive
<1>5. iter = Rec(iter)
  BY <1>4
<1> DEFINE B == {s \in SUBSET S : iter[s] # w[s]}
<1> HIDE DEF iter
<1>6. B = {}
  <2> SUFFICES ASSUME B # {}
               PROVE  FALSE
    OBVIOUS
  <2>0. B \subseteq SUBSET S
    OBVIOUS
  <2>1. PICK s \in B : \A u \in B : u \subseteq s => u = s
    <3> HIDE DEF B
    <3> QED  BY <2>0, SmallestSet
  <2>2. s # {}
    BY <1>5, <2>1 DEF Additive
  <2>3. pick(s) \in s /\ s \ {pick(s)} \in SUBSET S /\ s \ {pick(s)} # s
    BY <1>2, <2>1, <2>2
  <2>4. iter[s \ {pick(s)}] = w[s \ {pick(s)}]
    BY <2>1, <2>3
  <2>5. iter[s] = f[pick(s)] + iter[s \ {pick(s)}]
    BY <1>5, <2>1, <2>2
  <2> QED  BY <1>3, <2>1, <2>2, <2>4, <2>5
<1> QED  BY <1>1, <1>6

\* A sum of integers is one; a sum of zeros is zero.
LEMMA SumType ==
    ASSUME NEW S, IsFiniteSet(S), NEW f, \A x \in S : f[x] \in Int
    PROVE  /\ SumOver(f, S) \in Int
           /\ (\A x \in S : f[x] = 0) => SumOver(f, S) = 0
<1>1. PICK w : Additive(w, S, f)
  BY MeasureExists
<1>2. SumOver(f, S) = w[S]
  BY <1>1, SumIsMeasure
<1>3. SumOver(f, S) \in Int
  BY <1>1, <1>2 DEF Additive
<1>4. ASSUME \A x \in S : f[x] = 0
      PROVE  SumOver(f, S) = 0
  <2> DEFINE v == [T \in SUBSET S |-> 0]
  <2>1. \A T \in SUBSET S : \A x \in S : T \cup {x} \in SUBSET S
    OBVIOUS
  <2>2. Additive(v, S, f)
    BY <1>4, <2>1 DEF Additive
  <2>3. v[S] = 0
    OBVIOUS
  <2> HIDE DEF v
  <2> QED  BY <2>2, <2>3, SumIsMeasure
<1> QED  BY <1>3, <1>4

\* One value changes: the sum changes by the difference if it counts it.
LEMMA SumUpdate ==
    ASSUME NEW S, IsFiniteSet(S), NEW f, \A x \in S : f[x] \in Int,
           NEW g, NEW y, f[y] \in Int, g[y] \in Int,
           \A x \in S : x # y => g[x] = f[x]
    PROVE  SumOver(g, S) = IF y \in S THEN SumOver(f, S) - f[y] + g[y]
                           ELSE SumOver(f, S)
<1>1. PICK w : Additive(w, S, f)
  BY MeasureExists
<1>2. SumOver(f, S) = w[S]
  BY <1>1, SumIsMeasure
<1>3. w \in [SUBSET S -> Int] /\ w[{}] = 0
  BY <1>1 DEF Additive
<1> DEFINE v == [T \in SUBSET S |-> IF y \in T THEN w[T] - f[y] + g[y] ELSE w[T]]
<1>4. v \in [SUBSET S -> Int] /\ v[{}] = 0
  BY <1>3
<1>5. \A x \in S : g[x] \in Int
  OBVIOUS
<1>6. ASSUME NEW T \in SUBSET S, NEW x \in S \ T
      PROVE  v[T \cup {x}] = v[T] + g[x]
  <2>1. T \cup {x} \in SUBSET S /\ w[T] \in Int /\ f[x] \in Int /\ g[x] \in Int
    BY <1>3, <1>5
  <2>2. w[T \cup {x}] = w[T] + f[x]
    BY <1>1 DEF Additive
  <2>3. CASE x = y
    <3>1. v[T \cup {x}] = w[T \cup {x}] - f[y] + g[y] /\ v[T] = w[T]
      BY <2>1, <2>3
    <3> HIDE DEF v
    <3> QED  BY <2>1, <2>2, <2>3, <3>1
  <2>4. CASE x # y /\ y \in T
    <3>1. v[T \cup {x}] = w[T \cup {x}] - f[y] + g[y] /\ v[T] = w[T] - f[y] + g[y]
      BY <2>1, <2>4
    <3>2. g[x] = f[x]
      BY <2>4
    <3> HIDE DEF v
    <3> QED  BY <2>1, <2>2, <3>1, <3>2
  <2>5. CASE x # y /\ y \notin T
    <3>1. v[T \cup {x}] = w[T \cup {x}] /\ v[T] = w[T] /\ g[x] = f[x]
      BY <2>1, <2>5
    <3> HIDE DEF v
    <3> QED  BY <2>2, <3>1
  <2> QED  BY <2>3, <2>4, <2>5
<1>7. Additive(v, S, g)
  BY <1>4, <1>6 DEF Additive
<1>8. v[S] = IF y \in S THEN w[S] - f[y] + g[y] ELSE w[S]
  OBVIOUS
<1> HIDE DEF v
<1>9. SumOver(g, S) = v[S]
  BY <1>5, <1>7, SumIsMeasure
<1> QED  BY <1>2, <1>8, <1>9

\* A sum of naturals is at least each of them.
LEMMA SumAtLeast ==
    ASSUME NEW S, IsFiniteSet(S), NEW f, \A x \in S : f[x] \in Nat, NEW y \in S
    PROVE  SumOver(f, S) >= f[y]
<1>1. PICK w : Additive(w, S, f)
  BY MeasureExists
<1>2. SumOver(f, S) = w[S]
  BY <1>1, SumIsMeasure
<1>3. w \in [SUBSET S -> Int] /\ w[{}] = 0
  BY <1>1 DEF Additive
<1> DEFINE B == {T \in SUBSET S : w[T] < 0}
<1>4. B = {}
  <2> SUFFICES ASSUME B # {}
               PROVE  FALSE
    OBVIOUS
  <2>1. B \subseteq SUBSET S
    OBVIOUS
  <2>2. PICK T \in B : \A U \in B : U \subseteq T => U = T
    <3> HIDE DEF B
    <3> QED  BY <2>1, SmallestSet
  <2>3. T \in SUBSET S /\ w[T] < 0
    BY <2>2
  <2>4. PICK x \in T : TRUE
    <3>1. T = {} => w[T] = 0
      BY <1>3
    <3>2. T # {}
      BY <2>3, <3>1
    <3> QED  BY <3>2
  <2>5. /\ T \ {x} \in SUBSET S /\ x \in S \ (T \ {x}) /\ T \ {x} # T
        /\ (T \ {x}) \cup {x} = T
    BY <2>3, <2>4
  <2>6. w[T] = w[T \ {x}] + f[x]
    BY <1>1, <2>5 DEF Additive
  <2>7. T \ {x} \notin B
    BY <2>2, <2>5
  <2>8. w[T \ {x}] \in Int /\ w[T \ {x}] >= 0 /\ f[x] \in Nat
    BY <1>3, <2>5, <2>7
  <2> QED  BY <2>3, <2>6, <2>8
<1>5. /\ S \ {y} \in SUBSET S /\ y \in S \ (S \ {y}) /\ (S \ {y}) \cup {y} = S
  OBVIOUS
<1>6. w[S] = w[S \ {y}] + f[y]
  BY <1>1, <1>5 DEF Additive
<1>7. w[S \ {y}] \in Int /\ w[S \ {y}] >= 0
  BY <1>3, <1>4, <1>5
<1>8. f[y] \in Nat
  OBVIOUS
<1> QED  BY <1>2, <1>6, <1>7, <1>8
-----------------------------------------------------------------------------
(* The accounts of the requests.                                           *)

\* The commands on the wire say what the request reserved or used, and an open
\* reservation is charged with its reserve.
AccountInv ==
    /\ \A r \in Requests : pc[r] = "new" => \A c \in wire : c.r # r
    /\ \A c \in wire : c.op = "admit" => c.n = reserve[c.r] /\ c.n \in Reserves
    /\ \A c \in wire : c.op = "settle" =>
         \E u \in Usages : c.n = u - reserve[c.r]
    /\ \A r \in Requests : pc[r] = "settled" => usage[r] \in Usages
    /\ \A r \in Requests : rsvKey[r] = "open" => charge[r] = reserve[r]
    /\ \A r \in Requests : charge[r] \in Nat

\* Metering keeps a request's reserve from admit to settle: what SETTLE_LUA
\* adds turns the reserve into the usage, however often it is sent.
LEMMA AccountInvariant == Spec => []AccountInv
<1>1. Init => AccountInv
  BY DEF Init, AccountInv
<1>2. TypeOK /\ AdmissionInv /\ AccountInv /\ [Next]_vars => AccountInv'
  <2> SUFFICES ASSUME TypeOK, AdmissionInv, AccountInv, [Next]_vars
               PROVE  AccountInv'
    OBVIOUS
  <2>0. /\ \A c \in wire : c.r \in Requests
        /\ \A r \in Requests : reserve[r] \in Nat /\ usage[r] \in Nat
        /\ \A r \in Requests : pc[r] = "new" => rsvKey[r] = "absent"
        /\ Reserves \subseteq Nat /\ Usages \subseteq Nat
    BY MeteringAssumption DEF TypeOK, Commands, AdmissionInv
  <2>1. ASSUME NEW r \in Requests, NEW n \in Reserves, Admit(r, n)
        PROVE  AccountInv'
    <3> DEFINE cmd == [op |-> "admit", r |-> r, day |-> day, n |-> n, slot |-> 0]
    <3>1. /\ pc[r] = "new" /\ pc' = [pc EXCEPT ![r] = "admitting"]
          /\ reserve' = [reserve EXCEPT ![r] = n] /\ wire' = wire \cup {cmd}
          /\ UNCHANGED <<rsvKey, charge, usage>>
      BY <2>1 DEF Admit, redis, ghosts
    <3>2. cmd.op = "admit" /\ cmd.r = r /\ cmd.n = n
      OBVIOUS
    <3>3. \A q \in Requests : q # r => reserve'[q] = reserve[q] /\ pc'[q] = pc[q]
      BY <3>1 DEF TypeOK
    <3>4. reserve'[r] = n /\ pc'[r] = "admitting"
      BY <3>1 DEF TypeOK
    <3>5. \A c \in wire : c.r # r /\ c.r \in Requests
      BY <2>0, <3>1 DEF AccountInv
    <3> HIDE DEF cmd
    <3>6. \A q \in Requests : pc'[q] = "new" => \A c \in wire' : c.r # q
      BY <3>1, <3>2, <3>3, <3>4 DEF AccountInv
    <3>7. \A c \in wire' : c.op = "admit" => c.n = reserve'[c.r] /\ c.n \in Reserves
      BY <3>1, <3>2, <3>3, <3>4, <3>5 DEF AccountInv
    <3>8. \A c \in wire' : c.op = "settle" => \E u \in Usages : c.n = u - reserve'[c.r]
      BY <3>1, <3>2, <3>3, <3>5 DEF AccountInv
    <3>9. \A q \in Requests : rsvKey[q] = "open" => charge[q] = reserve'[q]
      BY <2>0, <3>1, <3>3 DEF AccountInv
    <3>10. \A q \in Requests : pc'[q] = "settled" => usage'[q] \in Usages
      BY <3>1, <3>3, <3>4 DEF AccountInv
    <3> QED  BY <3>1, <3>6, <3>7, <3>8, <3>9, <3>10 DEF AccountInv
  <2>2. ASSUME NEW r \in Requests,
               PingFails(r) \/ AdmitAnswered(r) \/ AdmitFails(r)
        PROVE  AccountInv'
    <3>1. /\ pc' = [pc EXCEPT ![r] = pc'[r]] /\ pc'[r] \notin {"new", "settled"}
          /\ UNCHANGED <<wire, reserve, usage, rsvKey, charge>>
      BY <2>2 DEF PingFails, AdmitAnswered, AdmitFails, redis, ghosts, TypeOK
    <3>2. \A q \in Requests : q # r => pc'[q] = pc[q]
      BY <3>1 DEF TypeOK
    <3> QED  BY <3>1, <3>2 DEF AccountInv
  <2>3. ASSUME NEW r \in Requests, NEW u \in Usages, Settle(r, u)
        PROVE  AccountInv'
    <3> DEFINE cmd == SettleCommand(r, u, 0)
    <3>1. /\ pc[r] = "admitted" /\ pc' = [pc EXCEPT ![r] = "settled"]
          /\ usage' = [usage EXCEPT ![r] = u] /\ wire' = wire \cup {cmd}
          /\ UNCHANGED <<rsvKey, charge, reserve>>
      BY <2>3 DEF Settle, redis
    <3>2. cmd.op = "settle" /\ cmd.r = r /\ cmd.n = u - reserve[r]
      BY DEF SettleCommand
    <3>3. \A q \in Requests : q # r => usage'[q] = usage[q] /\ pc'[q] = pc[q]
      BY <3>1 DEF TypeOK
    <3>4. usage'[r] = u /\ pc'[r] = "settled"
      BY <3>1 DEF TypeOK
    <3> HIDE DEF cmd
    <3> QED  BY <3>1, <3>2, <3>3, <3>4 DEF AccountInv
  <2>4. ASSUME NEW r \in Requests, SettleAgain(r)
        PROVE  AccountInv'
    <3> DEFINE cmd == SettleCommand(r, usage[r], 1)
    <3>1. /\ pc[r] = "settled" /\ pc' = [pc EXCEPT ![r] = "settled2"]
          /\ wire' = wire \cup {cmd}
          /\ UNCHANGED <<rsvKey, charge, reserve, usage>>
      BY <2>4 DEF SettleAgain, redis, ghosts
    <3>2. cmd.op = "settle" /\ cmd.r = r /\ cmd.n = usage[r] - reserve[r]
      BY DEF SettleCommand
    <3>3. \A q \in Requests : q # r => pc'[q] = pc[q]
      BY <3>1 DEF TypeOK
    <3>4. pc'[r] = "settled2" /\ usage[r] \in Usages
      BY <3>1 DEF TypeOK, AccountInv
    <3> HIDE DEF cmd
    <3> QED  BY <3>1, <3>2, <3>3, <3>4 DEF AccountInv
  <2>5. ASSUME NEW r \in Requests, NEW u \in Usages, Record(r, u)
        PROVE  AccountInv'
    <3> DEFINE cmds == {[op |-> "incr", r |-> r, day |-> day, slot |-> i,
                         n |-> IF i \in {2, 4} THEN 1 ELSE u] : i \in 1..5}
    <3>1. /\ pc[r] = "failopen" /\ pc' = [pc EXCEPT ![r] = "recorded"]
          /\ wire' = wire \cup cmds /\ usage' = [usage EXCEPT ![r] = u]
          /\ UNCHANGED <<rsvKey, charge, reserve>>
      BY <2>5 DEF Record, redis, ghosts
    <3>2. \A c \in cmds : c.op = "incr" /\ c.r = r
      OBVIOUS
    <3>3. \A q \in Requests : q # r => pc'[q] = pc[q] /\ usage'[q] = usage[q]
      BY <3>1 DEF TypeOK
    <3>4. pc'[r] = "recorded"
      BY <3>1 DEF TypeOK
    <3> HIDE DEF cmds
    <3> QED  BY <3>1, <3>2, <3>3, <3>4 DEF AccountInv
  <2>6. ASSUME NEW r \in Requests, ExpireReservation(r)
        PROVE  AccountInv'
    BY <2>6 DEF ExpireReservation, ghosts, AccountInv, TypeOK
  <2>7. ASSUME NEW c \in wire, RunAdmit(c)
        PROVE  AccountInv'
    <3>1. /\ c.r \in Requests /\ c.n = reserve[c.r] /\ c.n \in Nat
          /\ wire' \subseteq wire /\ UNCHANGED <<pc, reserve, usage>>
      BY <2>0, <2>7 DEF RunAdmit, AccountInv
    <3>2. \/ UNCHANGED <<rsvKey, charge>>
          \/ /\ rsvKey' = [rsvKey EXCEPT ![c.r] = "open"]
             /\ charge' = [charge EXCEPT ![c.r] = c.n]
      BY <2>7 DEF RunAdmit, redis
    <3>3. \A r \in Requests : rsvKey'[r] = "open" => charge'[r] = reserve[r]
      BY <3>1, <3>2 DEF AccountInv, TypeOK
    <3>4. \A r \in Requests : charge'[r] \in Nat
      BY <3>1, <3>2 DEF AccountInv, TypeOK
    <3> QED  BY <3>1, <3>3, <3>4 DEF AccountInv
  <2>8. ASSUME NEW c \in wire, RunSettle(c)
        PROVE  AccountInv'
    <3>1. /\ c.r \in Requests /\ wire' \subseteq wire
          /\ UNCHANGED <<pc, reserve, usage>>
      BY <2>0, <2>8 DEF RunSettle
    <3>2. \/ UNCHANGED <<rsvKey, charge>>
          \/ /\ rsvKey[c.r] = "open"
             /\ rsvKey' = [rsvKey EXCEPT ![c.r] = "settled"]
             /\ charge' = [charge EXCEPT ![c.r] = charge[c.r] + c.n]
      BY <2>8 DEF RunSettle, Unsettled, redis
    <3>3. rsvKey[c.r] = "open" => charge[c.r] + c.n \in Nat
      <4>1. PICK u \in Usages : c.n = u - reserve[c.r]
        BY <2>8 DEF RunSettle, AccountInv
      <4>2. rsvKey[c.r] = "open" => charge[c.r] = reserve[c.r]
        BY <3>1 DEF AccountInv
      <4> QED  BY <2>0, <3>1, <4>1, <4>2
    <3>4. \A r \in Requests : rsvKey'[r] = "open" => charge'[r] = reserve[r]
      BY <3>1, <3>2 DEF AccountInv, TypeOK
    <3>5. \A r \in Requests : charge'[r] \in Nat
      BY <3>1, <3>2, <3>3 DEF AccountInv, TypeOK
    <3> QED  BY <3>1, <3>4, <3>5 DEF AccountInv
  <2>9. ASSUME NEW c \in wire, RunIncr(c) \/ Lose(c)
        PROVE  AccountInv'
    BY <2>9 DEF RunIncr, Lose, redis, ghosts, AccountInv
  <2>10. CASE Midnight \/ UNCHANGED vars
    BY <2>10 DEF Midnight, redis, ghosts, vars, AccountInv
  <2> QED
    BY <2>1, <2>2, <2>3, <2>4, <2>5, <2>6, <2>7, <2>8, <2>9, <2>10 DEF Next
<1> QED
  BY <1>1, <1>2, TypeCorrect, AdmissionInvariant, PTL DEF Spec
-----------------------------------------------------------------------------
(* One day with a fail-closed backend.                                     *)

\* No request goes on without a reservation, so nothing is incremented.
NoIncr ==
    /\ \A c \in wire : c.op # "incr"
    /\ \A r \in Requests : pc[r] # "failopen"

\* backend_fail_closed: a request whose admission fails gets a 503, and record
\* is never called.
LEMMA NoIncrInvariant ==
    ASSUME FailClosed = Requests
    PROVE  Spec => []NoIncr
<1>1. Init => NoIncr
  BY DEF Init, NoIncr
<1>2. TypeOK /\ NoIncr /\ [Next]_vars => NoIncr'
  <2> SUFFICES ASSUME TypeOK, NoIncr, [Next]_vars
               PROVE  NoIncr'
    OBVIOUS
  <2> USE DEF NoIncr, TypeOK
  <2>1. ASSUME NEW r \in Requests, NEW n \in Reserves, Admit(r, n)
        PROVE  NoIncr'
    BY <2>1 DEF Admit
  <2>2. ASSUME NEW r \in Requests,
               PingFails(r) \/ AdmitAnswered(r) \/ AdmitFails(r)
        PROVE  NoIncr'
    BY <2>2 DEF PingFails, AdmitAnswered, AdmitFails
  <2>3. ASSUME NEW r \in Requests, NEW u \in Usages, Settle(r, u)
        PROVE  NoIncr'
    BY <2>3 DEF Settle, SettleCommand
  <2>4. ASSUME NEW r \in Requests, SettleAgain(r)
        PROVE  NoIncr'
    BY <2>4 DEF SettleAgain, SettleCommand
  <2>5. ASSUME NEW r \in Requests, NEW u \in Usages, Record(r, u)
        PROVE  NoIncr'
    BY <2>5 DEF Record
  <2>6. ASSUME NEW r \in Requests, ExpireReservation(r)
        PROVE  NoIncr'
    BY <2>6 DEF ExpireReservation
  <2>7. ASSUME NEW c \in wire, RunAdmit(c) \/ RunSettle(c) \/ RunIncr(c) \/ Lose(c)
        PROVE  NoIncr'
    BY <2>7 DEF RunAdmit, RunSettle, RunIncr, Lose
  <2>8. CASE Midnight \/ UNCHANGED vars
    BY <2>8 DEF Midnight, vars
  <2> QED
    BY <2>1, <2>2, <2>3, <2>4, <2>5, <2>6, <2>7, <2>8 DEF Next
<1> QED
  BY <1>1, <1>2, TypeCorrect, PTL DEF Spec

\* What ADMIT_LUA, SETTLE_LUA and the expiry of a record do to the accounts.
Opens(r, n) ==
    /\ rsvKey[r] = "absent" /\ charge[r] = 0
    /\ AdmitVerdict(r, 0, n) = "ok"
    /\ bucket' = Plus(Plus(bucket, TokenKeys(r, 0), n), ReqKeys(r, 0), 1)
    /\ rsvKey' = [rsvKey EXCEPT ![r] = "open"]
    /\ charge' = [charge EXCEPT ![r] = n]

Settles(r, u) ==
    /\ rsvKey[r] = "open"
    /\ bucket' = Reconciled(bucket, TokenKeys(r, 0), u - charge[r])
    /\ rsvKey' = [rsvKey EXCEPT ![r] = "settled"]
    /\ charge' = [charge EXCEPT ![r] = u]

Expires(r) ==
    /\ rsvKey[r] \in {"open", "settled"}
    /\ rsvKey' = [rsvKey EXCEPT ![r] = "expired"]
    /\ UNCHANGED <<bucket, charge>>

\* Every step opens an account, settles one, lets one expire, or leaves the
\* accounts alone.
LEMMA AccountSteps ==
    ASSUME MaxDay = 0, TypeOK, AdmissionInv, AccountInv, NoIncr, [Next]_vars
    PROVE  \/ UNCHANGED <<bucket, charge, rsvKey>>
           \/ \E r \in Requests, n \in Reserves : Opens(r, n)
           \/ \E r \in Requests, u \in Usages : Settles(r, u)
           \/ \E r \in Requests : Expires(r)
<1>0. \A c \in wire : c.r \in Requests /\ c.day = 0
  <2>1. Days = {0}
    BY DEF Days
  <2> QED  BY <2>1 DEF TypeOK, Commands
<1>1. ASSUME NEW c \in wire, RunAdmit(c), ~UNCHANGED <<bucket, charge, rsvKey>>
      PROVE  \E r \in Requests, n \in Reserves : Opens(r, n)
  <2>1. /\ c.n \in Reserves /\ reply[c.r] = "none"
        /\ rsvKey[c.r] = "absent" /\ charge[c.r] = 0
    BY <1>0, <1>1 DEF RunAdmit, AccountInv, AdmissionInv
  <2>2. AdmitVerdict(c.r, c.day, c.n) = "ok"
    BY <1>1 DEF RunAdmit, redis
  <2>3. Opens(c.r, c.n)
    BY <1>0, <1>1, <2>1, <2>2 DEF RunAdmit, Opens
  <2> QED  BY <1>0, <2>1, <2>3
<1>2. ASSUME NEW c \in wire, RunSettle(c), ~UNCHANGED <<bucket, charge, rsvKey>>
      PROVE  \E r \in Requests, u \in Usages : Settles(r, u)
  <2>1. PICK u \in Usages : c.n = u - reserve[c.r]
    BY <1>2 DEF RunSettle, AccountInv
  <2>2. rsvKey[c.r] = "open"
    BY <1>2 DEF RunSettle, Unsettled, redis
  <2>3. /\ bucket' = Reconciled(bucket, TokenKeys(c.r, c.day), c.n)
        /\ rsvKey' = [rsvKey EXCEPT ![c.r] = "settled"]
        /\ charge' = [charge EXCEPT ![c.r] = charge[c.r] + c.n]
    BY <1>2, <2>2 DEF RunSettle, Unsettled
  <2>4. charge[c.r] = reserve[c.r] /\ charge[c.r] \in Nat /\ u \in Nat
    BY <1>0, <2>2, MeteringAssumption DEF AccountInv
  <2>5. charge[c.r] + c.n = u /\ c.n = u - charge[c.r]
    BY <2>1, <2>4
  <2>6. Settles(c.r, u)
    BY <1>0, <2>2, <2>3, <2>5 DEF Settles
  <2> QED  BY <1>0, <2>6
<1>3. ASSUME NEW r \in Requests, ExpireReservation(r)
      PROVE  Expires(r)
  BY <1>3 DEF ExpireReservation, Expires, ghosts
<1>4. ASSUME NEW c \in wire, RunIncr(c)
      PROVE  FALSE
  BY <1>4 DEF RunIncr, NoIncr
<1>5. CASE UNCHANGED vars
  BY <1>5 DEF vars
<1>6. CASE Midnight
  BY <1>6 DEF Midnight, redis, ghosts
<1>7. ASSUME NEW c \in wire, Lose(c)
      PROVE  UNCHANGED <<bucket, charge, rsvKey>>
  BY <1>7 DEF Lose, redis, ghosts
<1>8. ASSUME NEW r \in Requests,
             \/ \E n \in Reserves : Admit(r, n)
             \/ PingFails(r) \/ AdmitAnswered(r) \/ AdmitFails(r)
             \/ \E u \in Usages : Settle(r, u) \/ Record(r, u)
             \/ SettleAgain(r)
      PROVE  UNCHANGED <<bucket, charge, rsvKey>>
  BY <1>8 DEF Admit, PingFails, AdmitAnswered, AdmitFails, Settle, Record,
              SettleAgain, redis, ghosts
<1> QED
  BY <1>1, <1>2, <1>3, <1>4, <1>5, <1>6, <1>7, <1>8 DEF Next

-----------------------------------------------------------------------------
(* The counters are sums.                                                  *)

\* With one day a request is counted by exactly its own token counters.
LEMMA CountedByKeys ==
    ASSUME MaxDay = 0, NEW k \in Keys, NEW r \in Requests
    PROVE  r \in CountedBy(k) <=> k \in TokenKeys(r, 0)
<1>1. Days = {0}
  BY DEF Days
<1>2. k[3] = 0
  BY <1>1 DEF Keys
<1> QED  BY <1>2 DEF CountedBy

\* Each admission and each settle is counted once, and SETTLE_LUA's clamp
\* discards nothing: a token counter is the sum of the charges of its requests.
THEOREM ConservationSafe ==
    ASSUME IsFiniteSet(Requests), MaxDay = 0, FailClosed = Requests
    PROVE  Spec => []Conservation
<1>0. \A k : IsFiniteSet(CountedBy(k)) /\ CountedBy(k) \subseteq Requests
  <2>1. \A k : CountedBy(k) \subseteq Requests
    BY DEF CountedBy
  <2> QED  BY <2>1, FS_Subset
<1>1. Init => Conservation
  <2> SUFFICES ASSUME Init, NEW k \in Keys
               PROVE  bucket[k] = SumOver(charge, CountedBy(k))
    BY DEF Conservation
  <2>1. \A r \in CountedBy(k) : charge[r] = 0
    BY <1>0 DEF Init
  <2>2. SumOver(charge, CountedBy(k)) = 0
    BY <1>0, <2>1, SumType
  <2> QED  BY <2>2 DEF Init
<1>2. /\ TypeOK /\ AdmissionInv /\ AccountInv /\ NoIncr /\ Conservation
      /\ [Next]_vars
      => Conservation'
  <2> SUFFICES ASSUME TypeOK, AdmissionInv, AccountInv, NoIncr, Conservation,
                      [Next]_vars, NEW k \in Keys,
                      k[1] \in {"c:tokens", "p:tokens", "m:tokens"}
               PROVE  bucket'[k] = SumOver(charge', CountedBy(k))
    BY DEF Conservation, CountedBy, TokenKeys, CTokens, PTokens, MTokens
  <2> DEFINE T == CountedBy(k)
  <2>1. /\ IsFiniteSet(T) /\ \A r \in T : r \in Requests
        /\ \A r \in Requests : charge[r] \in Nat
        /\ bucket[k] = SumOver(charge, T) /\ bucket[k] \in Nat
        /\ bucket \in [Keys -> Nat] /\ charge \in [Requests -> Int]
    BY <1>0 DEF AccountInv, Conservation, TypeOK
  <2>2. \A r \in Requests : r \in T <=> k \in TokenKeys(r, 0)
    BY CountedByKeys
  <2> HIDE DEF T
  <2>3. CASE UNCHANGED <<bucket, charge, rsvKey>> \/ \E r \in Requests : Expires(r)
    BY <2>1, <2>3 DEF Expires, T
  <2>4. ASSUME NEW r \in Requests, NEW n \in Reserves, Opens(r, n)
        PROVE  bucket'[k] = SumOver(charge', T)
    <3>1. /\ charge[r] = 0 /\ charge' = [charge EXCEPT ![r] = n]
          /\ bucket' = Plus(Plus(bucket, TokenKeys(r, 0), n), ReqKeys(r, 0), 1)
      BY <2>4 DEF Opens
    <3>2. n \in Nat
      BY MeteringAssumption
    <3>3. charge'[r] = n /\ \A x \in T : x # r => charge'[x] = charge[x]
      BY <2>1, <3>1
    <3>4. SumOver(charge', T) = IF r \in T THEN SumOver(charge, T) - charge[r] + n
                                ELSE SumOver(charge, T)
      BY <2>1, <3>2, <3>3, SumUpdate
    <3>5. k \notin ReqKeys(r, 0)
      <4>1. \A j \in ReqKeys(r, 0) : j[1] \in {"c:req", "p:req"}
        BY DEF ReqKeys, CReq, PReq
      <4> QED  BY <4>1
    <3>6. bucket'[k] = IF k \in TokenKeys(r, 0) THEN bucket[k] + n ELSE bucket[k]
      <4>1. Plus(bucket, TokenKeys(r, 0), n) \in [Keys -> Int]
        BY <2>1, <3>2, PlusValue
      <4>2. bucket'[k] = Plus(bucket, TokenKeys(r, 0), n)[k]
        BY <3>1, <3>5, <4>1, PlusValue
      <4> QED  BY <2>1, <3>2, <4>2, PlusValue
    <3> QED  BY <2>1, <2>2, <3>1, <3>2, <3>4, <3>6
  <2>5. ASSUME NEW r \in Requests, NEW u \in Usages, Settles(r, u)
        PROVE  bucket'[k] = SumOver(charge', T)
    <3>1. /\ charge' = [charge EXCEPT ![r] = u]
          /\ bucket' = Reconciled(bucket, TokenKeys(r, 0), u - charge[r])
      BY <2>5 DEF Settles
    <3>2. u \in Nat /\ charge[r] \in Nat
      BY <2>1, MeteringAssumption
    <3>3. charge'[r] = u /\ \A x \in T : x # r => charge'[x] = charge[x]
      BY <2>1, <3>1
    <3>4. SumOver(charge', T) = IF r \in T THEN SumOver(charge, T) - charge[r] + u
                                ELSE SumOver(charge, T)
      BY <2>1, <3>2, <3>3, SumUpdate
    <3>5. CASE r \notin T
      <4>1. bucket'[k] = bucket[k]
        BY <2>2, <3>1, <3>5 DEF Reconciled
      <4> QED  BY <2>1, <3>4, <3>5, <4>1
    <3>6. CASE r \in T
      <4>1. SumOver(charge, T) >= charge[r]
        BY <2>1, <3>6, SumAtLeast
      <4>2. bucket[k] + (u - charge[r]) >= 0
        BY <2>1, <3>2, <4>1
      <4>3. bucket'[k] = AtLeastZero(bucket[k] + (u - charge[r]))
        BY <2>2, <3>1, <3>6 DEF Reconciled
      <4>4. bucket'[k] = bucket[k] + (u - charge[r])
        BY <2>1, <3>2, <4>2, <4>3, AtLeastZeroValue
      <4> QED  BY <2>1, <3>2, <3>4, <3>6, <4>4
    <3> QED  BY <3>5, <3>6
  <2> QED  BY <2>3, <2>4, <2>5, AccountSteps DEF T
<1> QED
  BY <1>1, <1>2, TypeCorrect, AdmissionInvariant, AccountInvariant,
     NoIncrInvariant, PTL DEF Spec
-----------------------------------------------------------------------------
(* The refinement.                                                         *)

\* The client's admitted requests, and the counter that limits them.
AdmittedBy(r) ==
    {q \in Requests : ClientOf[q] = ClientOf[r] /\ rsvKey[q] # "absent"}

RequestsCounted ==
    \A r \in Requests : bucket[CReq(r, 0)] = Cardinality(AdmittedBy(r))

\* ADMIT_LUA counts each request it admits once, and nothing takes one back.
LEMMA RequestsInvariant ==
    ASSUME IsFiniteSet(Requests), MaxDay = 0, FailClosed = Requests
    PROVE  Spec => []RequestsCounted
<1>0. 0 \in Days
  BY DEF Days
<1>1. Init => RequestsCounted
  <2> SUFFICES ASSUME Init, NEW r \in Requests
               PROVE  bucket[CReq(r, 0)] = Cardinality(AdmittedBy(r))
    BY DEF RequestsCounted
  <2>1. AdmittedBy(r) = {}
    BY DEF Init, AdmittedBy
  <2>2. bucket[CReq(r, 0)] = 0
    BY <1>0, KeysOfRequest DEF Init
  <2> QED  BY <2>1, <2>2, FS_EmptySet
<1>2. /\ TypeOK /\ AdmissionInv /\ AccountInv /\ NoIncr /\ RequestsCounted
      /\ [Next]_vars
      => RequestsCounted'
  <2> SUFFICES ASSUME TypeOK, AdmissionInv, AccountInv, NoIncr, RequestsCounted,
                      [Next]_vars, NEW q \in Requests
               PROVE  bucket'[CReq(q, 0)] = Cardinality(AdmittedBy(q)')
    BY DEF RequestsCounted, CReq
  <2>0. /\ CReq(q, 0) \in Keys /\ bucket \in [Keys -> Nat]
        /\ bucket[CReq(q, 0)] = Cardinality(AdmittedBy(q))
        /\ IsFiniteSet(AdmittedBy(q))
    <3>1. AdmittedBy(q) \subseteq Requests
      BY DEF AdmittedBy
    <3> QED  BY <1>0, <3>1, KeysOfRequest, FS_Subset DEF TypeOK, RequestsCounted
  <2>1. ASSUME bucket'[CReq(q, 0)] = bucket[CReq(q, 0)],
               \A r \in Requests : rsvKey'[r] = "absent" <=> rsvKey[r] = "absent"
        PROVE  bucket'[CReq(q, 0)] = Cardinality(AdmittedBy(q)')
    <3>1. AdmittedBy(q)' = AdmittedBy(q)
      BY <2>1 DEF AdmittedBy
    <3> QED  BY <2>0, <2>1, <3>1
  <2>2. CASE UNCHANGED <<bucket, charge, rsvKey>>
    BY <2>1, <2>2
  <2>3. ASSUME NEW r \in Requests, Expires(r)
        PROVE  bucket'[CReq(q, 0)] = Cardinality(AdmittedBy(q)')
    BY <2>1, <2>3 DEF Expires, TypeOK
  <2>4. ASSUME NEW r \in Requests, NEW u \in Usages, Settles(r, u)
        PROVE  bucket'[CReq(q, 0)] = Cardinality(AdmittedBy(q)')
    <3>1. CReq(q, 0) \notin TokenKeys(r, 0)
      BY DEF TokenKeys, CReq, CTokens, PTokens, MTokens
    <3>2. bucket'[CReq(q, 0)] = bucket[CReq(q, 0)]
      BY <2>0, <2>4, <3>1 DEF Settles, Reconciled
    <3> QED  BY <2>1, <2>4, <3>2 DEF Settles, TypeOK
  <2>5. ASSUME NEW r \in Requests, NEW n \in Reserves, Opens(r, n)
        PROVE  bucket'[CReq(q, 0)] = Cardinality(AdmittedBy(q)')
    <3>1. /\ rsvKey[r] = "absent" /\ rsvKey' = [rsvKey EXCEPT ![r] = "open"]
          /\ bucket' = Plus(Plus(bucket, TokenKeys(r, 0), n), ReqKeys(r, 0), 1)
      BY <2>5 DEF Opens
    <3>2. CReq(q, 0) \notin TokenKeys(r, 0)
      BY DEF TokenKeys, CReq, CTokens, PTokens, MTokens
    <3>3. CReq(q, 0) \in ReqKeys(r, 0) <=> ClientOf[q] = ClientOf[r]
      BY DEF ReqKeys, CReq, PReq
    <3>4. bucket'[CReq(q, 0)] = IF ClientOf[q] = ClientOf[r]
                                THEN bucket[CReq(q, 0)] + 1 ELSE bucket[CReq(q, 0)]
      <4>1. n \in Int
        BY MeteringAssumption
      <4>2. /\ Plus(bucket, TokenKeys(r, 0), n) \in [Keys -> Int]
            /\ Plus(bucket, TokenKeys(r, 0), n)[CReq(q, 0)] = bucket[CReq(q, 0)]
        BY <2>0, <3>2, <4>1, PlusValue
      <4> QED  BY <2>0, <3>1, <3>3, <4>2, PlusValue
    <3>5. CASE ClientOf[q] = ClientOf[r]
      <4>1. AdmittedBy(q)' = AdmittedBy(q) \cup {r} /\ r \notin AdmittedBy(q)
        BY <3>1, <3>5 DEF AdmittedBy, TypeOK
      <4>2. Cardinality(AdmittedBy(q)') = Cardinality(AdmittedBy(q)) + 1
        BY <2>0, <4>1, FS_AddElement
      <4> QED  BY <2>0, <3>4, <3>5, <4>2
    <3>6. CASE ClientOf[q] # ClientOf[r]
      <4>1. AdmittedBy(q)' = AdmittedBy(q)
        BY <3>1, <3>6 DEF AdmittedBy, TypeOK
      <4> QED  BY <2>0, <3>4, <3>6, <4>1
    <3> QED  BY <3>5, <3>6
  <2> QED  BY <2>2, <2>3, <2>4, <2>5, AccountSteps
<1> QED
  BY <1>1, <1>2, TypeCorrect, AdmissionInvariant, AccountInvariant,
     NoIncrInvariant, PTL DEF Spec

\* The ledger's own names for sums and sizes.
LEMMA LedgerNames ==
    /\ \A S : Ledger!Sum(S) = SumOver(charge, S)
    /\ \A S : Ledger!Cardinality(S) = Cardinality(S)
<1>1. \A S : Ledger!Sum(S) = SumOver(charge, S)
  BY DEF Ledger!Sum, SumOver, Ledger!MapThenSumSet, MapThenSumSet,
         Ledger!MapThenFoldSet, MapThenFoldSet
<1>2. \A S : Ledger!Cardinality(S) = Cardinality(S)
  BY DEF Ledger!Cardinality, Cardinality
<1> QED  BY <1>1, <1>2

\* A request that ADMIT_LUA admits fits into the ledger.
LEMMA OpensRefines ==
    ASSUME MaxDay = 0, TypeOK, Conservation, RequestsCounted,
           NEW r \in Requests, NEW n \in Reserves, Opens(r, n)
    PROVE  Ledger!Open(r, n)
<1>1. 0 \in Days /\ n \in Nat /\ charge[r] = 0
  BY MeteringAssumption DEF Days, Opens
<1>2. /\ CTokens(r, 0) \in Keys /\ CReq(r, 0) \in Keys /\ PTokens(r, 0) \in Keys
  BY <1>1, KeysOfRequest
<1>3. /\ Limit(CTokens(r, 0)) = ClientTokensPerDay
      /\ Limit(CReq(r, 0)) = ClientRequestsPerDay
      /\ Limit(PTokens(r, 0)) = ProviderTokensPerDay
  <2>1. CTokens(r, 0)[1] = "c:tokens" /\ CReq(r, 0)[1] = "c:req"
          /\ PTokens(r, 0)[1] = "p:tokens"
    BY DEF CTokens, CReq, PTokens
  <2> QED  BY <2>1 DEF Limit
<1>4. Fits(CTokens(r, 0), n) /\ Fits(CReq(r, 0), 1) /\ Fits(PTokens(r, 0), n)
  BY DEF Opens, AdmitVerdict
<1>5. /\ CountedBy(CTokens(r, 0)) = Ledger!OfClient(r)
      /\ CountedBy(PTokens(r, 0)) = Ledger!OfProvider(r)
  <2>1. CTokens(r, 0)[3] = 0 /\ PTokens(r, 0)[3] = 0
    BY DEF CTokens, PTokens
  <2>2. \A q \in Requests :
          /\ CTokens(r, 0) \in TokenKeys(q, 0) <=> ClientOf[q] = ClientOf[r]
          /\ PTokens(r, 0) \in TokenKeys(q, 0) <=> ProviderOf[q] = ProviderOf[r]
    BY DEF TokenKeys, CTokens, PTokens, MTokens
  <2> QED  BY <2>1, <2>2 DEF CountedBy, Ledger!OfClient, Ledger!OfProvider
<1>6. /\ bucket[CTokens(r, 0)] = Ledger!Sum(Ledger!OfClient(r))
      /\ bucket[PTokens(r, 0)] = Ledger!Sum(Ledger!OfProvider(r))
  <2>1. CTokens(r, 0)[1] = "c:tokens" /\ PTokens(r, 0)[1] = "p:tokens"
    BY DEF CTokens, PTokens
  <2>2. /\ bucket[CTokens(r, 0)] = SumOver(charge, CountedBy(CTokens(r, 0)))
        /\ bucket[PTokens(r, 0)] = SumOver(charge, CountedBy(PTokens(r, 0)))
    BY <1>2, <2>1 DEF Conservation
  <2> QED  BY <1>5, <2>2, LedgerNames
<1>7. {q \in Ledger!OfClient(r) : Line[q] # "none"} = AdmittedBy(r)
  <2>1. \A q \in Requests : Line[q] # "none" <=> rsvKey[q] # "absent"
    BY DEF Line, TypeOK
  <2> QED  BY <2>1 DEF Ledger!OfClient, AdmittedBy
<1>8. bucket[CReq(r, 0)]
        = Ledger!Cardinality({q \in Ledger!OfClient(r) : Line[q] # "none"})
  BY <1>7, LedgerNames DEF RequestsCounted
<1>9. /\ Ledger!Within(ClientTokensPerDay, Ledger!Sum(Ledger!OfClient(r)) + n)
      /\ Ledger!Within(ProviderTokensPerDay, Ledger!Sum(Ledger!OfProvider(r)) + n)
      /\ Ledger!Within(ClientRequestsPerDay,
           Ledger!Cardinality({q \in Ledger!OfClient(r) : Line[q] # "none"}) + 1)
  BY <1>3, <1>4, <1>6, <1>8 DEF Fits, Ledger!Within
<1>10. Line[r] = "none" /\ Line' = [Line EXCEPT ![r] = "open"]
  BY DEF Opens, Line, TypeOK
<1>11. charge' = [charge EXCEPT ![r] = n]
  BY DEF Opens
<1> QED  BY <1>9, <1>10, <1>11 DEF Ledger!Open

\* On one day with a fail-closed backend, Redis, its scripts and their callers
\* implement the ledger: every behaviour of theirs, with deadlines, lost, late
\* and repeated commands and expiring records, is a behaviour of QuotaLedger.
THEOREM LedgerRefinement ==
    ASSUME IsFiniteSet(Requests), MaxDay = 0, FailClosed = Requests
    PROVE  Spec => RefinesLedger
<1>1. Init => Ledger!Init
  BY DEF Init, Ledger!Init, Line
<1>2. /\ TypeOK /\ AdmissionInv /\ AccountInv /\ NoIncr /\ Conservation
      /\ RequestsCounted /\ [Next]_vars
      => [Ledger!Next]_(Ledger!vars)
  <2> SUFFICES ASSUME TypeOK, AdmissionInv, AccountInv, NoIncr, Conservation,
                      RequestsCounted, [Next]_vars
               PROVE  [Ledger!Next]_(Ledger!vars)
    OBVIOUS
  <2>1. CASE UNCHANGED <<bucket, charge, rsvKey>>
    BY <2>1 DEF Ledger!vars, Line
  <2>2. ASSUME NEW r \in Requests, NEW n \in Reserves, Opens(r, n)
        PROVE  Ledger!Next
    BY <2>2, OpensRefines DEF Ledger!Next
  <2>3. ASSUME NEW r \in Requests, NEW u \in Usages, Settles(r, u)
        PROVE  Ledger!Next
    <3>1. Line[r] = "open" /\ Line' = [Line EXCEPT ![r] = "closed"]
      BY <2>3 DEF Settles, Line, TypeOK
    <3>2. Ledger!Reconcile(r, u)
      BY <2>3, <3>1 DEF Settles, Ledger!Reconcile
    <3> QED  BY <3>2 DEF Ledger!Next
  <2>4. ASSUME NEW r \in Requests, Expires(r)
        PROVE  [Ledger!Next]_(Ledger!vars)
    <3>1. CASE rsvKey[r] = "open"
      <4>1. Line[r] = "open" /\ Line' = [Line EXCEPT ![r] = "closed"]
        BY <2>4, <3>1 DEF Expires, Line, TypeOK
      <4>2. Ledger!Forfeit(r)
        BY <2>4, <4>1 DEF Expires, Ledger!Forfeit
      <4> QED  BY <4>2 DEF Ledger!Next
    <3>2. CASE rsvKey[r] = "settled"
      <4>1. Line' = Line
        BY <2>4, <3>2 DEF Expires, Line, TypeOK
      <4> QED  BY <2>4, <4>1 DEF Expires, Ledger!vars
    <3> QED  BY <2>4, <3>1, <3>2 DEF Expires
  <2> QED  BY <2>1, <2>2, <2>3, <2>4, AccountSteps
<1> QED
  BY <1>1, <1>2, TypeCorrect, AdmissionInvariant, AccountInvariant,
     NoIncrInvariant, ConservationSafe, RequestsInvariant, PTL
  DEF Spec, RefinesLedger, Ledger!Spec
=============================================================================
