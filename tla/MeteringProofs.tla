--------------------------- MODULE MeteringProofs ---------------------------
(***************************************************************************)
(* Proofs about Metering for every set of requests, every quota and every  *)
(* number of days.                                                         *)
(*                                                                         *)
(* The quota bound is not inductive.  It follows from two invariants that  *)
(* are, and that need no sum over the requests: GateHolds bounds a counter *)
(* from above at every admission, NeverUnderCounts bounds it from below by *)
(* what the reservations of its day have consumed.                         *)
(***************************************************************************)
EXTENDS Metering, TLAPS

USE DEF Denials

-----------------------------------------------------------------------------
(* Facts about the operators.                                              *)

\* The counters a request touches are counters of Redis.
LEMMA KeysOfRequest ==
    ASSUME NEW r \in Requests, NEW d \in Days
    PROVE  /\ CTokens(r, d) \in Keys /\ CReq(r, d) \in Keys
           /\ PTokens(r, d) \in Keys /\ PReq(r, d) \in Keys
           /\ MTokens(r, d) \in Keys
           /\ TokenKeys(r, d) \subseteq Keys
           /\ ReqKeys(r, d) \subseteq Keys
<1>1. /\ ClientOf[r] \in Clients
      /\ ProviderOf[r] \in Providers
      /\ ModelOf[r] \in Models
  BY MeteringAssumption
<1>2. /\ CTokens(r, d) \in Keys /\ CReq(r, d) \in Keys
      /\ PTokens(r, d) \in Keys /\ PReq(r, d) \in Keys
      /\ MTokens(r, d) \in Keys
  BY <1>1 DEF CTokens, CReq, PTokens, PReq, MTokens, Keys
<1> QED
  BY <1>2 DEF TokenKeys, ReqKeys

\* Limits are integers, and a counter of requests is never a token counter.
LEMMA LimitType ==
    ASSUME NEW k \in Keys
    PROVE  Limit(k) \in Int
<1> QED  BY MeteringAssumption DEF Limit

\* Plus adds to the chosen counters and leaves the others alone.
LEMMA PlusValue ==
    ASSUME NEW f \in [Keys -> Int], NEW ks, NEW n \in Int
    PROVE  /\ Plus(f, ks, n) \in [Keys -> Int]
           /\ \A k \in Keys :
                Plus(f, ks, n)[k] = IF k \in ks THEN f[k] + n ELSE f[k]
<1> QED  BY DEF Plus

\* A natural added to naturals leaves naturals.
LEMMA PlusNat ==
    ASSUME NEW f \in [Keys -> Nat], NEW ks, NEW n \in Nat
    PROVE  Plus(f, ks, n) \in [Keys -> Nat]
<1> QED  BY DEF Plus

\* The clamp of SETTLE_LUA yields a natural no smaller than its argument.
LEMMA AtLeastZeroValue ==
    ASSUME NEW n \in Int
    PROVE  /\ AtLeastZero(n) \in Nat
           /\ AtLeastZero(n) >= n
           /\ n =< 0 => AtLeastZero(n) = 0
           /\ n >= 0 => AtLeastZero(n) = n
<1> QED  BY DEF AtLeastZero

\* A delta is an overrun less a refund, and one of the two is zero.
LEMMA DeltaSplits ==
    ASSUME NEW n \in Int
    PROVE  /\ AtLeastZero(n) \in Nat /\ AtLeastZero(-n) \in Nat
           /\ -AtLeastZero(-n) \in Int
           /\ n = AtLeastZero(n) - AtLeastZero(-n)
           /\ n >= 0 => AtLeastZero(-n) = 0
           /\ n =< 0 => AtLeastZero(n) = 0
<1> QED  BY DEF AtLeastZero

\* A reconciled counter is a natural, at least its old value plus the delta.
LEMMA ReconciledValue ==
    ASSUME NEW f \in [Keys -> Nat], NEW ks, NEW n \in Int
    PROVE  /\ Reconciled(f, ks, n) \in [Keys -> Nat]
           /\ \A k \in Keys : k \notin ks => Reconciled(f, ks, n)[k] = f[k]
           /\ \A k \in Keys : k \in ks =>
                /\ Reconciled(f, ks, n)[k] >= f[k] + n
                /\ n >= 0 => Reconciled(f, ks, n)[k] = f[k] + n
                /\ n =< 0 => Reconciled(f, ks, n)[k] =< f[k]
<1> QED  BY DEF Reconciled, AtLeastZero

\* The INCRs of a record hit counters of Redis.
LEMMA IncrKeyType ==
    ASSUME NEW r \in Requests, NEW d \in Days, NEW i
    PROVE  IncrKey(r, d, i) \in Keys
<1> QED  BY KeysOfRequest DEF IncrKey

\* An admission that answers "ok" has room in every gated counter it charges.
LEMMA VerdictOk ==
    ASSUME NEW r \in Requests, NEW d \in Days, NEW n \in Nat,
           AdmitVerdict(r, d, n) = "ok", NEW k \in Keys, Limit(k) >= 0
    PROVE  /\ k \in TokenKeys(r, d) => bucket[k] + n =< Limit(k)
           /\ k \in ReqKeys(r, d) => bucket[k] + 1 =< Limit(k)
<1>1. Fits(CTokens(r, d), n) /\ Fits(CReq(r, d), 1) /\ Fits(PTokens(r, d), n)
  BY DEF AdmitVerdict
<1>2. Limit(MTokens(r, d)) = -1 /\ Limit(PReq(r, d)) = -1
  <2>1. MTokens(r, d)[1] = "m:tokens" /\ PReq(r, d)[1] = "p:req"
    BY DEF MTokens, PReq
  <2> QED  BY <2>1 DEF Limit
<1>3. k # MTokens(r, d) /\ k # PReq(r, d)
  BY <1>2, LimitType
<1> QED
  BY <1>1, <1>3 DEF Fits, TokenKeys, ReqKeys

\* Token counters and request counters are different keys.
LEMMA KindsDiffer ==
    ASSUME NEW r, NEW d, NEW e
    PROVE  TokenKeys(r, d) \cap ReqKeys(r, e) = {}
<1> QED  BY DEF TokenKeys, ReqKeys, CTokens, CReq, PTokens, PReq, MTokens

-----------------------------------------------------------------------------
(* Type correctness.                                                       *)

\* The verdict of the admission script is one of its four answers.
LEMMA VerdictType ==
    ASSUME NEW r, NEW d, NEW n
    PROVE  AdmitVerdict(r, d, n) \in {"ok"} \cup Denials
<1> QED  BY DEF AdmitVerdict

\* Every variable of the model keeps its type.
THEOREM TypeCorrect == Spec => []TypeOK
<1>1. Init => TypeOK
  BY MeteringAssumption DEF Init, TypeOK, Days
<1>2. TypeOK /\ [Next]_vars => TypeOK'
  <2> SUFFICES ASSUME TypeOK, [Next]_vars
               PROVE  TypeOK'
    OBVIOUS
  <2> USE DEF TypeOK
  <2>1. ASSUME NEW r \in Requests, NEW n \in Reserves, Admit(r, n)
        PROVE  TypeOK'
    <3>1. n \in Nat
      BY MeteringAssumption
    <3>2. [op |-> "admit", r |-> r, day |-> day, n |-> n, slot |-> 0]
             \in Commands
      BY <3>1 DEF Commands
    <3> QED  BY <2>1, <3>1, <3>2 DEF Admit, redis, ghosts
  <2>2. ASSUME NEW r \in Requests, PingFails(r)
        PROVE  TypeOK'
    BY <2>2 DEF PingFails, redis, ghosts
  <2>3. ASSUME NEW r \in Requests, AdmitAnswered(r)
        PROVE  TypeOK'
    BY <2>3 DEF AdmitAnswered, redis, ghosts
  <2>4. ASSUME NEW r \in Requests, AdmitFails(r)
        PROVE  TypeOK'
    BY <2>4 DEF AdmitFails, redis, ghosts
  <2>5. ASSUME NEW r \in Requests, NEW u \in Usages, Settle(r, u)
        PROVE  TypeOK'
    <3>1. u \in Nat /\ u - reserve[r] \in Int
      BY MeteringAssumption
    <3>2. SettleCommand(r, u, 0) \in Commands
      BY <3>1 DEF Commands, SettleCommand
    <3>3. AtLeastZero(u - reserve[r]) \in Nat
      BY <3>1, AtLeastZeroValue
    <3>4. used' \in [Keys -> Int] /\ over' \in [Keys -> Nat]
      BY <2>5, <3>3, PlusValue, PlusNat DEF Settle
    <3>5. \A c \in wire' : c.op # "settle" => c.n >= 0
      BY <2>5 DEF Settle, SettleCommand
    <3> QED
      BY <2>5, <3>1, <3>2, <3>4, <3>5 DEF Settle, redis
  <2>6. ASSUME NEW r \in Requests, NEW u \in Usages, Record(r, u)
        PROVE  TypeOK'
    <3>1. u \in Nat
      BY MeteringAssumption
    <3> DEFINE incr(i) == [op |-> "incr", r |-> r, day |-> day, slot |-> i,
                           n |-> IF i \in {2, 4} THEN 1 ELSE u]
    <3>2. \A i \in 1..5 : incr(i) \in Commands /\ incr(i).n >= 0
      BY <3>1 DEF Commands
    <3>3. wire' = wire \cup {incr(i) : i \in 1..5}
      BY <2>6 DEF Record
    <3> HIDE DEF incr
    <3>4. /\ wire' \subseteq Commands
          /\ \A c \in wire' : c.op # "settle" => c.n >= 0
      BY <3>2, <3>3
    <3> QED  BY <2>6, <3>1, <3>4 DEF Record, redis, ghosts
  <2>7. ASSUME NEW r \in Requests, SettleAgain(r)
        PROVE  TypeOK'
    <3>1. SettleCommand(r, usage[r], 1) \in Commands
      BY DEF Commands, SettleCommand
    <3>2. \A c \in wire' : c.op # "settle" => c.n >= 0
      BY <2>7 DEF SettleAgain, SettleCommand
    <3> QED  BY <2>7, <3>1, <3>2 DEF SettleAgain, redis, ghosts
  <2>8. ASSUME NEW r \in Requests, ExpireReservation(r)
        PROVE  TypeOK'
    BY <2>8 DEF ExpireReservation, ghosts
  <2>9. ASSUME NEW c \in wire, RunAdmit(c)
        PROVE  TypeOK'
    <3>1. c.r \in Requests /\ c.day \in Days /\ c.n \in Nat
      BY <2>9 DEF RunAdmit, Commands
    <3>2. wire' \subseteq Commands /\ \A e \in wire' : e.op # "settle" => e.n >= 0
      BY <2>9 DEF RunAdmit
    <3>3. reply' \in [Requests -> {"none", "ok"} \cup Denials]
      BY <2>9, VerdictType DEF RunAdmit
    <3>4. /\ TokenKeys(c.r, c.day) \subseteq Keys
          /\ ReqKeys(c.r, c.day) \subseteq Keys
      BY <3>1, KeysOfRequest
    <3>5. /\ Plus(Plus(bucket, TokenKeys(c.r, c.day), c.n),
                  ReqKeys(c.r, c.day), 1) \in [Keys -> Nat]
          /\ Plus(Plus(used, TokenKeys(c.r, c.day), c.n),
                  ReqKeys(c.r, c.day), 1) \in [Keys -> Int]
      BY <3>1, PlusNat, PlusValue
    <3>6. CASE AdmitVerdict(c.r, c.day, c.n) = "ok"
      BY <2>9, <3>1, <3>2, <3>3, <3>4, <3>5, <3>6 DEF RunAdmit, Expirable
    <3>7. CASE AdmitVerdict(c.r, c.day, c.n) # "ok"
      BY <2>9, <3>2, <3>3, <3>7 DEF RunAdmit, redis
    <3> QED  BY <3>6, <3>7
  <2>10. ASSUME NEW c \in wire, RunSettle(c)
         PROVE  TypeOK'
    <3>1. c.r \in Requests /\ c.day \in Days /\ c.n \in Int /\ -c.n \in Int
      BY DEF Commands
    <3>2. wire' \subseteq Commands /\ \A e \in wire' : e.op # "settle" => e.n >= 0
      BY <2>10 DEF RunSettle, Unsettled
    <3>3. CASE rsvKey[c.r] = "open"
      <4>1. /\ AtLeastZero(-c.n) \in Nat /\ AtLeastZero(c.n) \in Nat
            /\ -AtLeastZero(-c.n) \in Int
        BY <3>1, AtLeastZeroValue
      <4>2. bucket' \in [Keys -> Nat]
        BY <2>10, <3>1, <3>3, ReconciledValue DEF RunSettle, Unsettled
      <4>3. /\ used' \in [Keys -> Int] /\ ungated' \in [Keys -> Nat]
            /\ leaked' \in [Keys -> Nat]
        BY <2>10, <3>3, <4>1, PlusValue, PlusNat DEF RunSettle, Unsettled
      <4>4. expiring' \subseteq Keys
        BY <2>10, <3>1, <3>3, KeysOfRequest DEF RunSettle, Unsettled
      <4>5. /\ rsvKey' = [rsvKey EXCEPT ![c.r] = "settled"]
            /\ charge' = [charge EXCEPT ![c.r] = @ + c.n]
            /\ UNCHANGED <<day, reply, pc, reserve, usage, rsvDay, over>>
        BY <2>10, <3>3 DEF RunSettle, Unsettled
      <4> QED
        BY <3>1, <3>2, <4>2, <4>3, <4>4, <4>5
    <3>4. CASE rsvKey[c.r] # "open"
      BY <2>10, <3>2, <3>4 DEF RunSettle, Unsettled, redis
    <3> QED  BY <3>3, <3>4
  <2>11. ASSUME NEW c \in wire, RunIncr(c)
         PROVE  TypeOK'
    <3>1. c.n \in Nat
      BY <2>11 DEF RunIncr, Commands
    <3>2. bucket' \in [Keys -> Nat] /\ ungated' \in [Keys -> Nat]
      BY <2>11, <3>1, PlusNat DEF RunIncr
    <3> QED  BY <2>11, <3>2 DEF RunIncr
  <2>12. ASSUME NEW c \in wire, Lose(c)
         PROVE  TypeOK'
    BY <2>12 DEF Lose, redis, ghosts
  <2>13. CASE Midnight
    BY <2>13, MeteringAssumption DEF Midnight, redis, ghosts, Days
  <2>14. CASE UNCHANGED vars
    BY <2>14 DEF vars
  <2> QED
    BY <2>1, <2>2, <2>3, <2>4, <2>5, <2>6, <2>7, <2>8, <2>9, <2>10, <2>11,
       <2>12, <2>13, <2>14 DEF Next
<1> QED
  BY <1>1, <1>2, PTL DEF Spec
-----------------------------------------------------------------------------
(* The quota.                                                              *)

\* The quantities the two counter invariants relate.
books == <<bucket, used, over, ungated, leaked>>

\* Only four actions touch a counter or its bookkeeping.
LEMMA BooksChange ==
    ASSUME [Next]_vars
    PROVE  \/ UNCHANGED books
           \/ \E r \in Requests, u \in Usages : Settle(r, u)
           \/ \E c \in wire : RunAdmit(c) \/ RunSettle(c) \/ RunIncr(c)
<1>1. CASE UNCHANGED vars
  BY <1>1 DEF vars, books
<1>2. CASE Next
  BY <1>2 DEF Next, Admit, PingFails, AdmitAnswered, AdmitFails, Record,
     SettleAgain, ExpireReservation, Lose, Midnight, redis, ghosts, books
<1> QED  BY <1>1, <1>2

\* GateHolds and NeverUnderCounts are inductive relative to the types.
LEMMA CountersStep ==
    ASSUME TypeOK, GateHolds, NeverUnderCounts, [Next]_vars
    PROVE  GateHolds' /\ NeverUnderCounts'
<1> SUFFICES ASSUME NEW k \in Keys
             PROVE  /\ Limit(k) >= 0 => bucket'[k] - ungated'[k] =< Limit(k)
                    /\ used'[k] - over'[k]
                         =< bucket'[k] - ungated'[k] + leaked'[k]
  BY DEF GateHolds, NeverUnderCounts, Limit
<1>1. /\ bucket[k] \in Nat /\ used[k] \in Int /\ over[k] \in Nat
      /\ ungated[k] \in Nat /\ leaked[k] \in Nat /\ Limit(k) \in Int
  BY LimitType DEF TypeOK
<1>2. /\ Limit(k) >= 0 => bucket[k] - ungated[k] =< Limit(k)
      /\ used[k] - over[k] =< bucket[k] - ungated[k] + leaked[k]
  BY DEF GateHolds, NeverUnderCounts
<1>3. bucket \in [Keys -> Int] /\ over \in [Keys -> Int]
      /\ ungated \in [Keys -> Int] /\ leaked \in [Keys -> Int]
      /\ used \in [Keys -> Int] /\ bucket \in [Keys -> Nat]
  BY DEF TypeOK
<1>4. CASE UNCHANGED books
  BY <1>2, <1>4 DEF books
<1>5. ASSUME NEW r \in Requests, NEW u \in Usages, Settle(r, u)
      PROVE  /\ Limit(k) >= 0 => bucket'[k] - ungated'[k] =< Limit(k)
             /\ used'[k] - over'[k] =< bucket'[k] - ungated'[k] + leaked'[k]
  <2> DEFINE excess == AtLeastZero(u - reserve[r])
             mine == TokenKeys(r, rsvDay[r])
  <2>1. excess \in Int
    BY MeteringAssumption, AtLeastZeroValue DEF TypeOK
  <2>2. /\ used' = Plus(used, mine, excess) /\ over' = Plus(over, mine, excess)
        /\ UNCHANGED <<bucket, ungated, leaked>>
    BY <1>5 DEF Settle, redis
  <2> HIDE DEF excess, mine
  <2>3. used'[k] - over'[k] = used[k] - over[k]
    BY <1>1, <1>3, <2>1, <2>2, PlusValue
  <2> QED  BY <1>2, <2>2, <2>3
<1>6. ASSUME NEW c \in wire, RunAdmit(c)
      PROVE  /\ Limit(k) >= 0 => bucket'[k] - ungated'[k] =< Limit(k)
             /\ used'[k] - over'[k] =< bucket'[k] - ungated'[k] + leaked'[k]
  <2>1. c.r \in Requests /\ c.day \in Days /\ c.n \in Nat
    BY <1>6 DEF RunAdmit, Commands, TypeOK
  <2>2. CASE AdmitVerdict(c.r, c.day, c.n) = "ok"
    <3> DEFINE tok == TokenKeys(c.r, c.day)
               req == ReqKeys(c.r, c.day)
               add == IF k \in tok THEN c.n ELSE IF k \in req THEN 1 ELSE 0
    <3>1. /\ bucket' = Plus(Plus(bucket, tok, c.n), req, 1)
          /\ used' = Plus(Plus(used, tok, c.n), req, 1)
          /\ UNCHANGED <<over, ungated, leaked>>
      BY <1>6, <2>2 DEF RunAdmit
    <3>2. k \in tok => k \notin req
      BY KindsDiffer
    <3>3. /\ Limit(k) >= 0 /\ k \in tok => bucket[k] + c.n =< Limit(k)
          /\ Limit(k) >= 0 /\ k \in req => bucket[k] + 1 =< Limit(k)
      BY <2>1, <2>2, VerdictOk
    <3> HIDE DEF tok, req
    <3>4. bucket'[k] = bucket[k] + add /\ used'[k] = used[k] + add
      <4>1. /\ Plus(bucket, tok, c.n) \in [Keys -> Int]
            /\ Plus(used, tok, c.n) \in [Keys -> Int]
        BY <1>3, <2>1, PlusValue
      <4>2. /\ Plus(bucket, tok, c.n)[k] = IF k \in tok THEN bucket[k] + c.n
                                                        ELSE bucket[k]
            /\ Plus(used, tok, c.n)[k] = IF k \in tok THEN used[k] + c.n
                                                      ELSE used[k]
        BY <1>3, <2>1, PlusValue
      <4>3. /\ bucket'[k] = IF k \in req THEN Plus(bucket, tok, c.n)[k] + 1
                                         ELSE Plus(bucket, tok, c.n)[k]
            /\ used'[k] = IF k \in req THEN Plus(used, tok, c.n)[k] + 1
                                       ELSE Plus(used, tok, c.n)[k]
        BY <3>1, <4>1, PlusValue
      <4> QED  BY <1>1, <2>1, <3>2, <4>2, <4>3
    <3>5. add \in Int
      BY <2>1
    <3>6. Limit(k) >= 0 => bucket'[k] - ungated'[k] =< Limit(k)
      BY <1>1, <1>2, <2>1, <3>1, <3>3, <3>4
    <3> HIDE DEF add
    <3>7. used'[k] - over'[k] =< bucket'[k] - ungated'[k] + leaked'[k]
      BY <1>1, <1>2, <3>1, <3>4, <3>5
    <3> QED  BY <3>6, <3>7
  <2>3. CASE AdmitVerdict(c.r, c.day, c.n) # "ok"
    BY <1>2, <1>6, <2>3 DEF RunAdmit, redis
  <2> QED  BY <2>2, <2>3
<1>7. ASSUME NEW c \in wire, RunSettle(c)
      PROVE  /\ Limit(k) >= 0 => bucket'[k] - ungated'[k] =< Limit(k)
             /\ used'[k] - over'[k] =< bucket'[k] - ungated'[k] + leaked'[k]
  <2>1. c.r \in Requests /\ c.day \in Days /\ c.n \in Int /\ -c.n \in Int
    BY DEF Commands, TypeOK
  <2>2. CASE rsvKey[c.r] = "open"
    <3> DEFINE keys == TokenKeys(c.r, c.day)
               mine == TokenKeys(c.r, rsvDay[c.r])
               refund == AtLeastZero(-c.n)
               extra == AtLeastZero(c.n)
    <3>1. /\ bucket' = Reconciled(bucket, keys, c.n)
          /\ used' = Plus(used, mine, -refund)
          /\ ungated' = Plus(ungated, keys, extra)
          /\ leaked' = Plus(leaked, keys \ mine, refund)
          /\ over' = over
      BY <1>7, <2>2 DEF RunSettle, Unsettled
    <3>2. /\ refund \in Nat /\ extra \in Nat /\ c.n = extra - refund
          /\ -refund \in Int
          /\ c.n >= 0 => refund = 0
          /\ c.n =< 0 => extra = 0
      BY <2>1, DeltaSplits
    <3> HIDE DEF keys, mine, refund, extra
    <3>3. /\ k \notin keys => bucket'[k] = bucket[k]
          /\ k \in keys => bucket'[k] >= bucket[k] + c.n
          /\ k \in keys /\ c.n >= 0 => bucket'[k] = bucket[k] + c.n
          /\ k \in keys /\ c.n =< 0 => bucket'[k] =< bucket[k]
          /\ bucket'[k] \in Nat
      BY <1>3, <2>1, <3>1, ReconciledValue
    <3>4. /\ used'[k] = IF k \in mine THEN used[k] - refund ELSE used[k]
          /\ ungated'[k] = IF k \in keys THEN ungated[k] + extra ELSE ungated[k]
          /\ leaked'[k] = IF k \in keys \ mine THEN leaked[k] + refund
                                               ELSE leaked[k]
      <4>1. used'[k] = IF k \in mine THEN used[k] + (-refund) ELSE used[k]
        BY <1>3, <3>1, <3>2, PlusValue
      <4> QED  BY <1>1, <1>3, <3>1, <3>2, <4>1, PlusValue
    <3>5. Limit(k) >= 0 => bucket'[k] - ungated'[k] =< Limit(k)
      BY <1>1, <1>2, <2>1, <3>2, <3>3, <3>4
    <3>6. used'[k] - over[k] =< bucket'[k] - ungated'[k] + leaked'[k]
      BY <1>1, <1>2, <2>1, <3>2, <3>3, <3>4
    <3> QED  BY <3>1, <3>5, <3>6
  <2>3. CASE rsvKey[c.r] # "open"
    BY <1>2, <1>7, <2>3 DEF RunSettle, Unsettled, redis
  <2> QED  BY <2>2, <2>3
<1>8. ASSUME NEW c \in wire, RunIncr(c)
      PROVE  /\ Limit(k) >= 0 => bucket'[k] - ungated'[k] =< Limit(k)
             /\ used'[k] - over'[k] =< bucket'[k] - ungated'[k] + leaked'[k]
  <2>1. c.n \in Int
    BY DEF TypeOK, Commands
  <2>2. bucket'[k] - ungated'[k] = bucket[k] - ungated[k]
    BY <1>1, <1>3, <1>8, <2>1, PlusValue DEF RunIncr
  <2> QED  BY <1>2, <1>8, <2>2 DEF RunIncr
<1> QED
  BY <1>4, <1>5, <1>6, <1>7, <1>8, BooksChange

\* Admission never overdraws a quota, under every interleaving of the scripts,
\* the deadlines and the fail-open records of any number of gateways.
THEOREM GateSafe == Spec => [](GateHolds /\ NeverUnderCounts)
<1>1. Init => GateHolds /\ NeverUnderCounts
  BY LimitType DEF Init, GateHolds, NeverUnderCounts
<1>2. TypeOK /\ GateHolds /\ NeverUnderCounts /\ [Next]_vars
        => GateHolds' /\ NeverUnderCounts'
  BY CountersStep
<1> QED
  BY <1>1, <1>2, TypeCorrect, PTL DEF Spec

\* The consumption of a day's reservations stays within the quota, up to the
\* overruns the providers report and the refunds leaked across midnight.
THEOREM QuotaSafe == Spec => []QuotaBound
<1>1. TypeOK /\ GateHolds /\ NeverUnderCounts => QuotaBound
  <2> SUFFICES ASSUME TypeOK, GateHolds, NeverUnderCounts, NEW k \in Keys,
                      Limit(k) >= 0
               PROVE  used[k] =< Limit(k) + over[k] + leaked[k]
    BY DEF QuotaBound
  <2>1. /\ bucket[k] \in Nat /\ used[k] \in Int /\ over[k] \in Nat
        /\ ungated[k] \in Nat /\ leaked[k] \in Nat /\ Limit(k) \in Int
    BY LimitType DEF TypeOK
  <2>2. /\ bucket[k] - ungated[k] =< Limit(k)
        /\ used[k] - over[k] =< bucket[k] - ungated[k] + leaked[k]
    BY DEF GateHolds, NeverUnderCounts
  <2> QED  BY <2>1, <2>2
<1> QED
  BY <1>1, TypeCorrect, GateSafe, PTL
\* On a single day, with providers that honour the completion cap, nothing
\* overruns a reserve and nothing leaks.
NothingExtra == \A k \in Keys : over[k] = 0 /\ leaked[k] = 0

\* The quota is strict on a day without midnight and with providers that honour
\* the cap: late scripts, lost settles, repeated settles, expired reservations
\* and fail-open records never let a day's reservations consume more.
THEOREM SingleDayQuota ==
    ASSUME HonoursCap, MaxDay = 0
    PROVE  Spec => []DailyQuota
<1>1. Init => NothingExtra
  BY DEF Init, NothingExtra
<1>2. TypeOK /\ NothingExtra /\ [Next]_vars => NothingExtra'
  <2> SUFFICES ASSUME TypeOK, NothingExtra, [Next]_vars, NEW k \in Keys
               PROVE  over'[k] = 0 /\ leaked'[k] = 0
    BY DEF NothingExtra
  <2>1. over[k] = 0 /\ leaked[k] = 0
    BY DEF NothingExtra
  <2>2. over \in [Keys -> Int] /\ leaked \in [Keys -> Int]
    BY DEF TypeOK
  <2>3. CASE UNCHANGED books
    BY <2>1, <2>3 DEF books
  <2>4. ASSUME NEW r \in Requests, NEW u \in Usages, Settle(r, u)
        PROVE  over'[k] = 0 /\ leaked'[k] = 0
    <3>1. u - reserve[r] \in Int /\ u - reserve[r] =< 0
      BY <2>4, MeteringAssumption DEF Settle, TypeOK
    <3>2. AtLeastZero(u - reserve[r]) = 0
      BY <3>1, AtLeastZeroValue
    <3>3. over' = Plus(over, TokenKeys(r, rsvDay[r]), 0) /\ leaked' = leaked
      BY <2>4, <3>2 DEF Settle
    <3> QED  BY <2>1, <2>2, <3>3, PlusValue
  <2>5. ASSUME NEW c \in wire, RunSettle(c)
        PROVE  over'[k] = 0 /\ leaked'[k] = 0
    <3>1. c.r \in Requests /\ c.day = 0 /\ rsvDay[c.r] = 0
      BY DEF Commands, TypeOK, Days
    <3>2. CASE rsvKey[c.r] = "open"
      <4>1. leaked' = Plus(leaked, TokenKeys(c.r, c.day)
                              \ TokenKeys(c.r, rsvDay[c.r]), AtLeastZero(-c.n))
            /\ over' = over
        BY <2>5, <3>2 DEF RunSettle, Unsettled
      <4>2. AtLeastZero(-c.n) \in Int
        BY DeltaSplits DEF Commands, TypeOK
      <4>3. k \notin TokenKeys(c.r, c.day) \ TokenKeys(c.r, rsvDay[c.r])
        BY <3>1
      <4> QED  BY <2>1, <2>2, <4>1, <4>2, <4>3, PlusValue
    <3>3. CASE rsvKey[c.r] # "open"
      BY <2>1, <2>5, <3>3 DEF RunSettle, Unsettled
    <3> QED  BY <3>2, <3>3
  <2>6. ASSUME NEW c \in wire, RunAdmit(c) \/ RunIncr(c)
        PROVE  over'[k] = 0 /\ leaked'[k] = 0
    BY <2>1, <2>6 DEF RunAdmit, RunIncr
  <2> QED  BY <2>3, <2>4, <2>5, <2>6, BooksChange
<1>3. TypeOK /\ QuotaBound /\ NothingExtra => DailyQuota
  BY LimitType DEF TypeOK, QuotaBound, NothingExtra, DailyQuota
<1> QED
  BY <1>1, <1>2, <1>3, TypeCorrect, QuotaSafe, PTL DEF Spec

-----------------------------------------------------------------------------
(* A denied request charges nothing.                                       *)

\* The script runs at most once for a request, and only an "ok" leaves a
\* reservation behind: while its command is on the wire there is no answer.
AdmissionInv ==
    /\ \A c \in wire : c.op = "admit" => pc[c.r] # "new" /\ reply[c.r] = "none"
    /\ \A c, e \in wire :
         c.op = "admit" /\ e.op = "admit" /\ c.r = e.r => c = e
    /\ \A r \in Requests : pc[r] = "new" => reply[r] = "none"
    /\ \A r \in Requests : pc[r] = "denied" => reply[r] \in Denials
    /\ \A r \in Requests : reply[r] # "ok" => rsvKey[r] = "absent" /\ charge[r] = 0

\* ADMIT_LUA runs at most once for a request and answers before its caller
\* reads: the bookkeeping of admissions is consistent in every interleaving.
LEMMA AdmissionInvariant == Spec => []AdmissionInv
<1>1. Init => AdmissionInv
  BY DEF Init, AdmissionInv
<1>2. TypeOK /\ AdmissionInv /\ [Next]_vars => AdmissionInv'
  <2> SUFFICES ASSUME TypeOK, AdmissionInv, [Next]_vars
               PROVE  AdmissionInv'
    OBVIOUS
  <2> USE DEF AdmissionInv, TypeOK
  <2>1. ASSUME NEW r \in Requests, NEW n \in Reserves, Admit(r, n)
        PROVE  AdmissionInv'
    BY <2>1 DEF Admit, redis, ghosts
  <2>2. ASSUME NEW r \in Requests,
               PingFails(r) \/ AdmitAnswered(r) \/ AdmitFails(r)
        PROVE  AdmissionInv'
    <3>1. \A c \in wire : c.r \in Requests
      BY DEF Commands
    <3>2. CASE PingFails(r)
      BY <3>1, <3>2 DEF PingFails, redis, ghosts
    <3>3. CASE AdmitAnswered(r)
      BY <3>1, <3>3 DEF AdmitAnswered, redis, ghosts
    <3>4. CASE AdmitFails(r)
      BY <3>1, <3>4 DEF AdmitFails, redis, ghosts
    <3> QED  BY <2>2, <3>2, <3>3, <3>4
  <2>3. ASSUME NEW r \in Requests, NEW u \in Usages, Settle(r, u)
        PROVE  AdmissionInv'
    BY <2>3 DEF Settle, SettleCommand, redis
  <2>4. ASSUME NEW r \in Requests, NEW u \in Usages, Record(r, u)
        PROVE  AdmissionInv'
    BY <2>4 DEF Record, redis, ghosts
  <2>5. ASSUME NEW r \in Requests, SettleAgain(r)
        PROVE  AdmissionInv'
    BY <2>5 DEF SettleAgain, SettleCommand, redis, ghosts
  <2>6. ASSUME NEW r \in Requests, ExpireReservation(r)
        PROVE  AdmissionInv'
    BY <2>6 DEF ExpireReservation, ghosts
  <2>7. ASSUME NEW c \in wire, RunAdmit(c)
        PROVE  AdmissionInv'
    <3>1. c.r \in Requests /\ reply[c.r] = "none" /\ pc[c.r] \notin {"new", "denied"}
      BY <2>7 DEF RunAdmit, Commands
    <3>2. AdmitVerdict(c.r, c.day, c.n) \in {"ok"} \cup Denials
      BY VerdictType
    <3>3. \A e \in wire' : e.op = "admit" => e.r # c.r
      BY <2>7 DEF RunAdmit
    <3>4. CASE AdmitVerdict(c.r, c.day, c.n) = "ok"
      BY <2>7, <3>1, <3>3, <3>4 DEF RunAdmit, Commands
    <3>5. CASE AdmitVerdict(c.r, c.day, c.n) # "ok"
      BY <2>7, <3>1, <3>2, <3>3, <3>5 DEF RunAdmit, Commands, redis
    <3> QED  BY <3>4, <3>5
  <2>8. ASSUME NEW c \in wire, RunSettle(c)
        PROVE  AdmissionInv'
    <3>1. c.r \in Requests
      BY DEF Commands
    <3>2. CASE rsvKey[c.r] = "open"
      BY <2>8, <3>1, <3>2 DEF RunSettle, Unsettled
    <3>3. CASE rsvKey[c.r] # "open"
      BY <2>8, <3>3 DEF RunSettle, Unsettled, redis
    <3> QED  BY <3>2, <3>3
  <2>9. ASSUME NEW c \in wire, RunIncr(c) \/ Lose(c)
        PROVE  AdmissionInv'
    BY <2>9 DEF RunIncr, Lose, redis, ghosts
  <2>10. CASE Midnight
    BY <2>10 DEF Midnight, redis, ghosts
  <2>11. CASE UNCHANGED vars
    BY <2>11 DEF vars
  <2> QED
    BY <2>1, <2>2, <2>3, <2>4, <2>5, <2>6, <2>7, <2>8, <2>9, <2>10, <2>11
       DEF Next
<1> QED
  BY <1>1, <1>2, TypeCorrect, PTL DEF Spec

\* A request that was refused for its quota leaves no trace in Redis, even if
\* other scripts, settles and expiries run before and after its answer.
THEOREM DeniedSafe == Spec => []DeniedConsumesNothing
<1>1. AdmissionInv => DeniedConsumesNothing
  BY DEF AdmissionInv, DeniedConsumesNothing
<1> QED
  BY <1>1, AdmissionInvariant, PTL

-----------------------------------------------------------------------------
(* Counters expire.                                                        *)

\* No command takes a TTL away.
LEMMA ExpiringGrows ==
    ASSUME [Next]_vars
    PROVE  expiring \subseteq expiring'
<1>1. CASE UNCHANGED vars
  BY <1>1 DEF vars
<1>2. CASE \E c \in wire : RunAdmit(c) \/ RunSettle(c)
  BY <1>2 DEF RunAdmit, RunSettle, redis
<1>3. CASE Next /\ ~\E c \in wire : RunAdmit(c) \/ RunSettle(c)
  BY <1>3 DEF Next, Admit, PingFails, AdmitAnswered, AdmitFails, Settle, Record,
     SettleAgain, ExpireReservation, RunIncr, Lose, Midnight, redis
<1> QED  BY <1>1, <1>2, <1>3

\* Whatever ADMIT_LUA or SETTLE_LUA wrote carries the 48 h TTL, in any order of
\* the scripts and the bare INCRs of the fail-open records: a counter that will
\* never expire consists of those increments alone.
THEOREM ExpirySafe == Spec => []ScriptsExpire
<1>1. Init => ScriptsExpire
  BY DEF Init, ScriptsExpire
<1>2. TypeOK /\ ScriptsExpire /\ [Next]_vars => ScriptsExpire'
  <2> SUFFICES ASSUME TypeOK, ScriptsExpire, [Next]_vars, NEW k \in Keys,
                      k \notin expiring'
               PROVE  bucket'[k] = ungated'[k]
    BY DEF ScriptsExpire
  <2>1. bucket[k] = ungated[k]
    BY ExpiringGrows DEF ScriptsExpire
  <2>2. /\ bucket \in [Keys -> Int] /\ ungated \in [Keys -> Int]
        /\ bucket \in [Keys -> Nat] /\ bucket[k] \in Nat
    BY DEF TypeOK
  <2>3. CASE UNCHANGED books
    BY <2>1, <2>3 DEF books
  <2>4. ASSUME NEW r \in Requests, NEW u \in Usages, Settle(r, u)
        PROVE  bucket'[k] = ungated'[k]
    BY <2>1, <2>4 DEF Settle, redis
  <2>5. ASSUME NEW c \in wire, RunAdmit(c)
        PROVE  bucket'[k] = ungated'[k]
    <3>1. CASE AdmitVerdict(c.r, c.day, c.n) = "ok"
      <4> DEFINE tok == TokenKeys(c.r, c.day)
                 req == ReqKeys(c.r, c.day)
      <4>1. /\ bucket' = Plus(Plus(bucket, tok, c.n), req, 1)
            /\ expiring' = expiring \cup Expirable(c.r, c.day)
            /\ ungated' = ungated
        BY <2>5, <3>1 DEF RunAdmit
      <4>2. k \notin tok /\ k \notin req
        BY <4>1 DEF Expirable
      <4>3. c.n \in Int /\ 1 \in Int
        BY DEF TypeOK, Commands
      <4> HIDE DEF tok, req
      <4>4. /\ Plus(bucket, tok, c.n) \in [Keys -> Int]
            /\ Plus(bucket, tok, c.n)[k] = bucket[k]
        BY <2>2, <4>2, <4>3, PlusValue
      <4>5. bucket'[k] = bucket[k]
        BY <4>1, <4>2, <4>3, <4>4, PlusValue
      <4> QED  BY <2>1, <4>1, <4>5
    <3>2. CASE AdmitVerdict(c.r, c.day, c.n) # "ok"
      BY <2>1, <2>5, <3>2 DEF RunAdmit, redis
    <3> QED  BY <3>1, <3>2
  <2>6. ASSUME NEW c \in wire, RunSettle(c)
        PROVE  bucket'[k] = ungated'[k]
    <3>1. CASE rsvKey[c.r] = "open"
      <4> DEFINE keys == TokenKeys(c.r, c.day)
                 extra == AtLeastZero(c.n)
      <4>1. /\ bucket' = Reconciled(bucket, keys, c.n)
            /\ expiring' = expiring \cup keys
            /\ ungated' = Plus(ungated, keys, extra)
        BY <2>6, <3>1 DEF RunSettle, Unsettled
      <4>2. k \notin keys
        BY <4>1
      <4>3. c.n \in Int
        BY DEF TypeOK, Commands
      <4>4. extra \in Int
        BY <4>3, AtLeastZeroValue
      <4> HIDE DEF keys, extra
      <4>5. bucket'[k] = bucket[k]
        BY <2>2, <4>1, <4>2, <4>3, ReconciledValue
      <4>6. ungated'[k] = ungated[k]
        BY <2>2, <4>1, <4>2, <4>4, PlusValue
      <4> QED  BY <2>1, <4>5, <4>6
    <3>2. CASE rsvKey[c.r] # "open"
      BY <2>1, <2>6, <3>2 DEF RunSettle, Unsettled, redis
    <3> QED  BY <3>1, <3>2
  <2>7. ASSUME NEW c \in wire, RunIncr(c)
        PROVE  bucket'[k] = ungated'[k]
    <3>1. c.n \in Int
      BY DEF TypeOK, Commands
    <3> QED  BY <2>1, <2>2, <2>7, <3>1, PlusValue DEF RunIncr
  <2> QED  BY <2>3, <2>4, <2>5, <2>6, <2>7, BooksChange
<1> QED
  BY <1>1, <1>2, TypeCorrect, PTL DEF Spec
=============================================================================
