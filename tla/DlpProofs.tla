----------------------------- MODULE DlpProofs -----------------------------
(***************************************************************************)
(* Proofs about DlpRestore for any detectors, any number and length of     *)
(* messages, any cut of the answer into deltas and any number of choices.  *)
(*                                                                         *)
(* The definitions recurse over texts.  The provers cannot instantiate an  *)
(* induction theorem that takes an operator, so induction is stated with a *)
(* set (CountUp) and recursive functions are built with it (Recursion).    *)
(***************************************************************************)
EXTENDS DlpRestore, TLAPS, SequenceTheorems, FiniteSetTheorems,
        WellFoundedInduction

-----------------------------------------------------------------------------
(* Induction and recursion over 0..N.                                      *)

\* A set that contains 0 and with every number below N the next one contains
\* all numbers up to N.
LEMMA CountUp ==
    ASSUME NEW N \in Nat, NEW S, 0 \in S,
           \A n \in 1..N : n - 1 \in S => n \in S
    PROVE  \A n \in 0..N : n \in S
<1> DEFINE B == {n \in 0..N : n \notin S}
           R == OpToRel(<, Nat)
<1> SUFFICES ASSUME B # {}
             PROVE  FALSE
  OBVIOUS
<1>1. B \subseteq Nat
  OBVIOUS
<1>2. IsWellFoundedOn(R, Nat)
  BY NatLessThanWellFounded
<1>3. \A x, y \in Nat : <<x, y>> \in R <=> x < y
  BY DEF OpToRel
<1> HIDE DEF R
<1>4. PICK m \in B : \A n \in B : ~(<<n, m>> \in R)
  <2> HIDE DEF B
  <2> QED  BY <1>1, <1>2, WFMin
<1>5. m \in 0..N /\ m \notin S /\ m # 0
  BY <1>4
<1>6. m - 1 \in 0..N /\ m \in 1..N /\ m - 1 < m /\ m - 1 \in Nat /\ m \in Nat
  BY <1>5
<1>7. m - 1 \notin B
  BY <1>1, <1>3, <1>4, <1>6
<1> QED  BY <1>5, <1>6, <1>7

\* G takes a number of a step and a member of X to a member of X.
Steps(G, N, X) == \A n \in 1..N, x \in X : G[<<n, x>>] \in X

\* f starts with x0 and takes the steps of G.
Follows(f, G, x0, N, X) ==
    /\ f \in [0..N -> X]
    /\ f[0] = x0
    /\ \A n \in 1..N : f[n] = G[<<n, f[n - 1]>>]

\* A function on 0..N is given by its first value and by the step from each
\* value to the next.
LEMMA Recursion ==
    ASSUME NEW X, NEW x0 \in X, NEW N \in Nat, NEW G, Steps(G, N, X)
    PROVE  \E f : Follows(f, G, x0, N, X)
<1> DEFINE Upto(m) == \E f \in [0..m -> X] :
                         f[0] = x0 /\ \A n \in 1..m : f[n] = G[<<n, f[n - 1]>>]
           S == {m \in 0..N : Upto(m)}
<1>1. 0 \in S
  <2> DEFINE f == [i \in 0..0 |-> x0]
  <2>1. f \in [0..0 -> X] /\ f[0] = x0
    OBVIOUS
  <2>2. \A n \in 1..0 : f[n] = G[<<n, f[n - 1]>>]
    OBVIOUS
  <2> HIDE DEF f
  <2>3. Upto(0)
    BY <2>1, <2>2
  <2> QED  BY <2>3
<1>2. ASSUME NEW m \in 1..N, m - 1 \in S
      PROVE  m \in S
  <2>1. PICK f \in [0..(m - 1) -> X] :
           f[0] = x0 /\ \A n \in 1..(m - 1) : f[n] = G[<<n, f[n - 1]>>]
    BY <1>2
  <2> DEFINE g == [i \in 0..m |-> IF i = m THEN G[<<m, f[m - 1]>>] ELSE f[i]]
  <2>2. m - 1 \in 0..(m - 1) /\ f[m - 1] \in X
    OBVIOUS
  <2>4. G[<<m, f[m - 1]>>] \in X
    BY <2>2 DEF Steps
  <2>5. g \in [0..m -> X]
    BY <2>4
  <2>6. g[0] = x0
    BY <2>1
  <2>7. ASSUME NEW n \in 1..m
        PROVE  g[n] = G[<<n, g[n - 1]>>]
    <3>1. n - 1 \in 0..m /\ n - 1 # m /\ n \in 0..m
      OBVIOUS
    <3>2. g[n - 1] = f[n - 1]
      BY <3>1
    <3>3. CASE n = m
      BY <3>1, <3>2, <3>3
    <3>4. CASE n # m
      <4>1. n \in 1..(m - 1)
        BY <3>4
      <4> QED  BY <2>1, <3>1, <3>2, <3>4, <4>1
    <3> QED  BY <3>3, <3>4
  <2> HIDE DEF g
  <2>8. Upto(m)
    BY <2>5, <2>6, <2>7
  <2> QED  BY <2>8
<1>3. N \in S
  <2> HIDE DEF S
  <2> QED  BY <1>1, <1>2, CountUp
<1> QED  BY <1>3 DEF Follows

-----------------------------------------------------------------------------
(* Restored as the end of a run over the text.                             *)

\* What deanonymize puts in the place of a token.
Swap(v, sc, how, t) == IF how = "restore" /\ t \in sc THEN v[t] ELSE Label(t)

\* The tokens of the vault that a text ends with.
Ended(v, r) == {t \in DOMAIN v : IsSuffix(t, r)}

\* The text restored so far, with one character more.
Step(v, sc, how, r) ==
    IF Ended(v, r) = {} THEN r
    ELSE LET t == CHOOSE t \in Ended(v, r) : TRUE IN
         SubSeq(r, 1, Len(r) - Len(t)) \o Swap(v, sc, how, t)

\* Restored, with vault and scope as parameters.
With(v, sc, how, s) ==
    (CHOOSE d : d = [n \in 0..Len(s) |->
                       IF n = 0 THEN <<>>
                       ELSE Step(v, sc, how, Append(d[n - 1], s[n]))])[Len(s)]

\* d[n] is what the first n characters of s are restored to.
IsRun(d, v, sc, how, s) ==
    /\ d \in [0..Len(s) -> Seq(Char)]
    /\ d[0] = <<>>
    /\ \A n \in 1..Len(s) : d[n] = Step(v, sc, how, Append(d[n - 1], s[n]))

\* The vault maps tokens to values.
VaultOK(v) ==
    \A t \in DOMAIN v : t \in Tokens /\ v[t] \in Seq(Letters) /\ v[t] # <<>>

\* Restored is With for the vault and the scope of the request.
LEMMA RestoredWith ==
    ASSUME NEW s, NEW how
    PROVE  Restored(s, how) = With(vault, scope, how, s)
BY DEF Restored, With, Step, Ended, Swap

\* The kinds of characters.
LEMMA Kinds ==
    /\ Open \in Char /\ Close \in Char /\ Open # Close
    /\ Open \notin Words /\ Close \notin Words
    /\ Open \notin Letters /\ Close \notin Letters
    /\ Words \subseteq Char /\ Letters \subseteq Char
    /\ \A x \in Letters : x \notin Words
BY DlpAssumption DEF Char, Open, Close

\* A token is a bracket, two words and a bracket; its label starts and ends
\* with a bracket too.
LEMMA TokenShape ==
    ASSUME NEW t \in Tokens
    PROVE  /\ t \in Seq(Char) /\ Len(t) = 4
           /\ t[1] = Open /\ t[2] \in Words /\ t[3] \in Words /\ t[4] = Close
           /\ Label(t) \in Seq(Char) /\ Len(Label(t)) = 3
           /\ Label(t)[1] = Open /\ Label(t)[3] = Close
<1>1. PICK typ \in Types, hex \in Hexes : t = <<Open, typ, hex, Close>>
  BY DEF Tokens, Token
<1>2. typ \in Words /\ hex \in Words
  BY DEF Words
<1>3. typ \in Char /\ hex \in Char /\ Open \in Char /\ Close \in Char
  BY <1>2, Kinds
<1> HIDE DEF Open, Close
<1>4. /\ t \in Seq(Char) /\ Len(t) = 4
      /\ t[1] = Open /\ t[2] = typ /\ t[3] = hex /\ t[4] = Close
  BY <1>1, <1>3
<1>5. Label(t) = <<Open, typ, Close>>
  BY <1>4 DEF Label
<1> QED  BY <1>2, <1>3, <1>4, <1>5

\* A text read backwards.
LEMMA ReverseOf ==
    ASSUME NEW S, NEW s \in Seq(S)
    PROVE  /\ Reverse(s) \in Seq(S) /\ Len(Reverse(s)) = Len(s)
           /\ \A i \in 1..Len(s) : Reverse(s)[i] = s[Len(s) - i + 1]
BY DEF Reverse

\* What it means that a text ends with a token.
LEMMA SuffixMeans ==
    ASSUME NEW r \in Seq(Char), NEW t \in Tokens
    PROVE  IsSuffix(t, r) <=> /\ Len(r) >= 4
                              /\ \A i \in 1..4 : r[Len(r) - 4 + i] = t[i]
<1> DEFINE u == Reverse(t)
           q == Reverse(r)
<1>1. Len(t) = 4 /\ t \in Seq(Char) /\ Len(r) \in Nat
  BY TokenShape
<1>2. /\ u \in Seq(Char) /\ Len(u) = 4
      /\ \A i \in 1..4 : u[i] = t[5 - i]
  <2>1. /\ u \in Seq(Char) /\ Len(u) = Len(t)
        /\ \A i \in 1..Len(t) : u[i] = t[Len(t) - i + 1]
    BY <1>1, ReverseOf
  <2> HIDE DEF u
  <2>2. \A i \in 1..4 : 4 - i + 1 = 5 - i
    OBVIOUS
  <2> QED  BY <1>1, <2>1, <2>2
<1>3. /\ q \in Seq(Char) /\ Len(q) = Len(r)
      /\ \A i \in 1..Len(r) : q[i] = r[Len(r) - i + 1]
  BY <1>1, ReverseOf
<1>4. IsSuffix(t, r) <=> Len(u) <= Len(q) /\ SubSeq(u, 1, Len(u)) = SubSeq(q, 1, Len(u))
  BY DEF IsSuffix, IsPrefix
<1> HIDE DEF u, q
<1>5. CASE Len(r) >= 4
  <2>1. /\ SubSeq(q, 1, 4) \in Seq(Char) /\ Len(SubSeq(q, 1, 4)) = 4
        /\ \A i \in 1..4 : SubSeq(q, 1, 4)[i] = q[i]
    BY <1>1, <1>3, <1>5
  <2>2. /\ SubSeq(u, 1, 4) \in Seq(Char) /\ Len(SubSeq(u, 1, 4)) = 4
        /\ \A i \in 1..4 : SubSeq(u, 1, 4)[i] = u[i]
    <3>1. SubSeq(u, 1, Len(u)) = u
      BY <1>2, SubSeqFull
    <3> QED  BY <1>2, <3>1
  <2>3. SubSeq(u, 1, 4) = SubSeq(q, 1, 4) <=> \A i \in 1..4 : u[i] = q[i]
    BY <2>1, <2>2, SeqEqual
  <2>4. (\A i \in 1..4 : u[i] = q[i]) <=> \A i \in 1..4 : r[Len(r) - 4 + i] = t[i]
    <3>1. ASSUME \A i \in 1..4 : u[i] = q[i], NEW i \in 1..4
          PROVE  r[Len(r) - 4 + i] = t[i]
      <4>1. 5 - i \in 1..4 /\ 5 - i \in 1..Len(r) /\ 5 - (5 - i) = i
               /\ Len(r) - (5 - i) + 1 = Len(r) - 4 + i
        BY <1>1, <1>5
      <4>2. u[5 - i] = q[5 - i]
        BY <3>1, <4>1
      <4> QED  BY <1>2, <1>3, <4>1, <4>2
    <3>2. ASSUME \A i \in 1..4 : r[Len(r) - 4 + i] = t[i], NEW i \in 1..4
          PROVE  u[i] = q[i]
      <4>1. 5 - i \in 1..4 /\ i \in 1..Len(r)
               /\ Len(r) - i + 1 = Len(r) - 4 + (5 - i)
        BY <1>1, <1>5
      <4>2. r[Len(r) - 4 + (5 - i)] = t[5 - i]
        BY <3>2, <4>1
      <4> QED  BY <1>2, <1>3, <4>1, <4>2
    <3> QED  BY <3>1, <3>2
  <2> QED  BY <1>2, <1>3, <1>4, <1>5, <2>3, <2>4
<1>6. CASE ~(Len(r) >= 4)
  BY <1>1, <1>2, <1>3, <1>4, <1>6
<1> QED  BY <1>5, <1>6

\* What replaces a token starts with a bracket or a letter, and ends so too.
LEMMA SwapShape ==
    ASSUME NEW v, VaultOK(v), NEW sc, NEW how, NEW t \in DOMAIN v
    PROVE  LET w == Swap(v, sc, how, t) IN
           /\ w \in Seq(Char) /\ Len(w) >= 1
           /\ w[1] \in {Open} \cup Letters
           /\ w[Len(w)] \in {Close} \cup Letters
<1> DEFINE w == Swap(v, sc, how, t)
<1>1. t \in Tokens /\ v[t] \in Seq(Letters) /\ v[t] # <<>>
  BY DEF VaultOK
<1>2. CASE how = "restore" /\ t \in sc
  <2>1. w = v[t]
    BY <1>2 DEF Swap
  <2>2. /\ v[t] \in Seq(Char) /\ Len(v[t]) >= 1
        /\ v[t][1] \in Letters /\ v[t][Len(v[t])] \in Letters
    BY <1>1, Kinds
  <2> QED  BY <2>1, <2>2
<1>3. CASE ~(how = "restore" /\ t \in sc)
  <2>1. w = Label(t)
    BY <1>3 DEF Swap
  <2> QED  BY <1>1, <2>1, TokenShape
<1> QED  BY <1>2, <1>3

\* A step keeps the text or replaces the token that it ends with.
LEMMA StepCases ==
    ASSUME NEW v, VaultOK(v), NEW sc, NEW how, NEW r \in Seq(Char)
    PROVE  /\ Step(v, sc, how, r) \in Seq(Char)
           /\ \/ Ended(v, r) = {} /\ Step(v, sc, how, r) = r
              \/ \E t \in Ended(v, r) :
                    /\ t = CHOOSE u \in Ended(v, r) : TRUE
                    /\ t \in DOMAIN v /\ t \in Tokens /\ Len(r) >= 4
                    /\ Step(v, sc, how, r) =
                          SubSeq(r, 1, Len(r) - 4) \o Swap(v, sc, how, t)
<1>1. CASE Ended(v, r) = {}
  BY <1>1 DEF Step
<1>2. CASE Ended(v, r) # {}
  <2> DEFINE t == CHOOSE u \in Ended(v, r) : TRUE
  <2>1. t \in Ended(v, r)
    BY <1>2
  <2>2. t \in DOMAIN v /\ IsSuffix(t, r)
    BY <2>1 DEF Ended
  <2>3. t \in Tokens
    BY <2>2 DEF VaultOK
  <2>4. Len(t) = 4
    BY <2>3, TokenShape
  <2>5. Step(v, sc, how, r) = SubSeq(r, 1, Len(r) - Len(t)) \o Swap(v, sc, how, t)
    BY <1>2 DEF Step
  <2> HIDE DEF t
  <2>6. Len(r) >= 4
    BY <2>2, <2>3, SuffixMeans
  <2>7. Swap(v, sc, how, t) \in Seq(Char)
    BY <2>2, SwapShape
  <2>8. SubSeq(r, 1, Len(r) - 4) \in Seq(Char)
    BY <2>6
  <2>9. Step(v, sc, how, r) \in Seq(Char)
    BY <2>4, <2>5, <2>7, <2>8
  <2> QED  BY <2>1, <2>2, <2>3, <2>4, <2>5, <2>6, <2>9 DEF t
<1> QED  BY <1>1, <1>2

\* Every text has a run.
LEMMA RunExists ==
    ASSUME NEW v, VaultOK(v), NEW sc, NEW how, NEW s \in Seq(Char)
    PROVE  \E d : IsRun(d, v, sc, how, s)
<1> DEFINE N == Len(s)
           G == [p \in (1..N) \X Seq(Char) |-> Step(v, sc, how, Append(p[2], s[p[1]]))]
<1>1. N \in Nat /\ <<>> \in Seq(Char)
  OBVIOUS
<1>2. \A n \in 1..N, r \in Seq(Char) : Append(r, s[n]) \in Seq(Char)
  OBVIOUS
<1>3. \A n \in 1..N, r \in Seq(Char) : Step(v, sc, how, Append(r, s[n])) \in Seq(Char)
  BY <1>2, StepCases
<1>5. \A n \in 1..N, r \in Seq(Char) : G[<<n, r>>] = Step(v, sc, how, Append(r, s[n]))
  OBVIOUS
<1> HIDE DEF G
<1>6. PICK d \in [0..N -> Seq(Char)] :
         d[0] = <<>> /\ \A n \in 1..N : d[n] = G[<<n, d[n - 1]>>]
  <2> HIDE DEF N
  <2> DEFINE X == Seq(Char)
             x0 == <<>>
  <2>1. x0 \in X /\ Steps(G, N, X)
    BY <1>1, <1>3, <1>5 DEF Steps
  <2>2. N \in Nat
    BY <1>1
  <2> HIDE DEF X, x0
  <2>3. \E f : Follows(f, G, x0, N, X)
    BY <2>1, <2>2, Recursion
  <2> QED  BY <2>3 DEF X, x0, Follows
<1>7. \A n \in 1..N : n - 1 \in 0..N /\ d[n - 1] \in Seq(Char)
  BY <1>1
<1> QED  BY <1>5, <1>6, <1>7 DEF IsRun

\* A text is restored to the end of its run.
LEMMA RunEnds ==
    ASSUME NEW v, NEW sc, NEW how, NEW s \in Seq(Char), NEW d, IsRun(d, v, sc, how, s)
    PROVE  With(v, sc, how, s) = d[Len(s)]
<1> DEFINE N == Len(s)
           Rec(f) == [n \in 0..N |-> IF n = 0 THEN <<>>
                                     ELSE Step(v, sc, how, Append(f[n - 1], s[n]))]
           e == CHOOSE f : f = Rec(f)
<1>1. With(v, sc, how, s) = e[N]
  BY DEF With
<1>2. N \in Nat
  OBVIOUS
<1>3. d \in [0..N -> Seq(Char)] /\ d[0] = <<>>
         /\ \A n \in 1..N : d[n] = Step(v, sc, how, Append(d[n - 1], s[n]))
  BY DEF IsRun
<1>4. d = Rec(d)
  <2>1. \A n \in 0..N : d[n] = Rec(d)[n]
    <3> TAKE n \in 0..N
    <3>1. CASE n = 0
      BY <1>3, <3>1
    <3>2. CASE n # 0
      <4>1. n \in 1..N
        BY <3>2
      <4> QED  BY <1>3, <3>2, <4>1
    <3> QED  BY <3>1, <3>2
  <2>2. DOMAIN Rec(d) = 0..N
    OBVIOUS
  <2>3. Rec(d) = [n \in 0..N |-> Rec(d)[n]]
    OBVIOUS
  <2>4. d = [n \in 0..N |-> d[n]]
    BY <1>3
  <2> HIDE DEF Rec
  <2> QED  BY <2>1, <2>3, <2>4
<1>5. e = Rec(e)
  <2> HIDE DEF Rec
  <2> QED  BY <1>4
<1>6. e[0] = <<>> /\ \A n \in 1..N : e[n] = Step(v, sc, how, Append(e[n - 1], s[n]))
  <2> HIDE DEF e
  <2>1. 0 \in 0..N /\ \A n \in 1..N : n \in 0..N /\ n # 0
    BY <1>2
  <2>2. \A n \in 0..N : e[n] = IF n = 0 THEN <<>>
                               ELSE Step(v, sc, how, Append(e[n - 1], s[n]))
    BY <1>5
  <2> QED  BY <2>1, <2>2
<1> HIDE DEF e, Rec
<1> DEFINE S == {n \in 0..N : e[n] = d[n]}
<1>7. 0 \in S
  BY <1>2, <1>3, <1>6
<1>8. \A n \in 1..N : n - 1 \in S => n \in S
  BY <1>2, <1>3, <1>6
<1>9. N \in S
  <2> HIDE DEF S, N
  <2>1. \A n \in 0..N : n \in S
    BY <1>2, <1>7, <1>8, CountUp
  <2> QED  BY <1>2, <2>1
<1> QED  BY <1>1, <1>9

\* Nothing is restored to nothing, and every text to a text.
LEMMA WithType ==
    ASSUME NEW v, VaultOK(v), NEW sc, NEW how
    PROVE  /\ \A s \in Seq(Char) : With(v, sc, how, s) \in Seq(Char)
           /\ With(v, sc, how, <<>>) = <<>>
<1>1. ASSUME NEW s \in Seq(Char)
      PROVE  /\ With(v, sc, how, s) \in Seq(Char)
             /\ s = <<>> => With(v, sc, how, s) = <<>>
  <2>1. PICK d : IsRun(d, v, sc, how, s)
    BY RunExists
  <2>2. With(v, sc, how, s) = d[Len(s)]
    BY <2>1, RunEnds
  <2>3. d \in [0..Len(s) -> Seq(Char)] /\ d[0] = <<>>
    BY <2>1 DEF IsRun
  <2>4. Len(s) \in 0..Len(s) /\ (s = <<>> => Len(s) = 0)
    OBVIOUS
  <2> QED  BY <2>2, <2>3, <2>4
<1>2. <<>> \in Seq(Char)
  OBVIOUS
<1> QED  BY <1>1, <1>2

-----------------------------------------------------------------------------
(* Texts that can be restored in two pieces.                               *)

\* A text that ends with the beginning of a token.
Dangling(a) ==
    \/ Len(a) >= 1 /\ a[Len(a)] = Open
    \/ Len(a) >= 2 /\ a[Len(a) - 1] = Open /\ a[Len(a)] \in Words
    \/ /\ Len(a) >= 3 /\ a[Len(a) - 2] = Open
       /\ a[Len(a) - 1] \in Words /\ a[Len(a)] \in Words

\* A character that a token goes on with.
Inner == Words \cup {Close}

\* No token reaches from the end of a into b.
Cut(a, b) == ~Dangling(a) \/ b = <<>> \/ b[1] \notin Inner

\* What the two parts of a text are.
LEMMA ConcatParts ==
    ASSUME NEW S, NEW a \in Seq(S), NEW b \in Seq(S)
    PROVE  /\ a \o b \in Seq(S) /\ Len(a \o b) = Len(a) + Len(b)
           /\ Len(a) \in Nat /\ Len(b) \in Nat
           /\ \A i \in 1..Len(a) : (a \o b)[i] = a[i]
           /\ \A i \in 1..Len(b) : (a \o b)[Len(a) + i] = b[i]
           /\ \A i \in 1..(Len(a) + Len(b)) :
                 i > Len(a) => (a \o b)[i] = b[i - Len(a)]
<1>1. /\ a \o b \in Seq(S) /\ Len(a \o b) = Len(a) + Len(b)
      /\ Len(a) \in Nat /\ Len(b) \in Nat
      /\ \A i \in 1..(Len(a) + Len(b)) :
            (a \o b)[i] = IF i <= Len(a) THEN a[i] ELSE b[i - Len(a)]
  BY ConcatProperties
<1>2. ASSUME NEW i \in 1..Len(b)
      PROVE  (a \o b)[Len(a) + i] = b[i]
  <2>1. Len(a) + i \in 1..(Len(a) + Len(b)) /\ ~(Len(a) + i <= Len(a))
           /\ Len(a) + i - Len(a) = i
    BY <1>1
  <2> QED  BY <1>1, <2>1
<1>3. \A i \in 1..Len(a) : i \in 1..(Len(a) + Len(b)) /\ i <= Len(a)
  BY <1>1
<1>4. \A i \in 1..(Len(a) + Len(b)) : i > Len(a) => ~(i <= Len(a))
  BY <1>1
<1> QED  BY <1>1, <1>2, <1>3, <1>4

\* Names for the operators of sequences, which the provers otherwise expand
\* wherever they see them.
Cat(a, b) == a \o b
Add(r, x) == Append(r, x)

\* Texts may be put together in any order.
LEMMA SeqAssociative ==
    ASSUME NEW S, NEW a \in Seq(S), NEW b \in Seq(S), NEW c \in Seq(S)
    PROVE  Cat(Cat(a, b), c) = Cat(a, Cat(b, c))
BY ConcatAssociative DEF Cat

\* The same with the name.
LEMMA CatParts ==
    ASSUME NEW S, NEW a \in Seq(S), NEW b \in Seq(S)
    PROVE  /\ Cat(a, b) \in Seq(S) /\ Len(Cat(a, b)) = Len(a) + Len(b)
           /\ Len(a) \in Nat /\ Len(b) \in Nat
           /\ \A i \in 1..Len(a) : Cat(a, b)[i] = a[i]
           /\ \A i \in 1..(Len(a) + Len(b)) :
                 i > Len(a) => Cat(a, b)[i] = b[i - Len(a)]
BY ConcatParts DEF Cat

\* A prefix of a text that contains the first part.
LEMMA PrefixOfConcat ==
    ASSUME NEW S, NEW a \in Seq(S), NEW b \in Seq(S), NEW k \in 0..Len(b)
    PROVE  SubSeq(a \o b, 1, Len(a) + k) = a \o SubSeq(b, 1, k)
<1> DEFINE p == SubSeq(a \o b, 1, Len(a) + k)
           q == SubSeq(b, 1, k)
<1>1. /\ a \o b \in Seq(S) /\ Len(a \o b) = Len(a) + Len(b)
      /\ Len(a) \in Nat /\ Len(b) \in Nat /\ k \in Nat /\ k <= Len(b)
      /\ \A i \in 1..Len(a) : (a \o b)[i] = a[i]
      /\ \A i \in 1..(Len(a) + Len(b)) :
            i > Len(a) => (a \o b)[i] = b[i - Len(a)]
  BY ConcatParts
<1>2. q \in Seq(S) /\ Len(q) = k /\ \A i \in 1..k : q[i] = b[i]
  BY <1>1
<1>3. /\ p \in Seq(S) /\ Len(p) = Len(a) + k
      /\ \A i \in 1..(Len(a) + k) : p[i] = (a \o b)[i]
  <2> DEFINE w == a \o b
  <2>0. w \in Seq(S) /\ Len(w) = Len(a) + Len(b) /\ p = SubSeq(w, 1, Len(a) + k)
    BY <1>1
  <2> HIDE DEF w, p
  <2>1. Len(a) + k \in Nat /\ Len(a) + k <= Len(w) /\ 1 \in Nat
    BY <1>1, <2>0
  <2> QED  BY <1>1, <2>0, <2>1 DEF w
<1> HIDE DEF p, q
<1>4. /\ a \o q \in Seq(S) /\ Len(a \o q) = Len(a) + k
      /\ \A i \in 1..Len(a) : (a \o q)[i] = a[i]
      /\ \A i \in 1..(Len(a) + k) : i > Len(a) => (a \o q)[i] = q[i - Len(a)]
  BY <1>2, ConcatParts
<1>5. ASSUME NEW i \in 1..(Len(a) + k)
      PROVE  p[i] = (a \o q)[i]
  <2>1. CASE i <= Len(a)
    BY <1>1, <1>3, <1>4, <2>1
  <2>2. CASE i > Len(a)
    <3>1. i - Len(a) \in 1..k /\ i \in 1..(Len(a) + Len(b))
      BY <1>1, <2>2
    <3>2. (a \o b)[i] = b[i - Len(a)] /\ (a \o q)[i] = q[i - Len(a)]
      BY <1>1, <1>4, <2>2, <3>1
    <3> QED  BY <1>2, <1>3, <3>1, <3>2
  <2>3. i <= Len(a) \/ i > Len(a)
    BY <1>1
  <2> QED  BY <2>1, <2>2, <2>3
<1> QED  BY <1>3, <1>4, <1>5, SeqEqual DEF p, q

\* A step changes only what is behind a piece that no token reaches out of.
LEMMA StepBehind ==
    ASSUME NEW v, VaultOK(v), NEW sc, NEW how,
           NEW a \in Seq(Char), NEW r \in Seq(Char), Len(r) >= 1,
           ~Dangling(a) \/ r[1] \notin Inner
    PROVE  Step(v, sc, how, Cat(a, r)) = Cat(a, Step(v, sc, how, r))
<1> DEFINE w == Cat(a, r)
<1>1. /\ w \in Seq(Char) /\ Len(w) = Len(a) + Len(r)
      /\ Len(a) \in Nat /\ Len(r) \in Nat
      /\ \A i \in 1..Len(a) : w[i] = a[i]
      /\ \A i \in 1..Len(r) : w[Len(a) + i] = r[i]
  BY ConcatParts DEF Cat
<1> HIDE DEF w
<1>2. ASSUME NEW t \in DOMAIN v
      PROVE  IsSuffix(t, w) <=> IsSuffix(t, r)
  <2>1. t \in Tokens
    BY DEF VaultOK
  <2>2. IsSuffix(t, w) <=> Len(w) >= 4 /\ \A i \in 1..4 : w[Len(w) - 4 + i] = t[i]
    BY <1>1, <2>1, SuffixMeans
  <2>3. IsSuffix(t, r) <=> Len(r) >= 4 /\ \A i \in 1..4 : r[Len(r) - 4 + i] = t[i]
    BY <2>1, SuffixMeans
  <2>4. CASE Len(r) >= 4
    <3>1. ASSUME NEW i \in 1..4
          PROVE  w[Len(w) - 4 + i] = r[Len(r) - 4 + i]
      <4>1. Len(r) - 4 + i \in 1..Len(r)
               /\ Len(w) - 4 + i = Len(a) + (Len(r) - 4 + i)
        BY <1>1, <2>4
      <4> QED  BY <1>1, <4>1
    <3> QED  BY <1>1, <2>2, <2>3, <2>4, <3>1
  <2>5. CASE ~(Len(r) >= 4)
    <3>1. SUFFICES ASSUME IsSuffix(t, w)
                   PROVE  FALSE
      BY <2>3, <2>5
    <3>2. /\ Len(w) >= 4
          /\ w[Len(w) - 3] = Open /\ w[Len(w) - 2] \in Words
          /\ w[Len(w) - 1] \in Words /\ w[Len(w)] = Close
      <4>1. t[1] = Open /\ t[2] \in Words /\ t[3] \in Words /\ t[4] = Close
        BY <2>1, TokenShape
      <4>2. Len(w) >= 4 /\ \A i \in 1..4 : w[Len(w) - 4 + i] = t[i]
        BY <2>2, <3>1
      <4>3. /\ Len(w) - 4 + 1 = Len(w) - 3 /\ Len(w) - 4 + 2 = Len(w) - 2
            /\ Len(w) - 4 + 3 = Len(w) - 1 /\ Len(w) - 4 + 4 = Len(w)
        BY <1>1
      <4> QED  BY <4>1, <4>2, <4>3
    <3>3. r[1] = w[Len(a) + 1]
      BY <1>1
    <3>4. CASE Len(r) = 3
      <4>1. Len(a) >= 1 /\ Len(w) - 3 = Len(a) /\ Len(w) - 2 = Len(a) + 1
        BY <1>1, <3>2, <3>4
      <4> QED  BY <1>1, <3>2, <3>3, <4>1 DEF Dangling, Inner
    <3>5. CASE Len(r) = 2
      <4>1. /\ Len(a) >= 2 /\ Len(w) - 3 = Len(a) - 1 /\ Len(w) - 2 = Len(a)
            /\ Len(w) - 1 = Len(a) + 1
        BY <1>1, <3>2, <3>5
      <4>2. Len(a) - 1 \in 1..Len(a) /\ Len(a) \in 1..Len(a)
        BY <1>1, <4>1
      <4>3. a[Len(a) - 1] = Open /\ a[Len(a)] \in Words
        BY <1>1, <3>2, <4>1, <4>2
      <4>4. r[1] \in Words
        BY <3>2, <3>3, <4>1
      <4> QED  BY <4>1, <4>3, <4>4 DEF Dangling, Inner
    <3>6. CASE Len(r) = 1
      <4>1. /\ Len(a) >= 3 /\ Len(w) - 3 = Len(a) - 2
            /\ Len(w) - 2 = Len(a) - 1 /\ Len(w) - 1 = Len(a)
            /\ Len(w) = Len(a) + 1
        BY <1>1, <3>2, <3>6
      <4>2. /\ Len(a) - 2 \in 1..Len(a) /\ Len(a) - 1 \in 1..Len(a)
            /\ Len(a) \in 1..Len(a)
        BY <1>1, <4>1
      <4>3. a[Len(a) - 2] = Open /\ a[Len(a) - 1] \in Words /\ a[Len(a)] \in Words
        BY <1>1, <3>2, <4>1, <4>2
      <4>4. r[1] = Close
        BY <3>2, <3>3, <4>1
      <4> QED  BY <4>1, <4>3, <4>4 DEF Dangling, Inner
    <3>7. Len(r) = 1 \/ Len(r) = 2 \/ Len(r) = 3
      <4>1. Len(r) \in Nat /\ Len(r) >= 1 /\ ~(Len(r) >= 4)
        BY <1>1, <2>5
      <4> DEFINE n == Len(r)
      <4>2. n \in Nat /\ n >= 1 /\ ~(n >= 4)
        BY <4>1
      <4> HIDE DEF n
      <4>3. n = 1 \/ n = 2 \/ n = 3
        BY <4>2
      <4> QED  BY <4>3 DEF n
    <3> QED  BY <3>4, <3>5, <3>6, <3>7
  <2> QED  BY <2>4, <2>5
<1>3. Ended(v, w) = Ended(v, r)
  BY <1>2 DEF Ended
<1>4. CASE Ended(v, r) = {}
  BY <1>3, <1>4 DEF Step, w
<1>5. CASE Ended(v, r) # {}
  <2>1. PICK t \in Ended(v, r) :
           /\ t = CHOOSE u \in Ended(v, r) : TRUE
           /\ t \in DOMAIN v /\ t \in Tokens /\ Len(r) >= 4
           /\ Step(v, sc, how, r) = SubSeq(r, 1, Len(r) - 4) \o Swap(v, sc, how, t)
    BY <1>5, StepCases
  <2>2. Step(v, sc, how, w) = SubSeq(w, 1, Len(w) - 4) \o Swap(v, sc, how, t)
    <3>1. PICK u \in Ended(v, w) :
             /\ u = CHOOSE x \in Ended(v, w) : TRUE
             /\ Step(v, sc, how, w) = SubSeq(w, 1, Len(w) - 4) \o Swap(v, sc, how, u)
      BY <1>1, <1>3, <1>5, StepCases
    <3>2. u = t
      BY <1>3, <2>1, <3>1
    <3> QED  BY <3>1, <3>2
  <2>3. Len(r) - 4 \in 0..Len(r) /\ Len(w) - 4 = Len(a) + (Len(r) - 4)
    BY <1>1, <2>1
  <2> DEFINE k == Len(r) - 4
             h == SubSeq(r, 1, k)
             x == Swap(v, sc, how, t)
  <2>4. SubSeq(w, 1, Len(w) - 4) = a \o h
    <3>1. k \in 0..Len(r) /\ Len(w) - 4 = Len(a) + k
      BY <2>3
    <3> HIDE DEF k
    <3>2. SubSeq(a \o r, 1, Len(a) + k) = a \o SubSeq(r, 1, k)
      BY <3>1, PrefixOfConcat
    <3> QED  BY <3>1, <3>2 DEF w, Cat
  <2>5. h \in Seq(Char) /\ x \in Seq(Char)
    BY <2>1, <2>3, SwapShape
  <2>6. Step(v, sc, how, r) = Cat(h, x) /\ Step(v, sc, how, w) = Cat(Cat(a, h), x)
    BY <2>1, <2>2, <2>4 DEF Cat
  <2> HIDE DEF h, x
  <2>7. Cat(Cat(a, h), x) = Cat(a, Cat(h, x))
    BY <2>5, SeqAssociative
  <2> QED  BY <2>6, <2>7 DEF w
<1> QED  BY <1>4, <1>5

\* The last element of a text with one character more.
LEMMA AppendParts ==
    ASSUME NEW S, NEW r \in Seq(S), NEW x \in S
    PROVE  /\ Append(r, x) \in Seq(S) /\ Len(Append(r, x)) = Len(r) + 1
           /\ Len(r) \in Nat
           /\ Append(r, x)[Len(r) + 1] = x
           /\ \A i \in 1..Len(r) : Append(r, x)[i] = r[i]
OBVIOUS

\* A character that is added to a text is added to its last part.
LEMMA AppendBehind ==
    ASSUME NEW S, NEW a \in Seq(S), NEW h \in Seq(S), NEW x \in S
    PROVE  Add(Cat(a, h), x) = Cat(a, Add(h, x))
<1> DEFINE p == <<x>>
<1>1. p \in Seq(S)
  OBVIOUS
<1>2. a \o h \in Seq(S)
  BY ConcatParts
<1>3. Append(a \o h, x) = (a \o h) \o p
  BY <1>2, AppendIsConcat
<1>4. Append(h, x) = h \o p
  BY AppendIsConcat
<1> HIDE DEF p
<1>5. Cat(Cat(a, h), p) = Cat(a, Cat(h, p))
  BY <1>1, SeqAssociative
<1> QED  BY <1>3, <1>4, <1>5 DEF Cat, Add



\* The same for two texts and the next character.
LEMMA StepBoth ==
    ASSUME NEW v, VaultOK(v), NEW sc, NEW how,
           NEW a \in Seq(Char), NEW h \in Seq(Char), NEW x \in Char,
           ~Dangling(a) \/ Add(h, x)[1] \notin Inner
    PROVE  Step(v, sc, how, Add(Cat(a, h), x)) = Cat(a, Step(v, sc, how, Add(h, x)))
<1>1. Add(Cat(a, h), x) = Cat(a, Add(h, x))
  BY AppendBehind
<1>2. Add(h, x) \in Seq(Char) /\ Len(Add(h, x)) >= 1
  BY AppendParts DEF Add
<1>3. Step(v, sc, how, Cat(a, Add(h, x))) = Cat(a, Step(v, sc, how, Add(h, x)))
  BY <1>2, StepBehind
<1> QED  BY <1>1, <1>3

\* Each step of a run adds the next character, or leaves something that a
\* token cannot begin with at the end.
LEMMA RunAdds ==
    ASSUME NEW v, VaultOK(v), NEW sc, NEW how, NEW s \in Seq(Char),
           NEW d, IsRun(d, v, sc, how, s), NEW n \in 1..Len(s)
    PROVE  /\ d[n] \in Seq(Char) /\ d[n - 1] \in Seq(Char) /\ s[n] \in Char
           /\ \/ d[n] = Append(d[n - 1], s[n])
              \/ /\ Len(d[n]) >= 1
                 /\ d[n][Len(d[n])] \notin Words \cup {Open}
<1>1. /\ d[n] \in Seq(Char) /\ d[n - 1] \in Seq(Char) /\ s[n] \in Char
      /\ d[n] = Step(v, sc, how, Append(d[n - 1], s[n]))
  <2>1. n \in 0..Len(s) /\ n - 1 \in 0..Len(s)
    OBVIOUS
  <2> QED  BY <2>1 DEF IsRun
<1> DEFINE r == Append(d[n - 1], s[n])
<1>2. r \in Seq(Char)
  BY <1>1, AppendParts
<1> HIDE DEF r
<1>3. CASE Step(v, sc, how, r) = r
  BY <1>1, <1>3 DEF r
<1>4. ASSUME NEW t \in Ended(v, r), t \in DOMAIN v, Len(r) >= 4,
             Step(v, sc, how, r) = SubSeq(r, 1, Len(r) - 4) \o Swap(v, sc, how, t)
      PROVE  /\ Len(d[n]) >= 1
             /\ d[n][Len(d[n])] \notin Words \cup {Open}
  <2> DEFINE h == SubSeq(r, 1, Len(r) - 4)
             w == Swap(v, sc, how, t)
  <2>1. h \in Seq(Char)
    BY <1>2, <1>4
  <2>2. /\ w \in Seq(Char) /\ Len(w) >= 1 /\ w[Len(w)] \in {Close} \cup Letters
    BY <1>4, SwapShape
  <2>3. d[n] = h \o w
    BY <1>1, <1>4 DEF r
  <2> HIDE DEF h, w
  <2>4. /\ Len(d[n]) = Len(h) + Len(w) /\ Len(h) \in Nat /\ Len(w) \in Nat
        /\ \A i \in 1..Len(w) : d[n][Len(h) + i] = w[i]
    BY <2>1, <2>2, <2>3, ConcatParts
  <2>5. Len(w) \in 1..Len(w)
    BY <2>2, <2>4
  <2>6. d[n][Len(d[n])] = w[Len(w)] /\ Len(d[n]) >= 1
    BY <2>2, <2>4, <2>5
  <2> QED  BY <2>2, <2>6, Kinds
<1> QED  BY <1>1, <1>2, <1>3, <1>4, StepCases

\* What is left dangling at the end of a run was dangling in the text.
LEMMA DanglingRaw ==
    ASSUME NEW v, VaultOK(v), NEW sc, NEW how, NEW s \in Seq(Char),
           NEW d, IsRun(d, v, sc, how, s), Dangling(d[Len(s)])
    PROVE  Dangling(s)
<1> DEFINE N == Len(s)
<1>1. N \in Nat /\ d[0] = <<>> /\ Len(<<>>) = 0
  BY DEF IsRun
<1>2. ASSUME NEW n \in 1..N
      PROVE  /\ d[n] \in Seq(Char) /\ d[n - 1] \in Seq(Char) /\ s[n] \in Char
             /\ \/ d[n] = Append(d[n - 1], s[n])
                \/ /\ Len(d[n]) >= 1
                   /\ d[n][Len(d[n])] \notin Words \cup {Open}
  <2> HIDE DEF N
  <2> QED  BY RunAdds DEF N
<1> HIDE DEF N
\* one step back: a text that ends with a bracket or a word had it added
<1>3. ASSUME NEW n \in 0..N, Len(d[n]) >= 1,
             d[n][Len(d[n])] \in Words \cup {Open}
      PROVE  /\ n \in 1..N /\ d[n - 1] \in Seq(Char)
             /\ s[n] = d[n][Len(d[n])]
             /\ Len(d[n - 1]) = Len(d[n]) - 1
             /\ \A i \in 1..Len(d[n - 1]) : d[n - 1][i] = d[n][i]
  <2>1. n # 0
    BY <1>1, <1>3
  <2>2. n \in 1..N
    BY <1>1, <2>1
  <2>3. d[n] = Append(d[n - 1], s[n])
    BY <1>2, <1>3, <2>2
  <2> DEFINE b == d[n - 1]
             x == s[n]
  <2>4. b \in Seq(Char) /\ x \in Char /\ d[n] = Append(b, x)
    BY <1>2, <2>2, <2>3
  <2> HIDE DEF b, x
  <2>5. /\ Len(d[n]) = Len(b) + 1 /\ Len(b) \in Nat
        /\ d[n][Len(b) + 1] = x
        /\ \A i \in 1..Len(b) : d[n][i] = b[i]
    BY <2>4, AppendParts
  <2>6. Len(b) = Len(d[n]) - 1 /\ Len(b) + 1 = Len(d[n])
    BY <2>5
  <2> QED  BY <2>2, <2>4, <2>5, <2>6 DEF b, x
<1>4. N \in 0..N /\ Dangling(d[N])
  BY <1>1 DEF N
<1>5. CASE Len(d[N]) >= 1 /\ d[N][Len(d[N])] = Open
  <2>1. N \in 1..N /\ s[N] = Open
    BY <1>3, <1>4, <1>5
  <2> QED  BY <2>1 DEF Dangling, N
<1>6. CASE /\ Len(d[N]) >= 2 /\ d[N][Len(d[N]) - 1] = Open
           /\ d[N][Len(d[N])] \in Words
  <2>0. Len(d[N]) >= 1
    BY <1>2, <1>4, <1>6
  <2>1. /\ N \in 1..N /\ d[N - 1] \in Seq(Char)
        /\ s[N] \in Words /\ Len(d[N - 1]) = Len(d[N]) - 1
        /\ \A i \in 1..Len(d[N - 1]) : d[N - 1][i] = d[N][i]
    BY <1>3, <1>4, <1>6, <2>0
  <2>2. /\ N - 1 \in 0..N /\ Len(d[N - 1]) >= 1
        /\ Len(d[N - 1]) \in 1..Len(d[N - 1])
    BY <1>1, <1>6, <2>1
  <2>3. d[N - 1][Len(d[N - 1])] = Open
    BY <1>6, <2>1, <2>2
  <2>4. N - 1 \in 1..N /\ s[N - 1] = Open
    BY <1>3, <2>2, <2>3
  <2>5. N >= 2
    BY <1>1, <2>4
  <2> QED  BY <2>1, <2>4, <2>5 DEF Dangling, N
<1>7. CASE /\ Len(d[N]) >= 3 /\ d[N][Len(d[N]) - 2] = Open
           /\ d[N][Len(d[N]) - 1] \in Words /\ d[N][Len(d[N])] \in Words
  <2>0. Len(d[N]) >= 1
    BY <1>2, <1>4, <1>7
  <2>1. /\ N \in 1..N /\ d[N - 1] \in Seq(Char)
        /\ s[N] \in Words /\ Len(d[N - 1]) = Len(d[N]) - 1
        /\ \A i \in 1..Len(d[N - 1]) : d[N - 1][i] = d[N][i]
    BY <1>3, <1>4, <1>7, <2>0
  <2>2. /\ N - 1 \in 0..N /\ Len(d[N - 1]) >= 2
        /\ Len(d[N - 1]) \in 1..Len(d[N - 1])
        /\ Len(d[N - 1]) - 1 \in 1..Len(d[N - 1])
        /\ Len(d[N]) - 2 = Len(d[N - 1]) - 1
        /\ Len(d[N - 1]) >= 1
    BY <1>1, <1>7, <2>1
  <2>3. d[N - 1][Len(d[N - 1])] \in Words /\ d[N - 1][Len(d[N - 1]) - 1] = Open
    BY <1>7, <2>1, <2>2
  <2>4. /\ N - 1 \in 1..N /\ s[N - 1] \in Words
        /\ d[(N - 1) - 1] \in Seq(Char)
        /\ Len(d[(N - 1) - 1]) = Len(d[N - 1]) - 1
        /\ \A i \in 1..Len(d[(N - 1) - 1]) : d[(N - 1) - 1][i] = d[N - 1][i]
    BY <1>3, <2>2, <2>3
  <2>5. (N - 1) - 1 = N - 2
    BY <1>1
  <2>6. /\ N - 2 \in 0..N /\ Len(d[N - 2]) >= 1
        /\ Len(d[N - 2]) \in 1..Len(d[N - 2])
    BY <1>1, <2>2, <2>4, <2>5
  <2>7. d[N - 2][Len(d[N - 2])] = Open
    BY <2>3, <2>4, <2>5, <2>6
  <2>8. N - 2 \in 1..N /\ s[N - 2] = Open
    BY <1>3, <2>6, <2>7
  <2>9. N >= 3
    BY <1>1, <2>8
  <2> QED  BY <2>1, <2>4, <2>8, <2>9 DEF Dangling, N
<1> QED  BY <1>4, <1>5, <1>6, <1>7 DEF Dangling

\* A run keeps its first character, or replaces it by one that a token begins
\* with or a value.
LEMMA FirstStays ==
    ASSUME NEW v, VaultOK(v), NEW sc, NEW how, NEW s \in Seq(Char),
           NEW d, IsRun(d, v, sc, how, s), s # <<>>, s[1] \notin Inner
    PROVE  \A n \in 1..Len(s) : Len(d[n]) >= 1 /\ d[n][1] \notin Inner
<1> DEFINE N == Len(s)
           Good(n) == Len(d[n]) >= 1 /\ d[n][1] \notin Inner
           S == {n \in 0..N : n = 0 \/ Good(n)}
<1>1. N \in Nat /\ N >= 1
  OBVIOUS
<1>2. 0 \in S
  BY <1>1
<1>3. ASSUME NEW n \in 1..N, n - 1 \in S
      PROVE  n \in S
  <2>1. /\ d[n - 1] \in Seq(Char) /\ s[n] \in Char
        /\ d[n] = Step(v, sc, how, Append(d[n - 1], s[n]))
    <3>1. n \in 0..N /\ n - 1 \in 0..N
      BY <1>1
    <3> QED  BY <3>1 DEF IsRun
  <2> DEFINE r == Append(d[n - 1], s[n])
  <2>2. r \in Seq(Char) /\ Len(r) >= 1 /\ Len(r) \in Nat
    BY <2>1, AppendParts
  <2>3. r[1] \notin Inner
    <3>1. CASE n = 1
      <4>1. d[n - 1] = <<>>
        BY <3>1 DEF IsRun
      <4>2. r = <<s[1]>>
        BY <3>1, <4>1
      <4> QED  BY <4>2
    <3>2. CASE n # 1
      <4>1. Good(n - 1)
        BY <1>1, <1>3, <3>2
      <4>2. 1 \in 1..Len(d[n - 1])
        BY <2>1, <4>1
      <4>3. r[1] = d[n - 1][1]
        BY <2>1, <4>2, AppendParts
      <4> QED  BY <4>1, <4>3
    <3> QED  BY <3>1, <3>2
  <2>4. d[n] = Step(v, sc, how, r)
    BY <2>1
  <2> HIDE DEF r
  <2>5. CASE Step(v, sc, how, r) = r
    <3>1. Good(n)
      BY <2>2, <2>3, <2>4, <2>5
    <3> QED  BY <1>1, <3>1
  <2>6. ASSUME NEW t \in Ended(v, r), t \in DOMAIN v, Len(r) >= 4,
               Step(v, sc, how, r) = SubSeq(r, 1, Len(r) - 4) \o Swap(v, sc, how, t)
        PROVE  Good(n)
    <3> DEFINE h == SubSeq(r, 1, Len(r) - 4)
               w == Swap(v, sc, how, t)
    <3>1. /\ w \in Seq(Char) /\ Len(w) >= 1 /\ w[1] \notin Inner
      <4>1. w \in Seq(Char) /\ Len(w) >= 1 /\ w[1] \in {Open} \cup Letters
        BY <2>6, SwapShape
      <4> HIDE DEF w
      <4> QED  BY <4>1, Kinds DEF Inner
    <3>2. h \in Seq(Char) /\ (Len(h) >= 1 => h[1] = r[1])
      BY <2>2, <2>6
    <3>3. d[n] = h \o w
      BY <2>4, <2>6
    <3> HIDE DEF h, w
    <3>4. /\ Len(d[n]) = Len(h) + Len(w) /\ Len(h) \in Nat /\ Len(w) \in Nat
          /\ \A i \in 1..Len(h) : d[n][i] = h[i]
          /\ \A i \in 1..Len(w) : d[n][Len(h) + i] = w[i]
      BY <3>1, <3>2, <3>3, ConcatParts
    <3>5. CASE Len(h) = 0
      <4>1. 1 \in 1..Len(w) /\ Len(h) + 1 = 1
        BY <3>1, <3>4, <3>5
      <4>2. d[n][1] = w[1]
        BY <3>4, <4>1
      <4> QED  BY <3>1, <3>4, <4>2
    <3>6. CASE Len(h) >= 1
      <4>1. 1 \in 1..Len(h)
        BY <3>4, <3>6
      <4>2. d[n][1] = r[1]
        BY <3>2, <3>4, <3>6, <4>1
      <4> QED  BY <2>3, <3>1, <3>4, <4>2
    <3> QED  BY <3>4, <3>5, <3>6
  <2>7. Good(n)
    BY <2>2, <2>5, <2>6, <1>1, <2>3, <2>4, StepCases
  <2> QED  BY <1>1, <2>7
<1>4. \A n \in 0..N : n \in S
  <2> HIDE DEF S, N
  <2> QED  BY <1>1, <1>2, <1>3, CountUp
<1>5. ASSUME NEW n \in 1..N
      PROVE  Good(n)
  <2>1. n \in 0..N /\ n # 0
    BY <1>1
  <2> QED  BY <1>4, <2>1
<1> QED  BY <1>5

\* A text that is cut where no token is can be restored in two pieces.
LEMMA WithConcat ==
    ASSUME NEW v, VaultOK(v), NEW sc, NEW how,
           NEW a \in Seq(Char), NEW b \in Seq(Char), Cut(a, b)
    PROVE  With(v, sc, how, Cat(a, b)) = Cat(With(v, sc, how, a), With(v, sc, how, b))
<1>1. PICK f : IsRun(f, v, sc, how, a)
  BY RunExists
<1>2. PICK g : IsRun(g, v, sc, how, b)
  BY RunExists
<1> DEFINE M == Len(a)
           N == Len(b)
           s == a \o b
           A == f[M]
           d == [n \in 0..(M + N) |-> IF n <= M THEN f[n] ELSE A \o g[n - M]]
<1>3. M \in Nat /\ N \in Nat /\ M \in 0..M /\ N \in 0..N
  OBVIOUS
<1>4. /\ s \in Seq(Char) /\ Len(s) = M + N
      /\ \A i \in 1..M : s[i] = a[i]
      /\ \A i \in 1..N : s[M + i] = b[i]
  BY ConcatParts
<1>5. /\ f \in [0..M -> Seq(Char)] /\ f[0] = <<>>
      /\ \A n \in 1..M : f[n] = Step(v, sc, how, Append(f[n - 1], a[n]))
      /\ g \in [0..N -> Seq(Char)] /\ g[0] = <<>>
      /\ \A n \in 1..N : g[n] = Step(v, sc, how, Append(g[n - 1], b[n]))
  BY <1>1, <1>2 DEF IsRun
<1>6. A \in Seq(Char)
  BY <1>3, <1>5
<1>7. With(v, sc, how, a) = A /\ With(v, sc, how, b) = g[N]
  BY <1>1, <1>2, RunEnds
<1>8. ~Dangling(A) \/ b = <<>> \/ b[1] \notin Inner
  BY <1>1, DanglingRaw DEF Cut
<1>9. A \o <<>> = A
  BY <1>6
<1>10. \A n \in 0..N : A \o g[n] \in Seq(Char)
  <2> TAKE n \in 0..N
  <2>1. g[n] \in Seq(Char)
    BY <1>5
  <2> HIDE DEF A
  <2> QED  BY <1>6, <2>1
<1>11. ASSUME NEW n \in 1..N
       PROVE  A \o g[n] = Step(v, sc, how, Append(A \o g[n - 1], b[n]))
  <2> DEFINE h == g[n - 1]
             x == b[n]
             r == Add(h, x)
  <2>0. n - 1 \in 0..N /\ n \in 1..Len(b)
    BY <1>3
  <2>1. h \in Seq(Char) /\ x \in Char
    <3> HIDE DEF N
    <3> QED  BY <1>5, <2>0
  <2>2. ~Dangling(A) \/ r[1] \notin Inner
    <3>0. b # <<>>
      BY <1>3
    <3>1. SUFFICES ASSUME b[1] \notin Inner, b # <<>>
                   PROVE  r[1] \notin Inner
      <4> HIDE DEF r, A, N
      <4> QED  BY <1>8, <3>0
    <3>2. CASE n = 1
      <4>1. h = <<>> /\ x = b[1]
        BY <1>5, <3>2
      <4>2. r = <<b[1]>>
        BY <4>1 DEF Add
      <4> QED  BY <3>1, <4>2
    <3>3. CASE n # 1
      <4>1. n - 1 \in 1..N
        BY <1>3, <3>3
      <4>2. Len(h) >= 1 /\ h[1] \notin Inner
        BY <1>2, <3>1, <4>1, FirstStays
      <4>3. 1 \in 1..Len(h)
        BY <2>1, <4>2
      <4>4. r[1] = h[1]
        BY <2>1, <4>3, AppendParts DEF Add
      <4> QED  BY <4>2, <4>4
    <3> QED  BY <3>2, <3>3
  <2>3. g[n] = Step(v, sc, how, Add(h, x))
    BY <1>5 DEF Add
  <2> HIDE DEF h, x, A, N, M
  <2>4. Step(v, sc, how, Add(Cat(A, h), x)) = Cat(A, Step(v, sc, how, Add(h, x)))
    BY <1>6, <2>1, <2>2, StepBoth
  <2>5. Cat(A, g[n]) = Step(v, sc, how, Add(Cat(A, h), x))
    BY <2>3, <2>4
  <2> QED  BY <2>5 DEF Cat, Add, h, x
<1>12. IsRun(d, v, sc, how, s)
  <2>1. d \in [0..(M + N) -> Seq(Char)]
    <3>1. ASSUME NEW n \in 0..(M + N)
          PROVE  d[n] \in Seq(Char)
      <4>1. CASE n <= M
        BY <1>3, <1>5, <4>1
      <4>2. CASE ~(n <= M)
        <5>1. n - M \in 0..N
          BY <1>3, <4>2
        <5>2. d[n] = A \o g[n - M]
          BY <4>2
        <5> QED  BY <1>10, <5>1, <5>2
      <4> QED  BY <4>1, <4>2
    <3> QED  BY <3>1
  <2>2. d[0] = <<>>
    BY <1>3, <1>5
  <2>3. ASSUME NEW n \in 1..(M + N)
        PROVE  d[n] = Step(v, sc, how, Append(d[n - 1], s[n]))
    <3>0. n \in 0..(M + N) /\ n - 1 \in 0..(M + N)
      BY <1>3
    <3>1. CASE n <= M
      <4>1. n \in 1..M /\ n - 1 <= M
        BY <1>3, <3>1
      <4>2. d[n] = f[n] /\ d[n - 1] = f[n - 1]
        BY <3>0, <3>1, <4>1
      <4> HIDE DEF d, s, A
      <4> QED  BY <1>4, <1>5, <4>1, <4>2
    <3>2. CASE ~(n <= M)
      <4> DEFINE k == n - M
      <4>1. k \in 1..N /\ n = M + k /\ k - 1 \in 0..N
        BY <1>3, <3>2
      <4>2. d[n] = A \o g[k]
        BY <3>0, <3>2
      <4>3. d[n - 1] = A \o g[k - 1]
        <5>1. CASE n - 1 <= M
          <6>1. n - 1 = M /\ k - 1 = 0
            BY <1>3, <3>2, <5>1
          <6>2. d[n - 1] = A
            BY <3>0, <6>1
          <6> QED  BY <1>5, <1>9, <6>1, <6>2
        <5>2. CASE ~(n - 1 <= M)
          <6>1. (n - 1) - M = k - 1
            BY <1>3
          <6>2. d[n - 1] = A \o g[(n - 1) - M]
            BY <3>0, <5>2
          <6> QED  BY <6>1, <6>2
        <5> QED  BY <5>1, <5>2
      <4>4. s[n] = b[k]
        BY <1>4, <4>1
      <4> HIDE DEF d, s, A, k
      <4> QED  BY <1>11, <4>1, <4>2, <4>3, <4>4
    <3> QED  BY <3>1, <3>2
  <2> HIDE DEF d, s, M, N
  <2> QED  BY <1>4, <2>1, <2>2, <2>3 DEF IsRun
<1>13. With(v, sc, how, s) = d[Len(s)]
  <2>1. s \in Seq(Char)
    BY <1>4
  <2> HIDE DEF d, s
  <2> QED  BY <2>1, <1>12, RunEnds
<1>14. d[M + N] = A \o g[N]
  <2>1. M + N \in 0..(M + N)
    BY <1>3
  <2>a. d[M + N] = IF M + N <= M THEN f[M + N] ELSE A \o g[M + N - M]
    BY <2>1
  <2> HIDE DEF d, M, N
  <2>2. CASE N = 0
    <3>1. M + N <= M /\ M + N = M
      BY <1>3, <2>2
    <3>2. d[M + N] = A
      BY <2>a, <3>1
    <3>3. g[N] = <<>>
      BY <1>5, <2>2
    <3> QED  BY <1>9, <3>2, <3>3
  <2>3. CASE N # 0
    <3>1. ~(M + N <= M) /\ M + N - M = N
      BY <1>3, <2>3
    <3> QED  BY <2>a, <3>1
  <2> QED  BY <2>2, <2>3
<1> HIDE DEF d
<1> QED  BY <1>4, <1>7, <1>13, <1>14 DEF Cat

-----------------------------------------------------------------------------
(* Concatenation of the deltas.                                            *)

\* d[n] is the concatenation of the first n texts of q.
IsFlat(d, q) ==
    /\ d \in [0..Len(q) -> Seq(Char)]
    /\ d[0] = <<>>
    /\ \A n \in 1..Len(q) : d[n] = Cat(d[n - 1], q[n])

\* Every sequence of texts is the concatenation of one more text each.
LEMMA FlatExists ==
    ASSUME NEW q \in Seq(Seq(Char))
    PROVE  \E d : IsFlat(d, q)
<1> DEFINE N == Len(q)
           X == Seq(Char)
           x0 == <<>>
           G == [p \in (1..N) \X X |-> Cat(p[2], q[p[1]])]
<1>1. N \in Nat /\ x0 \in X
  OBVIOUS
<1>2. \A n \in 1..N, r \in X : G[<<n, r>>] = Cat(r, q[n])
  OBVIOUS
<1>3. \A n \in 1..N, r \in X : Cat(r, q[n]) \in X
  BY DEF Cat
<1> HIDE DEF G, X, x0, N
<1>4. Steps(G, N, X)
  BY <1>2, <1>3 DEF Steps
<1>5. PICK d : Follows(d, G, x0, N, X)
  BY <1>1, <1>4, Recursion
<1>6. /\ d \in [0..N -> X] /\ d[0] = x0
      /\ \A n \in 1..N : d[n] = G[<<n, d[n - 1]>>]
  BY <1>5 DEF Follows
<1>7. \A n \in 1..N : n - 1 \in 0..N /\ d[n - 1] \in X
  BY <1>1, <1>6
<1>8. \A n \in 1..N : d[n] = Cat(d[n - 1], q[n])
  BY <1>2, <1>6, <1>7
<1> QED  BY <1>6, <1>8 DEF IsFlat, N, X, x0

\* FlattenSeq is the end of that.
LEMMA FlatEnds ==
    ASSUME NEW q \in Seq(Seq(Char)), NEW d, IsFlat(d, q)
    PROVE  FlattenSeq(q) = d[Len(q)]
<1> DEFINE N == Len(q)
           Rec(f) == [i \in 1..N |-> IF i = 1 THEN q[i] ELSE Cat(f[i - 1], q[i])]
           e == CHOOSE f : f = Rec(f)
           g == [i \in 1..N |-> d[i]]
<1>1. N \in Nat
  OBVIOUS
<1>2. /\ d \in [0..N -> Seq(Char)] /\ d[0] = <<>>
      /\ \A n \in 1..N : d[n] = Cat(d[n - 1], q[n])
  BY DEF IsFlat
<1>3. CASE N = 0
  BY <1>2, <1>3 DEF FlattenSeq
<1>4. CASE N # 0
  <2>1. FlattenSeq(q) = e[N]
    BY <1>4 DEF FlattenSeq, Cat
  <2>2. d[1] = q[1]
    <3>1. 1 \in 1..N /\ 1 - 1 = 0
      BY <1>1, <1>4
    <3>2. q[1] \in Seq(Char)
      BY <3>1
    <3>3. d[1] = <<>> \o q[1]
      BY <1>2, <3>1 DEF Cat
    <3> DEFINE x == q[1]
    <3> HIDE DEF x
    <3>4. x \in Seq(Char) /\ d[1] = <<>> \o x
      BY <3>2, <3>3 DEF x
    <3>5. d[1] = x
      BY <3>4
    <3> QED  BY <3>5 DEF x
  <2>3. g = Rec(g)
    <3>1. ASSUME NEW i \in 1..N
          PROVE  d[i] = IF i = 1 THEN q[i] ELSE Cat(g[i - 1], q[i])
      <4>1. CASE i = 1
        BY <2>2, <4>1
      <4>2. CASE i # 1
        <5>1. i - 1 \in 1..N
          BY <1>1, <4>2
        <5>2. g[i - 1] = d[i - 1]
          BY <5>1
        <5> QED  BY <1>2, <4>2, <5>2
      <4> QED  BY <4>1, <4>2
    <3> QED  BY <3>1
  <2>4. e = Rec(e)
    <3> HIDE DEF Rec, g
    <3> QED  BY <2>3
  <2>5. \A i \in 1..N : e[i] = IF i = 1 THEN q[i] ELSE Cat(e[i - 1], q[i])
    <3> HIDE DEF e
    <3> QED  BY <2>4
  <2> HIDE DEF e
  <2> DEFINE S == {n \in 0..N : n = 0 \/ e[n] = d[n]}
  <2>6. 0 \in S
    BY <1>1
  <2>7. ASSUME NEW n \in 1..N, n - 1 \in S
        PROVE  n \in S
    <3>1. CASE n = 1
      BY <1>1, <2>2, <2>5, <3>1
    <3>2. CASE n # 1
      <4>1. e[n - 1] = d[n - 1]
        BY <1>1, <2>7, <3>2
      <4>2. e[n] = Cat(e[n - 1], q[n]) /\ d[n] = Cat(d[n - 1], q[n])
        BY <1>2, <2>5, <3>2
      <4>3. e[n] = d[n]
        BY <4>1, <4>2
      <4> QED  BY <1>1, <4>3
    <3> QED  BY <3>1, <3>2
  <2>8. \A n \in 0..N : n \in S
    <3> HIDE DEF S, N
    <3> QED  BY <1>1, <2>6, <2>7, CountUp
  <2>9. N \in S
    BY <1>1, <2>8
  <2> QED  BY <1>4, <2>1, <2>9
<1> QED  BY <1>3, <1>4

\* One text more at the end of a sequence of texts.
LEMMA FlattenAppend ==
    ASSUME NEW q \in Seq(Seq(Char)), NEW x \in Seq(Char)
    PROVE  /\ FlattenSeq(q) \in Seq(Char)
           /\ FlattenSeq(Add(q, x)) = Cat(FlattenSeq(q), x)
           /\ FlattenSeq(<<>>) = <<>>
<1> DEFINE N == Len(q)
           p == Append(q, x)
<1>1. PICK d : IsFlat(d, q)
  BY FlatExists
<1>2. /\ d \in [0..N -> Seq(Char)] /\ d[0] = <<>> /\ N \in Nat
      /\ \A n \in 1..N : d[n] = Cat(d[n - 1], q[n])
      /\ FlattenSeq(q) = d[N]
  BY <1>1, FlatEnds DEF IsFlat
<1>3. /\ p \in Seq(Seq(Char)) /\ Len(p) = N + 1 /\ p[N + 1] = x
      /\ \A i \in 1..N : p[i] = q[i]
  <2> DEFINE T == Seq(Char)
  <2>1. q \in Seq(T) /\ x \in T
    OBVIOUS
  <2> HIDE DEF T
  <2>2. /\ p \in Seq(T) /\ Len(p) = N + 1 /\ p[N + 1] = x
        /\ \A i \in 1..N : p[i] = q[i]
    BY <2>1, AppendParts
  <2> QED  BY <2>2 DEF T
<1> HIDE DEF p
<1> DEFINE c == [n \in 0..(N + 1) |-> IF n = N + 1 THEN Cat(d[N], x) ELSE d[n]]
<1>4. Cat(d[N], x) \in Seq(Char) /\ d[N] \in Seq(Char)
  <2>0. N \in 0..N
    BY <1>2
  <2>1. d[N] \in Seq(Char)
    <3> HIDE DEF N
    <3> QED  BY <1>2, <2>0
  <2> QED  BY <2>1 DEF Cat
<1>5. c \in [0..(N + 1) -> Seq(Char)]
  <2>1. \A n \in 0..(N + 1) : n # N + 1 => n \in 0..N
    BY <1>2
  <2> QED  BY <1>2, <1>4, <2>1
<1>6. \A n \in 0..(N + 1) : c[n] = IF n = N + 1 THEN Cat(d[N], x) ELSE d[n]
  OBVIOUS
<1> HIDE DEF c
<1>7. c[0] = <<>>
  <2>1. 0 \in 0..(N + 1) /\ 0 # N + 1
    BY <1>2
  <2> QED  BY <1>2, <1>6, <2>1
<1>8. ASSUME NEW n \in 1..(N + 1)
      PROVE  c[n] = Cat(c[n - 1], p[n])
  <2>1. n - 1 \in 0..(N + 1) /\ n - 1 # N + 1 /\ n \in 0..(N + 1)
    BY <1>2
  <2>2. c[n - 1] = d[n - 1]
    BY <1>6, <2>1
  <2>3. CASE n = N + 1
    <3>1. n - 1 = N
      BY <1>2, <2>3
    <3>2. c[n] = Cat(d[N], x)
      BY <1>6, <2>1, <2>3
    <3>3. p[n] = x
      BY <1>3, <2>3
    <3> QED  BY <2>2, <3>1, <3>2, <3>3
  <2>4. CASE n # N + 1
    <3>1. n \in 1..N
      BY <1>2, <2>4
    <3> QED  BY <1>2, <1>3, <1>6, <2>1, <2>2, <2>4, <3>1
  <2> QED  BY <2>3, <2>4
<1>9. IsFlat(c, p)
  BY <1>3, <1>5, <1>7, <1>8 DEF IsFlat
<1>10. FlattenSeq(p) = c[Len(p)]
  BY <1>3, <1>9, FlatEnds
<1>11. c[N + 1] = Cat(d[N], x)
  <2>1. N + 1 \in 0..(N + 1)
    BY <1>2
  <2> QED  BY <1>6, <2>1
<1>12. FlattenSeq(p) = Cat(FlattenSeq(q), x)
  BY <1>2, <1>3, <1>10, <1>11
<1>13. FlattenSeq(<<>>) = <<>>
  BY DEF FlattenSeq
<1> QED  BY <1>2, <1>4, <1>12, <1>13 DEF p, Add

-----------------------------------------------------------------------------
(* One delta of a session.                                                 *)

\* Where the beginning of a token dangles.
Hangs(a, i) ==
    /\ i \in 1..Len(a) /\ a[i] = Open /\ Len(a) - i <= 2
    /\ \A j \in (i + 1)..Len(a) : a[j] \in Words

\* Dangling in terms of places.
LEMMA DanglingPlace ==
    ASSUME NEW a \in Seq(Char)
    PROVE  Dangling(a) <=> \E i \in 1..Len(a) : Hangs(a, i)
<1> DEFINE N == Len(a)
<1>1. N \in Nat
  OBVIOUS
<1> HIDE DEF N
<1>2. ASSUME NEW i \in 1..N, a[i] = Open, N - i <= 2,
             \A j \in (i + 1)..N : a[j] \in Words
      PROVE  \/ N >= 1 /\ a[N] = Open
             \/ N >= 2 /\ a[N - 1] = Open /\ a[N] \in Words
             \/ /\ N >= 3 /\ a[N - 2] = Open
                /\ a[N - 1] \in Words /\ a[N] \in Words
  <2>1. CASE i = N
    BY <1>1, <1>2, <2>1
  <2>2. CASE i = N - 1
    <3>1. N \in (i + 1)..N /\ N >= 2
      BY <1>1, <2>2
    <3> QED  BY <1>2, <2>2, <3>1
  <2>3. CASE i = N - 2
    <3>1. N \in (i + 1)..N /\ N - 1 \in (i + 1)..N /\ N >= 3
      BY <1>1, <2>3
    <3> QED  BY <1>2, <2>3, <3>1
  <2>4. i = N \/ i = N - 1 \/ i = N - 2
    BY <1>1, <1>2
  <2> QED  BY <2>1, <2>2, <2>3, <2>4
<1>3. ASSUME N >= 1, a[N] = Open
      PROVE  \E i \in 1..N : /\ a[i] = Open /\ N - i <= 2
                             /\ \A j \in (i + 1)..N : a[j] \in Words
  <2>1. N \in 1..N /\ N - N <= 2 /\ \A j \in (N + 1)..N : FALSE
    BY <1>1, <1>3
  <2> QED  BY <1>3, <2>1
<1>4. ASSUME N >= 2, a[N - 1] = Open, a[N] \in Words
      PROVE  \E i \in 1..N : /\ a[i] = Open /\ N - i <= 2
                             /\ \A j \in (i + 1)..N : a[j] \in Words
  <2>1. /\ N - 1 \in 1..N /\ N - (N - 1) <= 2
        /\ \A j \in ((N - 1) + 1)..N : j = N
    BY <1>1, <1>4
  <2>2. \A j \in ((N - 1) + 1)..N : a[j] \in Words
    BY <1>4, <2>1
  <2> QED  BY <1>4, <2>1, <2>2
<1>5. ASSUME N >= 3, a[N - 2] = Open, a[N - 1] \in Words, a[N] \in Words
      PROVE  \E i \in 1..N : /\ a[i] = Open /\ N - i <= 2
                             /\ \A j \in (i + 1)..N : a[j] \in Words
  <2>1. /\ N - 2 \in 1..N /\ N - (N - 2) <= 2
        /\ \A j \in ((N - 2) + 1)..N : j = N \/ j = N - 1
    BY <1>1, <1>5
  <2>2. \A j \in ((N - 2) + 1)..N : a[j] \in Words
    BY <1>5, <2>1
  <2> QED  BY <1>5, <2>1, <2>2
<1> QED  BY <1>2, <1>3, <1>4, <1>5 DEF Dangling, Hangs, N

\* What dangles at the end of two pieces dangles in the second one, unless it
\* began in the first.
LEMMA DanglingConcat ==
    ASSUME NEW a \in Seq(Char), NEW b \in Seq(Char), Dangling(Cat(a, b)),
           ~Dangling(a) \/ (b # <<>> /\ b[1] \notin Words)
    PROVE  Dangling(b)
<1> DEFINE w == Cat(a, b)
           M == Len(a)
           N == Len(b)
<1>1. /\ w \in Seq(Char) /\ Len(w) = M + N /\ M \in Nat /\ N \in Nat
      /\ \A i \in 1..M : w[i] = a[i]
      /\ \A i \in 1..N : w[M + i] = b[i]
      /\ \A i \in 1..(M + N) : i > M => w[i] = b[i - M]
  BY ConcatParts DEF Cat
<1>2. Dangling(w)
  OBVIOUS
<1>b. b # <<>> => N >= 1
  BY <1>1
<1> HIDE DEF w
<1>3. PICK i \in 1..Len(w) : Hangs(w, i)
  BY <1>1, <1>2, DanglingPlace
<1>4. /\ i \in 1..(M + N) /\ w[i] = Open /\ M + N - i <= 2
      /\ \A j \in (i + 1)..(M + N) : w[j] \in Words
  BY <1>1, <1>3 DEF Hangs
<1> HIDE DEF M, N
<1>5. CASE i > M
  <2>1. i - M \in 1..N /\ N - (i - M) <= 2 /\ b[i - M] = Open
    BY <1>1, <1>4, <1>5
  <2>2. ASSUME NEW j \in ((i - M) + 1)..N
        PROVE  b[j] \in Words
    <3>1. M + j \in (i + 1)..(M + N) /\ j \in 1..N
      BY <1>1, <1>4, <1>5
    <3> QED  BY <1>1, <1>4, <3>1
  <2>3. Hangs(b, i - M)
    BY <2>1, <2>2 DEF Hangs, N
  <2> QED  BY <2>1, <2>3, DanglingPlace DEF N
<1>6. CASE ~(i > M)
  <2>1. i \in 1..M /\ M - i <= 2 /\ a[i] = Open
    BY <1>1, <1>4, <1>6
  <2>2. ASSUME NEW j \in (i + 1)..M
        PROVE  a[j] \in Words
    <3>1. j \in (i + 1)..(M + N) /\ j \in 1..M
      BY <1>1, <1>4, <1>6
    <3> QED  BY <1>1, <1>4, <3>1
  <2>3. Hangs(a, i)
    BY <2>1, <2>2 DEF Hangs, M
  <2>4. Dangling(a)
    BY <2>1, <2>3, DanglingPlace DEF M
  <2>5. b # <<>> /\ b[1] \notin Words
    BY <2>4
  <2>6. M + 1 \in (i + 1)..(M + N) /\ 1 \in 1..N
    BY <1>1, <1>4, <1>6, <1>b, <2>5
  <2>7. w[M + 1] = b[1] /\ w[M + 1] \in Words
    BY <1>1, <1>4, <2>6
  <2> QED  BY <2>5, <2>7
<1> QED  BY <1>5, <1>6

\* What a session passes on and what it keeps of a buffer.
Passed(buf) == SubSeq(buf, 1, HeadLength(buf))
Kept(buf) == SubSeq(buf, HeadLength(buf) + 1, Len(buf))

\* A text and its two parts at any place.
LEMMA SplitAt ==
    ASSUME NEW S, NEW s \in Seq(S), NEW n \in 0..Len(s)
    PROVE  /\ SubSeq(s, 1, n) \in Seq(S) /\ Len(SubSeq(s, 1, n)) = n
           /\ \A i \in 1..n : SubSeq(s, 1, n)[i] = s[i]
           /\ SubSeq(s, n + 1, Len(s)) \in Seq(S)
           /\ Len(SubSeq(s, n + 1, Len(s))) = Len(s) - n
           /\ \A i \in 1..(Len(s) - n) : SubSeq(s, n + 1, Len(s))[i] = s[n + i]
           /\ Cat(SubSeq(s, 1, n), SubSeq(s, n + 1, Len(s))) = s
<1> DEFINE p == SubSeq(s, 1, n)
           q == SubSeq(s, n + 1, Len(s))
           N == Len(s)
<1>1. N \in Nat /\ n \in Nat /\ n <= N
  OBVIOUS
<1>2. p \in Seq(S) /\ Len(p) = n /\ \A i \in 1..n : p[i] = s[i]
  BY <1>1
<1>3. /\ q \in Seq(S) /\ Len(q) = N - n
      /\ \A i \in 1..(N - n) : q[i] = s[n + i]
  <2>1. CASE n = N
    <3>1. q = <<>>
      BY <1>1, <2>1
    <3> QED  BY <1>1, <2>1, <3>1
  <2>2. CASE n < N
    <3>1. n + 1 \in 1..N /\ N \in 1..N /\ n + 1 <= N
      BY <1>1, <2>2
    <3>2. /\ q \in Seq(S) /\ Len(q) = N - (n + 1) + 1
          /\ \A i \in 1..(N - (n + 1) + 1) : q[i] = s[(n + 1) + i - 1]
      BY <1>1, <3>1
    <3>3. N - (n + 1) + 1 = N - n /\ \A i \in 1..(N - n) : (n + 1) + i - 1 = n + i
      BY <1>1
    <3> HIDE DEF N, q
    <3> QED  BY <3>2, <3>3
  <2> QED  BY <1>1, <2>1, <2>2
<1> HIDE DEF p, q
<1>4. /\ Cat(p, q) \in Seq(S) /\ Len(Cat(p, q)) = n + (N - n)
      /\ \A i \in 1..n : Cat(p, q)[i] = p[i]
      /\ \A i \in 1..(n + (N - n)) : i > n => Cat(p, q)[i] = q[i - n]
  <2>1. /\ Cat(p, q) \in Seq(S) /\ Len(Cat(p, q)) = Len(p) + Len(q)
        /\ \A i \in 1..Len(p) : Cat(p, q)[i] = p[i]
        /\ \A i \in 1..(Len(p) + Len(q)) :
              i > Len(p) => Cat(p, q)[i] = q[i - Len(p)]
    <3>1. p \in Seq(S) /\ q \in Seq(S)
      BY <1>2, <1>3
    <3> QED  BY <3>1, CatParts
  <2> QED  BY <1>2, <1>3, <2>1
<1>5. n + (N - n) = N
  BY <1>1
<1>6. ASSUME NEW i \in 1..N
      PROVE  Cat(p, q)[i] = s[i]
  <2>1. CASE i <= n
    BY <1>1, <1>2, <1>4, <2>1
  <2>2. CASE ~(i <= n)
    <3>1. i - n \in 1..(N - n) /\ n + (i - n) = i /\ i > n
      BY <1>1, <2>2
    <3> QED  BY <1>3, <1>4, <1>5, <3>1
  <2> QED  BY <2>1, <2>2
<1> DEFINE w == Cat(p, q)
<1>7. w \in Seq(S) /\ Len(w) = Len(s) /\ \A i \in 1..Len(w) : w[i] = s[i]
  BY <1>4, <1>5, <1>6
<1> HIDE DEF w
<1>8. w = s
  BY <1>7, SeqEqual
<1> QED  BY <1>2, <1>3, <1>8 DEF w, p, q

\* The tail that is kept is empty and nothing dangles, or it is a bracket and
\* a run of words that may still become a token.
LEMMA SplitBuffer ==
    ASSUME NEW buf \in Seq(Char)
    PROVE  /\ Passed(buf) \in Seq(Char) /\ Kept(buf) \in Seq(Char)
           /\ Cat(Passed(buf), Kept(buf)) = buf
           /\ Passed(buf) # <<>> => Passed(buf)[1] = buf[1] /\ buf # <<>>
           /\ Kept(buf) = <<>> => Passed(buf) = buf /\ ~Dangling(buf)
           /\ Kept(buf) # <<>> =>
                 /\ Kept(buf)[1] = Open
                 /\ Len(Kept(buf)) =< Hold + 1
                 /\ \A i \in 2..Len(Kept(buf)) : Kept(buf)[i] \in Words
<1> DEFINE n == HeadLength(buf)
           N == Len(buf)
           p == Passed(buf)
           q == Kept(buf)
           k == CHOOSE i \in Partials(buf) : TRUE
<1>0. N \in Nat /\ Hold \in Nat /\ Hold >= 2
  BY DlpAssumption
<1>1. /\ Partials(buf) = {} => n = N
      /\ Partials(buf) # {} => /\ k \in 1..N /\ buf[k] = Open /\ N - k =< Hold
                               /\ \A j \in (k + 1)..N : buf[j] \in Words
                               /\ n = k - 1
  <2>1. CASE Partials(buf) = {}
    BY <2>1 DEF HeadLength
  <2>2. CASE Partials(buf) # {}
    <3>1. k \in Partials(buf) /\ n = k - 1
      BY <2>2 DEF HeadLength
    <3> HIDE DEF k
    <3> QED  BY <2>2, <3>1 DEF Partials
  <2> QED  BY <2>1, <2>2
<1> HIDE DEF k, n, N
<1>2. n \in 0..N
  BY <1>0, <1>1
<1>3. /\ p \in Seq(Char) /\ Len(p) = n /\ \A i \in 1..n : p[i] = buf[i]
      /\ q \in Seq(Char) /\ Len(q) = N - n
      /\ \A i \in 1..(N - n) : q[i] = buf[n + i]
      /\ Cat(p, q) = buf
  BY <1>2, SplitAt DEF Passed, Kept, N, n
<1> HIDE DEF p, q
<1>4. p # <<>> => p[1] = buf[1] /\ buf # <<>>
  <2> SUFFICES ASSUME p # <<>>
               PROVE  p[1] = buf[1] /\ buf # <<>>
    OBVIOUS
  <2>1. n # 0
    BY <1>3
  <2>2. 1 \in 1..n /\ N # 0
    BY <1>0, <1>2, <2>1
  <2> QED  BY <1>3, <2>2 DEF N
<1>5. ASSUME q = <<>>
      PROVE  p = buf /\ ~Dangling(buf)
  <2>1. N - n = 0
    BY <1>3, <1>5
  <2>2. n = N
    BY <1>0, <1>2, <2>1
  <2>3. Partials(buf) = {}
    BY <1>0, <1>1, <2>2
  <2>4. p = buf
    <3>1. p \in Seq(Char) /\ Cat(p, <<>>) = buf
      BY <1>3, <1>5
    <3>2. Cat(p, <<>>) = p
      BY <3>1 DEF Cat
    <3> QED  BY <3>1, <3>2
  <2>5. ~Dangling(buf)
    <3>1. SUFFICES ASSUME Dangling(buf)
                   PROVE  FALSE
      OBVIOUS
    <3>2. PICK i \in 1..Len(buf) : Hangs(buf, i)
      BY <3>1, DanglingPlace
    <3>3. Len(buf) - i =< Hold
      BY <1>0, <3>2 DEF Hangs, N
    <3>4. i \in Partials(buf)
      BY <3>2, <3>3 DEF Partials, Hangs
    <3> QED  BY <2>3, <3>4
  <2> QED  BY <2>4, <2>5
<1>6. ASSUME q # <<>>
      PROVE  /\ q[1] = Open /\ Len(q) =< Hold + 1
             /\ \A i \in 2..Len(q) : q[i] \in Words
  <2>1. N - n # 0
    BY <1>3, <1>6
  <2>2. /\ k \in 1..N /\ buf[k] = Open /\ N - k =< Hold
        /\ \A j \in (k + 1)..N : buf[j] \in Words
        /\ n = k - 1
    BY <1>0, <1>1, <2>1
  <2>3. /\ 1 \in 1..(N - n) /\ n + 1 = k /\ N - n =< Hold + 1
        /\ \A i \in 2..(N - n) : i \in 1..(N - n) /\ n + i \in (k + 1)..N
    BY <1>0, <2>2
  <2> QED  BY <1>3, <2>2, <2>3
<1> QED  BY <1>3, <1>4, <1>5, <1>6 DEF p, q

\* One delta: what is passed on can be restored by itself, and what is kept is
\* again a place where the text can be cut.
MovesOn(v, sc, how, sent, tail, delta) ==
    LET buf == Cat(tail, delta) IN
    /\ Cat(sent, Passed(buf)) \in Seq(Char)
    /\ Cat(Cat(sent, tail), delta) = Cat(Cat(sent, Passed(buf)), Kept(buf))
    /\ With(v, sc, how, Cat(sent, Passed(buf)))
         = Cat(With(v, sc, how, sent), With(v, sc, how, Passed(buf)))
    /\ Kept(buf) = <<>> => ~Dangling(Cat(sent, Passed(buf)))

\* A tail is empty or begins with a bracket.
IsTail(tail) == tail \in Seq(Char) /\ (tail # <<>> => tail[1] = Open)

\* Each delta moves a session on.
LEMMA SessionStep ==
    ASSUME NEW v, VaultOK(v), NEW sc, NEW how,
           NEW sent \in Seq(Char), NEW tail, IsTail(tail), NEW delta \in Seq(Char),
           tail = <<>> => ~Dangling(sent)
    PROVE  MovesOn(v, sc, how, sent, tail, delta)
<1> DEFINE buf == Cat(tail, delta)
           p == Passed(buf)
           q == Kept(buf)
<1>0. /\ tail = <<>> => ~Dangling(sent)
      /\ tail # <<>> => tail[1] = Open
      /\ tail \in Seq(Char)
  BY DEF IsTail
<1>1. /\ buf \in Seq(Char) /\ Len(buf) = Len(tail) + Len(delta)
      /\ Len(tail) \in Nat /\ Len(delta) \in Nat
      /\ \A i \in 1..Len(tail) : buf[i] = tail[i]
  BY <1>0, ConcatParts DEF Cat
<1>2. tail # <<>> => buf # <<>> /\ buf[1] = Open
  <2> SUFFICES ASSUME tail # <<>>
               PROVE  buf # <<>> /\ buf[1] = Open
    OBVIOUS
  <2> HIDE DEF buf
  <2>1. 1 \in 1..Len(tail) /\ tail[1] = Open
    BY <1>0, <1>1
  <2>2. buf[1] = Open /\ Len(buf) >= 1
    BY <1>1, <2>1
  <2> QED  BY <1>1, <2>2
<1> HIDE DEF buf
<1>3. /\ p \in Seq(Char) /\ q \in Seq(Char) /\ Cat(p, q) = buf
      /\ p # <<>> => p[1] = buf[1] /\ buf # <<>>
      /\ q = <<>> => p = buf /\ ~Dangling(buf)
  BY <1>1, SplitBuffer
<1> HIDE DEF p, q
<1>4. Cat(sent, p) \in Seq(Char)
  BY <1>3, ConcatParts DEF Cat
<1>5. Cat(Cat(sent, tail), delta) = Cat(Cat(sent, p), q)
  <2>1. Cat(Cat(sent, tail), delta) = Cat(sent, Cat(tail, delta))
    BY <1>0, SeqAssociative
  <2>2. Cat(Cat(sent, p), q) = Cat(sent, Cat(p, q))
    BY <1>3, SeqAssociative
  <2> QED  BY <1>3, <2>1, <2>2 DEF buf
<1>6. With(v, sc, how, Cat(sent, p)) = Cat(With(v, sc, how, sent), With(v, sc, how, p))
  <2>1. Cut(sent, p)
    <3>1. Open \notin Inner
      BY Kinds DEF Inner
    <3>2. CASE tail = <<>>
      BY <1>0, <3>2 DEF Cut
    <3>3. CASE tail # <<>>
      <4>1. buf[1] = Open
        BY <1>2, <3>3
      <4>2. p = <<>> \/ p[1] = Open
        BY <1>3, <4>1
      <4> QED  BY <3>1, <4>2 DEF Cut
    <3> QED  BY <3>2, <3>3
  <2> QED  BY <1>3, <2>1, WithConcat
<1>7. ASSUME q = <<>>
      PROVE  ~Dangling(Cat(sent, p))
  <2>1. SUFFICES ASSUME Dangling(Cat(sent, p))
                 PROVE  FALSE
    OBVIOUS
  <2>2. p = buf /\ ~Dangling(p)
    BY <1>3, <1>7
  <2>3. ~Dangling(sent) \/ (p # <<>> /\ p[1] \notin Words)
    <3>1. Open \notin Words
      BY Kinds
    <3>2. CASE tail = <<>>
      <4>1. ~Dangling(sent)
        BY <1>0, <3>2
      <4> QED  BY <4>1
    <3>3. CASE tail # <<>>
      <4>1. buf # <<>> /\ buf[1] = Open
        BY <1>2, <3>3
      <4> QED  BY <2>2, <3>1, <4>1
    <3> QED  BY <3>2, <3>3
  <2> QED  BY <1>3, <2>1, <2>2, <2>3, DanglingConcat
<1> QED  BY <1>4, <1>5, <1>6, <1>7 DEF p, q, buf, MovesOn

-----------------------------------------------------------------------------
(* What sanitize accepts.                                                  *)

\* A non-empty set of subsets of a finite set has a smallest member.
LEMMA SmallestSet ==
    ASSUME NEW S, IsFiniteSet(S), NEW B, B \subseteq SUBSET S, B # {}
    PROVE  \E T \in B : \A U \in B : U \subseteq T => U = T
<1>1. IsWellFoundedOn(StrictSubsetOrdering(S), SUBSET S)
  BY FS_StrictSubsetOrderingWellFounded, FS_FiniteSubsetsOfFinite
<1>2. PICK T \in B : \A U \in B : ~(<<U, T>> \in StrictSubsetOrdering(S))
  BY <1>1, WFMin
<1> QED  BY <1>2 DEF StrictSubsetOrdering

\* What a hit of a text is.
Fits(h, s) ==
    /\ h.start \in 1..Len(s) /\ h.end \in 1..Len(s)
    /\ h.start <= h.end /\ h.order \in DOMAIN Profile
    /\ \A i \in h.start..h.end : s[i] \in Letters

\* The hits of a list lie in the text, one behind the other.
Spread(q, s) ==
    /\ \A i \in 1..Len(q) : Fits(q[i], s)
    /\ \A i, j \in 1..Len(q) : i < j => q[i].end < q[j].start

\* Hits have numbers that they can be sorted by.
Sortable(H) == \A h \in H : h.start \in Nat /\ h.order \in Nat

\* A last hit of a set.
LatestOf(m, T) == m \in T /\ \A x \in T : Before(x, m)

\* A finite set of hits that is not empty has a last one.
LEMMA LatestExists ==
    ASSUME NEW H, IsFiniteSet(H), Sortable(H), H # {}
    PROVE  \E m : LatestOf(m, H)
<1> DEFINE B == {T \in SUBSET H : T # {} /\ ~\E m : LatestOf(m, T)}
<1> SUFFICES ASSUME B # {}
             PROVE  FALSE
  OBVIOUS
<1>0. B \subseteq SUBSET H
  OBVIOUS
<1>1. PICK T \in B : \A U \in B : U \subseteq T => U = T
  <2> HIDE DEF B
  <2> QED  BY <1>0, SmallestSet
<1>2. PICK x \in T : TRUE
  BY <1>1
<1>3. T \subseteq H /\ ~\E m : LatestOf(m, T)
  BY <1>1
<1>4. \A y, z \in T : Before(y, z) \/ Before(z, y)
  BY <1>3 DEF Before, Sortable
<1>5. \A y, z, u \in T : Before(y, z) /\ Before(z, u) => Before(y, u)
  BY <1>3 DEF Before, Sortable
<1>6. CASE T \ {x} = {}
  <2>1. \A y \in T : y = x
    BY <1>6
  <2> QED  BY <1>2, <1>3, <1>4, <2>1 DEF LatestOf
<1>7. CASE T \ {x} # {}
  <2>1. T \ {x} \notin B
    BY <1>1, <1>2
  <2>2. PICK m : LatestOf(m, T \ {x})
    BY <1>3, <1>7, <2>1
  <2>3. m \in T /\ \A y \in T : y = x \/ Before(y, m)
    BY <2>2 DEF LatestOf
  <2>4. CASE Before(x, m)
    BY <1>3, <2>3, <2>4 DEF LatestOf
  <2>5. CASE ~Before(x, m)
    <3>1. Before(m, x) /\ Before(x, x)
      BY <1>2, <1>4, <2>3, <2>5
    <3>2. \A y \in T : Before(y, x)
      BY <1>2, <1>5, <2>3, <3>1
    <3> QED  BY <1>2, <1>3, <3>2 DEF LatestOf
  <2> QED  BY <2>4, <2>5
<1> QED  BY <1>6, <1>7

\* A list of all hits of a set, in order.
Sorts(q, T) ==
    /\ q \in SetToSeqs(T)
    /\ \A i, j \in DOMAIN q : i =< j => Before(q[i], q[j])

\* Every finite set of hits can be sorted.
LEMMA SortExists ==
    ASSUME NEW H, IsFiniteSet(H), Sortable(H)
    PROVE  \E q : Sorts(q, H)
<1> DEFINE B == {T \in SUBSET H : ~\E q : Sorts(q, T)}
<1> SUFFICES ASSUME B # {}
             PROVE  FALSE
  OBVIOUS
<1>0. B \subseteq SUBSET H
  OBVIOUS
<1>1. PICK T \in B : \A U \in B : U \subseteq T => U = T
  <2> HIDE DEF B
  <2> QED  BY <1>0, SmallestSet
<1>2. T \subseteq H /\ ~\E q : Sorts(q, T)
  BY <1>1
<1>3. IsFiniteSet(T) /\ Sortable(T)
  BY <1>2, FS_Subset DEF Sortable
<1>4. CASE T = {}
  <2> DEFINE q == [i \in 1..0 |-> 0]
  <2>1. Cardinality(T) = 0
    BY <1>4, FS_EmptySet
  <2>2. q \in SetToSeqs(T) /\ DOMAIN q = {}
    BY <1>4, <2>1 DEF SetToSeqs
  <2> HIDE DEF q
  <2>3. Sorts(q, T)
    BY <2>2 DEF Sorts
  <2> QED  BY <1>2, <2>3
<1>5. CASE T # {}
  <2>1. PICK m : LatestOf(m, T)
    BY <1>3, <1>5, LatestExists
  <2>2. m \in T /\ \A x \in T : Before(x, m)
    BY <2>1 DEF LatestOf
  <2> DEFINE U == T \ {m}
             c == Cardinality(U)
  <2>3. U \notin B
    BY <1>1, <2>2
  <2>4. PICK p : Sorts(p, U)
    BY <1>2, <2>3
  <2>5. IsFiniteSet(U) /\ Cardinality(T) = c + 1 /\ c \in Nat
    <3>1. IsFiniteSet(U) /\ c = Cardinality(T) - 1
      BY <1>3, <2>2, FS_RemoveElement
    <3>2. Cardinality(T) \in Nat /\ c \in Nat
      BY <1>3, <3>1, FS_CardinalityType
    <3> HIDE DEF c, U
    <3> QED  BY <3>1, <3>2
  <2>6. /\ p \in [1..c -> U]
        /\ \A i, j \in 1..c : i # j => p[i] # p[j]
        /\ \A i, j \in 1..c : i =< j => Before(p[i], p[j])
    <3>1. p \in [1..c -> U] /\ \A i, j \in 1..c : i # j => p[i] # p[j]
      BY <2>4 DEF Sorts, SetToSeqs
    <3>2. DOMAIN p = 1..c
      BY <3>1
    <3> QED  BY <2>4, <3>1, <3>2 DEF Sorts
  <2>7. \A i \in 1..c : p[i] \in T /\ p[i] # m
    BY <2>6
  <2> HIDE DEF c, U
  <2> DEFINE q == [i \in 1..(c + 1) |-> IF i = c + 1 THEN m ELSE p[i]]
  <2>8. \A i \in 1..(c + 1) : i # c + 1 => i \in 1..c
    BY <2>5
  <2>9. q \in [1..(c + 1) -> T]
    BY <2>2, <2>7, <2>8
  <2>10. /\ \A i \in 1..(c + 1) : i = c + 1 => q[i] = m
         /\ \A i \in 1..(c + 1) : i # c + 1 => q[i] = p[i]
    OBVIOUS
  <2> HIDE DEF q
  <2>11. ASSUME NEW i \in 1..(c + 1), NEW j \in 1..(c + 1), i # j
         PROVE  q[i] # q[j]
    BY <2>6, <2>7, <2>8, <2>10, <2>11
  <2>12. ASSUME NEW i \in 1..(c + 1), NEW j \in 1..(c + 1), i =< j
         PROVE  Before(q[i], q[j])
    <3>1. CASE j = c + 1
      <4>1. q[i] \in T
        BY <2>9
      <4> QED  BY <2>2, <2>10, <3>1, <4>1
    <3>2. CASE j # c + 1
      <4>1. i # c + 1 /\ j \in 1..c /\ i \in 1..c
        BY <2>5, <2>12, <3>2
      <4> QED  BY <2>6, <2>10, <2>12, <3>2, <4>1
    <3> QED  BY <3>1, <3>2
  <2>13. q \in SetToSeqs(T)
    BY <2>5, <2>9, <2>11 DEF SetToSeqs
  <2>14. DOMAIN q = 1..(c + 1)
    BY <2>9
  <2>15. Sorts(q, T)
    BY <2>12, <2>13, <2>14 DEF Sorts
  <2> QED  BY <1>2, <2>15
<1> QED  BY <1>4, <1>5

\* The hits of a text are finitely many, and each fits the text.
LEMMA HitsFit ==
    ASSUME NEW s, Len(s) \in Nat, NEW found \in [DOMAIN Profile -> FindIter(s)]
    PROVE  /\ IsFiniteSet(Hits(found)) /\ Sortable(Hits(found))
           /\ \A h \in Hits(found) : Fits(h, s)
           /\ Hits(found) \subseteq [start : Nat, end : Nat, order : Nat]
<1> DEFINE H == Hits(found)
           L == 1..Len(s)
           D == DOMAIN Profile
           f == [h \in H |-> <<h.start, <<h.end, h.order>>>>]
<1>1. D = 1..Len(Profile) /\ Len(Profile) \in Nat
  BY DlpAssumption
<1>2. ASSUME NEW h \in H
      PROVE  /\ h = [start |-> h.start, end |-> h.end, order |-> h.order]
             /\ h.start \in L /\ h.end \in L /\ h.order \in D /\ Fits(h, s)
  <2>1. PICK o \in D : \E r \in found[o] : h = [start |-> r[1], end |-> r[2], order |-> o]
    BY DEF Hits
  <2>2. PICK r \in found[o] : h = [start |-> r[1], end |-> r[2], order |-> o]
    BY <2>1
  <2>3. found[o] \in SUBSET Spans(s)
    BY DEF FindIter
  <2>4. /\ r[1] \in L /\ r[2] \in L /\ r[1] <= r[2]
        /\ \A i \in r[1]..r[2] : s[i] \in Letters
    BY <2>2, <2>3 DEF Spans
  <2>5. h.start = r[1] /\ h.end = r[2] /\ h.order = o
    BY <2>2
  <2> QED  BY <2>1, <2>2, <2>4, <2>5 DEF Fits
<1> HIDE DEF H
<1>3. IsFiniteSet(L \X (L \X D))
  <2>1. IsFiniteSet(L) /\ IsFiniteSet(D)
    BY <1>1, FS_Interval
  <2> HIDE DEF L, D
  <2> QED  BY <2>1, FS_Product
<1>4. f \in Injection(H, L \X (L \X D))
  <2>1. \A h \in H : f[h] \in L \X (L \X D)
    BY <1>2
  <2>2. \A h, g \in H : f[h] = f[g] => h = g
    BY <1>2
  <2> HIDE DEF L, D
  <2> QED  BY <2>1, <2>2 DEF Injection, IsInjective
<1>5. IsFiniteSet(H)
  BY <1>3, <1>4, FS_Injection
<1>6. Sortable(H)
  BY <1>1, <1>2 DEF Sortable
<1>7. H \subseteq [start : Nat, end : Nat, order : Nat]
  <2>1. ASSUME NEW h \in H
        PROVE  h \in [start : Nat, end : Nat, order : Nat]
    <3>1. h.start \in Nat /\ h.end \in Nat /\ h.order \in Nat
      BY <1>1, <1>2
    <3> QED  BY <1>2, <3>1
  <2> QED  BY <2>1
<1> QED  BY <1>2, <1>5, <1>6, <1>7 DEF H

\* One more hit is accepted if it starts behind the last one.
LEMMA SpreadAdd ==
    ASSUME NEW H, NEW s, \A h \in H : Fits(h, s), NEW q \in Seq(H), Spread(q, s),
           NEW h \in H, q = <<>> \/ h.start > Last(q).end
    PROVE  Append(q, h) \in Seq(H) /\ Spread(Append(q, h), s)
<1> DEFINE p == Append(q, h)
           N == Len(q)
<1>1. /\ p \in Seq(H) /\ Len(p) = N + 1 /\ N \in Nat /\ p[N + 1] = h
      /\ \A i \in 1..N : p[i] = q[i]
  BY AppendParts
<1>2. N = 0 \/ h.start > q[N].end
  BY DEF Last
<1>3. \A i \in 1..N : Fits(q[i], s) /\ q[i].end < h.start
  <2> TAKE i \in 1..N
  <2>1. Fits(q[i], s) /\ Fits(q[N], s) /\ N \in 1..N /\ Fits(h, s)
    BY <1>1 DEF Spread
  <2>2. i = N \/ q[i].end < q[N].start
    BY <1>1, <2>1 DEF Spread
  <2> HIDE DEF N
  <2>3. /\ q[i].end \in Int /\ q[N].start \in Int /\ q[N].end \in Int /\ h.start \in Int
        /\ q[N].start <= q[N].end
    BY <2>1 DEF Fits
  <2> QED  BY <1>1, <1>2, <2>1, <2>2, <2>3
<1>4. \A i, j \in 1..N : i < j => q[i].end < q[j].start
  BY DEF Spread
<1> HIDE DEF p, N
<1>5. ASSUME NEW i \in 1..(N + 1)
      PROVE  Fits(p[i], s)
  <2>1. i = N + 1 \/ i \in 1..N
    BY <1>1
  <2> QED  BY <1>1, <1>3, <2>1
<1>6. ASSUME NEW i \in 1..(N + 1), NEW j \in 1..(N + 1), i < j
      PROVE  p[i].end < p[j].start
  <2>1. i \in 1..N /\ (j = N + 1 \/ j \in 1..N)
    BY <1>1, <1>6
  <2> QED  BY <1>1, <1>3, <1>4, <1>6, <2>1
<1>7. Spread(p, s)
  BY <1>1, <1>5, <1>6 DEF Spread
<1> QED  BY <1>1, <1>7 DEF p

\* The accepted hits lie in the text, one behind the other.
LEMMA AcceptedSpread ==
    ASSUME NEW s, Len(s) \in Nat, NEW found \in [DOMAIN Profile -> FindIter(s)]
    PROVE  LET a == Accepted(Hits(found)) IN
           a \in Seq(Hits(found)) /\ Spread(a, s)
<1> DEFINE H == Hits(found)
           sorted == CHOOSE q \in SetToSeqs(H) :
                        \A i, j \in DOMAIN q : i =< j => Before(q[i], q[j])
           N == Len(sorted)
           Next1(a, n) == IF a = <<>> \/ sorted[n].start > Last(a).end
                          THEN Append(a, sorted[n]) ELSE a
           Rec(f) == [n \in 0..N |-> IF n = 0 THEN <<>> ELSE Next1(f[n - 1], n)]
           e == CHOOSE f : f = Rec(f)
           X == {a \in Seq(H) : Spread(a, s)}
           x0 == <<>>
           G == [p \in (1..N) \X X |-> Next1(p[2], p[1])]
<1>1. Accepted(H) = e[N]
  BY DEF Accepted
<1>2. IsFiniteSet(H) /\ Sortable(H) /\ \A h \in H : Fits(h, s)
  BY HitsFit
<1> HIDE DEF H
<1>3. sorted \in Seq(H)
  <2>1. \E q : Sorts(q, H)
    BY <1>2, SortExists
  <2>2. sorted \in SetToSeqs(H)
    BY <2>1 DEF Sorts
  <2>3. sorted \in [1..Cardinality(H) -> H] /\ Cardinality(H) \in Nat
    BY <1>2, <2>2, FS_CardinalityType DEF SetToSeqs
  <2> HIDE DEF sorted
  <2> QED  BY <2>3
<1> HIDE DEF sorted
<1>4. N \in Nat /\ \A n \in 1..N : sorted[n] \in H
  BY <1>3
<1> HIDE DEF N
<1>5. x0 \in X
  <2>1. Len(<<>>) = 0
    OBVIOUS
  <2> QED  BY <2>1 DEF Spread
<1>6. ASSUME NEW n \in 1..N, NEW a \in X
      PROVE  Next1(a, n) \in X
  BY <1>2, <1>4, SpreadAdd
<1> HIDE DEF X, Next1
<1>7. \A n \in 1..N, a \in X : G[<<n, a>>] = Next1(a, n)
  OBVIOUS
<1> HIDE DEF G
<1>8. Steps(G, N, X)
  BY <1>6, <1>7 DEF Steps
<1> HIDE DEF x0
<1>9. PICK d : Follows(d, G, x0, N, X)
  BY <1>4, <1>5, <1>8, Recursion
<1>10. /\ d \in [0..N -> X] /\ d[0] = x0
       /\ \A n \in 1..N : d[n] = G[<<n, d[n - 1]>>]
  BY <1>9 DEF Follows
<1>11. \A n \in 1..N : n - 1 \in 0..N /\ n \in 0..N /\ n # 0
  BY <1>4
<1>12. \A n \in 1..N : d[n] = Next1(d[n - 1], n)
  BY <1>7, <1>10, <1>11
<1>13. d = Rec(d)
  <2>1. ASSUME NEW n \in 0..N
        PROVE  d[n] = IF n = 0 THEN <<>> ELSE Next1(d[n - 1], n)
    <3>1. n = 0 \/ n \in 1..N
      BY <1>4
    <3> QED  BY <1>10, <1>12, <3>1 DEF x0
  <2>2. d = [n \in 0..N |-> d[n]]
    BY <1>10
  <2> QED  BY <2>1, <2>2
<1>14. e = Rec(e)
  <2> HIDE DEF Rec
  <2> QED  BY <1>13
<1>15. \A n \in 0..N : e[n] = IF n = 0 THEN <<>> ELSE Next1(e[n - 1], n)
  <2> HIDE DEF e
  <2> QED  BY <1>14
<1> HIDE DEF e, Rec
<1> DEFINE S == {n \in 0..N : e[n] \in X}
<1>16. 0 \in S
  BY <1>4, <1>5, <1>15 DEF x0
<1>17. ASSUME NEW n \in 1..N, n - 1 \in S
       PROVE  n \in S
  BY <1>6, <1>11, <1>15, <1>17
<1>18. N \in S
  <2> HIDE DEF S
  <2>1. \A n \in 0..N : n \in S
    BY <1>4, <1>16, <1>17, CountUp
  <2> QED  BY <1>4, <2>1
<1>19. e[N] \in X
  BY <1>18
<1> QED  BY <1>1, <1>19 DEF X, H

-----------------------------------------------------------------------------
(* Masking a text.                                                         *)

\* The last character of a run is the last step.
LEMMA WithAdd ==
    ASSUME NEW v, VaultOK(v), NEW sc, NEW how, NEW s \in Seq(Char), NEW x \in Char
    PROVE  With(v, sc, how, Add(s, x)) = Step(v, sc, how, Add(With(v, sc, how, s), x))
<1> DEFINE w == Add(s, x)
           N == Len(s)
<1>1. /\ w \in Seq(Char) /\ Len(w) = N + 1 /\ N \in Nat /\ w[N + 1] = x
      /\ \A i \in 1..N : w[i] = s[i]
  BY AppendParts DEF Add
<1> HIDE DEF w
<1>2. PICK d : IsRun(d, v, sc, how, w)
  BY <1>1, RunExists
<1>3. /\ d \in [0..(N + 1) -> Seq(Char)] /\ d[0] = <<>>
      /\ \A n \in 1..(N + 1) : d[n] = Step(v, sc, how, Append(d[n - 1], w[n]))
      /\ With(v, sc, how, w) = d[N + 1]
  <2>1. With(v, sc, how, w) = d[Len(w)]
    BY <1>1, <1>2, RunEnds
  <2> QED  BY <1>1, <1>2, <2>1 DEF IsRun
<1> DEFINE e == [n \in 0..N |-> d[n]]
<1>4. \A n \in 1..N : n - 1 \in 0..N /\ n \in 0..N /\ n \in 1..(N + 1)
  BY <1>1
<1>5. 0 \in 0..N /\ N \in 0..N /\ N + 1 \in 1..(N + 1) /\ N + 1 - 1 = N
  BY <1>1
<1>6. IsRun(e, v, sc, how, s)
  <2>1. e \in [0..N -> Seq(Char)]
    <3>1. \A n \in 0..N : n \in 0..(N + 1)
      BY <1>1
    <3> QED  BY <1>3, <3>1
  <2>2. \A n \in 1..N : e[n] = Step(v, sc, how, Append(e[n - 1], s[n]))
    <3> TAKE n \in 1..N
    <3>1. e[n] = d[n] /\ e[n - 1] = d[n - 1] /\ w[n] = s[n]
      BY <1>1, <1>4
    <3>2. d[n] = Step(v, sc, how, Append(d[n - 1], w[n]))
      BY <1>3, <1>4
    <3> HIDE DEF e
    <3> QED  BY <3>1, <3>2
  <2>3. e[0] = <<>>
    BY <1>3, <1>5
  <2> HIDE DEF e
  <2> QED  BY <2>1, <2>2, <2>3 DEF IsRun
<1>7. With(v, sc, how, s) = d[N]
  <2>1. e[N] = d[N]
    BY <1>5
  <2> HIDE DEF e
  <2> QED  BY <1>6, <2>1, RunEnds
<1>8. d[N + 1] = Step(v, sc, how, Append(d[N], x))
  BY <1>1, <1>3, <1>5
<1> QED  BY <1>3, <1>7, <1>8 DEF Add, w

\* A text that no token ends in is left as it is.
LEMMA PlainStays ==
    ASSUME NEW v, VaultOK(v), NEW sc, NEW how, NEW s \in Seq(Char),
           \A i \in 1..Len(s) : s[i] # Close
    PROVE  With(v, sc, how, s) = s
<1> DEFINE N == Len(s)
           d == [n \in 0..N |-> SubSeq(s, 1, n)]
<1>1. N \in Nat
  OBVIOUS
<1>2. ASSUME NEW n \in 0..N
      PROVE  d[n] \in Seq(Char) /\ Len(d[n]) = n /\ \A i \in 1..n : d[n][i] = s[i]
  BY SplitAt
<1>3. d \in [0..N -> Seq(Char)]
  BY <1>2
<1>4. d[0] = <<>> /\ d[N] = s
  <2>1. d[0] = SubSeq(s, 1, 0) /\ d[N] = SubSeq(s, 1, N)
    BY <1>1
  <2> HIDE DEF d
  <2> QED  BY <2>1, SubSeqFull
<1> HIDE DEF d
<1>5. ASSUME NEW n \in 1..N
      PROVE  d[n] = Step(v, sc, how, Append(d[n - 1], s[n]))
  <2> DEFINE r == Append(d[n - 1], s[n])
  <2>1. n - 1 \in 0..N /\ n \in 0..N /\ s[n] \in Char /\ n - 1 + 1 = n
    BY <1>1
  <2>2. /\ d[n - 1] \in Seq(Char) /\ Len(d[n - 1]) = n - 1
        /\ \A i \in 1..(n - 1) : d[n - 1][i] = s[i]
        /\ d[n] \in Seq(Char) /\ Len(d[n]) = n
        /\ \A i \in 1..n : d[n][i] = s[i]
    BY <1>2, <2>1
  <2>3. /\ r \in Seq(Char) /\ Len(r) = n /\ r[n] = s[n]
        /\ \A i \in 1..(n - 1) : r[i] = s[i]
    <3>1. /\ r \in Seq(Char) /\ Len(r) = Len(d[n - 1]) + 1
          /\ r[Len(d[n - 1]) + 1] = s[n]
          /\ \A i \in 1..Len(d[n - 1]) : r[i] = d[n - 1][i]
      BY <2>1, <2>2, AppendParts
    <3> HIDE DEF r
    <3> QED  BY <2>1, <2>2, <3>1
  <2> HIDE DEF r
  <2>4. \A i \in 1..n : r[i] = d[n][i]
    <3> TAKE i \in 1..n
    <3>1. i = n \/ i \in 1..(n - 1)
      BY <1>1
    <3> QED  BY <2>2, <2>3, <3>1
  <2>5. d[n] = r
    BY <2>2, <2>3, <2>4, SeqEqual
  <2>6. Ended(v, r) = {}
    <3> SUFFICES ASSUME NEW t \in DOMAIN v, IsSuffix(t, r)
                 PROVE  FALSE
      BY DEF Ended
    <3>1. t \in Tokens
      BY DEF VaultOK
    <3>2. Len(r) >= 4 /\ r[Len(r) - 4 + 4] = t[4] /\ t[4] = Close
      BY <2>3, <3>1, SuffixMeans, TokenShape
    <3>3. n - 4 + 4 = n
      BY <1>1
    <3> QED  BY <2>3, <3>2, <3>3
  <2>7. Step(v, sc, how, r) = r
    BY <2>6 DEF Step
  <2> QED  BY <2>5, <2>7 DEF r
<1>6. IsRun(d, v, sc, how, s)
  BY <1>3, <1>4, <1>5 DEF IsRun
<1> QED  BY <1>4, <1>6, RunEnds

\* A token of the vault is restored to its value.
LEMMA TokenRestored ==
    ASSUME NEW v, VaultOK(v), NEW t \in DOMAIN v
    PROVE  With(v, DOMAIN v, "restore", t) = v[t]
<1> DEFINE sc == DOMAIN v
           how == "restore"
           s == SubSeq(t, 1, 3)
<1>1. t \in Tokens /\ v[t] \in Seq(Letters) /\ v[t] # <<>>
  BY DEF VaultOK
<1>2. /\ t \in Seq(Char) /\ Len(t) = 4
      /\ t[1] = Open /\ t[2] \in Words /\ t[3] \in Words /\ t[4] = Close
  BY <1>1, TokenShape
<1>3. s \in Seq(Char) /\ Len(s) = 3 /\ \A i \in 1..3 : s[i] = t[i]
  <2>1. 3 \in 0..Len(t)
    BY <1>2
  <2> QED  BY <1>2, <2>1, SplitAt
<1> HIDE DEF s
<1>4. \A i \in 1..Len(s) : s[i] # Close
  <2> TAKE i \in 1..Len(s)
  <2>1. i = 1 \/ i = 2 \/ i = 3
    BY <1>3
  <2> QED  BY <1>2, <1>3, <2>1, Kinds
<1>5. With(v, sc, how, s) = s
  BY <1>3, <1>4, PlainStays
<1>6. t = Add(s, Close)
  <2> DEFINE w == Add(s, Close)
  <2>1. w \in Seq(Char) /\ Len(w) = 4 /\ w[4] = Close /\ \A i \in 1..3 : w[i] = s[i]
    <3>1. /\ w \in Seq(Char) /\ Len(w) = Len(s) + 1 /\ w[Len(s) + 1] = Close
          /\ \A i \in 1..Len(s) : w[i] = s[i]
      <4>1. Close \in Char
        BY Kinds
      <4> DEFINE x == Close
      <4> HIDE DEF x
      <4>2. s \in Seq(Char) /\ x \in Char
        BY <1>3, <4>1 DEF x
      <4>3. /\ Append(s, x) \in Seq(Char) /\ Len(Append(s, x)) = Len(s) + 1
            /\ Append(s, x)[Len(s) + 1] = x
            /\ \A i \in 1..Len(s) : Append(s, x)[i] = s[i]
        BY <4>2, AppendParts
      <4> QED  BY <4>3 DEF Add, x
    <3> HIDE DEF w
    <3> QED  BY <1>3, <3>1
  <2> HIDE DEF w
  <2>2. \A i \in 1..4 : w[i] = t[i]
    <3> TAKE i \in 1..4
    <3>1. i = 4 \/ i \in 1..3
      OBVIOUS
    <3> QED  BY <1>2, <1>3, <2>1, <3>1
  <2>3. t = w
    BY <1>2, <2>1, <2>2, SeqEqual
  <2> QED  BY <2>3 DEF w
<1>7. With(v, sc, how, t) = Step(v, sc, how, t)
  BY <1>3, <1>5, <1>6, Kinds, WithAdd
<1>8. ASSUME NEW u \in Ended(v, t)
      PROVE  u = t
  <2>1. u \in DOMAIN v /\ IsSuffix(u, t)
    BY DEF Ended
  <2>2. u \in Tokens
    BY <2>1 DEF VaultOK
  <2>3. u \in Seq(Char) /\ Len(u) = 4
    BY <2>2, TokenShape
  <2>4. \A i \in 1..4 : t[Len(t) - 4 + i] = u[i]
    BY <1>2, <2>1, <2>2, SuffixMeans
  <2>5. \A i \in 1..4 : t[i] = u[i]
    <3> TAKE i \in 1..4
    <3>1. Len(t) - 4 + i = i
      BY <1>2
    <3> QED  BY <2>4, <3>1
  <2> QED  BY <1>2, <2>3, <2>5, SeqEqual
<1>9. t \in Ended(v, t)
  <2>1. \A i \in 1..4 : t[Len(t) - 4 + i] = t[i]
    <3> TAKE i \in 1..4
    <3>1. Len(t) - 4 + i = i
      BY <1>2
    <3> QED  BY <3>1
  <2>2. IsSuffix(t, t)
    <3>1. t \in Seq(Char) /\ t \in Tokens
      BY <1>1, <1>2
    <3>2. IsSuffix(t, t) <=> /\ Len(t) >= 4
                             /\ \A i \in 1..4 : t[Len(t) - 4 + i] = t[i]
      BY <3>1, SuffixMeans
    <3> QED  BY <1>2, <2>1, <3>2
  <2> QED  BY <2>2 DEF Ended
<1>10. Step(v, sc, how, t) = SubSeq(t, 1, 0) \o Swap(v, sc, how, t)
  <2>1. (CHOOSE u \in Ended(v, t) : TRUE) = t
    BY <1>8, <1>9
  <2>2. Len(t) - Len(t) = 0
    BY <1>2
  <2> QED  BY <1>9, <2>1, <2>2 DEF Step
<1>11. SubSeq(t, 1, 0) = <<>> /\ Swap(v, sc, how, t) = v[t]
  BY <1>2 DEF Swap
<1>12. <<>> \o v[t] = v[t]
  <2> DEFINE x == v[t]
  <2> HIDE DEF x
  <2>1. x \in Seq(Letters)
    BY <1>1 DEF x
  <2>2. <<>> \o x = x
    BY <2>1
  <2> QED  BY <2>2 DEF x
<1> QED  BY <1>7, <1>10, <1>11, <1>12

\* The parts of a text that is made of two.
LEMMA TakeDrop ==
    ASSUME NEW S, NEW a \in Seq(S), NEW b \in Seq(S)
    PROVE  /\ SubSeq(Cat(a, b), 1, Len(a)) = a
           /\ SubSeq(Cat(a, b), Len(a) + 1, Len(Cat(a, b))) = b
<1> DEFINE s == Cat(a, b)
           n == Len(a)
           p == SubSeq(s, 1, n)
           q == SubSeq(s, n + 1, Len(s))
<1>1. /\ s \in Seq(S) /\ Len(s) = n + Len(b) /\ n \in Nat /\ Len(b) \in Nat
      /\ \A i \in 1..n : s[i] = a[i]
      /\ \A i \in 1..(n + Len(b)) : i > n => s[i] = b[i - n]
  BY CatParts
<1> HIDE DEF s, n
<1>2. n \in 0..Len(s) /\ Len(s) - n = Len(b)
  BY <1>1
<1>3. /\ p \in Seq(S) /\ Len(p) = n /\ \A i \in 1..n : p[i] = s[i]
      /\ q \in Seq(S) /\ Len(q) = Len(s) - n
      /\ \A i \in 1..(Len(s) - n) : q[i] = s[n + i]
  BY <1>1, <1>2, SplitAt
<1> HIDE DEF p, q
<1>4. p = a
  BY <1>1, <1>3, SeqEqual DEF n
<1>5. \A i \in 1..Len(b) : q[i] = b[i]
  <2> TAKE i \in 1..Len(b)
  <2>1. n + i \in 1..(n + Len(b)) /\ n + i > n /\ n + i - n = i /\ i \in 1..(Len(s) - n)
    BY <1>1, <1>2
  <2> QED  BY <1>1, <1>3, <2>1
<1>6. q = b
  BY <1>2, <1>3, <1>5, SeqEqual
<1> QED  BY <1>4, <1>6 DEF p, q, s, n

\* The middle of a text that is made of three.
LEMMA TakeMiddle ==
    ASSUME NEW S, NEW a \in Seq(S), NEW b \in Seq(S), NEW c \in Seq(S), b # <<>>
    PROVE  SubSeq(Cat(a, Cat(b, c)), Len(a) + 1, Len(a) + Len(b)) = b
<1> DEFINE r == Cat(b, c)
           s == Cat(a, r)
           m == Len(a)
           n == Len(b)
           q == SubSeq(s, m + 1, m + n)
<1>1. /\ r \in Seq(S) /\ Len(r) = n + Len(c) /\ n \in Nat /\ Len(c) \in Nat
      /\ \A i \in 1..n : r[i] = b[i]
  BY CatParts
<1> HIDE DEF r
<1>2. /\ s \in Seq(S) /\ Len(s) = m + Len(r) /\ m \in Nat
      /\ \A i \in 1..(m + Len(r)) : i > m => s[i] = r[i - m]
  <2>1. r \in Seq(S)
    BY <1>1
  <2> QED  BY <2>1, CatParts
<1>3. n >= 1
  BY <1>1
<1> HIDE DEF s, m, n
<1>4. m + 1 \in 1..Len(s) /\ m + n \in 1..Len(s) /\ m + 1 <= m + n
         /\ (m + n) - (m + 1) + 1 = n
  BY <1>1, <1>2, <1>3
<1>5. /\ q \in Seq(S) /\ Len(q) = (m + n) - (m + 1) + 1
      /\ \A i \in 1..((m + n) - (m + 1) + 1) : q[i] = s[(m + 1) + i - 1]
  BY <1>2, <1>4
<1> HIDE DEF q
<1>6. \A i \in 1..n : q[i] = b[i]
  <2> TAKE i \in 1..n
  <2>1. /\ (m + 1) + i - 1 = m + i /\ m + i \in 1..(m + Len(r)) /\ m + i > m
        /\ m + i - m = i
    BY <1>1, <1>2
  <2>2. i \in 1..((m + n) - (m + 1) + 1)
    BY <1>4
  <2>3. q[i] = s[m + i]
    BY <1>5, <2>1, <2>2
  <2>4. s[m + i] = r[i]
    BY <1>2, <2>1
  <2> QED  BY <1>1, <2>3, <2>4
<1>7. q = b
  BY <1>4, <1>5, <1>6, SeqEqual DEF n
<1> QED  BY <1>7 DEF q, s, r, m, n

\* The vaults a request can have.
Vaults == UNION {[T -> Seq(Letters)] : T \in SUBSET Tokens}

\* A vault that has gained tokens.
Grown(w, v) ==
    /\ w \in Vaults /\ VaultOK(w) /\ DOMAIN v \subseteq DOMAIN w
    /\ \A t \in DOMAIN v : w[t] = v[t]

\* However the vault grows, s is restored to o.
Stable(v, s, o) ==
    \A w \in Vaults : Grown(w, v) => With(w, DOMAIN w, "restore", s) = o

\* A text that a token cannot go on with.
Goes(q) == q = <<>> \/ q[1] \notin Inner

\* Texts that stay restorable.
LEMMA StableTexts ==
    ASSUME NEW v
    PROVE  /\ \A s \in Seq(Char) : (\A i \in 1..Len(s) : s[i] # Close) => Stable(v, s, s)
           /\ \A t \in DOMAIN v : Stable(v, t, v[t])
<1>1. ASSUME NEW s \in Seq(Char), \A i \in 1..Len(s) : s[i] # Close
      PROVE  Stable(v, s, s)
  BY <1>1, PlainStays DEF Stable, Grown
<1>2. ASSUME NEW t \in DOMAIN v
      PROVE  Stable(v, t, v[t])
  BY TokenRestored DEF Stable, Grown
<1> QED  BY <1>1, <1>2

\* Two texts that stay restorable do so together.
LEMMA StableConcat ==
    ASSUME NEW v, NEW a \in Seq(Char), NEW b \in Seq(Char), NEW x, NEW y, Cut(a, b),
           Stable(v, a, x), Stable(v, b, y)
    PROVE  Stable(v, Cat(a, b), Cat(x, y))
BY WithConcat DEF Stable, Grown

\* A text stays restorable when the vault grows.
LEMMA StableGrows ==
    ASSUME NEW v, NEW w, Grown(w, v), NEW s, NEW o, Stable(v, s, o)
    PROVE  Stable(w, s, o)
BY DEF Stable, Grown

\* The characters of a client's message.
Clear == Letters \cup Others \cup {Open}

\* No character of a client's message ends a token or goes on with one.
LEMMA ClearFacts ==
    /\ Clear \subseteq Char
    /\ \A x \in Clear : x # Close /\ x \notin Inner
BY DlpAssumption DEF Clear, Char, Inner, Open, Close

\* The text of a message is masked behind its first k characters, and what is
\* behind them is restored to what the client wrote there.
Half(v, orig, text, k) ==
    \E p, q, o \in Seq(Char) :
        /\ text = Cat(p, q) /\ orig = Cat(p, o) /\ Len(p) = k
        /\ Goes(q) /\ Stable(v, q, o)

\* Nothing is masked at first.
LEMMA HalfStart ==
    ASSUME NEW v, NEW s \in Seq(Clear), NEW k \in 0..Len(s)
    PROVE  Half(v, s, s, k)
<1> DEFINE p == SubSeq(s, 1, k)
           q == SubSeq(s, k + 1, Len(s))
<1>0. Len(s) \in Nat
  OBVIOUS
<1>1. /\ p \in Seq(Clear) /\ Len(p) = k
      /\ q \in Seq(Clear) /\ Len(q) = Len(s) - k
      /\ Cat(p, q) = s
  BY SplitAt
<1> HIDE DEF p, q
<1>2. \A i \in 1..Len(q) : q[i] # Close /\ q[i] \notin Inner
  BY <1>1, ClearFacts
<1>3. p \in Seq(Char) /\ q \in Seq(Char)
  BY <1>1, ClearFacts
<1>4. Goes(q)
  <2> SUFFICES ASSUME q # <<>>
               PROVE  q[1] \notin Inner
    BY DEF Goes
  <2>1. 1 \in 1..Len(q)
    BY <1>1
  <2> QED  BY <1>2, <2>1
<1>5. Stable(v, q, q)
  BY <1>2, <1>3, StableTexts
<1> QED  BY <1>1, <1>3, <1>4, <1>5 DEF Half

\* At any point of the loop the message is restored to what the client wrote.
LEMMA HalfRestores ==
    ASSUME NEW v \in Vaults, VaultOK(v), NEW orig \in Seq(Clear), NEW text, NEW k,
           Half(v, orig, text, k)
    PROVE  With(v, DOMAIN v, "restore", text) = orig
<1>1. PICK p, q, o \in Seq(Char) :
         /\ text = Cat(p, q) /\ orig = Cat(p, o) /\ Len(p) = k
         /\ Goes(q) /\ Stable(v, q, o)
  BY DEF Half
<1>2. Grown(v, v)
  BY DEF Grown
<1>3. With(v, DOMAIN v, "restore", q) = o
  BY <1>1, <1>2 DEF Stable
<1>4. With(v, DOMAIN v, "restore", p) = p
  <2>1. \A i \in 1..Len(p) : i \in 1..Len(orig) /\ p[i] = orig[i]
    <3>1. /\ Len(Cat(p, o)) = Len(p) + Len(o) /\ Len(p) \in Nat /\ Len(o) \in Nat
          /\ \A i \in 1..Len(p) : Cat(p, o)[i] = p[i]
      BY CatParts
    <3> QED  BY <1>1, <3>1
  <2>2. \A i \in 1..Len(p) : p[i] # Close
    BY <2>1, ClearFacts
  <2> QED  BY <2>2, PlainStays
<1>5. Cut(p, q)
  BY <1>1 DEF Cut, Goes
<1>6. With(v, DOMAIN v, "restore", Cat(p, q)) = Cat(p, o)
  BY <1>3, <1>4, <1>5, WithConcat
<1> QED  BY <1>1, <1>6

\* The parts of a text have its characters.
LEMMA CatOver ==
    ASSUME NEW S, NEW T, NEW a \in Seq(S), NEW b \in Seq(S), Cat(a, b) \in Seq(T)
    PROVE  a \in Seq(T) /\ b \in Seq(T)
<1> DEFINE s == Cat(a, b)
<1>1. /\ Len(s) = Len(a) + Len(b) /\ Len(a) \in Nat /\ Len(b) \in Nat
      /\ \A i \in 1..Len(a) : s[i] = a[i]
      /\ \A i \in 1..Len(b) : s[Len(a) + i] = b[i]
  BY ConcatParts DEF Cat
<1>2. s \in Seq(T)
  OBVIOUS
<1> HIDE DEF s
<1>3. \A i \in 1..Len(s) : s[i] \in T
  BY <1>2
<1>4. \A i \in 1..Len(a) : a[i] \in T
  BY <1>1, <1>3
<1>5. \A i \in 1..Len(b) : b[i] \in T
  <2> TAKE i \in 1..Len(b)
  <2>1. Len(a) + i \in 1..Len(s)
    BY <1>1
  <2> QED  BY <1>1, <1>3, <2>1
<1> QED  BY <1>4, <1>5

\* A replacement takes val, the end of p, out of the text p \o q, and leaves u.
TakesOut(p, q, a, u, val) ==
    /\ p = Cat(u, val) /\ Len(u) = a - 1 /\ val # <<>>
    /\ SubSeq(Cat(p, q), a, Len(p)) = val
    /\ \A t \in Seq(Char) :
          Spliced(Cat(p, q), a, Len(p), t) = Cat(u, Cat(t, q))

\* Every replacement does.
LEMMA SpliceParts ==
    ASSUME NEW p \in Seq(Char), NEW q \in Seq(Char), NEW a \in 1..Len(p)
    PROVE  \E u, val \in Seq(Char) : TakesOut(p, q, a, u, val)
<1> DEFINE n == Len(p)
           u == SubSeq(p, 1, a - 1)
           val == SubSeq(p, a - 1 + 1, n)
           text == Cat(p, q)
<1>1. n \in Nat /\ a \in Nat /\ a - 1 \in 0..n /\ a - 1 + 1 = a
  OBVIOUS
<1>2. /\ u \in Seq(Char) /\ Len(u) = a - 1
      /\ val \in Seq(Char) /\ Len(val) = n - (a - 1)
      /\ Cat(u, val) = p
  BY <1>1, SplitAt
<1> HIDE DEF u, val
<1>3. val # <<>>
  <2>1. n - (a - 1) # 0
    BY <1>1
  <2> QED  BY <1>2, <2>1
<1>4. text = Cat(u, Cat(val, q)) /\ Cat(val, q) \in Seq(Char)
  BY <1>2, SeqAssociative, CatParts
<1> HIDE DEF text
<1>5. SubSeq(text, a, n) = val
  <2>1. SubSeq(Cat(u, Cat(val, q)), Len(u) + 1, Len(u) + Len(val)) = val
    BY <1>2, <1>3, TakeMiddle
  <2>2. Len(u) + 1 = a /\ Len(u) + Len(val) = n
    BY <1>1, <1>2
  <2> HIDE DEF n
  <2> QED  BY <1>4, <2>1, <2>2
<1>6. SubSeq(text, 1, a - 1) = u
  <2>1. SubSeq(Cat(u, Cat(val, q)), 1, Len(u)) = u
    BY <1>2, <1>4, TakeDrop
  <2> QED  BY <1>2, <1>4, <2>1
<1>7. SubSeq(text, n + 1, Len(text)) = q
  BY TakeDrop DEF text
<1>8. ASSUME NEW t \in Seq(Char)
      PROVE  Spliced(text, a, n, t) = Cat(u, Cat(t, q))
  <2>1. Spliced(text, a, n, t) = Cat(Cat(u, t), q)
    BY <1>6, <1>7 DEF Spliced, Cat
  <2> QED  BY <1>2, <2>1, SeqAssociative
<1> QED  BY <1>2, <1>3, <1>5, <1>8 DEF text, TakesOut

\* What the loop takes out of a message are the letters of the hit.
LEMMA HalfValue ==
    ASSUME NEW v, NEW orig \in Seq(Clear), NEW text, NEW h, Fits(h, orig),
           Half(v, orig, text, h.end)
    PROVE  LET value == SubSeq(text, h.start, h.end) IN
           value \in Seq(Letters) /\ value # <<>>
<1>1. PICK p, q, o \in Seq(Char) :
         /\ text = Cat(p, q) /\ orig = Cat(p, o) /\ Len(p) = h.end
         /\ Goes(q) /\ Stable(v, q, o)
  BY DEF Half
<1>2. /\ h.start \in Nat /\ h.end \in Nat /\ h.start <= h.end /\ h.start >= 1
      /\ \A i \in h.start..h.end : orig[i] \in Letters
  BY DEF Fits
<1>3. h.start \in 1..Len(p)
  BY <1>1, <1>2
<1>a. PICK u, val \in Seq(Char) : TakesOut(p, q, h.start, u, val)
  BY <1>3, SpliceParts
<1>4. /\ p = Cat(u, val) /\ Len(u) = h.start - 1 /\ val # <<>>
      /\ SubSeq(Cat(p, q), h.start, Len(p)) = val
  BY <1>a DEF TakesOut
<1>5. SubSeq(text, h.start, h.end) = val
  BY <1>1, <1>4
<1>6. \A i \in 1..Len(p) : orig[i] = p[i]
  BY <1>1, CatParts
<1>7. /\ Len(p) = Len(u) + Len(val) /\ Len(val) \in Nat
      /\ \A i \in 1..Len(val) : p[Len(u) + i] = val[i]
  <2>1. /\ Len(Cat(u, val)) = Len(u) + Len(val) /\ Len(val) \in Nat
        /\ \A i \in 1..Len(val) : Cat(u, val)[Len(u) + i] = val[i]
    BY ConcatParts DEF Cat
  <2> QED  BY <1>4, <2>1
<1>8. ASSUME NEW i \in 1..Len(val)
      PROVE  val[i] \in Letters
  <2> DEFINE j == Len(u) + i
  <2>1. j \in 1..Len(p) /\ j \in h.start..h.end
    <3> DEFINE m == Len(u)
               n == Len(val)
               a == h.start
               b == h.end
    <3>1. b = m + n /\ m = a - 1 /\ n \in Nat /\ a \in Nat /\ a >= 1
      BY <1>1, <1>2, <1>4, <1>7
    <3>2. i \in 1..n /\ Len(p) = m + n /\ j = m + i
      BY <1>7
    <3> HIDE DEF m, n, j, a, b
    <3>3. j \in 1..(m + n) /\ j \in a..b
      BY <3>1, <3>2
    <3> QED  BY <3>2, <3>3 DEF a, b
  <2>2. val[i] = p[j]
    BY <1>7
  <2> HIDE DEF j
  <2> QED  BY <1>2, <1>6, <2>1, <2>2
<1>9. val \in Seq(Letters)
  BY <1>8
<1> QED  BY <1>4, <1>5, <1>9

\* One round of the loop: the token stands for what it replaces, whatever the
\* vault gains later, and the hits in front of it are where they were.
LEMMA HalfStep ==
    ASSUME NEW v, NEW w, Grown(w, v), NEW orig \in Seq(Clear), NEW text,
           NEW h, Fits(h, orig), Half(v, orig, text, h.end),
           NEW k \in 0..(h.start - 1), NEW t \in DOMAIN w,
           w[t] = SubSeq(text, h.start, h.end)
    PROVE  /\ Half(w, orig, Spliced(text, h.start, h.end, t), k)
           /\ Spliced(text, h.start, h.end, t) \in Seq(Char)
<1>1. PICK p, q, o \in Seq(Char) :
         /\ text = Cat(p, q) /\ orig = Cat(p, o) /\ Len(p) = h.end
         /\ Goes(q) /\ Stable(v, q, o)
  BY DEF Half
<1>2. h.start \in Nat /\ h.end \in Nat /\ h.start <= h.end /\ h.start >= 1
  BY DEF Fits
<1>3. h.start \in 1..Len(p)
  BY <1>1, <1>2
<1>a. PICK u, val \in Seq(Char) : TakesOut(p, q, h.start, u, val)
  BY <1>3, SpliceParts
<1>4. /\ p = Cat(u, val) /\ Len(u) = h.start - 1 /\ val # <<>>
      /\ SubSeq(Cat(p, q), h.start, Len(p)) = val
      /\ \A x \in Seq(Char) :
            Spliced(Cat(p, q), h.start, Len(p), x) = Cat(u, Cat(x, q))
  BY <1>a DEF TakesOut
<1>5. w[t] = val
  BY <1>1, <1>4
<1>6. /\ t \in Tokens /\ t \in Seq(Char) /\ Len(t) = 4 /\ t[1] = Open
  <2>1. t \in Tokens
    BY DEF Grown, VaultOK
  <2> QED  BY <2>1, TokenShape
<1> DEFINE text2 == Spliced(text, h.start, h.end, t)
<1>7. text2 = Cat(u, Cat(t, q))
  BY <1>1, <1>4, <1>6
<1> HIDE DEF text2
<1> DEFINE y == SubSeq(u, 1, k)
           r == SubSeq(u, k + 1, Len(u))
           tq == Cat(t, q)
           vo == Cat(val, o)
<1>8. y \in Seq(Char) /\ Len(y) = k /\ r \in Seq(Char) /\ Cat(y, r) = u
  <2>1. k \in 0..Len(u)
    BY <1>4
  <2> QED  BY <2>1, SplitAt
<1> HIDE DEF y, r
<1>9. tq \in Seq(Char) /\ tq # <<>> /\ tq[1] = Open /\ vo \in Seq(Char)
  <2>1. /\ tq \in Seq(Char) /\ Len(tq) = Len(t) + Len(q) /\ Len(q) \in Nat
        /\ \A i \in 1..Len(t) : tq[i] = t[i]
    BY <1>6, CatParts
  <2>2. vo \in Seq(Char)
    BY CatParts
  <2> HIDE DEF tq, vo
  <2>3. Len(tq) # 0 /\ 1 \in 1..Len(t)
    BY <1>6, <2>1
  <2> QED  BY <1>6, <2>1, <2>2, <2>3
<1>10. r \in Seq(Clear)
  <2>1. p \in Seq(Clear)
    BY <1>1, CatOver
  <2>2. u \in Seq(Clear)
    BY <1>4, <2>1, CatOver
  <2> QED  BY <1>8, <2>2, CatOver
<1>11. \A i \in 1..Len(r) : r[i] # Close /\ r[i] \notin Inner
  BY <1>10, ClearFacts
<1>12. Open \notin Inner
  BY Kinds DEF Inner
<1>13. Stable(w, tq, vo)
  <2>1. Stable(w, t, val)
    BY <1>5, StableTexts
  <2>2. Stable(w, q, o)
    BY <1>1, StableGrows
  <2>3. Cut(t, q)
    BY <1>1 DEF Cut, Goes
  <2> QED  BY <1>6, <2>1, <2>2, <2>3, StableConcat
<1> HIDE DEF tq, vo
<1>14. Stable(w, Cat(r, tq), Cat(r, vo))
  <2>1. Stable(w, r, r)
    BY <1>8, <1>11, StableTexts
  <2>2. Cut(r, tq)
    BY <1>9, <1>12 DEF Cut
  <2> QED  BY <1>8, <1>9, <1>13, <2>1, <2>2, StableConcat
<1>15. Goes(Cat(r, tq)) /\ Cat(r, tq) \in Seq(Char) /\ Cat(r, vo) \in Seq(Char)
  <2>1. /\ Cat(r, tq) \in Seq(Char) /\ Cat(r, vo) \in Seq(Char)
        /\ Len(r) \in Nat /\ Len(tq) \in Nat
        /\ \A i \in 1..Len(r) : Cat(r, tq)[i] = r[i]
        /\ \A i \in 1..(Len(r) + Len(tq)) :
              i > Len(r) => Cat(r, tq)[i] = tq[i - Len(r)]
    BY <1>8, <1>9, CatParts
  <2>2. CASE Len(r) = 0
    <3>1. Len(tq) # 0
      BY <1>9
    <3>2. 1 \in 1..(Len(r) + Len(tq)) /\ 1 > Len(r) /\ 1 - Len(r) = 1
      BY <2>1, <2>2, <3>1
    <3> QED  BY <1>9, <1>12, <2>1, <3>2 DEF Goes
  <2>3. CASE Len(r) # 0
    <3>1. 1 \in 1..Len(r)
      BY <2>1, <2>3
    <3> QED  BY <1>11, <2>1, <3>1 DEF Goes
  <2> QED  BY <2>1, <2>2, <2>3
<1>16. text2 = Cat(y, Cat(r, tq))
  BY <1>7, <1>8, <1>9, SeqAssociative DEF tq
<1>17. orig = Cat(y, Cat(r, vo))
  <2>1. orig = Cat(u, vo)
    BY <1>1, <1>4, SeqAssociative DEF vo
  <2> QED  BY <1>8, <1>9, <2>1, SeqAssociative
<1>18. Half(w, orig, text2, k)
  BY <1>8, <1>14, <1>15, <1>16, <1>17 DEF Half
<1>19. text2 \in Seq(Char)
  BY <1>8, <1>15, <1>16, CatParts
<1> QED  BY <1>18, <1>19 DEF text2

-----------------------------------------------------------------------------
(* What the client has got of a session, and what it will get.             *)

\* got is the restored text of all of seen but the tail, and the tail is where
\* a token may have begun.
Session(v, sc, how, seen, tail, got, closed) ==
    \E s \in Seq(Char) :
        /\ seen = Cat(s, tail)
        /\ got = With(v, sc, how, s)
        /\ tail = <<>> => closed \/ ~Dangling(s)

\* Nothing is added to a text.
LEMMA CatNothing ==
    ASSUME NEW S, NEW s \in Seq(S)
    PROVE  Cat(s, <<>>) = s /\ Cat(<<>>, s) = s
BY DEF Cat

\* A session begins with nothing.
LEMMA SessionStarts ==
    ASSUME NEW v, VaultOK(v), NEW sc, NEW how
    PROVE  Session(v, sc, how, <<>>, <<>>, <<>>, FALSE)
<1> DEFINE x == <<>>
<1>1. x \in Seq(Char) /\ ~Dangling(x) /\ With(v, sc, how, x) = x
  <2>1. Len(<<>>) = 0
    OBVIOUS
  <2> QED  BY <2>1, WithType DEF Dangling
<1>2. Cat(x, x) = x
  BY <1>1, CatNothing
<1> HIDE DEF x
<1>3. Session(v, sc, how, x, x, x, FALSE)
  BY <1>1, <1>2 DEF Session
<1> QED  BY <1>3 DEF x

\* With the tail the client has got the restored text of all it was sent.
LEMMA SessionReads ==
    ASSUME NEW v, VaultOK(v), NEW sc, NEW how, NEW seen, NEW tail, IsTail(tail),
           NEW got, NEW closed, Session(v, sc, how, seen, tail, got, closed)
    PROVE  /\ Cat(got, With(v, sc, how, tail)) = With(v, sc, how, seen)
           /\ seen \in Seq(Char)
<1>1. PICK s \in Seq(Char) : seen = Cat(s, tail) /\ got = With(v, sc, how, s)
  BY DEF Session
<1>2. Cut(s, tail) /\ tail \in Seq(Char)
  <2>1. Open \notin Inner
    BY Kinds DEF Inner
  <2> QED  BY <2>1 DEF Cut, IsTail
<1> QED  BY <1>1, <1>2, WithConcat, CatParts

\* The end of the stream.
LEMMA SessionEnds ==
    ASSUME NEW v, VaultOK(v), NEW sc, NEW how, NEW seen, NEW tail, IsTail(tail),
           NEW got, NEW closed, Session(v, sc, how, seen, tail, got, closed)
    PROVE  Session(v, sc, how, seen, <<>>, Cat(got, With(v, sc, how, tail)), TRUE)
<1>1. /\ Cat(got, With(v, sc, how, tail)) = With(v, sc, how, seen)
      /\ seen \in Seq(Char)
  BY SessionReads
<1>2. Cat(seen, <<>>) = seen
  BY <1>1, CatNothing
<1> QED  BY <1>1, <1>2 DEF Session

\* One delta.
LEMMA SessionFeeds ==
    ASSUME NEW v, VaultOK(v), NEW sc, NEW how, NEW seen, NEW tail, IsTail(tail),
           NEW got, Session(v, sc, how, seen, tail, got, FALSE),
           NEW delta \in Seq(Char)
    PROVE  LET buf == Cat(tail, delta) IN
           Session(v, sc, how, Cat(seen, delta), Kept(buf),
                   Cat(got, With(v, sc, how, Passed(buf))), FALSE)
<1>1. PICK s \in Seq(Char) :
         /\ seen = Cat(s, tail) /\ got = With(v, sc, how, s)
         /\ tail = <<>> => ~Dangling(s)
  BY DEF Session
<1>2. MovesOn(v, sc, how, s, tail, delta)
  BY <1>1, SessionStep
<1> DEFINE buf == Cat(tail, delta)
           p == Passed(buf)
           q == Kept(buf)
<1>3. /\ Cat(s, p) \in Seq(Char)
      /\ Cat(Cat(s, tail), delta) = Cat(Cat(s, p), q)
      /\ With(v, sc, how, Cat(s, p)) = Cat(With(v, sc, how, s), With(v, sc, how, p))
      /\ q = <<>> => ~Dangling(Cat(s, p))
  BY <1>2 DEF MovesOn
<1> HIDE DEF p, q, buf
<1>4. Session(v, sc, how, Cat(seen, delta), q, Cat(got, With(v, sc, how, p)), FALSE)
  BY <1>1, <1>3 DEF Session
<1> QED  BY <1>4 DEF p, q, buf

\* The deltas of a history, all of them and those of one choice.
SeenIn(f) == FlattenSeq([i \in DOMAIN f |-> f[i][2]])
SeenByIn(f, k) == FlattenSeq([i \in DOMAIN f |-> IF f[i][1] = k THEN f[i][2] ELSE <<>>])

\* What choice k gets of a delta of choice c.
Share(c, k, d) == IF c = k THEN d ELSE <<>>

\* One delta more.
LEMMA SeenMore ==
    ASSUME NEW f \in Seq(Indices \X Seq(Char)), NEW c \in Indices,
           NEW d \in Seq(Char), NEW k \in Indices
    PROVE  /\ SeenIn(Add(f, <<c, d>>)) = Cat(SeenIn(f), d)
           /\ SeenByIn(Add(f, <<c, d>>), k)
                 = Cat(SeenByIn(f, k), Share(c, k, d))
           /\ SeenIn(f) \in Seq(Char) /\ SeenByIn(f, k) \in Seq(Char)
<1> DEFINE T == Seq(Char)
           S == Indices \X T
           x == <<c, d>>
           g == Append(f, x)
           N == Len(f)
           a(h) == [i \in DOMAIN h |-> h[i][2]]
           b(h) == [i \in DOMAIN h |-> IF h[i][1] = k THEN h[i][2] ELSE <<>>]
           y == IF c = k THEN d ELSE <<>>
<1>1. x \in S /\ x[1] = c /\ x[2] = d /\ f \in Seq(S)
  OBVIOUS
<1>2. <<>> \in T /\ y \in T /\ d \in T
  OBVIOUS
<1> HIDE DEF T, x
<1>3. \A z \in S : z[1] \in Indices /\ z[2] \in T
  OBVIOUS
<1> HIDE DEF S
<1>4. /\ g \in Seq(S) /\ Len(g) = N + 1 /\ N \in Nat /\ g[N + 1] = x
      /\ \A i \in 1..N : g[i] = f[i]
  BY <1>1, AppendParts
<1> HIDE DEF g
<1>5. DOMAIN f = 1..N /\ DOMAIN g = 1..(N + 1)
  BY <1>1, <1>4
<1>6. \A i \in 1..N : f[i] \in S
  BY <1>1
<1>7. a(f) \in [1..N -> T] /\ b(f) \in [1..N -> T]
  BY <1>2, <1>3, <1>5, <1>6
<1> DEFINE af == a(f)
           bf == b(f)
<1>8. af \in Seq(T) /\ Len(af) = N /\ bf \in Seq(T) /\ Len(bf) = N
  <2> HIDE DEF af, bf, N
  <2>1. af \in [1..N -> T] /\ bf \in [1..N -> T]
    BY <1>7 DEF af, bf
  <2> QED  BY <1>4, <2>1
<1>9. a(g) = Append(af, d)
  <2> DEFINE p == Append(af, d)
             r == a(g)
  <2>1. \A i \in 1..(N + 1) : r[i] = g[i][2]
    BY <1>5
  <2>2. r = [i \in 1..(N + 1) |-> r[i]]
    BY <1>5
  <2>3. \A i \in 1..N : af[i] = f[i][2]
    BY <1>5
  <2>4. /\ p \in Seq(T) /\ Len(p) = N + 1 /\ p[N + 1] = d
        /\ \A i \in 1..N : p[i] = af[i]
    <3> HIDE DEF af, N
    <3>1. /\ p \in Seq(T) /\ Len(p) = Len(af) + 1 /\ p[Len(af) + 1] = d
          /\ \A i \in 1..Len(af) : p[i] = af[i]
      BY <1>2, <1>8, AppendParts
    <3> HIDE DEF p
    <3> QED  BY <1>8, <3>1
  <2> HIDE DEF p, r, af, N
  <2>5. \A i \in 1..(N + 1) : p[i] = r[i]
    <3> TAKE i \in 1..(N + 1)
    <3>1. i = N + 1 \/ i \in 1..N
      BY <1>4
    <3> QED  BY <1>1, <1>4, <2>1, <2>3, <2>4, <3>1
  <2>6. p = [i \in 1..(N + 1) |-> p[i]]
    BY <2>4
  <2>7. p = r
    BY <2>2, <2>5, <2>6
  <2> QED  BY <2>7 DEF p, r, af
<1>10. b(g) = Append(bf, y)
  <2> DEFINE p == Append(bf, y)
             r == b(g)
  <2>1. \A i \in 1..(N + 1) : r[i] = IF g[i][1] = k THEN g[i][2] ELSE <<>>
    BY <1>5
  <2>2. r = [i \in 1..(N + 1) |-> r[i]]
    BY <1>5
  <2>3. \A i \in 1..N : bf[i] = IF f[i][1] = k THEN f[i][2] ELSE <<>>
    BY <1>5
  <2>4. /\ p \in Seq(T) /\ Len(p) = N + 1 /\ p[N + 1] = y
        /\ \A i \in 1..N : p[i] = bf[i]
    <3> HIDE DEF bf, N, y
    <3>1. /\ p \in Seq(T) /\ Len(p) = Len(bf) + 1 /\ p[Len(bf) + 1] = y
          /\ \A i \in 1..Len(bf) : p[i] = bf[i]
      BY <1>2, <1>8, AppendParts
    <3> HIDE DEF p
    <3> QED  BY <1>8, <3>1
  <2> HIDE DEF p, r, bf, N
  <2>5. \A i \in 1..(N + 1) : p[i] = r[i]
    <3> TAKE i \in 1..(N + 1)
    <3>1. i = N + 1 \/ i \in 1..N
      BY <1>4
    <3> QED  BY <1>1, <1>4, <2>1, <2>3, <2>4, <3>1
  <2>6. p = [i \in 1..(N + 1) |-> p[i]]
    BY <2>4
  <2>7. p = r
    BY <2>2, <2>5, <2>6
  <2> QED  BY <2>7 DEF p, r, bf
<1>11. /\ FlattenSeq(Append(af, d)) = Cat(FlattenSeq(af), d)
       /\ FlattenSeq(Append(bf, y)) = Cat(FlattenSeq(bf), y)
       /\ FlattenSeq(af) \in T /\ FlattenSeq(bf) \in T
  <2> HIDE DEF af, bf, y
  <2> QED  BY <1>2, <1>8, FlattenAppend DEF Add, T
<1> QED  BY <1>9, <1>10, <1>11 DEF SeenIn, SeenByIn, Add, Share, g, x, T

-----------------------------------------------------------------------------
(* The inductive invariant.                                                *)

Hit == [start : Nat, end : Nat, order : Nat]
Message == [orig : Seq(Clear), text : Seq(Char)]

\* The types of all variables, and the shapes of the vault and of the carry.
TypeInv ==
    /\ mode \in {"off", "log", "mask", "block"}
    /\ policy \in {"restore", "mask"}
    /\ phase \in {"request", "blocked", "streaming", "answered", "replied"}
    /\ messages \in Seq(Message) /\ Len(messages) =< MaxMessages
    /\ todo \in Seq(Hit)
    /\ scope = DOMAIN vault /\ vault \in Vaults /\ VaultOK(vault)
    /\ IsTail(carry) /\ Len(carry) =< Hold + 1
    /\ \A i \in 2..Len(carry) : carry[i] \in Words
    /\ out \in [Indices -> Seq(Char)]
    /\ completion \in Seq(Char)
    /\ feeds \in Seq(Indices \X Seq(Char))
    /\ mixed \in BOOLEAN
    /\ holder \in Indices \cup {None}
    /\ (holder = None) <=> (carry = <<>>)

\* Up to which character message i of ms is not masked yet, with q to do.
Unmasked(q, ms, i) == IF i = Len(ms) /\ q # <<>> THEN Last(q).end ELSE 0

\* What is left to do lies in the last message, in the part of its text that
\* is still the client's; the rest of it, and every other message, is restored
\* to what the client wrote whatever the vault gains.
MaskInv ==
    /\ todo # <<>> => messages # <<>> /\ Spread(todo, Last(messages).orig)
    /\ \A i \in 1..Len(messages) :
          Half(vault, messages[i].orig, messages[i].text, Unmasked(todo, messages, i))

\* What choice c has got by itself.
TailOf(c) == IF holder = c THEN carry ELSE <<>>

\* The whole stream is one session, and so is every choice as long as no tail
\* came out in another one.
StreamInv ==
    /\ phase = "request" =>
          /\ feeds = <<>> /\ completion = <<>> /\ carry = <<>>
          /\ out = [c \in Indices |-> <<>>] /\ holder = None /\ ~mixed
    /\ phase \in {"streaming", "answered"} =>
          /\ Session(vault, scope, policy, SeenIn(feeds), carry, completion,
                     phase = "answered")
          /\ ~mixed => \A c \in Indices :
                Session(vault, scope, policy, SeenByIn(feeds, c), TailOf(c), out[c],
                        phase = "answered")
    /\ phase = "answered" => carry = <<>>

DlpInv == TypeInv /\ MaskInv /\ StreamInv

\* The invariant holds at first.
LEMMA InitInv == Init => DlpInv
<1> SUFFICES ASSUME Init
             PROVE  DlpInv
  OBVIOUS
<1> USE DEF Init
<1>1. vault \in Vaults /\ VaultOK(vault) /\ scope = DOMAIN vault
  <2>1. DOMAIN vault = {}
    OBVIOUS
  <2>2. vault \in [{} -> Seq(Letters)]
    OBVIOUS
  <2>3. {} \in SUBSET Tokens
    OBVIOUS
  <2> QED  BY <2>1, <2>2, <2>3 DEF Vaults, VaultOK
<1>2. Len(<<>>) = 0 /\ 0 <= MaxMessages /\ 0 <= Hold + 1
  BY DlpAssumption
<1>3. IsTail(carry)
  BY DEF IsTail
<1>4. TypeInv
  <2>1. /\ messages \in Seq(Message) /\ todo \in Seq(Hit)
        /\ completion \in Seq(Char) /\ feeds \in Seq(Indices \X Seq(Char))
    OBVIOUS
  <2>2. out \in [Indices -> Seq(Char)]
    OBVIOUS
  <2>3. Len(messages) =< MaxMessages /\ Len(carry) =< Hold + 1
        /\ \A i \in 2..Len(carry) : carry[i] \in Words
    BY <1>2
  <2>4. /\ mode \in {"off", "log", "mask", "block"} /\ policy \in {"restore", "mask"}
        /\ phase \in {"request", "blocked", "streaming", "answered", "replied"}
        /\ mixed \in BOOLEAN /\ holder \in Indices \cup {None}
        /\ ((holder = None) <=> (carry = <<>>))
    OBVIOUS
  <2> QED  BY <1>1, <1>3, <2>1, <2>2, <2>3, <2>4 DEF TypeInv
<1>5. MaskInv
  BY <1>2 DEF MaskInv
<1>6. StreamInv
  BY DEF StreamInv
<1> QED  BY <1>4, <1>5, <1>6 DEF DlpInv

\* A message that the client may write.
LEMMA ContentsFit ==
    ASSUME NEW content \in Contents
    PROVE  content \in Seq(Clear) /\ content \in Seq(Char) /\ Len(content) \in Nat
<1>1. PICK m \in 0..MaxText : content \in [1..m -> Letters \cup Others \cup {Open}]
  BY DEF Contents, BoundedSeq, SeqOf
<1>2. content \in [1..m -> Clear] /\ m \in Nat
  BY <1>1, DlpAssumption DEF Clear
<1>3. content \in Seq(Clear)
  BY <1>2
<1> QED  BY <1>3, ClearFacts

\* Nothing of the next message is masked yet.
LEMMA TakeKeeps ==
    ASSUME DlpInv, NEW content \in Contents,
           NEW found \in [DOMAIN Profile -> FindIter(content)],
           TakeMessage(content, found)
    PROVE  DlpInv'
<1> DEFINE a == Accepted(Hits(found))
           r == [orig |-> content, text |-> content]
           N == Len(messages)
<1>1. /\ content \in Seq(Clear) /\ content \in Seq(Char) /\ Len(content) \in Nat
  BY ContentsFit
<1>2. /\ a \in Seq(Hit) /\ Spread(a, content)
  <2>1. a \in Seq(Hits(found)) /\ Spread(a, content)
    BY <1>1, AcceptedSpread
  <2>2. Hits(found) \subseteq Hit
    BY <1>1, HitsFit DEF Hit
  <2> HIDE DEF a
  <2> QED  BY <2>1, <2>2
<1> HIDE DEF a
<1>3. /\ phase = "request" /\ todo = <<>> /\ N < MaxMessages
      /\ phase' = IF mode = "block" /\ a # <<>> THEN "blocked" ELSE phase
      /\ messages' = Append(messages, r)
      /\ todo' = IF mode = "mask" THEN a ELSE <<>>
      /\ mode' = mode /\ policy' = policy /\ vault' = vault /\ scope' = scope
      /\ carry' = carry /\ out' = out /\ completion' = completion /\ feeds' = feeds
      /\ holder' = holder /\ mixed' = mixed
  BY DEF TakeMessage, a, answer
<1>4. r \in Message /\ r.orig = content /\ r.text = content
  BY <1>1 DEF Message
<1> HIDE DEF r
<1>5. TypeInv /\ MaskInv /\ StreamInv
  BY DEF DlpInv
<1>6. messages \in Seq(Message) /\ N \in Nat
  BY <1>5 DEF TypeInv
<1>7. /\ messages' \in Seq(Message) /\ Len(messages') = N + 1
      /\ messages'[N + 1] = r
      /\ \A i \in 1..N : messages'[i] = messages[i]
  BY <1>3, <1>4, <1>6, AppendParts
<1>8. N + 1 <= MaxMessages
  BY <1>3, <1>6, DlpAssumption
<1> HIDE DEF N
<1>9. TypeInv'
  <2>1. todo' \in Seq(Hit)
    BY <1>2, <1>3
  <2>2. phase' \in {"request", "blocked", "streaming", "answered", "replied"}
    BY <1>3
  <2>3. IsTail(carry)'
    BY <1>3, <1>5 DEF TypeInv, IsTail
  <2>4. VaultOK(vault)'
    BY <1>3, <1>5 DEF TypeInv, VaultOK
  <2> QED  BY <1>3, <1>5, <1>7, <1>8, <2>1, <2>2, <2>3, <2>4 DEF TypeInv
<1>10. MaskInv'
  <2>1. Last(messages') = r /\ messages' # <<>>
    BY <1>6, <1>7 DEF Last
  <2>2. todo' # <<>> => Spread(todo', content)
    BY <1>2, <1>3
  <2>3. ASSUME NEW i \in 1..(N + 1)
        PROVE  Half(vault, messages'[i].orig, messages'[i].text,
                    Unmasked(todo', messages', i))
    <3>1. CASE i = N + 1
      <4>1. messages'[i].orig = content /\ messages'[i].text = content
        BY <1>4, <1>7, <3>1
      <4>2. Unmasked(todo', messages', i) \in 0..Len(content)
        <5>1. CASE todo' = <<>>
          BY <1>1, <5>1 DEF Unmasked
        <5>2. CASE todo' # <<>>
          <6>1. Len(todo') \in 1..Len(todo')
            BY <1>2, <1>3, <5>2
          <6>2. Fits(Last(todo'), content)
            BY <2>2, <5>2, <6>1 DEF Spread, Last
          <6>3. Unmasked(todo', messages', i) = Last(todo').end
            BY <1>7, <3>1, <5>2 DEF Unmasked
          <6> QED  BY <1>1, <6>2, <6>3 DEF Fits
        <5> QED  BY <5>1, <5>2
      <4> QED  BY <1>1, <4>1, <4>2, HalfStart
    <3>2. CASE i # N + 1
      <4>1. i \in 1..N
        BY <1>6, <3>2
      <4>2. Half(vault, messages[i].orig, messages[i].text, Unmasked(todo, messages, i))
        BY <1>5, <4>1 DEF MaskInv, N
      <4>3. Unmasked(todo, messages, i) = 0 /\ Unmasked(todo', messages', i) = 0
        BY <1>3, <1>7, <3>2 DEF Unmasked
      <4> QED  BY <1>7, <4>1, <4>2, <4>3
    <3> QED  BY <3>1, <3>2
  <2>4. todo' # <<>> => messages' # <<>> /\ Spread(todo', Last(messages').orig)
    BY <1>4, <2>1, <2>2
  <2> QED  BY <1>3, <1>7, <2>3, <2>4 DEF MaskInv
<1>11. StreamInv'
  BY <1>3, <1>5 DEF StreamInv
<1> QED  BY <1>9, <1>10, <1>11 DEF DlpInv

\* A list without its last element.
LEMMA FrontParts ==
    ASSUME NEW S, NEW q \in Seq(S), q # <<>>
    PROVE  /\ Front(q) \in Seq(S) /\ Len(Front(q)) = Len(q) - 1
           /\ \A i \in 1..(Len(q) - 1) : Front(q)[i] = q[i]
           /\ Len(q) \in 1..Len(q) /\ Len(q) - 1 \in Nat
<1>1. Len(q) \in Nat /\ Len(q) # 0
  OBVIOUS
<1>2. Len(q) - 1 \in 0..Len(q) /\ Len(q) \in 1..Len(q) /\ Len(q) - 1 \in Nat
  BY <1>1
<1> QED  BY <1>2, SplitAt DEF Front

\* The last hit of a list that is spread over a text, and what is in front.
LEMMA SpreadFront ==
    ASSUME NEW s, NEW q \in Seq(Hit), q # <<>>, Spread(q, s)
    PROVE  /\ Fits(Last(q), s) /\ Spread(Front(q), s)
           /\ Front(q) # <<>> => Last(Front(q)).end \in 0..(Last(q).start - 1)
<1> DEFINE p == Front(q)
           N == Len(q)
           M == N - 1
<1>1. /\ p \in Seq(Hit) /\ Len(p) = M /\ M \in Nat /\ N \in 1..N /\ M + 1 = N
      /\ \A i \in 1..M : p[i] = q[i]
  BY FrontParts
<1>2. /\ \A i \in 1..N : Fits(q[i], s)
      /\ \A i, j \in 1..N : i < j => q[i].end < q[j].start
  BY DEF Spread
<1> HIDE DEF p, N, M
<1>3. \A i \in 1..M : i \in 1..N /\ i < N
  BY <1>1
<1>4. Spread(p, s)
  BY <1>1, <1>2, <1>3 DEF Spread
<1>5. Last(q) = q[N]
  BY DEF Last, N
<1>6. ASSUME p # <<>>
      PROVE  Last(p).end \in 0..(Last(q).start - 1)
  <2>1. M \in 1..M
    BY <1>1, <1>6
  <2>2. Last(p) = q[M]
    BY <1>1, <2>1 DEF Last
  <2>3. q[M].end < q[N].start /\ Fits(q[M], s) /\ Fits(q[N], s)
    BY <1>1, <1>2, <1>3, <2>1
  <2>4. q[M].end \in Nat /\ q[N].start \in Nat
    BY <2>3 DEF Fits
  <2> QED  BY <1>5, <2>2, <2>3, <2>4
<1> QED  BY <1>1, <1>2, <1>4, <1>5, <1>6 DEF p

\* A token that sanitize may use for a value.
LEMMA TokenFits ==
    ASSUME VaultOK(vault), NEW value \in Seq(Letters), value # <<>>,
           NEW typ \in Types, NEW t \in TokensFor(value, typ)
    PROVE  t \in Tokens /\ (t \in DOMAIN vault => vault[t] = value)
<1> DEFINE existing == {u \in DOMAIN vault : vault[u] = value}
<1>1. CASE existing # {}
  BY <1>1 DEF TokensFor, VaultOK
<1>2. CASE existing = {}
  BY <1>2 DEF TokensFor, Tokens
<1> QED  BY <1>1, <1>2

\* A round of the replacement loop masks one hit more.
LEMMA MaskKeeps ==
    ASSUME DlpInv, MaskHit
    PROVE  DlpInv'
<1> DEFINE N == Len(messages)
           h == Last(todo)
           text == messages[N].text
           orig == messages[N].orig
           value == SubSeq(text, h.start, h.end)
<1>1. TypeInv /\ MaskInv /\ StreamInv
  BY DEF DlpInv
<1>2. /\ phase = "request" /\ todo # <<>> /\ todo' = Front(todo)
      /\ mode' = mode /\ policy' = policy /\ phase' = phase
      /\ carry' = carry /\ out' = out /\ completion' = completion /\ feeds' = feeds
      /\ holder' = holder /\ mixed' = mixed
  BY DEF MaskHit, answer
<1>3. PICK t \in TokensFor(value, Profile[h.order]) :
         /\ vault' = [u \in DOMAIN vault \cup {t} |-> IF u = t THEN value ELSE vault[u]]
         /\ scope' = scope \cup {t}
         /\ messages' = [messages EXCEPT ![N].text = Spliced(@, h.start, h.end, t)]
  BY DEF MaskHit, Last
<1>4. /\ messages \in Seq(Message) /\ N \in 1..N /\ N \in Nat /\ Last(messages) = messages[N]
      /\ messages[N] \in Message /\ orig \in Seq(Clear)
  <2>1. messages # <<>> /\ messages \in Seq(Message)
    BY <1>1, <1>2 DEF MaskInv, TypeInv
  <2>2. N \in 1..N /\ N \in Nat /\ messages[N] \in Message
    BY <2>1
  <2> HIDE DEF N
  <2> QED  BY <2>1, <2>2 DEF Last, Message, N
<1>5. /\ todo \in Seq(Hit) /\ Spread(todo, orig)
  BY <1>1, <1>2, <1>4 DEF TypeInv, MaskInv
<1>6. /\ Fits(h, orig) /\ Spread(todo', orig)
      /\ todo' # <<>> => Last(todo').end \in 0..(h.start - 1)
  BY <1>2, <1>5, SpreadFront
<1>7. todo' \in Seq(Hit)
  BY <1>2, <1>5, FrontParts
<1> HIDE DEF h
<1>8. Half(vault, orig, text, h.end)
  <2>1. Unmasked(todo, messages, N) = h.end
    BY <1>2 DEF Unmasked, h
  <2>2. Half(vault, orig, text, Unmasked(todo, messages, N))
    BY <1>1, <1>4 DEF MaskInv
  <2> QED  BY <2>1, <2>2
<1> HIDE DEF orig, text
<1>9. value \in Seq(Letters) /\ value # <<>>
  BY <1>4, <1>6, <1>8, HalfValue
<1> HIDE DEF value
<1>10. t \in Tokens /\ (t \in DOMAIN vault => vault[t] = value)
  <2>1. Profile[h.order] \in Types
    <3>1. h.order \in DOMAIN Profile
      BY <1>6 DEF Fits
    <3> QED  BY <3>1 DEF Types, Range
  <2>2. VaultOK(vault)
    BY <1>1 DEF TypeInv
  <2> QED  BY <1>9, <2>1, <2>2, TokenFits
<1> DEFINE w == [u \in DOMAIN vault \cup {t} |-> IF u = t THEN value ELSE vault[u]]
<1>11. vault \in Vaults /\ VaultOK(vault) /\ scope = DOMAIN vault
  BY <1>1 DEF TypeInv
<1>12. DOMAIN w = DOMAIN vault \cup {t} /\ w[t] = value
         /\ \A u \in DOMAIN vault : w[u] = vault[u]
  BY <1>10
<1>13. VaultOK(w)
  <2> HIDE DEF w
  <2> QED  BY <1>9, <1>10, <1>11, <1>12 DEF VaultOK
<1>14. w \in Vaults
  <2>1. DOMAIN vault \cup {t} \in SUBSET Tokens
    BY <1>10, <1>11 DEF VaultOK
  <2>2. \A u \in DOMAIN vault : vault[u] \in Seq(Letters)
    BY <1>11 DEF VaultOK
  <2>3. w \in [DOMAIN vault \cup {t} -> Seq(Letters)]
    BY <1>9, <2>2
  <2> HIDE DEF w
  <2> QED  BY <2>1, <2>3 DEF Vaults
<1>15. vault' = w
  BY <1>3
<1> HIDE DEF w
<1>16. Grown(w, vault) /\ t \in DOMAIN w
  BY <1>12, <1>13, <1>14 DEF Grown
<1> DEFINE text2 == Spliced(text, h.start, h.end, t)
           k == Unmasked(todo', messages', N)
<1>17. /\ messages' \in Seq(Message) /\ Len(messages') = N
       /\ \A i \in 1..N : i # N => messages'[i] = messages[i]
       /\ messages'[N].orig = orig /\ messages'[N].text = text2
       /\ text2 \in Seq(Char) /\ Half(w, orig, text2, k)
  <2>1. k \in 0..(h.start - 1)
    <3>1. Len(messages') = N
      BY <1>3, <1>4
    <3>2. CASE todo' = <<>>
      <4>1. h.start \in Nat /\ h.start >= 1
        BY <1>6 DEF Fits
      <4> QED  BY <3>2, <4>1 DEF Unmasked
    <3>3. CASE todo' # <<>>
      BY <1>6, <3>1, <3>3 DEF Unmasked
    <3> QED  BY <3>2, <3>3
  <2> HIDE DEF k
  <2>2. Half(w, orig, text2, k) /\ text2 \in Seq(Char)
    BY <1>4, <1>6, <1>8, <1>12, <1>16, <2>1, HalfStep DEF value
  <2> HIDE DEF text2
  <2> DEFINE m2 == [messages[N] EXCEPT !.text = text2]
  <2>3. messages' = [messages EXCEPT ![N] = m2]
    BY <1>3, <1>4 DEF text2, text
  <2>4. m2 \in Message /\ m2.orig = orig /\ m2.text = text2
    BY <1>4, <2>2 DEF Message, orig
  <2> HIDE DEF m2, N
  <2>5. /\ messages' \in Seq(Message) /\ Len(messages') = Len(messages)
        /\ messages'[N] = m2
        /\ \A i \in 1..N : i # N => messages'[i] = messages[i]
    BY <1>4, <2>3, <2>4 DEF N
  <2> QED  BY <2>2, <2>4, <2>5 DEF N
<1>18. TypeInv'
  <2>1. scope' = DOMAIN w
    BY <1>3, <1>11, <1>12
  <2>2. IsTail(carry)'
    BY <1>1, <1>2 DEF TypeInv, IsTail
  <2>3. VaultOK(vault)' /\ vault' \in Vaults /\ scope' = DOMAIN vault'
    BY <1>13, <1>14, <1>15, <2>1 DEF VaultOK
  <2>4. Len(messages') =< MaxMessages
    BY <1>1, <1>17 DEF TypeInv
  <2> QED  BY <1>1, <1>2, <1>7, <1>17, <2>2, <2>3, <2>4 DEF TypeInv
<1>19. MaskInv'
  <2>1. Last(messages').orig = orig /\ messages' # <<>>
    BY <1>4, <1>17 DEF Last
  <2>2. ASSUME NEW i \in 1..N
        PROVE  Half(w, messages'[i].orig, messages'[i].text, Unmasked(todo', messages', i))
    <3>1. CASE i = N
      BY <1>17, <3>1
    <3>2. CASE i # N
      <4>1. Half(vault, messages[i].orig, messages[i].text, Unmasked(todo, messages, i))
        BY <1>1 DEF MaskInv
      <4>2. Unmasked(todo, messages, i) = 0 /\ Unmasked(todo', messages', i) = 0
        BY <1>17, <3>2 DEF Unmasked
      <4>3. messages'[i] = messages[i]
        BY <1>17, <3>2
      <4>4. Half(w, messages[i].orig, messages[i].text, 0)
        BY <1>16, <4>1, <4>2, StableGrows DEF Half
      <4> QED  BY <4>2, <4>3, <4>4
    <3> QED  BY <3>1, <3>2
  <2> QED  BY <1>6, <1>15, <1>17, <2>1, <2>2 DEF MaskInv
<1>20. StreamInv'
  BY <1>1, <1>2 DEF StreamInv
<1> QED  BY <1>18, <1>19, <1>20 DEF DlpInv

\* No message is left when the payload has been moved into the call.
LEMMA NoMessages ==
    ASSUME TypeInv, messages' = <<>>, todo' = <<>>
    PROVE  /\ MaskInv' /\ messages' \in Seq(Message) /\ Len(messages') =< MaxMessages
<1>1. Len(<<>>) = 0 /\ 0 <= MaxMessages
  BY DlpAssumption
<1> QED  BY <1>1 DEF MaskInv

\* A JSON answer opens no session.
LEMMA JsonKeeps ==
    ASSUME DlpInv, NEW content \in [Indices -> Deltas], AnswerJson(content)
    PROVE  DlpInv'
<1>1. TypeInv /\ MaskInv /\ StreamInv
  BY DEF DlpInv
<1>2. /\ phase = "request" /\ todo = <<>> /\ phase' = "replied" /\ messages' = <<>>
      /\ out' = [content EXCEPT ![0] = IF mode = "off" THEN @ ELSE Restored(@, policy)]
      /\ feeds' = [i \in 1..(LastChoice + 1) |-> <<i - 1, content[i - 1]>>]
      /\ mode' = mode /\ policy' = policy /\ todo' = todo /\ vault' = vault
      /\ scope' = scope /\ carry' = carry /\ completion' = completion
      /\ holder' = holder /\ mixed' = mixed
  BY DEF AnswerJson
<1>3. /\ LastChoice \in Nat /\ 0 \in Indices
      /\ \A c \in Indices : content[c] \in Seq(Char)
      /\ content \in [Indices -> Seq(Char)]
  BY DlpAssumption DEF Indices
<1>4. VaultOK(vault)
  BY <1>1 DEF TypeInv
<1>5. out' \in [Indices -> Seq(Char)]
  <2> DEFINE x == IF mode = "off" THEN content[0] ELSE Restored(content[0], policy)
  <2>1. x \in Seq(Char)
    <3>1. content[0] \in Seq(Char)
      BY <1>3
    <3>2. Restored(content[0], policy) \in Seq(Char)
      BY <1>4, <3>1, RestoredWith, WithType
    <3> QED  BY <3>1, <3>2
  <2>2. out' = [content EXCEPT ![0] = x]
    BY <1>2, <1>3
  <2> HIDE DEF x
  <2> QED  BY <1>3, <2>1, <2>2
<1>6. feeds' \in Seq(Indices \X Seq(Char))
  <2>1. \A i \in 1..(LastChoice + 1) : i - 1 \in Indices
    BY <1>3 DEF Indices
  <2> DEFINE S == Indices \X Seq(Char)
  <2>2. \A i \in 1..(LastChoice + 1) : <<i - 1, content[i - 1]>> \in S
    BY <1>3, <2>1
  <2> HIDE DEF S
  <2>3. feeds' \in [1..(LastChoice + 1) -> S]
    BY <1>2, <2>2
  <2>4. LastChoice + 1 \in Nat
    BY <1>3
  <2>5. feeds' \in Seq(S)
    BY <2>3, <2>4
  <2> QED  BY <2>5 DEF S
<1>7. MaskInv' /\ messages' \in Seq(Message) /\ Len(messages') =< MaxMessages
  BY <1>1, <1>2, NoMessages
<1>8. TypeInv'
  <2>1. IsTail(carry)' /\ VaultOK(vault)'
    BY <1>1, <1>2 DEF TypeInv, IsTail, VaultOK
  <2>2. phase' \in {"request", "blocked", "streaming", "answered", "replied"}
    BY <1>2
  <2> QED  BY <1>1, <1>2, <1>5, <1>6, <1>7, <2>1, <2>2 DEF TypeInv
<1>9. StreamInv'
  BY <1>2 DEF StreamInv
<1> QED  BY <1>7, <1>8, <1>9 DEF DlpInv

\* A stream opens one session with nothing seen.
LEMMA OpenKeeps ==
    ASSUME DlpInv, OpenStream
    PROVE  DlpInv'
<1>1. TypeInv /\ MaskInv /\ StreamInv
  BY DEF DlpInv
<1>2. /\ phase = "request" /\ todo = <<>> /\ phase' = "streaming" /\ messages' = <<>>
      /\ mode' = mode /\ policy' = policy /\ todo' = todo /\ vault' = vault
      /\ scope' = scope /\ carry' = carry /\ completion' = completion
      /\ out' = out /\ feeds' = feeds /\ holder' = holder /\ mixed' = mixed
  BY DEF OpenStream, answer
<1>3. MaskInv' /\ messages' \in Seq(Message) /\ Len(messages') =< MaxMessages
  BY <1>1, <1>2, NoMessages
<1>4. TypeInv'
  <2>1. IsTail(carry)' /\ VaultOK(vault)'
    BY <1>1, <1>2 DEF TypeInv, IsTail, VaultOK
  <2>2. phase' \in {"request", "blocked", "streaming", "answered", "replied"}
    BY <1>2
  <2> QED  BY <1>1, <1>2, <1>3, <2>1, <2>2 DEF TypeInv
<1>5. Session(vault, scope, policy, <<>>, <<>>, <<>>, FALSE)
  BY <1>1, SessionStarts DEF TypeInv
<1>6. /\ feeds = <<>> /\ completion = <<>> /\ carry = <<>>
      /\ out = [c \in Indices |-> <<>>]
  BY <1>1, <1>2 DEF StreamInv
<1>7. SeenIn(<<>>) = <<>> /\ \A c \in Indices : SeenByIn(<<>>, c) = <<>>
  BY DEF SeenIn, SeenByIn, FlattenSeq
<1>8. ~(phase' = "answered")
  BY <1>2
<1>9. StreamInv'
  <2>1. Session(vault, scope, policy, SeenIn(feeds), carry, completion, FALSE)
    BY <1>5, <1>6, <1>7
  <2>2. ASSUME NEW c \in Indices
        PROVE  Session(vault, scope, policy, SeenByIn(feeds, c), TailOf(c), out[c], FALSE)
    <3>1. TailOf(c) = <<>> /\ out[c] = <<>>
      BY <1>6 DEF TailOf
    <3> QED  BY <1>5, <1>6, <1>7, <3>1
  <2> QED  BY <1>2, <2>1, <2>2 DEF StreamInv, TailOf
<1> QED  BY <1>3, <1>4, <1>9 DEF DlpInv

\* A delta of choice c moves the session of the stream and that of c on.
LEMMA FeedKeeps ==
    ASSUME DlpInv, NEW c \in Indices, NEW delta \in Deltas, Feed(c, delta)
    PROVE  DlpInv'
<1> DEFINE buf == Cat(carry, delta)
           p == Passed(buf)
           q == Kept(buf)
           R == With(vault, scope, policy, p)
<1>1. TypeInv /\ MaskInv /\ StreamInv
  BY DEF DlpInv
<1>2. /\ phase = "streaming" /\ phase' = phase
      /\ mode' = mode /\ policy' = policy /\ todo' = todo /\ vault' = vault
      /\ scope' = scope /\ messages' = messages
  BY DEF Feed, masking
<1>3. /\ carry' = q /\ feeds' = Add(feeds, <<c, delta>>)
      /\ completion' = Cat(completion, R)
      /\ out' = [out EXCEPT ![c] = Cat(@, R)]
      /\ holder' = IF q = <<>> THEN None ELSE c
      /\ mixed' = (mixed \/ (carry # <<>> /\ holder # c))
  BY RestoredWith DEF Feed, Delivered, Passed, Kept, Cat, Add
<1>4. /\ IsTail(carry) /\ carry \in Seq(Char) /\ delta \in Seq(Char)
      /\ feeds \in Seq(Indices \X Seq(Char))
      /\ VaultOK(vault) /\ out \in [Indices -> Seq(Char)] /\ completion \in Seq(Char)
      /\ holder \in Indices \cup {None} /\ ((holder = None) <=> (carry = <<>>))
      /\ None \notin Indices
  BY <1>1, DlpAssumption DEF TypeInv, IsTail
<1>5. buf \in Seq(Char)
  BY <1>4, CatParts
<1> HIDE DEF buf
<1>6. /\ p \in Seq(Char) /\ q \in Seq(Char)
      /\ q # <<>> => /\ q[1] = Open /\ Len(q) =< Hold + 1
                     /\ \A i \in 2..Len(q) : q[i] \in Words
  BY <1>5, SplitBuffer
<1> HIDE DEF p, q
<1>7. R \in Seq(Char)
  BY <1>4, <1>6, WithType
<1>8. TypeInv'
  <2>1. IsTail(q) /\ Len(q) =< Hold + 1 /\ \A i \in 2..Len(q) : q[i] \in Words
    <3>1. CASE q = <<>>
      <4>1. Len(<<>>) = 0 /\ 0 <= Hold + 1
        BY DlpAssumption
      <4>2. q \in Seq(Char)
        BY <1>6
      <4> QED  BY <3>1, <4>1, <4>2 DEF IsTail
    <3>2. CASE q # <<>>
      BY <1>6, <3>2 DEF IsTail
    <3> QED  BY <3>1, <3>2
  <2>2. completion' \in Seq(Char) /\ out' \in [Indices -> Seq(Char)]
    <3> DEFINE x == Cat(out[c], R)
    <3>1. completion' \in Seq(Char) /\ x \in Seq(Char)
      BY <1>3, <1>4, <1>7, CatParts
    <3>2. out' = [out EXCEPT ![c] = x]
      BY <1>3
    <3> HIDE DEF x
    <3> QED  BY <1>4, <3>1, <3>2
  <2>3. feeds' \in Seq(Indices \X Seq(Char))
    <3> DEFINE S == Indices \X Seq(Char)
               x == <<c, delta>>
    <3>1. x \in S /\ feeds \in Seq(S)
      BY <1>4
    <3> HIDE DEF S, x
    <3>2. Append(feeds, x) \in Seq(S)
      BY <3>1
    <3> QED  BY <1>3, <3>2 DEF Add, S, x
  <2>4. /\ holder' \in Indices \cup {None} /\ ((holder' = None) <=> (carry' = <<>>))
        /\ mixed' \in BOOLEAN
    <3>1. holder' \in Indices \cup {None} /\ ((holder' = None) <=> (q = <<>>))
      BY <1>3, <1>4
    <3>2. mixed \in BOOLEAN
      BY <1>1 DEF TypeInv
    <3>3. mixed' \in BOOLEAN
      BY <1>3, <3>2
    <3> QED  BY <1>3, <3>1, <3>3
  <2>5. IsTail(carry)' /\ VaultOK(vault)'
    BY <1>2, <1>3, <1>4, <2>1 DEF IsTail, VaultOK
  <2> QED  BY <1>1, <1>2, <1>3, <2>1, <2>2, <2>3, <2>4, <2>5 DEF TypeInv
<1>9. MaskInv'
  BY <1>1, <1>2 DEF MaskInv
<1>10. ~(phase = "answered") /\ ~(phase' = "answered") /\ phase' # "request"
  BY <1>2
<1>11. Session(vault, scope, policy, SeenIn(feeds'), carry', completion', FALSE)
  <2>1. Session(vault, scope, policy, SeenIn(feeds), carry, completion, FALSE)
    BY <1>1, <1>2, <1>10 DEF StreamInv
  <2>2. SeenIn(feeds') = Cat(SeenIn(feeds), delta)
    BY <1>3, <1>4, SeenMore
  <2>3. Session(vault, scope, policy, Cat(SeenIn(feeds), delta), q, Cat(completion, R), FALSE)
    BY <1>4, <2>1, SessionFeeds DEF buf, p, q
  <2> QED  BY <1>3, <2>2, <2>3
<1>12. ASSUME ~mixed', NEW k \in Indices
       PROVE  Session(vault, scope, policy, SeenByIn(feeds', k), TailOf(k)', out'[k], FALSE)
  <2>1. ~mixed /\ (carry = <<>> \/ holder = c)
    BY <1>3, <1>12
  <2>2. Session(vault, scope, policy, SeenByIn(feeds, k), TailOf(k), out[k], FALSE)
    BY <1>1, <1>2, <1>10, <2>1 DEF StreamInv
  <2>3. SeenByIn(feeds', k) = Cat(SeenByIn(feeds, k), Share(c, k, delta))
           /\ SeenByIn(feeds, k) \in Seq(Char)
    <3>1. feeds \in Seq(Indices \X Seq(Char)) /\ delta \in Seq(Char)
      BY <1>4
    <3> DEFINE f == feeds
    <3> HIDE DEF f
    <3>2. f \in Seq(Indices \X Seq(Char))
      BY <3>1 DEF f
    <3>3. SeenByIn(Add(f, <<c, delta>>), k) = Cat(SeenByIn(f, k), Share(c, k, delta))
             /\ SeenByIn(f, k) \in Seq(Char)
      BY <3>1, <3>2, SeenMore
    <3> QED  BY <1>3, <3>3 DEF f
  <2>4. TailOf(k)' = IF holder' = k THEN carry' ELSE <<>>
    BY DEF TailOf
  <2>5. CASE k = c
    <3>1. TailOf(k) = carry
      BY <1>4, <2>1, <2>5 DEF TailOf
    <3>2. TailOf(k)' = q
      BY <1>3, <1>4, <2>4, <2>5
    <3>3. out'[k] = Cat(out[k], R)
      BY <1>3, <1>4, <2>5
    <3>4. SeenByIn(feeds', k) = Cat(SeenByIn(feeds, k), delta)
      BY <2>3, <2>5 DEF Share
    <3>5. Session(vault, scope, policy, SeenByIn(feeds, k), carry, out[k], FALSE)
      BY <2>2, <3>1
    <3>6. Session(vault, scope, policy, Cat(SeenByIn(feeds, k), delta), q, Cat(out[k], R), FALSE)
      BY <1>4, <3>5, SessionFeeds DEF buf, p, q
    <3> QED  BY <3>2, <3>3, <3>4, <3>6
  <2>6. CASE k # c
    <3>1. TailOf(k) = <<>> /\ TailOf(k)' = <<>>
      BY <1>3, <1>4, <2>1, <2>4, <2>6 DEF TailOf
    <3>2. out'[k] = out[k]
      BY <1>3, <1>4, <2>6
    <3>3. SeenByIn(feeds', k) = SeenByIn(feeds, k)
      BY <2>3, <2>6, CatNothing DEF Share
    <3> QED  BY <2>2, <3>1, <3>2, <3>3
  <2> QED  BY <2>5, <2>6
<1>13. StreamInv'
  BY <1>2, <1>10, <1>11, <1>12 DEF StreamInv
<1> QED  BY <1>8, <1>9, <1>13 DEF DlpInv

\* The end of the stream gives the tail out.
LEMMA FlushKeeps ==
    ASSUME DlpInv, Flush
    PROVE  DlpInv'
<1> DEFINE R == With(vault, scope, policy, carry)
<1>1. TypeInv /\ MaskInv /\ StreamInv
  BY DEF DlpInv
<1>2. /\ phase = "streaming" /\ phase' = "answered" /\ carry' = <<>>
      /\ mode' = mode /\ policy' = policy /\ todo' = todo /\ vault' = vault
      /\ scope' = scope /\ messages' = messages /\ feeds' = feeds
      /\ holder' = None
      /\ mixed' = (mixed \/ (carry # <<>> /\ holder # 0))
  BY DEF Flush, masking
<1>3. /\ completion' = Cat(completion, R)
      /\ out' = [out EXCEPT ![0] = Cat(@, R)]
  BY RestoredWith DEF Flush, Cat
<1>4. /\ IsTail(carry) /\ carry \in Seq(Char)
      /\ VaultOK(vault) /\ out \in [Indices -> Seq(Char)] /\ completion \in Seq(Char)
      /\ ((holder = None) <=> (carry = <<>>)) /\ None \notin Indices /\ 0 \in Indices
  BY <1>1, DlpAssumption DEF TypeInv, IsTail, Indices
<1>5. R \in Seq(Char)
  BY <1>4, WithType
<1> HIDE DEF R
<1>6. TypeInv'
  <2>1. completion' \in Seq(Char) /\ out' \in [Indices -> Seq(Char)]
    <3> DEFINE x == Cat(out[0], R)
    <3>1. completion' \in Seq(Char) /\ x \in Seq(Char)
      BY <1>3, <1>4, <1>5, CatParts
    <3>2. out' = [out EXCEPT ![0] = x]
      BY <1>3
    <3> HIDE DEF x
    <3> QED  BY <1>4, <3>1, <3>2
  <2>2. mixed' \in BOOLEAN
    <3>1. mixed \in BOOLEAN
      BY <1>1 DEF TypeInv
    <3> QED  BY <1>2, <3>1
  <2>3. IsTail(carry)' /\ VaultOK(vault)'
    BY <1>2, <1>4 DEF IsTail, VaultOK
  <2>4. Len(carry') =< Hold + 1 /\ \A i \in 2..Len(carry') : carry'[i] \in Words
    <3>1. Len(<<>>) = 0 /\ 0 <= Hold + 1
      BY DlpAssumption
    <3> QED  BY <1>2, <3>1
  <2>5. holder' \in Indices \cup {None} /\ ((holder' = None) <=> (carry' = <<>>))
    BY <1>2
  <2>6. phase' \in {"request", "blocked", "streaming", "answered", "replied"}
    BY <1>2
  <2> QED  BY <1>1, <1>2, <2>1, <2>2, <2>3, <2>4, <2>5, <2>6 DEF TypeInv
<1>7. MaskInv'
  BY <1>1, <1>2 DEF MaskInv
<1>8. ~(phase = "answered") /\ phase' = "answered" /\ phase' # "request"
  BY <1>2
<1>9. Session(vault, scope, policy, SeenIn(feeds), <<>>, completion', TRUE)
  <2>1. Session(vault, scope, policy, SeenIn(feeds), carry, completion, FALSE)
    BY <1>1, <1>2, <1>8 DEF StreamInv
  <2>2. Session(vault, scope, policy, SeenIn(feeds), <<>>, Cat(completion, R), TRUE)
    BY <1>4, <2>1, SessionEnds DEF R
  <2> QED  BY <1>3, <2>2
<1>10. ASSUME ~mixed', NEW k \in Indices
       PROVE  Session(vault, scope, policy, SeenByIn(feeds, k), TailOf(k)', out'[k], TRUE)
  <2>1. ~mixed /\ (carry = <<>> \/ holder = 0)
    BY <1>2, <1>10
  <2>2. Session(vault, scope, policy, SeenByIn(feeds, k), TailOf(k), out[k], FALSE)
    BY <1>1, <1>2, <1>8, <2>1 DEF StreamInv
  <2>3. TailOf(k)' = <<>>
    BY <1>2 DEF TailOf
  <2>4. CASE k = 0
    <3>1. TailOf(k) = carry
      BY <1>4, <2>1, <2>4 DEF TailOf
    <3>2. Session(vault, scope, policy, SeenByIn(feeds, k), carry, out[k], FALSE)
      BY <2>2, <3>1
    <3>3. Session(vault, scope, policy, SeenByIn(feeds, k), <<>>, Cat(out[k], R), TRUE)
      BY <1>4, <3>2, SessionEnds DEF R
    <3>4. out'[k] = Cat(out[k], R)
      BY <1>3, <1>4, <2>4
    <3> QED  BY <2>3, <3>3, <3>4
  <2>5. CASE k # 0
    <3>1. TailOf(k) = <<>>
      BY <1>4, <2>1, <2>5 DEF TailOf
    <3>2. out'[k] = out[k]
      BY <1>3, <1>4, <2>5
    <3> QED  BY <2>2, <2>3, <3>1, <3>2 DEF Session
  <2> QED  BY <2>4, <2>5
<1>11. StreamInv'
  BY <1>2, <1>8, <1>9, <1>10 DEF StreamInv
<1> QED  BY <1>6, <1>7, <1>11 DEF DlpInv

\* Nothing changes.
LEMMA StutterKeeps ==
    ASSUME DlpInv, UNCHANGED vars
    PROVE  DlpInv'
<1>1. TypeInv /\ MaskInv /\ StreamInv
  BY DEF DlpInv
<1>2. /\ mode' = mode /\ policy' = policy /\ phase' = phase
      /\ messages' = messages /\ todo' = todo /\ vault' = vault /\ scope' = scope
      /\ carry' = carry /\ out' = out /\ completion' = completion /\ feeds' = feeds
      /\ holder' = holder /\ mixed' = mixed
  BY DEF vars, masking, answer
<1>3. TypeInv'
  BY <1>1, <1>2 DEF TypeInv, IsTail, VaultOK
<1>4. MaskInv'
  BY <1>1, <1>2 DEF MaskInv
<1>5. StreamInv'
  BY <1>1, <1>2 DEF StreamInv, TailOf
<1> QED  BY <1>3, <1>4, <1>5 DEF DlpInv

\* Every step of masking and restoring keeps the invariant.
LEMMA StepKeeps == DlpInv /\ [Next]_vars => DlpInv'
<1> SUFFICES ASSUME DlpInv, [Next]_vars
             PROVE  DlpInv'
  OBVIOUS
<1>1. CASE Next
  <2>1. CASE \E content \in Contents :
                \E found \in [DOMAIN Profile -> FindIter(content)] :
                   TakeMessage(content, found)
    BY <2>1, TakeKeeps
  <2>2. CASE MaskHit
    BY <2>2, MaskKeeps
  <2>3. CASE \E content \in [Indices -> Deltas] : AnswerJson(content)
    BY <2>3, JsonKeeps
  <2>4. CASE OpenStream
    BY <2>4, OpenKeeps
  <2>5. CASE \E c \in Indices, delta \in Deltas : Feed(c, delta)
    BY <2>5, FeedKeeps
  <2>6. CASE Flush
    BY <2>6, FlushKeeps
  <2> QED  BY <1>1, <2>1, <2>2, <2>3, <2>4, <2>5, <2>6 DEF Next
<1>2. CASE UNCHANGED vars
  BY <1>2, StutterKeeps
<1> QED  BY <1>1, <1>2

\* The invariant of masking and restoring.
THEOREM DlpInvariant == Spec => []DlpInv
<1> QED  BY InitInv, StepKeeps, PTL DEF Spec

-----------------------------------------------------------------------------
(* The properties.                                                         *)

\* The carry that StreamRestore (dlp.rs) holds back never grows beyond a
\* bracket and Hold token characters, the vault maps tokens to values, and all
\* variables keep their types.
THEOREM DlpTypeCorrect == Spec => []TypeOK
<1>1. DlpInv => TypeOK
  <2> SUFFICES ASSUME DlpInv
               PROVE  TypeOK
    OBVIOUS
  <2>1. TypeInv
    BY DEF DlpInv
  <2>2. \A t \in DOMAIN vault : t \in Tokens /\ vault[t] \in Seq(Letters)
    BY <2>1 DEF TypeInv, VaultOK
  <2>3. \A c \in Indices : out[c] \in Seq(Char)
    BY <2>1 DEF TypeInv
  <2>4. carry # <<>> => /\ carry[1] = Open /\ Len(carry) =< Hold + 1
                        /\ \A i \in 2..Len(carry) : carry[i] \in Words
    BY <2>1 DEF TypeInv, IsTail
  <2> QED  BY <2>1, <2>2, <2>3, <2>4 DEF TypeInv, TypeOK
<1> QED  BY <1>1, DlpInvariant, PTL

\* Whatever the messages and the detectors, and after every single replacement
\* of sanitize, restoring a message gives back what the client wrote.
THEOREM MaskingCorrect == Spec => []MaskingIsLossless
<1>1. DlpInv => MaskingIsLossless
  <2> SUFFICES ASSUME DlpInv, NEW i \in DOMAIN messages
               PROVE  Restored(messages[i].text, "restore") = messages[i].orig
    BY DEF MaskingIsLossless
  <2>1. /\ messages \in Seq(Message) /\ vault \in Vaults /\ VaultOK(vault)
        /\ scope = DOMAIN vault
    BY DEF DlpInv, TypeInv
  <2>2. i \in 1..Len(messages) /\ messages[i].orig \in Seq(Clear)
    <3>1. i \in 1..Len(messages) /\ messages[i] \in Message
      BY <2>1
    <3> QED  BY <3>1 DEF Message
  <2>3. Half(vault, messages[i].orig, messages[i].text, Unmasked(todo, messages, i))
    BY <2>2 DEF DlpInv, MaskInv
  <2>4. With(vault, DOMAIN vault, "restore", messages[i].text) = messages[i].orig
    BY <2>1, <2>2, <2>3, HalfRestores
  <2> QED  BY <2>1, <2>4, RestoredWith
<1> QED  BY <1>1, DlpInvariant, PTL

\* However the provider cuts the answer into deltas, completion_text together
\* with the held-back tail is the answer restored as a whole.
THEOREM StreamRestoreCorrect == Spec => []ChunksDontMatter
<1>1. DlpInv => ChunksDontMatter
  <2> SUFFICES ASSUME DlpInv, phase \in {"streaming", "answered"}
               PROVE  completion \o Restored(carry, policy) = Restored(Seen, policy)
    BY DEF ChunksDontMatter
  <2>1. VaultOK(vault) /\ IsTail(carry)
    BY DEF DlpInv, TypeInv
  <2>2. Session(vault, scope, policy, SeenIn(feeds), carry, completion, phase = "answered")
    BY DEF DlpInv, StreamInv
  <2>3. Cat(completion, With(vault, scope, policy, carry))
           = With(vault, scope, policy, SeenIn(feeds))
    <3> DEFINE closed == phase = "answered"
    <3>1. Session(vault, scope, policy, SeenIn(feeds), carry, completion, closed)
      BY <2>2
    <3> HIDE DEF closed
    <3> QED  BY <2>1, <3>1, SessionReads
  <2> QED  BY <2>3, RestoredWith DEF Cat, Seen, SeenIn
<1> QED  BY <1>1, DlpInvariant, PTL

\* Every choice of a stream reads as its own deltas restored as a whole, as
\* long as no held-back tail came out in the delta of another choice.
THEOREM ChoicesCorrect == Spec => []ChoicesKeepTheirText
<1>1. DlpInv => ChoicesKeepTheirText
  <2> SUFFICES ASSUME DlpInv, phase \in {"streaming", "answered"}, ~mixed,
                      NEW c \in Indices
               PROVE  out[c] \o (IF holder = c THEN Restored(carry, policy) ELSE <<>>)
                         = Restored(SeenBy(c), policy)
    BY DEF ChoicesKeepTheirText
  <2>1. VaultOK(vault) /\ IsTail(carry) /\ IsTail(TailOf(c))
    <3>1. VaultOK(vault) /\ IsTail(carry)
      BY DEF DlpInv, TypeInv
    <3>2. <<>> \in Seq(Char)
      OBVIOUS
    <3> QED  BY <3>1, <3>2 DEF IsTail, TailOf
  <2>2. Session(vault, scope, policy, SeenByIn(feeds, c), TailOf(c), out[c],
                phase = "answered")
    BY DEF DlpInv, StreamInv
  <2>3. Cat(out[c], With(vault, scope, policy, TailOf(c)))
           = With(vault, scope, policy, SeenByIn(feeds, c))
    <3> DEFINE closed == phase = "answered"
    <3>1. Session(vault, scope, policy, SeenByIn(feeds, c), TailOf(c), out[c], closed)
      BY <2>2
    <3> HIDE DEF closed
    <3> QED  BY <2>1, <3>1, SessionReads
  <2>4. With(vault, scope, policy, TailOf(c))
           = IF holder = c THEN Restored(carry, policy) ELSE <<>>
    BY <2>1, RestoredWith, WithType DEF TailOf
  <2> QED  BY <2>3, <2>4, RestoredWith DEF Cat, SeenBy, SeenByIn
<1> QED  BY <1>1, DlpInvariant, PTL

=============================================================================
