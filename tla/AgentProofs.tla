---------------------------- MODULE AgentProofs ----------------------------
(***************************************************************************)
(* Proofs about TunnelAgent for any retry limit, backoff cap, heartbeat    *)
(* timeout and forward timeout: every variable keeps its type, and the     *)
(* heartbeat never drops an agent that is reading its pings.               *)
(***************************************************************************)
EXTENDS TunnelAgent, TLAPS

-----------------------------------------------------------------------------
(* The invariants.                                                         *)

\* A connection that works belongs to an agent that serves it.
LinkInv == link = "up" => apc \in {"serving", "forwarding"}

\* A ping is on its way to the agent, or its pong is on the way back.
Outstanding == pong \/ \E i \in 1..Len(inbox) : inbox[i] = "ping"

\* Over a working link the record is old only as long as the agent has been
\* busy: with every ping answered it is at most one interval old (two when the
\* timer has just fired), and only a forward lets time pass over a ping.
FreshInv ==
    hand = "loop" /\ link = "up" /\ Present =>
        /\ age =< occupied + 2
        /\ ~Outstanding /\ ~due => age =< 1

-----------------------------------------------------------------------------
(* Facts about the operators.                                              *)

\* The lesser of two numbers is one of them and below both.
LEMMA LesserValue ==
    ASSUME NEW m \in Nat, NEW n \in Nat
    PROVE  /\ Lesser(m, n) \in Nat /\ Lesser(m, n) \in {m, n}
           /\ Lesser(m, n) =< m /\ Lesser(m, n) =< n
BY DEF Lesser

\* backoff_delay is never zero and never above its cap.
LEMMA BackoffBounds ==
    ASSUME NEW n \in Nat \ {0}
    PROVE  BackoffDelay(n) \in 1..DelayCap
<1> DEFINE k == Lesser(n - 1, MaxShift)
<1>1. MaxShift \in Nat /\ DelayCap \in Nat /\ DelayCap > 0
  BY AgentAssumption
<1>2. n - 1 \in Nat
  OBVIOUS
<1>3. k \in 0..MaxShift
  BY <1>1, <1>2, LesserValue
<1>4. 2 ^ k \in Nat \ {0}
  BY <1>3, AgentAssumption
<1> HIDE DEF k
<1>5. BackoffDelay(n) = Lesser(2 ^ k, DelayCap)
  BY DEF BackoffDelay, k
<1>6. /\ Lesser(2 ^ k, DelayCap) \in Nat
      /\ Lesser(2 ^ k, DelayCap) \in {2 ^ k, DelayCap}
      /\ Lesser(2 ^ k, DelayCap) =< DelayCap
  BY <1>1, <1>4, LesserValue
<1> QED  BY <1>1, <1>4, <1>5, <1>6

\* Frames that are read or sent leave an inbox of frames.
LEMMA InboxType ==
    ASSUME NEW S, NEW s \in Seq(S)
    PROVE  /\ s # <<>> => Tail(s) \in Seq(S)
           /\ \A x \in S : Append(s, x) \in Seq(S)
           /\ <<>> \in Seq(S)
OBVIOUS

\* A ping that is not the next frame is still there after the next one was
\* read.
LEMMA PingStays ==
    ASSUME NEW S, NEW s \in Seq(S), s # <<>>, Head(s) # "ping",
           NEW i \in 1..Len(s), s[i] = "ping"
    PROVE  \E j \in 1..Len(Tail(s)) : Tail(s)[j] = "ping"
<1>1. i # 1
  <2>1. Head(s) = s[1]
    OBVIOUS
  <2> QED  BY <2>1
<1>2. i - 1 \in 1..Len(Tail(s)) /\ Tail(s)[i - 1] = s[i]
  BY <1>1
<1> QED  BY <1>2

\* A ping that is sent is in the inbox, in front of it or behind others.
LEMMA PingSent ==
    ASSUME NEW S, NEW s \in Seq(S), NEW x \in S
    PROVE  /\ Len(Append(s, x)) = Len(s) + 1 /\ Len(s) \in Nat
           /\ Append(s, x)[Len(s) + 1] = x
           /\ \A i \in 1..Len(s) : Append(s, x)[i] = s[i]
OBVIOUS

-----------------------------------------------------------------------------
(* Type correctness.                                                       *)

\* What run does after serve_once returned, whatever ended it: it stops or
\* sleeps a positive time below the cap.
LEMMA SessionEndsType ==
    ASSUME TypeOK, SessionEnds
    PROVE  /\ attempt' \in 0..U32Max /\ delay' \in 0..DelayCap
           /\ apc' \in {"stopped", "sleeping"}
           /\ apc' = "sleeping" => delay' > 0
           /\ busy' = 0 /\ inbox' = <<>> /\ sent' = FALSE /\ pong' = FALSE
           /\ link' = "none" /\ maxRetries' = maxRetries
<1> DEFINE n == Lesser(attempt + 1, U32Max)
<1>1. U32Max \in Nat /\ U32Max > 0 /\ DelayCap \in Nat
  BY AgentAssumption
<1>2. attempt \in Nat
  BY <1>1 DEF TypeOK
<1>3. n \in 1..U32Max
  BY <1>1, <1>2 DEF Lesser
<1>4. BackoffDelay(n) \in 1..DelayCap
  BY <1>1, <1>3, BackoffBounds
<1>5. /\ attempt' = n
      /\ \/ apc' = "stopped" /\ delay' = delay
         \/ apc' = "sleeping" /\ delay' = BackoffDelay(n)
      /\ busy' = 0 /\ inbox' = <<>> /\ sent' = FALSE /\ pong' = FALSE
      /\ link' = "none" /\ maxRetries' = maxRetries
  BY DEF SessionEnds
<1> HIDE DEF n
<1> QED  BY <1>1, <1>3, <1>4, <1>5 DEF TypeOK

\* Every variable of the agent, the link and the gateway keeps its type; a
\* sleeping agent never spins, and its counter saturates.
THEOREM AgentTypeCorrect == Spec => []TypeOK
<1> USE DEF agentVars, linkVars, gateVars, history
<1>1. Init => TypeOK
  <2>1. /\ 0 \in 0..U32Max /\ 0 \in 0..DelayCap /\ 0 \in 0..ForwardLimit
        /\ 0 \in 0..MaxOld /\ 0 \in 0..MaxFaults /\ 0 \in 0..Timeout
    BY AgentAssumption
  <2>2. <<>> \in Seq({"ping", "request"})
    OBVIOUS
  <2> QED  BY <2>1, <2>2 DEF Init, TypeOK
<1>2. TypeOK /\ [Next]_vars => TypeOK'
  <2> SUFFICES ASSUME TypeOK, [Next]_vars
               PROVE  TypeOK'
    OBVIOUS
  <2> DEFINE F == {"ping", "request"}
  <2>0. /\ inbox \in Seq(F)
        /\ Timeout \in Nat /\ Timeout > 0 /\ None \notin Nat
        /\ ForwardLimit \in Nat /\ MaxOld \in Nat /\ MaxFaults \in Nat
    BY AgentAssumption DEF TypeOK
  <2>a. /\ 0 \in 0..(Timeout + 1) /\ 1 \in 0..(Timeout + 1) /\ 0 \in 0..Timeout
        /\ 0 \in 0..MaxOld /\ 0 \in 0..ForwardLimit
        /\ TRUE \in BOOLEAN /\ FALSE \in BOOLEAN
    BY <2>0
  <2>b. /\ faults < MaxFaults => faults + 1 \in 0..MaxFaults
        /\ old > 0 => old - 1 \in 0..MaxOld
    BY <2>0 DEF TypeOK
  <2>1. CASE Wake
    BY <2>1 DEF Wake, TypeOK
  <2>2. CASE Connect
    <3>1. old' \in 0..MaxOld
      BY <2>2, <2>0 DEF Connect, TypeOK
    <3> QED  BY <2>2, <2>a, <3>1 DEF Connect, TypeOK
  <2>3. CASE ConnectFails \/ LinkFails
    <3>1. SessionEnds /\ UNCHANGED <<gateVars, faults, occupied>>
      BY <2>3 DEF ConnectFails, LinkFails
    <3>2. <<>> \in Seq(F) /\ 0 \in 0..ForwardLimit
      BY <2>0, InboxType
    <3> QED  BY <3>1, <3>2, SessionEndsType DEF TypeOK
  <2>4. CASE AnswerPing
    <3>1. Tail(inbox) \in Seq(F)
      BY <2>0, <2>4, InboxType DEF AnswerPing, Reading
    <3>2. pong' \in BOOLEAN /\ sent' \in BOOLEAN
      BY <2>4 DEF AnswerPing
    <3> QED  BY <2>4, <3>1, <3>2 DEF AnswerPing, TypeOK
  <2>5. CASE StartForward
    <3>1. Tail(inbox) \in Seq(F)
      BY <2>0, <2>5, InboxType DEF StartForward, Reading
    <3> QED  BY <2>0, <2>5, <3>1 DEF StartForward, TypeOK
  <2>6. CASE Reply
    <3>1. sent' \in BOOLEAN
      BY <2>6 DEF Reply
    <3> QED  BY <2>0, <2>6, <3>1 DEF Reply, TypeOK
  <2>7. CASE Heartbeat
    <3>1. Append(inbox, "ping") \in Seq(F)
      BY <2>0, InboxType
    <3>2. inbox' \in Seq(F)
      BY <2>0, <2>7, <3>1 DEF Heartbeat
    <3> QED  BY <2>7, <3>2 DEF Heartbeat, TypeOK
  <2>8. CASE TakePong
    BY <2>8, <2>a DEF TakePong, TypeOK
  <2>9. CASE SendRequest
    <3>1. Append(inbox, "request") \in Seq(F)
      BY <2>0, InboxType
    <3>2. inbox' \in Seq(F)
      BY <2>0, <2>9, <3>1 DEF SendRequest
    <3> QED  BY <2>9, <3>2 DEF SendRequest, TypeOK
  <2>10. CASE SocketEnds
    BY <2>10 DEF SocketEnds, TypeOK
  <2>11. CASE Unregister
    BY <2>11 DEF Unregister, TypeOK
  <2>12. CASE OldUnregisters
    BY <2>12, <2>b DEF OldUnregisters, TypeOK
  <2>13. CASE TokenExpires
    BY <2>13 DEF TokenExpires, TypeOK
  <2>14. CASE GatewayRestarts
    BY <2>14, <2>a, <2>b DEF GatewayRestarts, TypeOK
  <2>15. CASE LinkLost
    BY <2>15, <2>a, <2>b DEF LinkLost, TypeOK
  <2>16. CASE Tick
    <3>1. age' \in 0..(Timeout + 1) \cup {None}
      <4>1. age # None => age \in Nat
        BY DEF TypeOK
      <4>2. age # None => Lesser(age + 1, Timeout + 1) \in 0..(Timeout + 1)
        BY <2>0, <4>1 DEF Lesser
      <4> QED  BY <2>16, <4>2 DEF Tick, Present
    <3>2. busy' \in 0..ForwardLimit
      BY <2>0, <2>16 DEF Tick, TypeOK
    <3>3. occupied' \in 0..Timeout
      <4>1. Lesser(occupied + 1, Timeout) \in 0..Timeout
        BY <2>0 DEF TypeOK, Lesser
      <4> QED  BY <2>0, <2>16, <4>1 DEF Tick
    <3>4. due' \in BOOLEAN
      BY <2>16 DEF Tick
    <3> QED  BY <2>16, <3>1, <3>2, <3>3, <3>4 DEF Tick, TypeOK
  <2>17. CASE UNCHANGED vars
    BY <2>17 DEF vars, TypeOK
  <2> QED
    BY <2>1, <2>2, <2>3, <2>4, <2>5, <2>6, <2>7, <2>8, <2>9, <2>10, <2>11,
       <2>12, <2>13, <2>14, <2>15, <2>16, <2>17 DEF Next, AgentStep
<1> QED
  BY <1>1, <1>2, PTL DEF Spec
-----------------------------------------------------------------------------
(* The heartbeat.                                                          *)

\* A link is up only between the agent's connect and the end of its session.
LEMMA LinkInvariant == Spec => []LinkInv
<1> USE DEF agentVars, linkVars, gateVars, history
<1>1. Init => LinkInv
  BY DEF Init, LinkInv
<1>2. TypeOK /\ LinkInv /\ [Next]_vars => LinkInv'
  <2> SUFFICES ASSUME TypeOK, LinkInv, [Next]_vars
               PROVE  LinkInv'
    OBVIOUS
  <2>1. CASE AgentStep
    <3>1. CASE ConnectFails \/ LinkFails
      BY <3>1, SessionEndsType DEF ConnectFails, LinkFails, LinkInv
    <3> QED
      BY <2>1, <3>1 DEF AgentStep, Wake, Connect, AnswerPing, StartForward, Reply,
                        Reading, LinkInv
  <2>2. CASE Heartbeat \/ TakePong \/ SendRequest \/ SocketEnds \/ Unregister
               \/ OldUnregisters \/ TokenExpires \/ GatewayRestarts
    BY <2>2 DEF Heartbeat, TakePong, SendRequest, SocketEnds, Unregister,
                OldUnregisters, TokenExpires, GatewayRestarts, LinkInv
  <2>3. CASE LinkLost \/ Tick \/ UNCHANGED vars
    BY <2>3 DEF LinkLost, Tick, vars, LinkInv
  <2> QED  BY <2>1, <2>2, <2>3 DEF Next
<1> QED
  BY <1>1, <1>2, AgentTypeCorrect, PTL DEF Spec

\* Over a working link a record grows old only while a forward is under way.
LEMMA FreshInvariant == Spec => []FreshInv
<1> USE DEF agentVars, linkVars, gateVars, history
<1>1. Init => FreshInv
  BY DEF Init, FreshInv
<1>2. TypeOK /\ LinkInv /\ FreshInv /\ [Next]_vars => FreshInv'
  <2> SUFFICES ASSUME TypeOK, LinkInv, FreshInv, [Next]_vars,
                      hand' = "loop", link' = "up", age' # None
               PROVE  /\ age' =< occupied' + 2
                      /\ ~Outstanding' /\ ~due' => age' =< 1
    BY DEF FreshInv, Present
  <2> DEFINE F == {"ping", "request"}
  <2>0. /\ inbox \in Seq(F) /\ Len(inbox) \in Nat
        /\ Timeout \in Nat /\ Timeout > 0
        /\ occupied \in Nat /\ occupied =< Timeout
        /\ age # None => age \in Nat
    <3>1. inbox \in Seq(F) /\ occupied \in 0..Timeout
            /\ age \in 0..(Timeout + 1) \cup {None}
      BY DEF TypeOK
    <3>2. Timeout \in Nat /\ Timeout > 0
      BY AgentAssumption
    <3>3. Len(inbox) \in Nat
      BY <3>1
    <3> QED  BY <3>1, <3>2, <3>3
  <2>1. ASSUME hand = "loop", link = "up", age # None
        PROVE  /\ age =< occupied + 2
               /\ ~Outstanding /\ ~due => age =< 1
    BY <2>1 DEF FreshInv, Present
  <2>2. ASSUME UNCHANGED <<hand, link, age, occupied, due>>, Outstanding => Outstanding'
        PROVE  /\ age' =< occupied' + 2
               /\ ~Outstanding' /\ ~due' => age' =< 1
    BY <2>1, <2>2
  <2>3. ASSUME UNCHANGED <<pong, inbox>>
        PROVE  Outstanding => Outstanding'
    BY <2>3 DEF Outstanding
  <2>4. CASE Connect
    BY <2>4, <2>0 DEF Connect
  <2>5. CASE ConnectFails \/ LinkFails
    BY <2>5, SessionEndsType DEF ConnectFails, LinkFails
  <2>6. CASE Wake \/ Reply \/ TokenExpires \/ UNCHANGED vars
    <3>1. UNCHANGED <<hand, link, age, occupied, due, pong, inbox>>
      BY <2>6 DEF Wake, Reply, TokenExpires, vars
    <3> QED  BY <2>2, <2>3, <3>1
  <2>7. CASE AnswerPing
    <3>1. UNCHANGED <<hand, link, age, occupied, due>> /\ pong'
      BY <2>7 DEF AnswerPing
    <3> QED  BY <2>2, <3>1 DEF Outstanding
  <2>8. CASE StartForward
    <3>1. /\ UNCHANGED <<hand, link, age, occupied, due, pong>>
          /\ inbox # <<>> /\ Head(inbox) = "request" /\ inbox' = Tail(inbox)
      BY <2>8 DEF StartForward, Reading
    <3>2. ASSUME NEW i \in 1..Len(inbox), inbox[i] = "ping"
          PROVE  \E j \in 1..Len(inbox') : inbox'[j] = "ping"
      <4>1. Head(inbox) # "ping"
        BY <3>1
      <4> QED  BY <2>0, <3>1, <3>2, <4>1, PingStays
    <3>3. Outstanding => Outstanding'
      BY <3>1, <3>2 DEF Outstanding
    <3> QED  BY <2>2, <3>1, <3>3
  <2>9. CASE Heartbeat
    <3>1. /\ UNCHANGED <<link, age, occupied, pong>>
          /\ hand = "loop" /\ inbox' = Append(inbox, "ping")
      BY <2>9 DEF Heartbeat
    <3>2. /\ Len(inbox') = Len(inbox) + 1
          /\ inbox'[Len(inbox) + 1] = "ping"
      BY <2>0, <3>1, PingSent
    <3>3. Outstanding'
      BY <2>0, <3>2 DEF Outstanding
    <3> QED  BY <2>1, <3>1, <3>3
  <2>10. CASE TakePong
    <3>1. age' = 0 /\ occupied' = occupied
      BY <2>10 DEF TakePong, Present
    <3> QED  BY <2>0, <3>1
  <2>11. CASE SendRequest
    <3>1. /\ UNCHANGED <<hand, link, age, occupied, due, pong>>
          /\ inbox' = Append(inbox, "request")
      BY <2>11 DEF SendRequest
    <3>2. /\ Len(inbox') = Len(inbox) + 1
          /\ \A i \in 1..Len(inbox) : inbox'[i] = inbox[i]
      BY <2>0, <3>1, PingSent
    <3>3. \A i \in 1..Len(inbox) : i \in 1..Len(inbox')
      BY <2>0, <3>2
    <3>4. Outstanding => Outstanding'
      BY <3>1, <3>2, <3>3 DEF Outstanding
    <3> QED  BY <2>2, <3>1, <3>4
  <2>12. CASE SocketEnds \/ Unregister \/ OldUnregisters \/ GatewayRestarts \/ LinkLost
    BY <2>12 DEF SocketEnds, Unregister, OldUnregisters, GatewayRestarts, LinkLost
  <2>13. CASE Tick
    <3>1. /\ ~due /\ due' = TRUE
          /\ UNCHANGED <<hand, link>>
          /\ ~Reading /\ ~pong
          /\ age' = Lesser(age + 1, Timeout + 1)
          /\ occupied' = IF apc = "forwarding" THEN Lesser(occupied + 1, Timeout) ELSE 0
          /\ age # None
      BY <2>13 DEF Tick, Present
    <3>2. age \in Nat /\ age =< occupied + 2
      BY <2>0, <2>1, <3>1
    <3>3. CASE apc = "forwarding"
      BY <2>0, <3>1, <3>2, <3>3 DEF Lesser
    <3>4. CASE apc # "forwarding"
      <4>1. inbox = <<>>
        BY <3>1, <3>4 DEF LinkInv, Reading
      <4>2. ~Outstanding
        BY <3>1, <4>1 DEF Outstanding
      <4>3. age =< 1
        BY <2>1, <3>1, <4>2
      <4> QED  BY <2>0, <3>1, <3>2, <3>4, <4>3 DEF Lesser
    <3> QED  BY <3>3, <3>4
  <2> QED
    BY <2>4, <2>5, <2>6, <2>7, <2>8, <2>9, <2>10, <2>11, <2>12, <2>13
    DEF Next, AgentStep
<1> QED
  BY <1>1, <1>2, AgentTypeCorrect, LinkInvariant, PTL DEF Spec

\* handle_ingress_socket drops an agent over a working link only when its
\* record was removed, or when forwards kept it from its pings for Timeout - 1
\* intervals: for every timeout, an agent that reads its frames is kept.
THEOREM KeptSafe == Spec => KeptWhileAnswering
<1> USE DEF agentVars, linkVars, gateVars, history
<1>1. TypeOK /\ FreshInv /\ [Next]_vars =>
        [hand = "loop" /\ hand' = "dropped" /\ link = "up" /\ Present
           => occupied >= Timeout - 1]_vars
  <2> SUFFICES ASSUME TypeOK, FreshInv, [Next]_vars,
                      hand = "loop", hand' = "dropped", link = "up", Present
               PROVE  occupied >= Timeout - 1
    OBVIOUS
  <2>1. /\ Timeout \in Nat /\ occupied \in Nat /\ age \in Nat
        /\ age =< occupied + 2
    BY AgentAssumption DEF TypeOK, Present, FreshInv
  <2>2. CASE Heartbeat
    <3>1. age > Timeout
      BY <2>2 DEF Heartbeat, Stale
    <3> QED  BY <2>1, <3>1
  <2>3. CASE ConnectFails \/ LinkFails
    BY <2>3 DEF ConnectFails, LinkFails
  <2> QED
    BY <2>2, <2>3 DEF Next, AgentStep, Wake, Connect, AnswerPing, StartForward,
       Reply, TakePong, SendRequest, SocketEnds, Unregister, OldUnregisters,
       TokenExpires, GatewayRestarts, LinkLost, Tick, vars
<1> QED
  BY <1>1, AgentTypeCorrect, FreshInvariant, PTL DEF Spec, KeptWhileAnswering
=============================================================================
