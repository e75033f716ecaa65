---------------------------- MODULE IngressProofs ----------------------------
(***************************************************************************)
(* Proofs about Ingress for any number of agents, connections, reconnects  *)
(* and forwards: the registry never shows a dead agent, and nobody who     *)
(* waits for an answer is forgotten.                                       *)
(***************************************************************************)
EXTENDS Ingress, TLAPS

USE IngressAssumption

\* The part of the type invariant that the registry's maps need.
MapsOK ==
    /\ tunnels \in [Agents -> Conns \cup {None}]
    /\ agents \in [Agents -> Conns \cup {None}]
    /\ hpc \in [Conns -> {"idle", "registering", "loop", "leaving", "removing",
                          "ended"}]

\* The two maps and the handlers' places, which the proofs follow.
RegistryInv == MapsOK /\ ListedIsLive /\ TunnelIsLive

\* A step that leaves the maps and the handlers alone keeps the invariant.
LEMMA RegistryKept ==
    ASSUME RegistryInv, UNCHANGED handlers
    PROVE  RegistryInv'
<1> QED  BY DEF RegistryInv, MapsOK, ListedIsLive, TunnelIsLive, handlers

\* The registry lists only agents whose handler has still to clean up, and hands
\* out only senders whose channel still has an owner.  A handler removes both
\* entries of its agent id, its own or a newer connection's, before it ends.
THEOREM RegistrySafe == Spec => [](ListedIsLive /\ TunnelIsLive)
<1>1. Init => RegistryInv
  BY DEF Init, RegistryInv, MapsOK, ListedIsLive, TunnelIsLive
<1>2. RegistryInv /\ [Next]_vars => RegistryInv'
  <2> SUFFICES ASSUME RegistryInv, [Next]_vars
               PROVE  RegistryInv'
    OBVIOUS
  <2> USE DEF RegistryInv, MapsOK, ListedIsLive, TunnelIsLive
  <2>1. ASSUME NEW c \in Conns, Connect(c)
        PROVE  RegistryInv'
    BY <2>1 DEF Connect
  <2>2. ASSUME NEW c \in Conns, Registered(c)
        PROVE  RegistryInv'
    BY <2>2 DEF Registered
  <2>3. ASSUME NEW c \in Conns, TakeRequest(c)
        PROVE  RegistryInv'
    BY <2>3 DEF TakeRequest
  <2>4. ASSUME NEW c \in Conns, LeaveLoop(c)
        PROVE  RegistryInv'
    BY <2>4 DEF LeaveLoop
  <2>5. ASSUME NEW c \in Conns, RemoveRecord(c)
        PROVE  RegistryInv'
    BY <2>5 DEF RemoveRecord
  <2>6. ASSUME NEW c \in Conns, RemoveTunnel(c)
        PROVE  RegistryInv'
    <3>1. /\ hpc[c] = "removing"
          /\ hpc' = [hpc EXCEPT ![c] = "ended"]
          /\ tunnels' = [tunnels EXCEPT ![AgentOf[c]] = None]
          /\ agents' = agents
      BY <2>6 DEF RemoveTunnel
    <3> QED  BY <3>1
  <2>7. ASSUME NEW c \in Conns,
               \/ AgentReplies(c) \/ AgentStalls(c) \/ AgentResumes(c) \/ AgentLeaves(c)
               \/ TakeReply(c)
        PROVE  RegistryInv'
    <3>1. UNCHANGED handlers
      BY <2>7 DEF AgentReplies, AgentStalls, AgentResumes, AgentLeaves, TakeReply
    <3> QED  BY <3>1, RegistryKept
  <2>8. ASSUME NEW f \in Forwards, Lookup(f) \/ TrySend(f) \/ TimeOut(f)
        PROVE  RegistryInv'
    <3>1. UNCHANGED handlers
      BY <2>8 DEF Lookup, TrySend, TimeOut
    <3> QED  BY <3>1, RegistryKept
  <2>9. CASE UNCHANGED vars
    BY <2>9 DEF vars
  <2> QED
    BY <2>1, <2>2, <2>3, <2>4, <2>5, <2>6, <2>7, <2>8, <2>9
       DEF Next, HandlerStep
<1>3. RegistryInv => ListedIsLive /\ TunnelIsLive
  BY DEF RegistryInv
<1> QED
  BY <1>1, <1>2, <1>3, PTL DEF Spec

-----------------------------------------------------------------------------
(* Type correctness.                                                       *)

\* Whoever holds or used a sender got it from the registry.
HolderInv ==
    \A f \in Forwards : fpc[f] \in {"holding", "waiting"} => via[f] \in Conns

\* A queue with one more is a queue.
LEMMA AppendType ==
    ASSUME NEW S, NEW s \in Seq(S), NEW e \in S
    PROVE  Append(s, e) \in Seq(S) /\ Len(Append(s, e)) = Len(s) + 1 /\ Len(s) \in Nat
<1> QED  OBVIOUS

\* So is its tail.
LEMMA TailType ==
    ASSUME NEW S, NEW s \in Seq(S), s # <<>>
    PROVE  /\ Head(s) \in S /\ Tail(s) \in Seq(S)
           /\ Len(s) \in Nat /\ Len(Tail(s)) = Len(s) - 1
<1> QED  OBVIOUS

\* The empty queue is one of any type.
LEMMA EmptyType ==
    ASSUME NEW S
    PROVE  <<>> \in Seq(S) /\ Len(<<>>) = 0
<1> QED  OBVIOUS

\* Every variable keeps its type, and in particular no channel of a tunnel ever
\* holds more than TUNNEL_QUEUE_DEPTH requests (try_send refuses the next one).
THEOREM IngressTypeCorrect == Spec => [](TypeOK /\ HolderInv)
<1>1. Init => TypeOK /\ HolderInv
  BY DEF Init, TypeOK, HolderInv
<1>2. TypeOK /\ HolderInv /\ [Next]_vars => TypeOK' /\ HolderInv'
  <2> SUFFICES ASSUME TypeOK, HolderInv, [Next]_vars
               PROVE  TypeOK' /\ HolderInv'
    OBVIOUS
  <2> USE DEF TypeOK, HolderInv, handlers, links, Outcomes
  <2>1. ASSUME NEW c \in Conns, Connect(c)
        PROVE  TypeOK' /\ HolderInv'
    BY <2>1 DEF Connect
  <2>2. ASSUME NEW c \in Conns, AgentReplies(c)
        PROVE  TypeOK' /\ HolderInv'
    <3>1. toAgent[c] \in Seq(Forwards) /\ toGate[c] \in Seq(Forwards)
      OBVIOUS
    <3>2. /\ Tail(toAgent[c]) \in Seq(Forwards)
          /\ Append(toGate[c], Head(toAgent[c])) \in Seq(Forwards)
      <4>1. toAgent[c] # <<>>
        BY <2>2 DEF AgentReplies
      <4>2. Head(toAgent[c]) \in Forwards /\ Tail(toAgent[c]) \in Seq(Forwards)
        BY <3>1, <4>1, TailType
      <4> QED  BY <3>1, <4>2, AppendType
    <3>3. /\ toAgent' \in [Conns -> Seq(Forwards)]
          /\ toGate' \in [Conns -> Seq(Forwards)]
      BY <2>2, <3>2 DEF AgentReplies
    <3>4. UNCHANGED <<handlers, sock, queue, pending, fpc, via>>
      BY <2>2 DEF AgentReplies
    <3> QED  BY <3>3, <3>4
  <2>3. ASSUME NEW c \in Conns, AgentStalls(c) \/ AgentResumes(c) \/ AgentLeaves(c)
        PROVE  TypeOK' /\ HolderInv'
    BY <2>3 DEF AgentStalls, AgentResumes, AgentLeaves
  <2>4. ASSUME NEW c \in Conns, Registered(c) \/ LeaveLoop(c) \/ RemoveRecord(c)
        PROVE  TypeOK' /\ HolderInv'
    <3>1. UNCHANGED <<tunnels, links, queue, pending, fpc, via>>
      BY <2>4 DEF Registered, LeaveLoop, RemoveRecord
    <3>2. /\ \E p \in {"loop", "leaving", "removing"} : hpc' = [hpc EXCEPT ![c] = p]
          /\ \E d \in {c, None} : agents' = [agents EXCEPT ![AgentOf[c]] = d]
               \/ agents' = agents
      <4>1. CASE Registered(c)
        BY <4>1 DEF Registered
      <4>2. CASE LeaveLoop(c)
        BY <4>2 DEF LeaveLoop
      <4>3. CASE RemoveRecord(c)
        BY <4>3 DEF RemoveRecord
      <4> QED  BY <2>4, <4>1, <4>2, <4>3
    <3>3. agents' \in [Agents -> Conns \cup {None}]
      <4>1. ASSUME NEW d \in Conns \cup {None}, agents' = [agents EXCEPT ![AgentOf[c]] = d]
            PROVE  agents' \in [Agents -> Conns \cup {None}]
        BY <4>1
      <4>2. CASE agents' = agents
        BY <4>2
      <4> QED  BY <3>2, <4>1, <4>2
    <3>4. hpc' \in [Conns -> {"idle", "registering", "loop", "leaving",
                              "removing", "ended"}]
      BY <3>2
    <3> QED  BY <3>1, <3>3, <3>4
  <2>5. ASSUME NEW c \in Conns, TakeRequest(c)
        PROVE  TypeOK' /\ HolderInv'
    <3>0. queue[c] \in Seq(Forwards) /\ toAgent[c] \in Seq(Forwards) /\ queue[c] # <<>>
      BY <2>5 DEF TakeRequest
    <3>1. /\ Head(queue[c]) \in Forwards
          /\ Tail(queue[c]) \in Seq(Forwards)
          /\ Len(Tail(queue[c])) = Len(queue[c]) - 1 /\ Len(queue[c]) \in Nat
      BY <3>0, TailType
    <3>7. Append(toAgent[c], Head(queue[c])) \in Seq(Forwards)
      BY <3>0, <3>1, AppendType
    <3>8. Len(Tail(queue[c])) =< QueueDepth
      <4>1. Len(queue[c]) =< QueueDepth /\ QueueDepth \in Nat
        OBVIOUS
      <4> HIDE DEF TypeOK, HolderInv
      <4> QED  BY <3>1, <4>1
    <3>2. /\ queue' = [queue EXCEPT ![c] = Tail(queue[c])]
          /\ pending' = [pending EXCEPT ![c] = pending[c] \cup {Head(queue[c])}]
          /\ \/ toAgent' = [toAgent EXCEPT ![c] = Append(toAgent[c], Head(queue[c]))]
                  /\ hpc' = hpc
             \/ hpc' = [hpc EXCEPT ![c] = "leaving"] /\ toAgent' = toAgent
          /\ UNCHANGED <<tunnels, agents, sock, toGate, fpc, via>>
      BY <2>5 DEF TakeRequest
    <3>3. queue' \in [Conns -> Seq(Forwards)] /\ \A d \in Conns : Len(queue'[d]) =< QueueDepth
      BY <3>1, <3>2, <3>8
    <3>4. pending' \in [Conns -> SUBSET Forwards]
      BY <3>1, <3>2
    <3>5. toAgent' \in [Conns -> Seq(Forwards)]
      BY <3>2, <3>7
    <3>6. hpc' \in [Conns -> {"idle", "registering", "loop", "leaving", "removing",
                              "ended"}]
      BY <3>2
    <3> QED  BY <3>2, <3>3, <3>4, <3>5, <3>6
  <2>6. ASSUME NEW c \in Conns, TakeReply(c)
        PROVE  TypeOK' /\ HolderInv'
    <3> DEFINE f == Head(toGate[c])
    <3>0. toGate[c] \in Seq(Forwards) /\ toGate[c] # <<>>
      BY <2>6 DEF TakeReply
    <3>1. f \in Forwards /\ Tail(toGate[c]) \in Seq(Forwards)
      BY <3>0, TailType
    <3>2. /\ toGate' = [toGate EXCEPT ![c] = Tail(toGate[c])]
          /\ pending' = [pending EXCEPT ![c] = pending[c] \ {f}]
          /\ fpc' = [fpc EXCEPT ![f] = "ok"] \/ fpc' = fpc
          /\ UNCHANGED <<handlers, sock, toAgent, queue, via>>
      BY <2>6 DEF TakeReply
    <3> HIDE DEF f
    <3>3. toGate' \in [Conns -> Seq(Forwards)]
      BY <3>1, <3>2
    <3>4. pending' \in [Conns -> SUBSET Forwards]
      BY <3>2
    <3>5. /\ fpc' \in [Forwards -> {"new", "holding", "waiting"} \cup Outcomes]
          /\ \A g \in Forwards : fpc'[g] = fpc[g] \/ fpc'[g] = "ok"
      BY <3>1, <3>2
    <3> QED  BY <3>2, <3>3, <3>4, <3>5
  <2>7. ASSUME NEW c \in Conns, RemoveTunnel(c)
        PROVE  TypeOK' /\ HolderInv'
    <3>1. UNCHANGED <<agents, via>>
      BY <2>7 DEF RemoveTunnel
    <3>2. /\ tunnels' \in [Agents -> Conns \cup {None}]
          /\ hpc' \in [Conns -> {"idle", "registering", "loop", "leaving",
                                 "removing", "ended"}]
          /\ sock' \in [Conns -> {"none", "up", "silent", "down"}]
      BY <2>7 DEF RemoveTunnel
    <3>3. /\ queue' = [queue EXCEPT ![c] = <<>>]
          /\ pending' = [pending EXCEPT ![c] = {}]
          /\ toAgent' = [toAgent EXCEPT ![c] = <<>>]
          /\ toGate' = [toGate EXCEPT ![c] = <<>>]
      BY <2>7 DEF RemoveTunnel
    <3>5. /\ queue' \in [Conns -> Seq(Forwards)]
          /\ \A d \in Conns : Len(queue'[d]) =< QueueDepth
      <4> DEFINE e == <<>>
      <4>1. e \in Seq(Forwards) /\ Len(e) = 0
        BY EmptyType
      <4>3. 0 =< QueueDepth
        <5>1. QueueDepth \in Nat
          OBVIOUS
        <5> HIDE IngressAssumption DEF TypeOK, HolderInv
        <5> QED  BY <5>1
      <4>2. queue' = [queue EXCEPT ![c] = e]
        BY <3>3
      <4> HIDE DEF e
      <4> QED  BY <4>1, <4>2, <4>3
    <3>7. /\ pending' \in [Conns -> SUBSET Forwards]
          /\ toAgent' \in [Conns -> Seq(Forwards)]
          /\ toGate' \in [Conns -> Seq(Forwards)]
      BY <3>3, EmptyType
    <3>6. /\ fpc' \in [Forwards -> {"new", "holding", "waiting"} \cup Outcomes]
          /\ \A g \in Forwards : fpc'[g] = fpc[g] \/ fpc'[g] = "agent dropped"
      BY <2>7 DEF RemoveTunnel
    <3> QED  BY <3>1, <3>2, <3>5, <3>6, <3>7
  <2>8. ASSUME NEW f \in Forwards, Lookup(f)
        PROVE  TypeOK' /\ HolderInv'
    <3>1. tunnels[TargetOf[f]] \in Conns \cup {None}
      OBVIOUS
    <3>2. CASE tunnels[TargetOf[f]] = None
      BY <2>8, <3>2 DEF Lookup
    <3>3. CASE tunnels[TargetOf[f]] \in Conns
      BY <2>8, <3>3 DEF Lookup
    <3> QED  BY <3>1, <3>2, <3>3
  <2>9. ASSUME NEW f \in Forwards, TrySend(f)
        PROVE  TypeOK' /\ HolderInv'
    <3>1. via[f] \in Conns /\ UNCHANGED <<handlers, links, pending, via>>
      BY <2>9 DEF TrySend
    <3>2. /\ fpc' \in [Forwards -> {"new", "holding", "waiting"} \cup Outcomes]
          /\ \A g \in Forwards : g # f => fpc'[g] = fpc[g]
      <4>1. \E o \in {"agent disconnected", "agent overloaded", "waiting"} :
              fpc' = [fpc EXCEPT ![f] = o]
        BY <2>9 DEF TrySend
      <4> QED  BY <4>1
    <3>3. CASE queue' = queue
      BY <3>1, <3>2, <3>3
    <3>4. CASE /\ ~Full(via[f])
               /\ queue' = [queue EXCEPT ![via[f]] = Append(queue[via[f]], f)]
      <4>1. queue[via[f]] \in Seq(Forwards)
        BY <3>1
      <4>2. /\ Append(queue[via[f]], f) \in Seq(Forwards)
            /\ Len(Append(queue[via[f]], f)) = Len(queue[via[f]]) + 1
            /\ Len(queue[via[f]]) \in Nat
        BY <4>1, AppendType
      <4>3. Len(Append(queue[via[f]], f)) =< QueueDepth
        <5>1. ~(Len(queue[via[f]]) >= QueueDepth) /\ QueueDepth \in Nat
          BY <3>4 DEF Full
        <5> HIDE DEF TypeOK, HolderInv
        <5> QED  BY <4>2, <5>1
      <4> QED  BY <3>1, <3>2, <3>4, <4>2, <4>3
    <3> QED  BY <2>9, <3>3, <3>4 DEF TrySend
  <2>10. ASSUME NEW f \in Forwards, TimeOut(f)
         PROVE  TypeOK' /\ HolderInv'
    BY <2>10 DEF TimeOut
  <2>11. CASE UNCHANGED vars
    BY <2>11 DEF vars
  <2> QED
    BY <2>1, <2>2, <2>3, <2>4, <2>5, <2>6, <2>7, <2>8, <2>9, <2>10, <2>11
       DEF Next, HandlerStep
<1> QED
  BY <1>1, <1>2, PTL DEF Spec

-----------------------------------------------------------------------------
(* Nobody is forgotten.                                                    *)

\* What a queue holds, after one is added and after the first is taken.
LEMMA QueueContents ==
    ASSUME NEW S, NEW s \in Seq(S), NEW e \in S
    PROVE  /\ \A i \in 1..Len(s) : \E j \in 1..Len(Append(s, e)) : Append(s, e)[j] = s[i]
           /\ \E j \in 1..Len(Append(s, e)) : Append(s, e)[j] = e
           /\ s # <<>> => \A i \in 1..Len(s) :
                s[i] = Head(s) \/ \E j \in 1..Len(Tail(s)) : Tail(s)[j] = s[i]
<1>1. \A i \in 1..Len(s) : i \in 1..Len(Append(s, e)) /\ Append(s, e)[i] = s[i]
  OBVIOUS
<1>2. Len(s) + 1 \in 1..Len(Append(s, e)) /\ Append(s, e)[Len(s) + 1] = e
  OBVIOUS
<1>3. ASSUME s # <<>>, NEW i \in 1..Len(s), i # 1
      PROVE  i - 1 \in 1..Len(Tail(s)) /\ Tail(s)[i - 1] = s[i]
  BY <1>3
<1>4. s # <<>> => Head(s) = s[1]
  OBVIOUS
<1> QED  BY <1>1, <1>2, <1>3, <1>4

\* A send adds to what a channel holds; a receive moves the first one out.
LEMMA QueuedAfter ==
    ASSUME NEW c \in Conns, queue[c] \in Seq(Forwards)
    PROVE  /\ \A f \in Forwards : queue'[c] = Append(queue[c], f) =>
                f \in Queued(c)' /\ Queued(c) \subseteq Queued(c)'
           /\ queue[c] # <<>> /\ queue'[c] = Tail(queue[c]) =>
                Queued(c) \subseteq {Head(queue[c])} \cup Queued(c)'
<1>0. /\ \A x : x \in Queued(c) <=> \E i \in 1..Len(queue[c]) : x = queue[c][i]
      /\ \A x : x \in Queued(c)' <=> \E i \in 1..Len(queue'[c]) : x = queue'[c][i]
  BY DEF Queued
<1>1. ASSUME NEW f \in Forwards, queue'[c] = Append(queue[c], f)
      PROVE  f \in Queued(c)' /\ Queued(c) \subseteq Queued(c)'
  <2> DEFINE s == queue[c]
             t == Append(s, f)
  <2>1. /\ \A i \in 1..Len(s) : \E j \in 1..Len(t) : t[j] = s[i]
        /\ \E j \in 1..Len(t) : t[j] = f
    BY QueueContents
  <2>2. /\ \A x : x \in Queued(c) <=> \E i \in 1..Len(s) : x = s[i]
        /\ \A x : x \in Queued(c)' <=> \E i \in 1..Len(t) : x = t[i]
    BY <1>0, <1>1
  <2> HIDE DEF s, t
  <2> QED  BY <2>1, <2>2
<1>2. ASSUME queue[c] # <<>>, queue'[c] = Tail(queue[c])
      PROVE  Queued(c) \subseteq {Head(queue[c])} \cup Queued(c)'
  <2> DEFINE s == queue[c]
             t == Tail(s)
  <2>1. Head(queue[c]) \in Forwards
    BY <1>2, TailType
  <2>2. \A i \in 1..Len(s) : s[i] = Head(queue[c]) \/ \E j \in 1..Len(t) : t[j] = s[i]
    BY <1>2, <2>1, QueueContents
  <2>3. /\ \A x : x \in Queued(c) <=> \E i \in 1..Len(s) : x = s[i]
        /\ \A x : x \in Queued(c)' <=> \E i \in 1..Len(t) : x = t[i]
    BY <1>0, <1>2
  <2> HIDE DEF s, t
  <2> QED  BY <2>2, <2>3
<1> QED  BY <1>1, <1>2

\* A step that resolves nobody anew keeps a waiting forward known, if it keeps
\* the handler it waits on and what that handler knows.
LEMMA KnownKept ==
    ASSUME TypeOK, HolderInv, NobodyForgotten, via' = via,
           \A f \in Forwards : fpc'[f] = "waiting" =>
               /\ fpc[f] = "waiting"
               /\ hpc'[via[f]] # "ended"
               /\ f \in pending[via[f]] \cup Queued(via[f]) =>
                    f \in pending'[via[f]] \cup Queued(via[f])'
    PROVE  NobodyForgotten'
<1> QED  BY DEF NobodyForgotten, Queued

\* Whoever waits for an answer through the tunnel is in the queue or in the
\* pending map of a handler that has not ended, for any number of connections,
\* reconnects and forwards: a handler that ends drops both, and that wakes
\* everybody who was in them (the oneshot senders go out of scope).
THEOREM NobodyForgottenSafe == Spec => []NobodyForgotten
<1>1. Init => NobodyForgotten
  BY DEF Init, NobodyForgotten
<1>2. TypeOK /\ HolderInv /\ NobodyForgotten /\ [Next]_vars => NobodyForgotten'
  <2> SUFFICES ASSUME TypeOK, HolderInv, NobodyForgotten, [Next]_vars
               PROVE  NobodyForgotten'
    OBVIOUS
  <2> USE DEF handlers, links
  <2>0. \A f \in Forwards : fpc[f] = "waiting" =>
          via[f] \in Conns /\ hpc[via[f]] # "ended"
    BY DEF HolderInv, NobodyForgotten
  <2>1. ASSUME NEW c \in Conns, Connect(c) \/ Registered(c) \/ LeaveLoop(c) \/ RemoveRecord(c)
        PROVE  NobodyForgotten'
    <3>1. /\ UNCHANGED <<queue, pending, fpc, via>>
          /\ \E p \in {"registering", "loop", "leaving", "removing"} :
               hpc' = [hpc EXCEPT ![c] = p]
      BY <2>1 DEF Connect, Registered, LeaveLoop, RemoveRecord
    <3>2. \A d \in Conns : hpc[d] # "ended" => hpc'[d] # "ended"
      BY <3>1 DEF TypeOK
    <3> QED  BY <2>0, <3>1, <3>2, KnownKept DEF Queued
  <2>2. ASSUME NEW c \in Conns,
               \/ AgentReplies(c) \/ AgentStalls(c)
               \/ AgentResumes(c) \/ AgentLeaves(c)
        PROVE  NobodyForgotten'
    <3>1. UNCHANGED <<hpc, queue, pending, fpc, via>>
      BY <2>2 DEF AgentReplies, AgentStalls, AgentResumes, AgentLeaves
    <3> QED  BY <3>1 DEF NobodyForgotten, Queued
  <2>3. ASSUME NEW c \in Conns, TakeRequest(c)
        PROVE  NobodyForgotten'
    <3>0. queue[c] \in Seq(Forwards) /\ queue[c] # <<>>
      BY <2>3 DEF TakeRequest, TypeOK
    <3>1. /\ queue' = [queue EXCEPT ![c] = Tail(queue[c])]
          /\ pending' = [pending EXCEPT ![c] = pending[c] \cup {Head(queue[c])}]
          /\ hpc' = hpc \/ hpc' = [hpc EXCEPT ![c] = "leaving"]
          /\ UNCHANGED <<fpc, via>>
      BY <2>3 DEF TakeRequest
    <3>2. \A d \in Conns : hpc[d] # "ended" => hpc'[d] # "ended"
      BY <3>1 DEF TypeOK
    <3>3. queue'[c] = Tail(queue[c]) /\ pending'[c] = pending[c] \cup {Head(queue[c])}
      BY <3>1 DEF TypeOK
    <3>4. Queued(c) \subseteq {Head(queue[c])} \cup Queued(c)'
      BY <3>0, <3>3, QueuedAfter
    <3>5. pending[c] \cup Queued(c) \subseteq pending'[c] \cup Queued(c)'
      BY <3>3, <3>4
    <3>6. \A d \in Conns : d # c => pending'[d] = pending[d] /\ Queued(d)' = Queued(d)
      BY <3>1 DEF TypeOK, Queued
    <3> QED  BY <2>0, <3>1, <3>2, <3>5, <3>6, KnownKept
  <2>4. ASSUME NEW c \in Conns, TakeReply(c)
        PROVE  NobodyForgotten'
    <3> DEFINE g == Head(toGate[c])
    <3>1. /\ pending' = [pending EXCEPT ![c] = pending[c] \ {g}]
          /\ fpc' = IF g \in pending[c] /\ fpc[g] = "waiting"
                    THEN [fpc EXCEPT ![g] = "ok"] ELSE fpc
          /\ UNCHANGED <<hpc, queue, via>>
      BY <2>4 DEF TakeReply
    <3> HIDE DEF g
    <3>2. ASSUME NEW f \in Forwards, fpc'[f] = "waiting"
          PROVE  /\ fpc[f] = "waiting"
                 /\ f = g => f \notin pending[c]
      BY <3>1, <3>2 DEF TypeOK
    <3>3. ASSUME NEW f \in Forwards, fpc'[f] = "waiting"
          PROVE  f \in pending[via[f]] => f \in pending'[via[f]]
      BY <2>0, <3>1, <3>2, <3>3 DEF TypeOK
    <3> QED  BY <2>0, <3>1, <3>2, <3>3, KnownKept DEF Queued
  <2>5. ASSUME NEW c \in Conns, RemoveTunnel(c)
        PROVE  NobodyForgotten'
    <3>1. /\ hpc' = [hpc EXCEPT ![c] = "ended"]
          /\ queue' = [queue EXCEPT ![c] = <<>>]
          /\ pending' = [pending EXCEPT ![c] = {}]
          /\ fpc' = [f \in Forwards |->
                       IF f \in Orphans(c) THEN "agent dropped" ELSE fpc[f]]
          /\ via' = via
      BY <2>5 DEF RemoveTunnel
    <3>2. ASSUME NEW f \in Forwards, fpc'[f] = "waiting"
          PROVE  fpc[f] = "waiting" /\ via[f] # c
      BY <3>1, <3>2 DEF NobodyForgotten, Orphans
    <3>3. \A d \in Conns : d # c => /\ pending'[d] = pending[d] /\ hpc'[d] = hpc[d]
                                    /\ queue'[d] = queue[d]
      BY <3>1 DEF TypeOK
    <3>4. ASSUME NEW f \in Forwards, fpc'[f] = "waiting"
          PROVE  /\ hpc'[via'[f]] # "ended"
                 /\ f \in pending'[via'[f]] \cup Queued(via[f])'
      <4>1. fpc[f] = "waiting" /\ via[f] \in Conns /\ via[f] # c /\ via' = via
        BY <2>0, <3>1, <3>2, <3>4
      <4>2. hpc[via[f]] # "ended" /\ f \in pending[via[f]] \cup Queued(via[f])
        BY <4>1 DEF NobodyForgotten
      <4> QED  BY <3>3, <4>1, <4>2 DEF Queued
    <3> QED  BY <3>4 DEF NobodyForgotten, Queued
  <2>6. ASSUME NEW f \in Forwards, Lookup(f)
        PROVE  NobodyForgotten'
    <3>1. /\ UNCHANGED <<hpc, queue, pending>>
          /\ \A g \in Forwards : fpc'[g] = "waiting" =>
               g # f /\ fpc[g] = "waiting" /\ via'[g] = via[g]
      BY <2>6 DEF Lookup, TypeOK
    <3> QED  BY <3>1 DEF NobodyForgotten, Queued
  <2>7. ASSUME NEW f \in Forwards, TrySend(f)
        PROVE  NobodyForgotten'
    <3>1. via[f] \in Conns /\ UNCHANGED <<hpc, pending, via>>
      BY <2>7 DEF TrySend, HolderInv
    <3>2. CASE /\ queue' = queue
               /\ \A g \in Forwards : fpc'[g] = "waiting" => fpc[g] = "waiting"
      BY <3>1, <3>2 DEF NobodyForgotten, Queued
    <3>3. CASE /\ hpc[via[f]] # "ended"
               /\ fpc' = [fpc EXCEPT ![f] = "waiting"]
               /\ queue' = [queue EXCEPT ![via[f]] = Append(queue[via[f]], f)]
      <4>1. queue[via[f]] \in Seq(Forwards)
        BY <3>1 DEF TypeOK
      <4>2. queue'[via[f]] = Append(queue[via[f]], f)
        BY <3>1, <3>3 DEF TypeOK
      <4>3. PICK c \in Conns : c = via[f]
        BY <3>1
      <4>4. f \in Queued(c)' /\ Queued(c) \subseteq Queued(c)'
        BY <4>1, <4>2, <4>3, QueuedAfter
      <4>5. \A d \in Conns : d # c => queue'[d] = queue[d]
        BY <3>3, <4>3 DEF TypeOK
      <4>6. \A d \in Conns : Queued(d) \subseteq Queued(d)'
        BY <4>4, <4>5 DEF Queued
      <4>7. ASSUME NEW g \in Forwards, fpc'[g] = "waiting"
            PROVE  \E d \in Conns : /\ via'[g] = d /\ hpc'[d] # "ended"
                                    /\ g \in pending'[d] \cup Queued(d)'
        <5>1. CASE g = f
          BY <3>1, <3>3, <4>3, <4>4, <5>1
        <5>2. CASE g # f
          <6>1. fpc[g] = "waiting" /\ via[g] \in Conns
            BY <2>0, <3>3, <4>7, <5>2 DEF TypeOK
          <6>2. hpc[via[g]] # "ended" /\ g \in pending[via[g]] \cup Queued(via[g])
            BY <6>1 DEF NobodyForgotten
          <6> QED  BY <3>1, <4>6, <6>1, <6>2
        <5> QED  BY <5>1, <5>2
      <4> QED  BY <4>7 DEF NobodyForgotten, Queued
    <3>4. \/ queue' = queue /\ fpc' = [fpc EXCEPT ![f] = "agent disconnected"]
          \/ queue' = queue /\ fpc' = [fpc EXCEPT ![f] = "agent overloaded"]
          \/ /\ hpc[via[f]] # "ended"
             /\ fpc' = [fpc EXCEPT ![f] = "waiting"]
             /\ queue' = [queue EXCEPT ![via[f]] = Append(queue[via[f]], f)]
      BY <2>7 DEF TrySend
    <3> QED  BY <3>2, <3>3, <3>4 DEF TypeOK
  <2>8. ASSUME NEW f \in Forwards, TimeOut(f)
        PROVE  NobodyForgotten'
    <3>1. /\ UNCHANGED <<hpc, queue, pending, via>>
          /\ \A g \in Forwards : fpc'[g] = "waiting" => fpc[g] = "waiting"
      BY <2>8 DEF TimeOut, TypeOK
    <3> QED  BY <3>1 DEF NobodyForgotten, Queued
  <2>9. CASE UNCHANGED vars
    BY <2>9 DEF vars, NobodyForgotten, Queued
  <2> QED
    BY <2>1, <2>2, <2>3, <2>4, <2>5, <2>6, <2>7, <2>8, <2>9
       DEF Next, HandlerStep
<1> QED
  BY <1>1, <1>2, IngressTypeCorrect, PTL DEF Spec
=============================================================================
