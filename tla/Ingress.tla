------------------------------- MODULE Ingress -------------------------------
(***************************************************************************)
(* The reverse tunnel: IngressRegistry (rust/fwllm-gateway/src/ingress.rs),*)
(* the socket handlers that share it (handle_ingress_socket in lib.rs) and *)
(* the forwards that travel through them.                                  *)
(*                                                                         *)
(* Every accepted WebSocket is a connection with its own handler task, its *)
(* own request channel and its own map of pending answers.  The registry   *)
(* maps an agent id to the sender of ONE channel and to one record; the    *)
(* two maps have separate locks, so registering and unregistering are two  *)
(* steps each, and a second connection of the same agent overwrites the    *)
(* entries of the first.                                                   *)
(***************************************************************************)
EXTENDS Naturals, Sequences, FiniteSets

CONSTANTS
    Agents,     \* agent ids
    Conns,      \* WebSocket connections, in any order
    AgentOf,    \* the agent id of each connection's token
    Forwards,   \* forwarded requests
    TargetOf,   \* the agent each of them is for
    None,       \* not an element of Conns
    QueueDepth  \* TUNNEL_QUEUE_DEPTH

ASSUME IngressAssumption ==
    /\ AgentOf \in [Conns -> Agents]
    /\ TargetOf \in [Forwards -> Agents]
    /\ None \notin Conns
    /\ QueueDepth \in Nat \ {0}

VARIABLES
    tunnels,   \* agent id -> the connection whose sender is registered
    agents,    \* agent id -> the connection whose record is listed
    hpc,       \* where each handler task is
    sock,      \* each socket, as its agent left it
    queue,     \* the bounded channel of each handler
    pending,   \* the forwards whose oneshot a handler holds
    toAgent,   \* frames sent to the agent
    toGate,    \* replies sent back
    fpc,       \* the state or the outcome of each forward
    via        \* the connection whose sender a forward cloned

handlers == <<hpc, tunnels, agents>>
links == <<sock, toAgent, toGate>>
vars == <<tunnels, agents, hpc, sock, queue, pending, toAgent, toGate, fpc, via>>

Outcomes == {"ok", "no tunnel", "agent overloaded", "agent disconnected",
             "tunnel timeout", "agent dropped"}

TypeOK ==
    /\ tunnels \in [Agents -> Conns \cup {None}]
    /\ agents \in [Agents -> Conns \cup {None}]
    /\ hpc \in [Conns -> {"idle", "registering", "loop", "leaving", "removing",
                          "ended"}]
    /\ sock \in [Conns -> {"none", "up", "silent", "down"}]
    /\ queue \in [Conns -> Seq(Forwards)]
    /\ \A c \in Conns : Len(queue[c]) =< QueueDepth
    /\ pending \in [Conns -> SUBSET Forwards]
    /\ toAgent \in [Conns -> Seq(Forwards)]
    /\ toGate \in [Conns -> Seq(Forwards)]
    /\ fpc \in [Forwards -> {"new", "holding", "waiting"} \cup Outcomes]
    /\ via \in [Forwards -> Conns \cup {None}]

Init ==
    /\ tunnels = [a \in Agents |-> None]
    /\ agents = [a \in Agents |-> None]
    /\ hpc = [c \in Conns |-> "idle"]
    /\ sock = [c \in Conns |-> "none"]
    /\ queue = [c \in Conns |-> <<>>]
    /\ pending = [c \in Conns |-> {}]
    /\ toAgent = [c \in Conns |-> <<>>]
    /\ toGate = [c \in Conns |-> <<>>]
    /\ fpc = [f \in Forwards |-> "new"]
    /\ via = [f \in Forwards |-> None]

-----------------------------------------------------------------------------
(***************************************************************************)
(* The agent and the network.                                              *)
(***************************************************************************)
Peers(c) == {d \in Conns : AgentOf[d] = AgentOf[c]}

\* The agent connects with a valid token, the upgrade is accepted and
\* register_tunnel replaces the sender, whatever other connections of the agent
\* id are served: one whose end was not noticed, or a second agent process.
Connect(c) ==
    /\ hpc[c] = "idle"
    /\ sock' = [sock EXCEPT ![c] = "up"]
    /\ hpc' = [hpc EXCEPT ![c] = "registering"]
    /\ tunnels' = [tunnels EXCEPT ![AgentOf[c]] = c]
    /\ UNCHANGED <<agents, queue, pending, toAgent, toGate, fpc, via>>

\* The agent serves one frame at a time and replies.
AgentReplies(c) ==
    /\ sock[c] = "up"
    /\ toAgent[c] # <<>>
    /\ toAgent' = [toAgent EXCEPT ![c] = Tail(@)]
    /\ toGate' = [toGate EXCEPT ![c] = Append(@, Head(toAgent[c]))]
    /\ UNCHANGED <<handlers, sock, queue, pending, fpc, via>>

\* The agent stops answering, pings included, without closing the socket.
AgentStalls(c) ==
    /\ sock[c] = "up"
    /\ sock' = [sock EXCEPT ![c] = "silent"]
    /\ UNCHANGED <<handlers, queue, pending, toAgent, toGate, fpc, via>>

\* It answers again: a host that slept, a network that came back.
AgentResumes(c) ==
    /\ sock[c] = "silent"
    /\ sock' = [sock EXCEPT ![c] = "up"]
    /\ UNCHANGED <<handlers, queue, pending, toAgent, toGate, fpc, via>>

\* The agent gives the connection up.
AgentLeaves(c) ==
    /\ sock[c] \in {"up", "silent"}
    /\ sock' = [sock EXCEPT ![c] = "down"]
    /\ UNCHANGED <<handlers, queue, pending, toAgent, toGate, fpc, via>>

-----------------------------------------------------------------------------
(***************************************************************************)
(* The handler task of a connection.                                       *)
(***************************************************************************)

\* The second half of register_tunnel: the agent's record.
Registered(c) ==
    /\ hpc[c] = "registering"
    /\ hpc' = [hpc EXCEPT ![c] = "loop"]
    /\ agents' = [agents EXCEPT ![AgentOf[c]] = c]
    /\ UNCHANGED <<tunnels, links, queue, pending, fpc, via>>

\* rx.recv(): keep the responder, send the frame; a failed send ends the loop.
TakeRequest(c) ==
    /\ hpc[c] = "loop"
    /\ queue[c] # <<>>
    /\ queue' = [queue EXCEPT ![c] = Tail(@)]
    /\ pending' = [pending EXCEPT ![c] = @ \cup {Head(queue[c])}]
    /\ \/ /\ toAgent' = [toAgent EXCEPT ![c] = Append(@, Head(queue[c]))]
          /\ UNCHANGED hpc
       \/ /\ sock[c] = "down"
          /\ hpc' = [hpc EXCEPT ![c] = "leaving"]
          /\ UNCHANGED toAgent
    /\ UNCHANGED <<tunnels, agents, sock, toGate, fpc, via>>

\* A reply frame resolves its forward, if it still waits.
TakeReply(c) ==
    /\ hpc[c] = "loop"
    /\ toGate[c] # <<>>
    /\ LET f == Head(toGate[c]) IN
         /\ toGate' = [toGate EXCEPT ![c] = Tail(@)]
         /\ pending' = [pending EXCEPT ![c] = @ \ {f}]
         /\ fpc' = IF f \in pending[c] /\ fpc[f] = "waiting"
                   THEN [fpc EXCEPT ![f] = "ok"] ELSE fpc
    /\ UNCHANGED <<handlers, sock, toAgent, queue, via>>

\* Slip: the handler keeps a sender of its own channel.
OwnSenderKept(c) == hpc[c] = "loop"

\* The registry's sender, or the clone of a forward, which lives until forward
\* returns.
SenderAlive(c) ==
    \/ tunnels[AgentOf[c]] = c
    \/ \E f \in Forwards : fpc[f] \in {"holding", "waiting"} /\ via[f] = c

\* is_stale looks at the record of the agent id: missing, or touched by none
\* of the agent's connections for HEARTBEAT_TIMEOUT_SECS.
Stale(c) ==
    \/ agents[AgentOf[c]] = None
    \/ \A d \in Peers(c) : hpc[d] = "loop" => sock[d] # "up"

\* Slip: the loop returns instead of falling through to unregister_agent.
LoopReturns(c) ==
    /\ hpc[c] = "loop"
    /\ sock[c] = "down" \/ Stale(c) \/ (queue[c] = <<>> /\ ~SenderAlive(c))
    /\ hpc' = [hpc EXCEPT ![c] = "ended"]
    /\ UNCHANGED <<tunnels, agents, links, queue, pending, fpc, via>>

\* The loop breaks: a closed socket, a channel without senders, a heartbeat.
LeaveLoop(c) ==
    /\ hpc[c] = "loop"
    /\ \/ sock[c] = "down"
       \/ queue[c] = <<>> /\ ~SenderAlive(c)
       \/ Stale(c)
    /\ hpc' = [hpc EXCEPT ![c] = "leaving"]
    /\ UNCHANGED <<tunnels, agents, links, queue, pending, fpc, via>>

\* Slip: only the tunnel is removed.
RecordStays(c) ==
    /\ hpc[c] = "leaving"
    /\ hpc' = [hpc EXCEPT ![c] = "removing"]
    /\ UNCHANGED <<tunnels, agents, links, queue, pending, fpc, via>>

\* unregister_agent, first map: the record of the agent id, whoever wrote it.
RemoveRecord(c) ==
    /\ hpc[c] = "leaving"
    /\ hpc' = [hpc EXCEPT ![c] = "removing"]
    /\ agents' = [agents EXCEPT ![AgentOf[c]] = None]
    /\ UNCHANGED <<tunnels, links, queue, pending, fpc, via>>

Queued(c) == {queue[c][i] : i \in 1..Len(queue[c])}

\* Slips: the channel, or the map of responders, outlives the task.
OrphansInPending(c) == {f \in pending[c] : fpc[f] = "waiting"}
OrphansInQueue(c) == {f \in Queued(c) : fpc[f] = "waiting"}

\* The forwards whose oneshot is dropped with the task's locals.
Orphans(c) == {f \in pending[c] \cup Queued(c) : fpc[f] = "waiting"}

\* Second map, then the task ends: the socket closes, the channel and the
\* pending oneshots are dropped, and whoever waits on them wakes up.
RemoveTunnel(c) ==
    /\ hpc[c] = "removing"
    /\ hpc' = [hpc EXCEPT ![c] = "ended"]
    /\ tunnels' = [tunnels EXCEPT ![AgentOf[c]] = None]
    /\ sock' = [sock EXCEPT ![c] = "down"]
    /\ queue' = [queue EXCEPT ![c] = <<>>]
    /\ pending' = [pending EXCEPT ![c] = {}]
    /\ toAgent' = [toAgent EXCEPT ![c] = <<>>]
    /\ toGate' = [toGate EXCEPT ![c] = <<>>]
    /\ fpc' = [f \in Forwards |->
                 IF f \in Orphans(c) THEN "agent dropped" ELSE fpc[f]]
    /\ UNCHANGED <<agents, via>>

-----------------------------------------------------------------------------
(***************************************************************************)
(* IngressRegistry::forward.                                               *)
(***************************************************************************)

\* Clone the registered sender, if there is one.
Lookup(f) ==
    /\ fpc[f] = "new"
    /\ fpc' = [fpc EXCEPT ![f] = IF tunnels[TargetOf[f]] = None
                                 THEN "no tunnel" ELSE "holding"]
    /\ via' = [via EXCEPT ![f] = tunnels[TargetOf[f]]]
    /\ UNCHANGED <<handlers, links, queue, pending>>

\* Slip: one request too many is let in.
OverFull(c) == Len(queue[c]) > QueueDepth

Full(c) == Len(queue[c]) >= QueueDepth

\* try_send on the clone.
TrySend(f) ==
    /\ fpc[f] = "holding"
    /\ LET c == via[f] IN
         \/ /\ hpc[c] = "ended"
            /\ fpc' = [fpc EXCEPT ![f] = "agent disconnected"]
            /\ UNCHANGED queue
         \/ /\ hpc[c] # "ended"
            /\ Full(c)
            /\ fpc' = [fpc EXCEPT ![f] = "agent overloaded"]
            /\ UNCHANGED queue
         \/ /\ hpc[c] # "ended"
            /\ ~Full(c)
            /\ fpc' = [fpc EXCEPT ![f] = "waiting"]
            /\ queue' = [queue EXCEPT ![c] = Append(@, f)]
    /\ UNCHANGED <<handlers, links, pending, via>>

\* 30 s without an answer.  The responder stays in the queue or in pending.
TimeOut(f) ==
    /\ fpc[f] = "waiting"
    /\ fpc' = [fpc EXCEPT ![f] = "tunnel timeout"]
    /\ UNCHANGED <<handlers, links, queue, pending, via>>

-----------------------------------------------------------------------------
HandlerStep(c) ==
    \/ Registered(c) \/ TakeRequest(c) \/ TakeReply(c) \/ LeaveLoop(c)
    \/ RemoveRecord(c) \/ RemoveTunnel(c)

Next ==
    \/ \E c \in Conns :
         \/ Connect(c) \/ AgentReplies(c)
         \/ AgentStalls(c) \/ AgentResumes(c) \/ AgentLeaves(c)
         \/ HandlerStep(c)
    \/ \E f \in Forwards : Lookup(f) \/ TrySend(f) \/ TimeOut(f)

Spec == Init /\ [][Next]_vars

\* The runtime polls every handler and every forward, and select! picks among
\* the ready branches at random, so a loop that can leave does; agents are
\* under no obligation, and the 30 s timer is deliberately not fair.
FairSpec ==
    /\ Spec
    /\ \A c \in Conns :
         WF_vars(HandlerStep(c)) /\ WF_vars(LeaveLoop(c))
    /\ \A f \in Forwards : WF_vars(Lookup(f) \/ TrySend(f))

-----------------------------------------------------------------------------
(***************************************************************************)
(* Properties.                                                             *)
(***************************************************************************)

\* The agents list shows no dead agent: a record belongs to a handler that has
\* still to remove it, in whatever order the handlers of one agent come and go.
ListedIsLive ==
    \A a \in Agents : agents[a] # None =>
        /\ AgentOf[agents[a]] = a
        /\ hpc[agents[a]] \in {"loop", "leaving"}

\* A registered sender leads to a channel somebody still reads or will drop, so
\* a forward never waits on a channel whose handler is gone.
TunnelIsLive ==
    \A a \in Agents : tunnels[a] # None =>
        /\ AgentOf[tunnels[a]] = a
        /\ hpc[tunnels[a]] \notin {"idle", "ended"}

\* Whoever waits for an answer is known to a live handler.
NobodyForgotten ==
    \A f \in Forwards : fpc[f] = "waiting" =>
        /\ hpc[via[f]] # "ended"
        /\ f \in pending[via[f]] \cup Queued(via[f])

\* A forward over a connection that died resolves without its 30 s timer.
FailsFast ==
    \A f \in Forwards :
        (fpc[f] = "waiting" /\ sock[via[f]] = "down") ~> (fpc[f] # "waiting")

\* The loop of a connection that another one has replaced ends, although the
\* record of their agent, which is all that its heartbeat looks at, is kept
\* fresh by the new one: with the last forward that used its sender its channel
\* closes.  (What it waits for may be a forward that only its 30 s timer ends.)
SupersededEnds ==
    (\A f \in Forwards : WF_vars(TimeOut(f))) =>
        \A c \in Conns :
            (hpc[c] = "loop" /\ tunnels[AgentOf[c]] # c) ~> (hpc[c] # "loop")

=============================================================================
