---------------------------- MODULE TunnelAgent ----------------------------
(***************************************************************************)
(* One tunnel agent (rust/fwllm-agent/src/main.rs) over time: its          *)
(* reconnect loop with the retry limit and the backoff, the session that   *)
(* serves one frame after the other, and, at the gateway, the heartbeat of *)
(* handle_ingress_socket and the token check of ingress_ws_handler         *)
(* (rust/fwllm-gateway/src/lib.rs, ingress.rs).                            *)
(*                                                                         *)
(* Time passes in heartbeat intervals (30 s).  Work that takes no          *)
(* noticeable time (a frame read, a ping sent, a pong handled) is done     *)
(* before the next Tick; a forward takes up to ForwardLimit of them.       *)
(* Module Ingress has the registry and the forwards of several agents      *)
(* without time; here the agent id has one record, and earlier handlers of *)
(* the same id that have not noticed their end are only counted.           *)
(***************************************************************************)
EXTENDS Naturals, Sequences

CONSTANTS
    None,          \* max_retries is not given
    Limits,        \* values of max_retries to consider, None among them
    U32Max,        \* where the attempt counter saturates
    MaxShift,      \* largest exponent of the backoff (6)
    DelayCap,      \* longest backoff (60 s)
    Timeout,       \* HEARTBEAT_TIMEOUT_SECS, in intervals (3)
    ForwardLimit,  \* the client's request timeout, in intervals (4)
    MaxInbox,      \* bound: requests are sent to an inbox shorter than this
    MaxOld,        \* bound: earlier handlers that linger
    MaxFaults      \* bound: silent losses of the link and gateway restarts

ASSUME AgentAssumption ==
    /\ Limits \subseteq 0..U32Max \cup {None}
    /\ None \notin Nat
    /\ {MaxShift, MaxInbox, MaxOld, MaxFaults} \subseteq Nat
    /\ {U32Max, DelayCap, Timeout, ForwardLimit} \subseteq Nat \ {0}
    \* what the backoff's shifts give (the provers do not know powers)
    /\ \A k \in 0..MaxShift : 2 ^ k \in Nat \ {0}

VARIABLES
    maxRetries,  \* args.max_retries
    apc,         \* where the agent is
    attempt,     \* sessions that ended, saturating
    delay,       \* the backoff it sleeps, in seconds
    busy,        \* intervals the current forward has taken
    inbox,       \* frames on the way to the agent
    sent,        \* the agent wrote to a link that was lost already
    link,        \* the connection, as the network sees it
    pong,        \* a pong is on the way to the gateway
    token,       \* what the gateway makes of the agent's token
    hand,        \* the handler task of the current connection
    due,         \* its heartbeat timer has fired
    age,         \* intervals since last_seen, None without a record
    old,         \* earlier handlers of this agent id still in their loop
    faults,      \* losses and restarts so far
    occupied     \* history: intervals since the agent last had nothing to do

agentVars == <<maxRetries, apc, attempt, delay, busy>>
gateVars == <<token, hand, due, age, old>>
linkVars == <<inbox, sent, link, pong>>
history == <<faults, occupied>>
vars == <<agentVars, linkVars, gateVars, history>>

TypeOK ==
    /\ maxRetries \in Limits
    /\ apc \in {"connecting", "serving", "forwarding", "sleeping", "stopped"}
    /\ attempt \in 0..U32Max
    /\ delay \in 0..DelayCap
    /\ apc = "sleeping" => delay > 0
    /\ busy \in 0..ForwardLimit
    /\ inbox \in Seq({"ping", "request"})
    /\ sent \in BOOLEAN /\ pong \in BOOLEAN /\ due \in BOOLEAN
    /\ link \in {"none", "up", "lost", "closed"}
    /\ token \in {"valid", "gone"}
    /\ hand \in {"none", "loop", "dropped"}
    /\ age \in 0..(Timeout + 1) \cup {None}
    /\ old \in 0..MaxOld
    /\ faults \in 0..MaxFaults
    /\ occupied \in 0..Timeout

Init ==
    /\ maxRetries \in Limits
    /\ apc = "connecting" /\ attempt = 0 /\ delay = 0 /\ busy = 0
    /\ inbox = <<>> /\ sent = FALSE /\ link = "none" /\ pong = FALSE
    /\ token = "valid" /\ hand = "none" /\ due = FALSE /\ age = None /\ old = 0
    /\ faults = 0
    /\ occupied = 0

Lesser(m, n) == IF m < n THEN m ELSE n

-----------------------------------------------------------------------------
(* The agent.                                                              *)

\* Slip: the exponent starts from the wrong end of a fresh counter.
BackoffFromZero(n) == Lesser(2 ^ Lesser(n, MaxShift) - 2, DelayCap)

\* The exponent is clamped before the shift and the result after it.
BackoffDelay(n) == Lesser(2 ^ Lesser(n - 1, MaxShift), DelayCap)

OutOfRetries(n) == maxRetries # None /\ n > maxRetries

\* serve_once returned, with an error or without: the attempt is counted, and
\* the process ends or sleeps.
SessionEnds ==
    LET n == Lesser(attempt + 1, U32Max) IN
    /\ attempt' = n
    /\ IF OutOfRetries(n)
       THEN apc' = "stopped" /\ UNCHANGED delay
       ELSE apc' = "sleeping" /\ delay' = BackoffDelay(n)
    /\ busy' = 0
    /\ inbox' = <<>> /\ sent' = FALSE /\ pong' = FALSE
    /\ link' = "none"
    /\ UNCHANGED maxRetries

Wake ==
    /\ apc = "sleeping"
    /\ apc' = "connecting"
    /\ UNCHANGED <<maxRetries, attempt, delay, busy, linkVars, gateVars,
                   history>>

\* The upgrade is accepted: register_tunnel writes a new record, and a handler
\* of an earlier connection of this agent may still be in its loop.
Connect ==
    /\ apc = "connecting"
    /\ token = "valid"
    /\ apc' = "serving"
    /\ link' = "up"
    /\ old' = IF hand = "none" THEN old ELSE old + 1
    /\ old' =< MaxOld
    /\ hand' = "loop" /\ due' = FALSE
    \* the interval starts after the record was written: 30 s later it is older
    /\ age' = 1
    /\ occupied' = 0
    /\ UNCHANGED <<maxRetries, attempt, delay, busy, inbox, sent, pong, token,
                   faults>>

\* Slip: only a session that was established is counted when it ends.
ConnectFailsUncounted ==
    /\ apc = "connecting"
    /\ apc' = "sleeping" /\ delay' = 1
    /\ UNCHANGED <<maxRetries, attempt, busy, linkVars, gateVars, history>>

\* The gateway cannot be reached or answers 401.
ConnectFails ==
    /\ apc = "connecting"
    /\ SessionEnds
    /\ UNCHANGED <<gateVars, history>>

\* Slip: the result of serve_once is passed on with "?".
LinkFailsForGood ==
    /\ apc = "serving"
    /\ link = "closed" \/ (link = "lost" /\ sent)
    /\ apc' = "stopped"
    /\ link' = "none"
    /\ UNCHANGED <<maxRetries, attempt, delay, busy, inbox, sent, pong,
                   gateVars, history>>

\* A session over a closed connection ends at the next read, and one over a
\* lost link when what it wrote stays unacknowledged.  An agent that only
\* listens has nothing that could fail.
LinkFails ==
    /\ apc = "serving"
    /\ link = "closed" \/ (link = "lost" /\ sent)
    /\ SessionEnds
    /\ UNCHANGED <<gateVars, history>>

Reading == apc = "serving" /\ inbox # <<>>

\* Slip: pings are skipped like every frame that is not text.
SkipPing ==
    /\ Reading
    /\ Head(inbox) = "ping"
    /\ inbox' = Tail(inbox)
    /\ UNCHANGED <<agentVars, sent, link, pong, gateVars, history>>

AnswerPing ==
    /\ Reading
    /\ Head(inbox) = "ping"
    /\ inbox' = Tail(inbox)
    /\ pong' = (link = "up" \/ pong)
    /\ sent' = (link = "lost" \/ sent)
    /\ UNCHANGED <<agentVars, link, gateVars, history>>

\* A request is forwarded before the next frame is read, pings included.
StartForward ==
    /\ Reading
    /\ Head(inbox) = "request"
    /\ inbox' = Tail(inbox)
    /\ apc' = "forwarding"
    /\ busy' = 0
    /\ UNCHANGED <<maxRetries, attempt, delay, sent, link, pong, gateVars,
                   history>>

\* An answer, an error turned into 502, or the 120 s of the HTTP client: a
\* reply in every case.  The reply does not refresh last_seen.
Reply ==
    /\ apc = "forwarding"
    /\ apc' = "serving"
    /\ busy' = 0
    /\ sent' = (link = "lost" \/ sent)
    /\ UNCHANGED <<maxRetries, attempt, delay, inbox, link, pong, gateVars,
                   history>>

-----------------------------------------------------------------------------
(* The gateway.                                                            *)

Present == age # None

Stale == ~Present \/ age > Timeout

\* Slip: a ping that was sent counts as a sign of life.
HeartbeatTouches ==
    /\ hand = "loop"
    /\ due
    /\ due' = FALSE
    /\ inbox' = IF link = "up" THEN Append(inbox, "ping") ELSE inbox
    /\ hand' = IF ~Present THEN "dropped" ELSE hand
    /\ age' = IF Present THEN 0 ELSE age
    /\ UNCHANGED <<agentVars, sent, link, pong, token, old, history>>

\* The timer fired: a ping, then the look at the record of the agent id.
Heartbeat ==
    /\ hand = "loop"
    /\ due
    /\ due' = FALSE
    /\ inbox' = IF link = "up" THEN Append(inbox, "ping") ELSE inbox
    /\ hand' = IF Stale THEN "dropped" ELSE hand
    /\ UNCHANGED <<agentVars, sent, link, pong, token, age, old, history>>

\* touch_agent refreshes a record that is still there.
TakePong ==
    /\ hand = "loop"
    /\ pong
    /\ pong' = FALSE
    /\ age' = IF Present THEN 0 ELSE age
    /\ UNCHANGED <<agentVars, inbox, sent, link, token, hand, due, old, history>>

\* A request of the queue goes to the agent; sending into a lost link succeeds.
SendRequest ==
    /\ hand = "loop"
    /\ link \in {"up", "lost"}
    /\ Len(inbox) < MaxInbox
    /\ inbox' = IF link = "up" THEN Append(inbox, "request") ELSE inbox
    /\ UNCHANGED <<agentVars, sent, link, pong, gateVars, history>>

\* The agent is gone and the socket says so.
SocketEnds ==
    /\ hand = "loop"
    /\ link = "none"
    /\ hand' = "dropped"
    /\ UNCHANGED <<agentVars, linkVars, token, due, age, old, history>>

\* unregister_agent, and the socket is closed.
Unregister ==
    /\ hand = "dropped"
    /\ hand' = "none" /\ due' = FALSE
    /\ age' = None
    /\ link' = IF link = "up" THEN "closed" ELSE link
    /\ pong' = FALSE
    /\ UNCHANGED <<agentVars, inbox, sent, token, old, history>>

\* An earlier handler ends: it removes the record of its agent id, whoever
\* wrote it.
OldUnregisters ==
    /\ old > 0
    /\ old' = old - 1
    /\ age' = None
    /\ UNCHANGED <<agentVars, linkVars, token, hand, due, history>>

\* The token's expiry is looked at when the agent connects, and only then.
TokenExpires ==
    /\ token = "valid"
    /\ token' = "gone"
    /\ UNCHANGED <<agentVars, linkVars, hand, due, age, old, history>>

\* Tokens, records and handlers live in memory.
GatewayRestarts ==
    /\ faults < MaxFaults
    /\ faults' = faults + 1
    /\ token' = "gone"
    /\ hand' = "none" /\ due' = FALSE /\ age' = None /\ old' = 0
    /\ link' = IF link = "up" THEN "closed" ELSE link
    /\ pong' = FALSE
    /\ UNCHANGED <<agentVars, inbox, sent, occupied>>

-----------------------------------------------------------------------------
(* The network and time.                                                   *)

\* From now on nothing gets through, in either direction, and nobody is told.
LinkLost ==
    /\ link = "up"
    /\ faults < MaxFaults
    /\ faults' = faults + 1
    /\ link' = "lost"
    /\ pong' = FALSE
    /\ sent' = FALSE
    /\ UNCHANGED <<agentVars, inbox, gateVars, occupied>>

Tick ==
    /\ ~due
    /\ ~(link = "up" /\ (Reading \/ (pong /\ hand = "loop")))
    /\ apc = "forwarding" => busy < ForwardLimit
    /\ due' = (hand = "loop")
    /\ busy' = IF apc = "forwarding" THEN busy + 1 ELSE busy
    /\ age' = IF Present THEN Lesser(age + 1, Timeout + 1) ELSE None
    /\ occupied' = IF apc = "forwarding" THEN Lesser(occupied + 1, Timeout)
                   ELSE 0
    /\ UNCHANGED <<maxRetries, apc, attempt, delay, linkVars, token, hand, old,
                   faults>>

AgentStep ==
    \/ Wake \/ Connect \/ ConnectFails \/ LinkFails
    \/ AnswerPing \/ StartForward \/ Reply

Next ==
    \/ AgentStep
    \/ Heartbeat \/ TakePong \/ SendRequest \/ SocketEnds \/ Unregister
    \/ OldUnregisters \/ TokenExpires \/ GatewayRestarts \/ LinkLost \/ Tick

Spec == Init /\ [][Next]_vars

\* The agent's loop and the gateway's tasks run, time passes, a request ends
\* with the client's timeout at the latest, and a connection attempt does not
\* fail for ever while the gateway would accept it.
FairSpec ==
    /\ Spec
    /\ WF_vars(AgentStep) /\ WF_vars(Reply) /\ WF_vars(LinkFails)
    /\ SF_vars(Connect)
    /\ WF_vars(Heartbeat) /\ WF_vars(TakePong) /\ WF_vars(SocketEnds)
    /\ WF_vars(Unregister) /\ WF_vars(OldUnregisters)
    /\ WF_vars(Tick)

-----------------------------------------------------------------------------
(* Properties.                                                             *)

\* The heartbeat drops an agent over a working link only when its record was
\* removed by an earlier handler of the same id, or when forwards kept it from
\* reading pings through Timeout - 1 intervals (a connection that has not been
\* pinged yet starts with an old record).  An idle agent is never dropped.
KeptWhileAnswering ==
    [][hand = "loop" /\ hand' = "dropped" /\ link = "up" /\ Present
         => occupied >= Timeout - 1]_vars

\* A connection whose other end is silent does not stay registered: the
\* handler leaves, though no read or write on the socket ever fails.
DeadAgentIsDropped ==
    (hand = "loop" /\ link = "lost") ~> (hand # "loop" \/ link # "lost")

Connected == hand = "loop" /\ link = "up"

\* Listening to a link that was lost: no ping arrives and nothing was written.
Deaf == apc = "serving" /\ link = "lost" /\ ~sent

\* Whatever ends its sessions, an agent is connected again and again, or it has
\* a retry limit and stops: nobody knocks for ever at a gateway that would let it
\* in, and one with a limit not at a gateway that has forgotten its token either,
\* as a restart makes it do.  The exceptions: an agent without a limit whose token
\* is gone, and a link lost without a trace while the agent only listens.
ComesBack ==
    []<>(\/ Connected \/ Deaf
         \/ apc = "stopped" /\ maxRetries # None
         \/ token = "gone" /\ maxRetries = None)

\* ComesBack without the exception: a dropped tunnel re-establishes with
\* backoff.
DroppedTunnelReestablishes ==
    []<>(Connected \/ token = "gone" \/ maxRetries # None)

=============================================================================
