------------------------------ MODULE Metering ------------------------------
(***************************************************************************)
(* Daily quotas of the Rust gateway (rust/fwllm-gateway/src/metering.rs)   *)
(* over a Redis server shared by every gateway process.                    *)
(*                                                                         *)
(* A request is admitted by one Lua script that checks the budgets and     *)
(* reserves `prompt_est + completion_cap' tokens, and reconciled by a      *)
(* second script when its real usage is known.  A request admitted while   *)
(* the backend is down (fail-open) has no reservation: its usage is added  *)
(* by five plain INCRs.                                                    *)
(*                                                                         *)
(* Redis runs one command at a time.  `wire' holds the commands that have  *)
(* been sent and not yet run: the server runs them in any order (each      *)
(* operation opens its own connection), a broken connection loses one, and *)
(* the 5 s deadline of a caller may pass before or after the server runs   *)
(* its command.                                                            *)
(***************************************************************************)
EXTENDS Integers

CONSTANTS
    Requests,     \* the chat requests, over all gateway processes
    Clients, Providers, Models,
    ClientOf, ProviderOf, ModelOf,   \* what each request asks for
    Reserves,     \* values of Reservation::reserved_total
    Usages,       \* values of prompt + completion reported at the end
    HonoursCap,   \* TRUE: no provider reports more than was reserved
    ClientTokensPerDay, ClientRequestsPerDay, ProviderTokensPerDay,
                  \* quotas; a negative one counts without gating
    FailClosed,   \* the requests whose gateway has quotas.backend_fail_closed
    MaxDay        \* bound: the number of midnights a behaviour may see

ASSUME MeteringAssumption ==
    /\ ClientOf \in [Requests -> Clients]
    /\ ProviderOf \in [Requests -> Providers]
    /\ ModelOf \in [Requests -> Models]
    /\ Reserves \subseteq Nat
    /\ Usages \subseteq Nat
    /\ HonoursCap \in BOOLEAN
    /\ ClientTokensPerDay \in Int
    /\ ClientRequestsPerDay \in Int
    /\ ProviderTokensPerDay \in Int
    /\ FailClosed \subseteq Requests
    /\ MaxDay \in Nat

VARIABLES
    day,       \* the UTC day of every gateway's clock
    bucket,    \* the daily counters in Redis (a missing key reads as 0)
    expiring,  \* the counters that carry a TTL
    rsvKey,    \* the reservation records in Redis (fwllm:rsv:<id>)
    wire,      \* commands sent to Redis and not yet run
    reply,     \* the answer of the admission script, until it is read
    pc,        \* what the gateway has done for each request
    reserve,   \* Reservation::reserved_total of each request
    usage      \* the usage its settle or record call was given

(***************************************************************************)
(* Bookkeeping that the program does not keep, for the properties.         *)
(***************************************************************************)
VARIABLES
    rsvDay,    \* the day whose counters the admission script charged
    charge,    \* the tokens the scripts have charged for each request
    used,      \* consumption of the requests that hold a reservation, on the
               \* day they were admitted: the reserve until it is settled
    over,      \* usage beyond the reserve, on the day of admission
    ungated,   \* additions to a counter that no quota check preceded
    leaked     \* refunds taken out of a counter by another day's requests

redis == <<bucket, expiring, rsvKey>>
ghosts == <<rsvDay, charge, used, over, ungated, leaked>>
vars == <<day, bucket, expiring, rsvKey, wire, reply, pc, reserve, usage,
          rsvDay, charge, used, over, ungated, leaked>>

-----------------------------------------------------------------------------
Days == 0..MaxDay

\* fwllm:c:tokens:{client}:{day} and its four siblings.
Keys == ({"c:tokens", "c:req"} \X Clients \X Days)
          \cup ({"p:tokens", "p:req"} \X Providers \X Days)
          \cup ({"m:tokens"} \X Models \X Days)

CTokens(r, d) == <<"c:tokens", ClientOf[r], d>>
CReq(r, d) == <<"c:req", ClientOf[r], d>>
PTokens(r, d) == <<"p:tokens", ProviderOf[r], d>>
PReq(r, d) == <<"p:req", ProviderOf[r], d>>
MTokens(r, d) == <<"m:tokens", ModelOf[r], d>>

TokenKeys(r, d) == {CTokens(r, d), PTokens(r, d), MTokens(r, d)}
ReqKeys(r, d) == {CReq(r, d), PReq(r, d)}

\* The quota that gates a counter; the other two kinds are never gated.
Limit(k) == CASE k[1] = "c:tokens" -> ClientTokensPerDay
              [] k[1] = "c:req"    -> ClientRequestsPerDay
              [] k[1] = "p:tokens" -> ProviderTokensPerDay
              [] OTHER             -> -1

Plus(f, ks, n) == [k \in Keys |-> IF k \in ks THEN f[k] + n ELSE f[k]]

AtLeastZero(n) == IF n < 0 THEN 0 ELSE n

\* Slips in SETTLE_LUA's loop, each of which a run must notice: the clamp is
\* dropped, a refund clears the counter, the loop stops before the model's key.
ReconciledUnclamped(f, ks, n) ==
    [k \in Keys |-> IF k \in ks THEN f[k] + n ELSE f[k]]

ReconciledCleared(f, ks, n) ==
    [k \in Keys |-> IF k \in ks THEN IF n < 0 THEN 0 ELSE f[k] + n ELSE f[k]]

ReconciledButModel(f, ks, n) ==
    [k \in Keys |-> IF k \in ks /\ k[1] # "m:tokens"
                    THEN AtLeastZero(f[k] + n) ELSE f[k]]

\* What SETTLE_LUA does to one token counter: never below zero.
Reconciled(f, ks, n) ==
    [k \in Keys |-> IF k \in ks THEN AtLeastZero(f[k] + n) ELSE f[k]]

Denials == {"tokens", "requests", "provider_tokens"}

\* `day' is the caller's clock when it built the keys; n is the reserve of an
\* admission, the delta of a settle, the amount of an increment; slot tells
\* the commands of one request apart.
Commands == [op : {"admit", "settle", "incr"}, r : Requests, day : Days,
             n : Int, slot : 0..5]

TypeOK ==
    /\ day \in Days
    /\ bucket \in [Keys -> Nat]
    /\ expiring \subseteq Keys
    /\ rsvKey \in [Requests -> {"absent", "open", "settled", "expired"}]
    /\ wire \subseteq Commands
    /\ \A c \in wire : c.op # "settle" => c.n >= 0
    /\ reply \in [Requests -> {"none", "ok"} \cup Denials]
    /\ pc \in [Requests -> {"new", "admitting", "admitted", "denied",
                            "rejected", "failopen", "settled", "settled2",
                            "recorded"}]
    /\ reserve \in [Requests -> Nat]
    /\ usage \in [Requests -> Nat]
    /\ rsvDay \in [Requests -> Days]
    /\ charge \in [Requests -> Int]
    /\ used \in [Keys -> Int]
    /\ over \in [Keys -> Nat]
    /\ ungated \in [Keys -> Nat]
    /\ leaked \in [Keys -> Nat]

Init ==
    /\ day = 0
    /\ bucket = [k \in Keys |-> 0]
    /\ expiring = {}
    /\ rsvKey = [r \in Requests |-> "absent"]
    /\ wire = {}
    /\ reply = [r \in Requests |-> "none"]
    /\ pc = [r \in Requests |-> "new"]
    /\ reserve = [r \in Requests |-> 0]
    /\ usage = [r \in Requests |-> 0]
    /\ rsvDay = [r \in Requests |-> 0]
    /\ charge = [r \in Requests |-> 0]
    /\ used = [k \in Keys |-> 0]
    /\ over = [k \in Keys |-> 0]
    /\ ungated = [k \in Keys |-> 0]
    /\ leaked = [k \in Keys |-> 0]

-----------------------------------------------------------------------------
(***************************************************************************)
(* The gateway's side.                                                     *)
(***************************************************************************)

\* Metering::admit up to the await of the script: today's keys, the reserve.
Admit(r, n) ==
    /\ pc[r] = "new"
    /\ pc' = [pc EXCEPT ![r] = "admitting"]
    /\ reserve' = [reserve EXCEPT ![r] = n]
    /\ wire' = wire \cup {[op |-> "admit", r |-> r, day |-> day, n |-> n,
                           slot |-> 0]}
    /\ UNCHANGED <<day, redis, reply, usage, ghosts>>

\* ensure_ready: the ping of fail-closed mode fails, the request gets a 503.
PingFails(r) ==
    /\ pc[r] = "new"
    /\ r \in FailClosed
    /\ pc' = [pc EXCEPT ![r] = "rejected"]
    /\ UNCHANGED <<day, redis, wire, reply, reserve, usage, ghosts>>

\* The script's answer arrives in time.
AdmitAnswered(r) ==
    /\ pc[r] = "admitting"
    /\ reply[r] # "none"
    /\ pc' = [pc EXCEPT ![r] = IF reply[r] = "ok" THEN "admitted" ELSE "denied"]
    /\ UNCHANGED <<day, redis, wire, reply, reserve, usage, ghosts>>

\* Slip: a backend failure is answered like an exhausted quota.
AdmitFailsAsDenied(r) ==
    /\ pc[r] = "admitting"
    /\ pc' = [pc EXCEPT ![r] = IF r \in FailClosed THEN "denied" ELSE "failopen"]
    /\ UNCHANGED <<day, redis, wire, reply, reserve, usage, ghosts>>

\* The deadline passes or the connection breaks: 503 when fail-closed, and
\* otherwise the request goes on without a reservation.
AdmitFails(r) ==
    /\ pc[r] = "admitting"
    /\ pc' = [pc EXCEPT ![r] = IF r \in FailClosed THEN "rejected" ELSE "failopen"]
    /\ UNCHANGED <<day, redis, wire, reply, reserve, usage, ghosts>>

\* Metering::settle: the delta, and the token keys of the day of the CALL.
\* The outcome is ignored, so the caller has nothing to wait for.
SettleCommand(r, u, slot) ==
    [op |-> "settle", r |-> r, day |-> day, n |-> u - reserve[r], slot |-> slot]

Settle(r, u) ==
    /\ pc[r] = "admitted"
    /\ HonoursCap => u =< reserve[r]
    /\ pc' = [pc EXCEPT ![r] = "settled"]
    /\ usage' = [usage EXCEPT ![r] = u]
    /\ wire' = wire \cup {SettleCommand(r, u, 0)}
    /\ LET excess == AtLeastZero(u - reserve[r])
           mine == TokenKeys(r, rsvDay[r])
       IN  /\ used' = Plus(used, mine, excess)
           /\ over' = Plus(over, mine, excess)
    /\ UNCHANGED <<day, redis, reply, reserve, rsvDay, charge, ungated, leaked>>

\* A second settle of the same reservation, which the API promises to ignore.
SettleAgain(r) ==
    /\ pc[r] = "settled"
    /\ pc' = [pc EXCEPT ![r] = "settled2"]
    /\ wire' = wire \cup {SettleCommand(r, usage[r], 1)}
    /\ UNCHANGED <<day, redis, reply, reserve, usage, ghosts>>

\* Metering::record: five INCRs whose results are ignored.
Record(r, u) ==
    /\ pc[r] = "failopen"
    /\ pc' = [pc EXCEPT ![r] = "recorded"]
    /\ usage' = [usage EXCEPT ![r] = u]
    /\ wire' = wire \cup
         {[op |-> "incr", r |-> r, day |-> day, slot |-> i,
           n |-> IF i \in {2, 4} THEN 1 ELSE u] : i \in 1..5}
    /\ UNCHANGED <<day, redis, reply, reserve, ghosts>>

-----------------------------------------------------------------------------
(***************************************************************************)
(* The server's side: each script is one atomic step.                      *)
(***************************************************************************)

\* Slip: the counter is compared as it is, without the reserve.
FitsBefore(k, n) == Limit(k) >= 0 => bucket[k] < Limit(k)

Fits(k, n) == Limit(k) >= 0 => bucket[k] + n =< Limit(k)

\* Slip: the client's token budget is not looked at.
VerdictSkipsClient(r, d, n) ==
    IF ~Fits(CReq(r, d), 1) THEN "requests"
    ELSE IF ~Fits(PTokens(r, d), n) THEN "provider_tokens"
    ELSE "ok"

\* The first check that fails names the scope, in the script's order.
AdmitVerdict(r, d, n) ==
    IF ~Fits(CTokens(r, d), n) THEN "tokens"
    ELSE IF ~Fits(CReq(r, d), 1) THEN "requests"
    ELSE IF ~Fits(PTokens(r, d), n) THEN "provider_tokens"
    ELSE "ok"

\* Slip: the EXPIRE loop stops at the third key.
FirstThreeKeys(r, d) == {CTokens(r, d), CReq(r, d), PTokens(r, d)}

\* The counters ADMIT_LUA puts an EXPIRE on.
Expirable(r, d) == TokenKeys(r, d) \cup ReqKeys(r, d)

\* ADMIT_LUA.  It runs even when its caller has stopped waiting.
RunAdmit(c) ==
    /\ c.op = "admit"
    /\ wire' = wire \ {c}
    /\ reply' = [reply EXCEPT ![c.r] = AdmitVerdict(c.r, c.day, c.n)]
    /\ IF AdmitVerdict(c.r, c.day, c.n) = "ok"
       THEN /\ bucket' = Plus(Plus(bucket, TokenKeys(c.r, c.day), c.n),
                              ReqKeys(c.r, c.day), 1)
            /\ used' = Plus(Plus(used, TokenKeys(c.r, c.day), c.n),
                            ReqKeys(c.r, c.day), 1)
            /\ expiring' = expiring \cup Expirable(c.r, c.day)
            /\ rsvKey' = [rsvKey EXCEPT ![c.r] = "open"]
            /\ rsvDay' = [rsvDay EXCEPT ![c.r] = c.day]
            /\ charge' = [charge EXCEPT ![c.r] = c.n]
       ELSE UNCHANGED <<redis, rsvDay, charge, used>>
    /\ UNCHANGED <<day, pc, reserve, usage, over, ungated, leaked>>

\* Slip: the reservation's key only has to exist.
KeyExists(r) == rsvKey[r] \in {"open", "settled"}

\* The first line of SETTLE_LUA.
Unsettled(r) == rsvKey[r] = "open"

\* SETTLE_LUA.  Only an open reservation is reconciled.
RunSettle(c) ==
    /\ c.op = "settle"
    /\ wire' = wire \ {c}
    /\ IF Unsettled(c.r)
       THEN LET keys == TokenKeys(c.r, c.day)
                mine == TokenKeys(c.r, rsvDay[c.r])
                refund == AtLeastZero(-c.n)
            IN  /\ rsvKey' = [rsvKey EXCEPT ![c.r] = "settled"]
                /\ bucket' = Reconciled(bucket, keys, c.n)
                /\ expiring' = expiring \cup keys
                /\ charge' = [charge EXCEPT ![c.r] = @ + c.n]
                /\ used' = Plus(used, mine, -refund)
                /\ ungated' = Plus(ungated, keys, AtLeastZero(c.n))
                /\ leaked' = Plus(leaked, keys \ mine, refund)
       ELSE UNCHANGED <<redis, charge, used, ungated, leaked>>
    /\ UNCHANGED <<day, reply, pc, reserve, usage, rsvDay, over>>

\* One INCR of Metering::record; it sets no expiry.
IncrKey(r, d, i) ==
    CASE i = 1 -> CTokens(r, d) [] i = 2 -> CReq(r, d)
      [] i = 3 -> PTokens(r, d) [] i = 4 -> PReq(r, d)
      [] OTHER -> MTokens(r, d)

RunIncr(c) ==
    /\ c.op = "incr"
    /\ wire' = wire \ {c}
    /\ bucket' = Plus(bucket, {IncrKey(c.r, c.day, c.slot)}, c.n)
    /\ ungated' = Plus(ungated, {IncrKey(c.r, c.day, c.slot)}, c.n)
    /\ UNCHANGED <<day, expiring, rsvKey, reply, pc, reserve, usage, rsvDay,
                   charge, used, over, leaked>>

\* The connection breaks before the server reads the command.
Lose(c) ==
    /\ wire' = wire \ {c}
    /\ UNCHANGED <<day, redis, reply, pc, reserve, usage, ghosts>>

\* RSV_TTL_SECS pass.
ExpireReservation(r) ==
    /\ rsvKey[r] \in {"open", "settled"}
    /\ rsvKey' = [rsvKey EXCEPT ![r] = "expired"]
    /\ UNCHANGED <<day, bucket, expiring, wire, reply, pc, reserve, usage,
                   ghosts>>

\* day_string moves on.
Midnight ==
    /\ day < MaxDay
    /\ day' = day + 1
    /\ UNCHANGED <<redis, wire, reply, pc, reserve, usage, ghosts>>

-----------------------------------------------------------------------------
Next ==
    \/ \E r \in Requests :
         \/ \E n \in Reserves : Admit(r, n)
         \/ PingFails(r)
         \/ AdmitAnswered(r)
         \/ AdmitFails(r)
         \/ \E u \in Usages : Settle(r, u) \/ Record(r, u)
         \/ SettleAgain(r)
         \/ ExpireReservation(r)
    \/ \E c \in wire : RunAdmit(c) \/ RunSettle(c) \/ RunIncr(c) \/ Lose(c)
    \/ Midnight

Spec == Init /\ [][Next]_vars

-----------------------------------------------------------------------------
(***************************************************************************)
(* Properties.                                                             *)
(***************************************************************************)

\* No interleaving of admissions, on any number of gateways, takes a counter
\* past its quota: what lies above it came from a settle or a fail-open
\* record, which ADMIT_LUA does not see in advance.
GateHolds ==
    \A k \in Keys : Limit(k) >= 0 => bucket[k] - ungated[k] =< Limit(k)

\* A counter never reports less than the requests that hold a reservation of
\* its day have consumed, except for an overrun not reported yet and for what
\* the settles of another day's requests took out of it.
NeverUnderCounts ==
    \A k \in Keys : used[k] - over[k] =< bucket[k] - ungated[k] + leaked[k]

\* What a day's requests consume exceeds the quota by no more than the
\* overruns of the reserve and the refunds leaked from other days.
QuotaBound ==
    \A k \in Keys : Limit(k) >= 0 => used[k] =< Limit(k) + over[k] + leaked[k]

\* The quota as configured: the requests admitted on a day consume at most
\* the day's limit.
DailyQuota ==
    \A k \in Keys : Limit(k) >= 0 => used[k] =< Limit(k)

\* A request that was told "quota exceeded" has charged nothing, whatever the
\* order in which the scripts and the answers of the others ran.
DeniedConsumesNothing ==
    \A r \in Requests :
        pc[r] = "denied" => rsvKey[r] = "absent" /\ charge[r] = 0

\* Only a counter made of nothing but fail-open increments lacks the 48 h TTL:
\* whatever a script has written will expire, in any order of the two.
ScriptsExpire ==
    \A k \in Keys : k \notin expiring => bucket[k] = ungated[k]
=============================================================================
