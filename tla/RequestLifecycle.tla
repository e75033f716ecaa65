-------------------------- MODULE RequestLifecycle --------------------------
(***************************************************************************)
(* The life of one chat request in the Rust gateway: chat_completions and  *)
(* stream_response of rust/fwllm-gateway/src/lib.rs, with the two          *)
(* StreamAccountants of a streamed answer and their Drop tasks.            *)
(*                                                                         *)
(* The handler is a future: between two awaits it runs in one step, and    *)
(* the server drops it at any await when the client disconnects.  Dropping *)
(* the body of a streamed answer drops two accountants, and each Drop      *)
(* spawns a task that finishes the request if nobody did.  Requests meet   *)
(* only in the router and in the metering store, so one request is enough  *)
(* here; what the metering does with a usage report is Metering's subject. *)
(***************************************************************************)
EXTENDS Naturals, Sequences

VARIABLES
    pc,        \* the await the handler or the response body is at
    stream,    \* body.stream
    payload,   \* the payload still has its messages
    text,      \* the prompt in StreamAccountant::request_text
    rsv,       \* the admission returned a reservation
    recorded,  \* StreamAccountant::recorded, shared by the two accountants
    finalized, \* RequestLifecycle::finalized
    streamErr, \* a provider item failed after the stream was opened
    seen,      \* a chunk carried a usage object
    reader,    \* the connection the provider stream reads from
    usage,     \* what a JSON answer is accounted with
    task,      \* the Drop tasks of the terminal guard and of the body
    rows,      \* the audit rows of this request
    lost,      \* audit writes that failed (fw_audit_errors_total)
    obs,       \* the code of the last metrics::observe_request
    calls,     \* usage reports (settle or record) that ran to their end
    answer,    \* what the client was told
    gone       \* the client disconnected

input == <<stream, payload, text>>
vars == <<pc, input, rsv, recorded, finalized, streamErr, seen, reader, usage,
          task, rows, lost, obs, calls, answer, gone>>

Accountants == {"guard", "body"}
Sources == {"upstream", "estimated"}
Prompts == {"zero", "some"}
Usage == [source : Sources, prompt : Prompts]
Refusals == {"blocked_source", "rate_limited", "blocked", "backend_error"}
Codes == Refusals \cup {"ok", "upstream_error", "cancelled"}
Handler == {"arrived", "admit", "chat", "open", "report", "mirror", "refund"}
Body == {"streaming", "term_report", "term_mirror"}

TypeOK ==
    /\ pc \in Handler \cup Body \cup {"emitted", "ended", "dropped",
                                  "panicked"}
    /\ text \in Prompts /\ payload \in BOOLEAN
    /\ stream \in BOOLEAN /\ rsv \in BOOLEAN
    /\ recorded \in BOOLEAN /\ finalized \in BOOLEAN
    /\ streamErr \in BOOLEAN /\ seen \in BOOLEAN
    /\ reader \in {"open", "expired"}
    /\ usage \in Usage
    /\ task \in [Accountants -> {"none", "ready", "reporting", "done"}]
    /\ rows \in Seq([code : Codes, use : Usage])
    /\ lost \in Nat
    /\ obs \in Codes \cup {"none"}
    /\ calls \in Nat
    /\ answer \in Codes \cup {"none", "invalid", "unconfigured"}
    /\ gone \in BOOLEAN

NoUsage == [source |-> "upstream", prompt |-> "zero"]

Init ==
    /\ pc = "arrived" /\ stream = FALSE /\ rsv = FALSE
    /\ payload = TRUE /\ text = "zero"
    /\ recorded = FALSE /\ finalized = FALSE
    /\ streamErr = FALSE /\ seen = FALSE /\ reader = "open"
    /\ usage = NoUsage
    /\ task = [a \in Accountants |-> "none"]
    /\ rows = <<>> /\ lost = 0 /\ obs = "none" /\ calls = 0
    /\ answer = "none" /\ gone = FALSE

-----------------------------------------------------------------------------
\* AuditLog::write: the insert works, or the failure is counted.
Audit(code, use) ==
    \/ /\ rows' = Append(rows, [code |-> code, use |-> use])
       /\ UNCHANGED lost
    \/ /\ lost' = lost + 1
       /\ UNCHANGED rows

\* Slips: the flag is not tested, or it is set only by a write that worked.
FinishAlways(code, use) == finalized' = TRUE /\ Audit(code, use)

FinishRetries(code, use) ==
    /\ IF finalized THEN UNCHANGED <<rows, lost>> ELSE Audit(code, use)
    /\ finalized' = (finalized \/ lost' = lost)

\* RequestLifecycle::finish: the first caller writes the row.
Finish(code, use) ==
    /\ finalized' = TRUE
    /\ IF finalized THEN UNCHANGED <<rows, lost>> ELSE Audit(code, use)

Observe(code) == obs' = code

Answer(code) == pc' = "ended" /\ answer' = code

\* prompt_text(&payload): what an estimate can count of the messages.
PromptText == IF payload THEN "some" ELSE "zero"

\* StreamAccountant::usage_numbers: provider usage wins over the estimate,
\* which has the text that was taken when the accountant was made.
StreamUsage ==
    [source |-> IF seen THEN "upstream" ELSE "estimated",
     prompt |-> IF seen THEN "some" ELSE text]

-----------------------------------------------------------------------------
(***************************************************************************)
(* Before admission.  From the router's lock to the metering call there is *)
(* no await.                                                               *)
(***************************************************************************)

\* A malformed body, a missing or unknown bearer token, or a value outside
\* the contract: an error answer, no audit row, no metric.
Invalid ==
    /\ pc = "arrived"
    /\ Answer("invalid")
    /\ UNCHANGED <<input, rsv, recorded, finalized, streamErr, seen, reader,
                   usage, task, rows, lost, obs, calls, gone>>

\* The router refuses, or an inspector blocks the payload.
Refused(code) ==
    /\ pc = "arrived"
    /\ code \in {"blocked_source", "rate_limited", "blocked"}
    /\ Observe(code)
    /\ Audit(code, NoUsage)
    /\ Answer(code)
    /\ UNCHANGED <<input, rsv, recorded, finalized, streamErr, seen, reader,
                   usage, task, calls, gone>>

\* The routed provider is not in the registry, which a rule's switch_to can
\* bring about: the client is told so, and no row is written.
ProviderMissing ==
    /\ pc = "arrived"
    /\ Observe("upstream_error")
    /\ Answer("unconfigured")
    /\ UNCHANGED <<input, rsv, recorded, finalized, streamErr, seen, reader,
                   usage, task, rows, lost, calls, gone>>

Inspected(s) ==
    /\ pc = "arrived"
    /\ pc' = "admit"
    /\ stream' = s
    /\ UNCHANGED <<payload, text, rsv, recorded, finalized, streamErr, seen,
                   reader, usage, task, rows, lost, obs, calls, answer, gone>>

-----------------------------------------------------------------------------
(* Admission.  Whether a backend that is down ends the request or is       *)
(* skipped depends on quotas.backend_fail_closed; both are allowed here.   *)

\* Slip: the request text is read from a payload that was moved already.
ProceedTextLate(reserved) ==
    /\ rsv' = reserved
    /\ text' = IF stream THEN "zero" ELSE text
    /\ payload' = FALSE
    /\ pc' = IF stream THEN "open" ELSE "chat"

\* The payload is moved into the provider's call; stream_response has taken
\* its text before that, the JSON path has not.
Proceed(reserved) ==
    /\ rsv' = reserved
    /\ text' = IF stream THEN PromptText ELSE text
    /\ payload' = FALSE
    /\ pc' = IF stream THEN "open" ELSE "chat"

AdmitGranted ==
    /\ pc = "admit"
    /\ Proceed(TRUE)
    /\ UNCHANGED <<stream, recorded, finalized, streamErr, seen, reader, usage,
                   task, rows, lost, obs, calls, answer, gone>>

AdmitRefused(code) ==
    /\ pc = "admit"
    /\ code \in {"rate_limited", "backend_error"}
    /\ Observe(code)
    /\ Audit(code, NoUsage)
    /\ Answer(code)
    /\ UNCHANGED <<input, rsv, recorded, finalized, streamErr, seen, reader,
                   usage, task, calls, gone>>

\* The backend is down and the gateway fails open: no reservation.
AdmitSkipped ==
    /\ pc = "admit"
    /\ Proceed(FALSE)
    /\ UNCHANGED <<stream, recorded, finalized, streamErr, seen, reader, usage,
                   task, rows, lost, obs, calls, answer, gone>>

-----------------------------------------------------------------------------
(* The provider fails before any answer exists: chat() or chat_stream().   *)

\* Slip: the early error return forgets the audit row.
FailUnaudited ==
    /\ Observe("upstream_error")
    /\ Answer("upstream_error")
    /\ UNCHANGED <<finalized, rows, lost>>

FailAnswer ==
    /\ Observe("upstream_error")
    /\ Finish("upstream_error", NoUsage)
    /\ Answer("upstream_error")

\* With a reservation its unused part is returned first; without one nothing
\* is recorded.
ProviderFails ==
    /\ pc \in {"chat", "open"}
    /\ IF rsv THEN /\ pc' = "refund"
                   /\ UNCHANGED <<finalized, rows, lost, obs, answer>>
              ELSE FailAnswer
    /\ UNCHANGED <<input, rsv, recorded, streamErr, seen, reader, usage, task,
                   calls, gone>>

Refunded ==
    /\ pc = "refund"
    /\ calls' = calls + 1
    /\ FailAnswer
    /\ UNCHANGED <<input, rsv, recorded, streamErr, seen, reader, usage, task,
                   gone>>

-----------------------------------------------------------------------------
(* A JSON answer.                                                          *)

\* Provider usage wins.  The estimate reads the payload that chat() has
\* taken, so it sees no prompt.
JsonUsage(source) ==
    [source |-> source,
     prompt |-> IF source = "upstream" THEN "some" ELSE PromptText]

ChatOk(source) ==
    /\ pc = "chat"
    /\ usage' = JsonUsage(source)
    /\ Observe("ok")
    /\ pc' = "report"
    /\ UNCHANGED <<input, rsv, recorded, finalized, streamErr, seen, reader,
                   task, rows, lost, calls, answer, gone>>

\* The routed model has another name and the provider answered with JSON that
\* is no object: naming it in the answer panics.  The connection's task dies,
\* with the reservation open and nothing observed, reported or audited.
ChatPanics ==
    /\ pc = "chat"
    /\ pc' = "panicked"
    /\ UNCHANGED <<input, rsv, recorded, finalized, streamErr, seen, reader,
                   usage, task, rows, lost, obs, calls, answer, gone>>

\* Slip: without a reservation nothing is recorded.
ReportedIfReserved ==
    /\ pc = "report"
    /\ calls' = IF rsv THEN calls + 1 ELSE calls
    /\ pc' = "mirror"
    /\ UNCHANGED <<input, rsv, recorded, finalized, streamErr, seen, reader,
                   usage, task, rows, lost, obs, answer, gone>>

\* settle with a reservation, record without one.
Reported ==
    /\ pc = "report"
    /\ calls' = calls + 1
    /\ pc' = "mirror"
    /\ UNCHANGED <<input, rsv, recorded, finalized, streamErr, seen, reader,
                   usage, task, rows, lost, obs, answer, gone>>

\* record_tokens_today under the router's lock, the final row, the answer.
Mirrored ==
    /\ pc = "mirror"
    /\ Finish("ok", usage)
    /\ Answer("ok")
    /\ UNCHANGED <<input, rsv, recorded, streamErr, seen, reader, usage, task,
                   obs, calls, gone>>

-----------------------------------------------------------------------------
(* A streamed answer.                                                      *)

StreamOpened ==
    /\ pc = "open"
    /\ pc' = "streaming"
    /\ UNCHANGED <<input, rsv, recorded, finalized, streamErr, seen, reader,
                   usage, task, rows, lost, obs, calls, answer, gone>>

Chunk(hasUsage) ==
    /\ pc = "streaming"
    /\ reader = "open"
    /\ seen' = (seen \/ hasUsage)
    /\ UNCHANGED <<pc, input, rsv, recorded, finalized, streamErr, reader, usage,
                   task, rows, lost, obs, calls, answer, gone>>

\* An item fails, and the next poll reads from the same connection again.
ItemFails ==
    /\ pc = "streaming"
    /\ streamErr' = TRUE
    /\ Observe("upstream_error")
    /\ UNCHANGED <<pc, input, rsv, recorded, finalized, seen, reader, usage,
                   task, rows, lost, calls, answer, gone>>

\* The client's total timeout passes and what was buffered has been read: from
\* now on every read of the body fails, and none says that it is over.
ReaderExpires ==
    /\ pc = "streaming"
    /\ reader = "open"
    /\ reader' = "expired"
    /\ UNCHANGED <<pc, input, rsv, recorded, finalized, streamErr, seen, usage,
                   task, rows, lost, obs, calls, answer, gone>>

\* Slip: the report is not claimed before its I/O.
StreamEndsUnclaimed ==
    /\ pc = "streaming"
    /\ reader = "open"
    /\ pc' = "term_report"
    /\ UNCHANGED <<input, rsv, recorded, finalized, streamErr, seen, reader,
                   usage, task, rows, lost, obs, calls, answer, gone>>

\* The provider stream is over: the terminal future enters settle_once, which
\* claims the report before its I/O.
StreamEnds ==
    /\ pc = "streaming"
    /\ reader = "open"
    /\ recorded' = TRUE
    /\ pc' = IF recorded THEN "term_mirror" ELSE "term_report"
    /\ UNCHANGED <<input, rsv, finalized, streamErr, seen, reader, usage,
                   task, rows, lost, obs, calls, answer, gone>>

TermReported ==
    /\ pc = "term_report"
    /\ calls' = calls + 1
    /\ pc' = "term_mirror"
    /\ UNCHANGED <<input, rsv, recorded, finalized, streamErr, seen, reader,
                   usage, task, rows, lost, obs, answer, gone>>

\* Slips: the failed items are forgotten, or named by a code of their own.
TermAlwaysOk == "ok"
TermForeignCode == IF streamErr THEN "stream_error" ELSE "ok"

TermCode == IF streamErr THEN "upstream_error" ELSE "ok"

\* After the router's lock: the final row, the metric, [DONE]; the guard goes
\* out of scope and its Drop spawns a task.
TermMirrored ==
    /\ pc = "term_mirror"
    /\ Finish(TermCode, StreamUsage)
    /\ Observe(TermCode)
    /\ answer' = TermCode
    /\ pc' = "emitted"
    /\ task' = [task EXCEPT !["guard"] = "ready"]
    /\ UNCHANGED <<input, rsv, recorded, streamErr, seen, reader, usage,
                   calls, gone>>

\* The server drops the finished body.
BodyDropped ==
    /\ pc = "emitted"
    /\ pc' = "ended"
    /\ task' = [task EXCEPT !["body"] = "ready"]
    /\ UNCHANGED <<input, rsv, recorded, finalized, streamErr, seen, reader,
                   usage, rows, lost, obs, calls, answer, gone>>

-----------------------------------------------------------------------------
(* The client disconnects.                                                 *)

\* The server drops the future where it is.  A report in flight may or may
\* not have reached the store.
Disconnect ==
    /\ pc \in Handler \cup Body
    /\ gone' = TRUE
    /\ pc' = "dropped"
    /\ task' = IF pc \in Body THEN [a \in Accountants |-> "ready"] ELSE task
    /\ \/ UNCHANGED calls
       \/ /\ pc \in {"report", "refund", "term_report"}
          /\ calls' = calls + 1
    /\ UNCHANGED <<input, rsv, recorded, finalized, streamErr, seen, reader,
                   usage, rows, lost, obs, answer>>

DropCode == IF streamErr THEN "upstream_error" ELSE "cancelled"

\* Slip: a task that has nothing to report returns at once.
TaskReturnsEarly(a) ==
    /\ task[a] = "ready"
    /\ recorded' = TRUE
    /\ task' = [task EXCEPT ![a] = IF recorded THEN "done" ELSE "reporting"]
    /\ UNCHANGED <<pc, input, rsv, finalized, streamErr, seen, reader, usage,
                   rows, lost, obs, calls, answer, gone>>

\* The task of one Drop: report the usage unless somebody claimed it.  The
\* stream is gone, so usage and code are still those of the drop.
TaskStarts(a) ==
    /\ task[a] = "ready"
    /\ recorded' = TRUE
    /\ IF recorded
       THEN /\ task' = [task EXCEPT ![a] = "done"]
            /\ Finish(DropCode, StreamUsage)
       ELSE /\ task' = [task EXCEPT ![a] = "reporting"]
            /\ UNCHANGED <<finalized, rows, lost>>
    /\ UNCHANGED <<pc, input, rsv, streamErr, seen, reader, usage, obs, calls,
                   answer, gone>>

TaskReported(a) ==
    /\ task[a] = "reporting"
    /\ task' = [task EXCEPT ![a] = "done"]
    /\ calls' = calls + 1
    /\ Finish(DropCode, StreamUsage)
    /\ UNCHANGED <<pc, input, rsv, recorded, streamErr, seen, reader, usage,
                   obs, answer, gone>>

-----------------------------------------------------------------------------
HandlerStep ==
    \/ Invalid
    \/ \E code \in Refusals : Refused(code) \/ AdmitRefused(code)
    \/ ProviderMissing
    \/ \E s \in BOOLEAN : Inspected(s)
    \/ AdmitGranted \/ AdmitSkipped
    \/ ProviderFails \/ Refunded
    \/ \E source \in Sources : ChatOk(source)
    \/ ChatPanics \/ Reported \/ Mirrored

BodyStep ==
    \/ StreamOpened
    \/ \E hasUsage \in BOOLEAN : Chunk(hasUsage)
    \/ ItemFails \/ StreamEnds \/ TermReported \/ TermMirrored \/ BodyDropped

TaskStep(a) == TaskStarts(a) \/ TaskReported(a)

Next ==
    \/ HandlerStep \/ BodyStep \/ ReaderExpires \/ Disconnect
    \/ \E a \in Accountants : TaskStep(a)

Spec == Init /\ [][Next]_vars

\* Every await of the handler and of the body has a deadline (the provider's
\* total timeout, the 5 s of a Redis operation, a lock held only between
\* awaits), the client reads or disconnects, and the runtime polls its tasks.
\* A provider may send until its timeout, but no longer: its stream ends, or
\* its reader expires.  Once it has, only failed items come.
Fairness ==
    /\ WF_vars(HandlerStep \/ BodyStep)
    /\ \A a \in Accountants : WF_vars(TaskStep(a))

FairSpec == Spec /\ Fairness

-----------------------------------------------------------------------------
(***************************************************************************)
(* Properties.                                                             *)
(***************************************************************************)

Quiet == pc \in {"ended", "dropped", "panicked"}
           /\ \A a \in Accountants : task[a] \in {"none", "done"}
HasRow == Len(rows) + lost = 1
Streamed == \E a \in Accountants : task[a] # "none"

\* The terminal chunk, the open failure, the linear finish and the two Drop
\* tasks race for the final row and exactly one of them writes it.
OneFinalRow == Len(rows) + lost =< 1

\* Usage reaches the metering at most once, whichever of the terminal chunk
\* and the Drop tasks comes first.
ReportedOnce == calls =< 1

\* After a failed item the request is never audited as a success, by no path.
NeverOkAfterError ==
    streamErr => \A i \in 1..Len(rows) : rows[i].code # "ok"

\* Only a client that left is audited as cancelled: the Drop tasks of a
\* stream that ended normally find the request finished.
CancelledMeansGone ==
    \A i \in 1..Len(rows) : rows[i].code = "cancelled" => gone

\* A success is audited only after its usage was reported.
OkIsReported ==
    \A i \in 1..Len(rows) : rows[i].code = "ok" => calls = 1

\* The estimate a stream is accounted with counts the prompt, although the
\* payload it came from was moved into the provider's call before the stream
\* existed.  (That of a JSON answer does not: it reads the emptied payload.)
EstimateCountsPrompt ==
    \A i \in 1..Len(rows) :
        Streamed /\ rows[i].use.source = "estimated" =>
            rows[i].use.prompt = "some"

\* Usage reaches the metering at most once, a success is audited only after its
\* usage was reported, and what is reported as an estimate is not made of an
\* emptied payload.
UsageReportedOnce == ReportedOnce /\ OkIsReported /\ EstimateCountsPrompt

\* Whoever got an answer left one row, unless its write failed, and a last
\* metric with the outcome the client was told.  Invalid requests and routes
\* to providers that are not configured are the ones not audited; besides them
\* only a client that left before a stream was opened for it has no row, and
\* one whose handler panicked over the provider's answer.
AnswerAudited ==
    Quiet /\ answer \notin {"invalid", "unconfigured"} =>
        \/ /\ HasRow
           /\ pc = "ended" =>
                 /\ \A i \in 1..Len(rows) : rows[i].code = answer
                 /\ obs = answer
        \/ gone /\ ~Streamed
        \/ pc = "panicked"

\* Failed items without end, to a client that keeps reading.
EndlessErrors == pc = "streaming" /\ reader = "expired"

\* A stream that was opened ends with both Drop tasks over and one final row,
\* whenever its items fail and its client leaves, unless its reader expires
\* and the client never leaves.
StreamFinishes ==
    <>[]EndlessErrors \/ (pc = "streaming" ~> (Quiet /\ HasRow))

\* The usage of a streamed answer is reported, exactly once, before the last
\* task of the request is over.
StreamReported == Quiet /\ Streamed => calls = 1
=============================================================================
