--------------------------- MODULE LifecycleProofs ---------------------------
(***************************************************************************)
(* Proofs about RequestLifecycle for streams of every length: the final    *)
(* audit row and the usage report are written at most once, and the row    *)
(* says what happened.                                                     *)
(***************************************************************************)
EXTENDS RequestLifecycle, TLAPS

USE DEF Accountants, Handler, Body, input

\* The definitions every step of the type proof expands.
LEMMA NoUsageType ==
    ASSUME TypeOK
    PROVE  NoUsage \in Usage /\ StreamUsage \in Usage
<1> QED  BY DEF NoUsage, StreamUsage, Usage, Sources, Prompts, TypeOK

\* What a JSON answer is accounted with is a usage.
LEMMA JsonUsageType == \A source \in Sources : JsonUsage(source) \in Usage
<1> QED  BY DEF JsonUsage, PromptText, Usage, Sources, Prompts

\* An audit write adds a well-formed row or counts an error, never both.
LEMMA AuditEffect ==
    ASSUME TypeOK, NEW code \in Codes, NEW use \in Usage, Audit(code, use)
    PROVE  /\ rows' \in Seq([code : Codes, use : Usage])
           /\ lost' \in Nat
           /\ Len(rows') + lost' = Len(rows) + lost + 1
           /\ \A i \in 1..Len(rows') :
                \/ i \in 1..Len(rows) /\ rows'[i] = rows[i]
                \/ rows'[i].code = code /\ rows'[i].use = use
<1> DEFINE row == [code |-> code, use |-> use]
<1>1. row \in [code : Codes, use : Usage]
  OBVIOUS
<1>2. CASE rows' = Append(rows, row) /\ UNCHANGED lost
  <2> DEFINE Row == [code : Codes, use : Usage]
  <2>1. rows \in Seq(Row) /\ lost \in Nat /\ row \in Row
    BY <1>1 DEF TypeOK
  <2>2. row.code = code /\ row.use = use
    OBVIOUS
  <2> HIDE DEF row, Row
  <2>3. /\ rows' \in Seq(Row) /\ Len(rows') = Len(rows) + 1 /\ Len(rows) \in Nat
        /\ \A i \in 1..Len(rows') :
             (i \in 1..Len(rows) /\ rows'[i] = rows[i]) \/ rows'[i] = row
    BY <1>2, <2>1
  <2>4. lost' \in Nat /\ Len(rows') + lost' = Len(rows) + lost + 1
    BY <1>2, <2>1, <2>3
  <2>5. \A i \in 1..Len(rows') : \/ i \in 1..Len(rows) /\ rows'[i] = rows[i]
                                 \/ rows'[i].code = code /\ rows'[i].use = use
    BY <2>2, <2>3
  <2> QED  BY <2>3, <2>4, <2>5 DEF Row
<1>3. CASE lost' = lost + 1 /\ UNCHANGED rows
  BY <1>3 DEF TypeOK
<1> QED  BY <1>2, <1>3 DEF Audit

\* finish leaves the request finalized and writes only when it was not.
LEMMA FinishEffect ==
    ASSUME TypeOK, NEW code \in Codes, NEW use \in Usage, Finish(code, use)
    PROVE  /\ finalized' = TRUE
           /\ rows' \in Seq([code : Codes, use : Usage])
           /\ lost' \in Nat
           /\ finalized => rows' = rows /\ lost' = lost
           /\ ~finalized => Len(rows') + lost' = Len(rows) + lost + 1
           /\ \A i \in 1..Len(rows') :
                \/ i \in 1..Len(rows) /\ rows'[i] = rows[i]
                \/ ~finalized /\ rows'[i].code = code /\ rows'[i].use = use
<1>1. CASE finalized
  BY <1>1 DEF Finish, TypeOK
<1>2. CASE ~finalized
  BY <1>2, AuditEffect DEF Finish
<1> QED  BY <1>1, <1>2

-----------------------------------------------------------------------------
(* Type correctness.                                                       *)

\* Every variable of the model keeps its type.
THEOREM TypeCorrect == Spec => []TypeOK
<1>1. Init => TypeOK
  <2> SUFFICES ASSUME Init
               PROVE  TypeOK
    OBVIOUS
  <2>1. rows \in Seq([code : Codes, use : Usage]) /\ obs = "none"
    BY DEF Init
  <2>2. task \in [Accountants -> {"none", "ready", "reporting", "done"}]
    BY DEF Init
  <2>3. usage \in Usage /\ reader = "open" /\ lost \in Nat /\ calls \in Nat
    BY DEF Init, NoUsage, Usage, Sources, Prompts
  <2>4. /\ stream \in BOOLEAN /\ rsv \in BOOLEAN /\ recorded \in BOOLEAN
        /\ finalized \in BOOLEAN /\ streamErr \in BOOLEAN /\ seen \in BOOLEAN
        /\ gone \in BOOLEAN /\ pc = "arrived" /\ answer = "none"
        /\ payload \in BOOLEAN /\ text \in Prompts
    BY DEF Init, Prompts
  <2> QED  BY <2>1, <2>2, <2>3, <2>4 DEF TypeOK
<1>2. TypeOK /\ [Next]_vars => TypeOK'
  <2> SUFFICES ASSUME TypeOK, [Next]_vars
               PROVE  TypeOK'
    OBVIOUS
  <2> USE DEF TypeOK, Answer, Observe
  <2>1. CASE Invalid
    BY <2>1 DEF Invalid
  <2>2. ASSUME NEW code \in Refusals, Refused(code) \/ AdmitRefused(code)
        PROVE  TypeOK'
    <3>1. code \in Codes
      BY DEF Codes
    <3>2. rows' \in Seq([code : Codes, use : Usage]) /\ lost' \in Nat
      BY <2>2, <3>1, AuditEffect, NoUsageType DEF Refused, AdmitRefused
    <3>3. obs' = code /\ pc' = "ended" /\ answer' = code
      BY <2>2 DEF Refused, AdmitRefused
    <3>4. UNCHANGED <<input, rsv, recorded, finalized, streamErr, seen, reader,
                      usage, task, calls, gone>>
      BY <2>2 DEF Refused, AdmitRefused
    <3> QED  BY <3>1, <3>2, <3>3, <3>4
  <2>3. CASE ProviderMissing
    BY <2>3 DEF ProviderMissing, Codes
  <2>4. ASSUME NEW s \in BOOLEAN, Inspected(s)
        PROVE  TypeOK'
    BY <2>4 DEF Inspected
  <2>5. CASE AdmitGranted \/ AdmitSkipped
    BY <2>5 DEF AdmitGranted, AdmitSkipped, Proceed, PromptText, Prompts
  <2>6. ASSUME FailAnswer
        PROVE  /\ pc' = "ended" /\ obs' \in Codes
               /\ answer' \in Codes /\ finalized' \in BOOLEAN
               /\ rows' \in Seq([code : Codes, use : Usage]) /\ lost' \in Nat
    <3>1. "upstream_error" \in Codes
      BY DEF Codes
    <3>2. /\ rows' \in Seq([code : Codes, use : Usage]) /\ lost' \in Nat
          /\ finalized' = TRUE
      BY <2>6, <3>1, FinishEffect, NoUsageType DEF FailAnswer
    <3>3. obs' \in Codes /\ pc' = "ended" /\ answer' \in Codes
      BY <2>6, <3>1 DEF FailAnswer
    <3> QED  BY <3>2, <3>3
  <2>7. CASE ProviderFails
    <3>1. CASE rsv
      BY <2>7, <3>1 DEF ProviderFails
    <3>2. CASE ~rsv
      BY <2>6, <2>7, <3>2 DEF ProviderFails
    <3> QED  BY <3>1, <3>2
  <2>8. CASE Refunded
    BY <2>6, <2>8 DEF Refunded
  <2>9. ASSUME NEW source \in Sources, ChatOk(source)
        PROVE  TypeOK'
    BY <2>9, JsonUsageType DEF ChatOk, Codes
  <2>10. CASE Reported
    BY <2>10 DEF Reported
  <2>11. CASE Mirrored
    <3>1. "ok" \in Codes
      BY DEF Codes
    <3>2. /\ rows' \in Seq([code : Codes, use : Usage]) /\ lost' \in Nat
          /\ finalized' = TRUE
      BY <2>11, <3>1, FinishEffect DEF Mirrored
    <3> QED  BY <2>11, <3>1, <3>2 DEF Mirrored
  <2>12. CASE StreamOpened
    BY <2>12 DEF StreamOpened
  <2>13. ASSUME NEW hasUsage \in BOOLEAN, Chunk(hasUsage)
         PROVE  TypeOK'
    BY <2>13 DEF Chunk
  <2>14. CASE ItemFails
    BY <2>14 DEF ItemFails, Codes
  <2>15. CASE StreamEnds
    BY <2>15 DEF StreamEnds
  <2>16. CASE TermReported
    BY <2>16 DEF TermReported
  <2>17. CASE TermMirrored
    <3>1. TermCode \in Codes
      BY DEF TermCode, Codes
    <3>2. /\ rows' \in Seq([code : Codes, use : Usage]) /\ lost' \in Nat
          /\ finalized' = TRUE
      BY <2>17, <3>1, FinishEffect, NoUsageType DEF TermMirrored
    <3> QED  BY <2>17, <3>1, <3>2 DEF TermMirrored
  <2>18. CASE BodyDropped
    BY <2>18 DEF BodyDropped
  <2>19. CASE Disconnect
    BY <2>19 DEF Disconnect
  <2>20. ASSUME NEW a \in Accountants, TaskStarts(a) \/ TaskReported(a)
         PROVE  TypeOK'
    <3>1. DropCode \in Codes
      BY DEF DropCode, Codes
    <3>2. /\ rows' \in Seq([code : Codes, use : Usage]) /\ lost' \in Nat
          /\ finalized' \in BOOLEAN
      BY <2>20, <3>1, FinishEffect, NoUsageType DEF TaskStarts, TaskReported
    <3>3. CASE TaskStarts(a)
      BY <3>2, <3>3 DEF TaskStarts
    <3>4. CASE TaskReported(a)
      BY <3>2, <3>4 DEF TaskReported
    <3> QED  BY <2>20, <3>3, <3>4
  <2>21. CASE ChatPanics \/ ReaderExpires
    BY <2>21 DEF ChatPanics, ReaderExpires
  <2>22. CASE UNCHANGED vars
    BY <2>22 DEF vars
  <2> QED
    BY <2>1, <2>2, <2>3, <2>4, <2>5, <2>7, <2>8, <2>9, <2>10, <2>11, <2>12,
       <2>13, <2>14, <2>15, <2>16, <2>17, <2>18, <2>19, <2>20, <2>21, <2>22
       DEF Next, HandlerStep, BodyStep, TaskStep
<1> QED
  BY <1>1, <1>2, PTL DEF Spec
-----------------------------------------------------------------------------
(* One row, one report.                                                    *)

\* What the places of the request say about its flags: nothing is written
\* before the handler's last step, the two flags are set before a Drop task
\* of a finished stream can look at them, and a task reports only a request
\* whose client left.
PlacesInv ==
    /\ pc \in Handler =>
         ~finalized /\ ~recorded /\ ~streamErr /\ Len(rows) + lost = 0
    /\ pc \in Body => ~finalized /\ Len(rows) + lost = 0
    /\ pc \in {"streaming", "term_report"} \cup (Handler \ {"mirror"}) => calls = 0
    /\ pc = "streaming" => ~recorded
    /\ pc \in {"mirror", "term_mirror", "emitted"} => calls = 1
    /\ pc \in {"term_report", "term_mirror", "emitted"} => recorded
    /\ pc = "emitted" => finalized
    /\ pc = "dropped" => gone
    /\ pc \in Handler \cup Body \cup {"panicked"} =>
         \A a \in Accountants : task[a] = "none"
    /\ pc \in {"emitted", "ended"} =>
         \A a \in Accountants :
            /\ task[a] # "reporting"
            /\ task[a] # "none" => finalized /\ recorded
    /\ pc = "dropped" /\ ~finalized => Len(rows) + lost = 0

\* The claim on the usage report: until it is made nothing was reported, and
\* only one task holds it.
ClaimInv ==
    /\ \A a \in Accountants : task[a] = "reporting" => calls = 0 /\ recorded
    /\ task["guard"] # "reporting" \/ task["body"] # "reporting"
    /\ \A a \in Accountants : task[a] # "none" /\ ~recorded => calls = 0

\* The five safety properties together with what makes them inductive.
LifecycleInv ==
    /\ PlacesInv
    /\ ClaimInv
    /\ OneFinalRow
    /\ ReportedOnce
    /\ NeverOkAfterError
    /\ CancelledMeansGone
    /\ OkIsReported
\* A step that writes no row and sets no error keeps what the rows say.
LEMMA RowsKept ==
    ASSUME LifecycleInv, UNCHANGED <<rows, lost>>, streamErr' = streamErr,
           gone => gone', calls' = calls \/ (calls = 0 /\ calls' = 1)
    PROVE  OneFinalRow' /\ NeverOkAfterError' /\ CancelledMeansGone'
             /\ OkIsReported'
<1> QED
  BY DEF LifecycleInv, OneFinalRow, NeverOkAfterError, CancelledMeansGone,
         OkIsReported

\* A finish that finds nothing written keeps what the rows say, if its code is
\* right: an "ok" has been reported and has seen no error, a "cancelled" client
\* is gone.
LEMMA FinishKeeps ==
    ASSUME TypeOK, LifecycleInv, NEW code \in Codes, NEW use \in Usage,
           Finish(code, use),
           ~finalized => Len(rows) + lost = 0,
           streamErr' = streamErr, gone' = gone,
           calls' = calls \/ (calls = 0 /\ calls' = 1),
           ~finalized /\ code = "ok" => ~streamErr /\ calls' = 1,
           ~finalized /\ code = "cancelled" => gone
    PROVE  /\ OneFinalRow' /\ NeverOkAfterError' /\ CancelledMeansGone'
           /\ OkIsReported'
           /\ finalized'
<1>1. /\ finalized' = TRUE
      /\ finalized => rows' = rows /\ lost' = lost
      /\ ~finalized => Len(rows') + lost' = Len(rows) + lost + 1
      /\ \A i \in 1..Len(rows') :
           \/ i \in 1..Len(rows) /\ rows'[i] = rows[i]
           \/ ~finalized /\ rows'[i].code = code
  BY FinishEffect
<1>2. OneFinalRow'
  BY <1>1 DEF LifecycleInv, OneFinalRow, TypeOK
<1>3. NeverOkAfterError' /\ CancelledMeansGone' /\ OkIsReported'
  BY <1>1 DEF LifecycleInv, NeverOkAfterError, CancelledMeansGone, OkIsReported
<1> QED  BY <1>1, <1>2, <1>3

\* The invariant survives every order of the terminal chunk, the disconnect and
\* the two Drop tasks.
LEMMA LifecycleInvariant == Spec => []LifecycleInv
<1>1. Init => LifecycleInv
  BY DEF Init, LifecycleInv, PlacesInv, ClaimInv, OneFinalRow, ReportedOnce,
         NeverOkAfterError, CancelledMeansGone, OkIsReported
<1>2. TypeOK /\ TypeOK' /\ LifecycleInv /\ [Next]_vars => LifecycleInv'
  <2> SUFFICES ASSUME TypeOK, TypeOK', LifecycleInv, [Next]_vars
               PROVE  LifecycleInv'
    OBVIOUS
  <2> USE DEF Answer
  <2>0. PlacesInv /\ ClaimInv /\ calls =< 1 /\ calls \in Nat
    BY DEF LifecycleInv, ReportedOnce, TypeOK
  <2>1. CASE Invalid
    <3>1. PlacesInv' /\ ClaimInv' /\ ReportedOnce'
      BY <2>0, <2>1 DEF Invalid, PlacesInv, ClaimInv, ReportedOnce
    <3> QED  BY <2>1, <3>1, RowsKept DEF Invalid, LifecycleInv
  <2>2. ASSUME NEW code \in Refusals, Refused(code) \/ AdmitRefused(code)
        PROVE  LifecycleInv'
    <3>1. PlacesInv' /\ ClaimInv' /\ ReportedOnce'
      BY <2>0, <2>2 DEF Refused, AdmitRefused, PlacesInv, ClaimInv, ReportedOnce
    <3>2. /\ Len(rows') + lost' = Len(rows) + lost + 1
          /\ \A i \in 1..Len(rows') :
               \/ i \in 1..Len(rows) /\ rows'[i] = rows[i]
               \/ rows'[i].code = code
      BY <2>2, AuditEffect, NoUsageType DEF Refused, AdmitRefused, Codes
    <3>3. Len(rows) + lost = 0 /\ streamErr' = streamErr /\ gone' = gone /\ calls' = calls
      BY <2>0, <2>2 DEF Refused, AdmitRefused, PlacesInv
    <3>4. code # "ok" /\ code # "cancelled"
      BY DEF Refusals
    <3>5. OneFinalRow'
      BY <3>2, <3>3 DEF OneFinalRow
    <3>6. NeverOkAfterError' /\ CancelledMeansGone' /\ OkIsReported'
      BY <3>2, <3>3, <3>4 DEF LifecycleInv, NeverOkAfterError,
         CancelledMeansGone, OkIsReported
    <3> QED  BY <3>1, <3>5, <3>6 DEF LifecycleInv
  <2>3. CASE ProviderMissing
    <3>1. PlacesInv' /\ ClaimInv' /\ ReportedOnce'
      BY <2>0, <2>3 DEF ProviderMissing, PlacesInv, ClaimInv, ReportedOnce
    <3> QED  BY <2>3, <3>1, RowsKept DEF ProviderMissing, LifecycleInv
  <2>4. ASSUME NEW s \in BOOLEAN, Inspected(s)
        PROVE  LifecycleInv'
    <3>1. PlacesInv' /\ ClaimInv' /\ ReportedOnce'
      BY <2>0, <2>4 DEF Inspected, PlacesInv, ClaimInv, ReportedOnce
    <3> QED  BY <2>4, <3>1, RowsKept DEF Inspected, LifecycleInv
  <2>5. CASE AdmitGranted \/ AdmitSkipped
    <3>1. PlacesInv' /\ ClaimInv' /\ ReportedOnce'
      BY <2>0, <2>5 DEF AdmitGranted, AdmitSkipped, Proceed, PlacesInv, ClaimInv,
         ReportedOnce
    <3>2. UNCHANGED <<rows, lost, streamErr, gone, calls>>
      BY <2>5 DEF AdmitGranted, AdmitSkipped
    <3> QED  BY <3>1, <3>2, RowsKept DEF LifecycleInv
  <2>6. CASE ProviderFails
    <3>1. PlacesInv' /\ ClaimInv' /\ ReportedOnce'
      BY <2>0, <2>6 DEF ProviderFails, FailAnswer, Finish, PlacesInv, ClaimInv,
         ReportedOnce
    <3>2. CASE rsv
      BY <2>6, <3>1, <3>2, RowsKept DEF ProviderFails, LifecycleInv
    <3>3. CASE ~rsv
      <4>1. Finish("upstream_error", NoUsage) /\ "upstream_error" \in Codes
        BY <2>6, <3>3 DEF ProviderFails, FailAnswer, Codes
      <4>2. OneFinalRow' /\ NeverOkAfterError' /\ CancelledMeansGone' /\ OkIsReported'
        BY <2>0, <2>6, <4>1, FinishKeeps, NoUsageType DEF ProviderFails, PlacesInv
      <4> QED  BY <3>1, <4>2 DEF LifecycleInv
    <3> QED  BY <3>2, <3>3 DEF TypeOK
  <2>7. CASE Refunded
    <3>1. PlacesInv' /\ ClaimInv' /\ ReportedOnce'
      BY <2>0, <2>7 DEF Refunded, FailAnswer, Finish, PlacesInv, ClaimInv,
         ReportedOnce
    <3>2. Finish("upstream_error", NoUsage) /\ "upstream_error" \in Codes
      BY <2>7 DEF Refunded, FailAnswer, Codes
    <3>3. calls = 0 /\ calls' = 1 /\ Len(rows) + lost = 0
      BY <2>0, <2>7 DEF Refunded, PlacesInv
    <3>4. OneFinalRow' /\ NeverOkAfterError' /\ CancelledMeansGone' /\ OkIsReported'
      BY <2>7, <3>2, <3>3, FinishKeeps, NoUsageType DEF Refunded
    <3> QED  BY <3>1, <3>4 DEF LifecycleInv
  <2>8. ASSUME NEW source \in Sources, ChatOk(source)
        PROVE  LifecycleInv'
    <3>1. PlacesInv' /\ ClaimInv' /\ ReportedOnce'
      BY <2>0, <2>8 DEF ChatOk, PlacesInv, ClaimInv, ReportedOnce
    <3> QED  BY <2>8, <3>1, RowsKept DEF ChatOk, LifecycleInv
  <2>9. CASE Reported \/ TermReported
    <3>1. calls = 0 /\ calls' = 1
      BY <2>0, <2>9 DEF Reported, TermReported, PlacesInv
    <3>2. PlacesInv' /\ ClaimInv' /\ ReportedOnce'
      BY <2>0, <2>9, <3>1 DEF Reported, TermReported, PlacesInv, ClaimInv,
         ReportedOnce
    <3> QED
      BY <2>9, <3>1, <3>2, RowsKept DEF Reported, TermReported, LifecycleInv
  <2>10. CASE Mirrored
    <3>1. PlacesInv' /\ ClaimInv' /\ ReportedOnce'
      BY <2>0, <2>10 DEF Mirrored, Finish, PlacesInv, ClaimInv, ReportedOnce
    <3>2. /\ Finish("ok", usage) /\ "ok" \in Codes /\ usage \in Usage
          /\ calls = 1 /\ ~streamErr /\ Len(rows) + lost = 0
      BY <2>0, <2>10 DEF Mirrored, Codes, PlacesInv, TypeOK
    <3>3. OneFinalRow' /\ NeverOkAfterError' /\ CancelledMeansGone' /\ OkIsReported'
      BY <2>10, <3>2, FinishKeeps DEF Mirrored
    <3> QED  BY <3>1, <3>3 DEF LifecycleInv
  <2>11. CASE StreamOpened
    <3>1. PlacesInv' /\ ClaimInv' /\ ReportedOnce'
      BY <2>0, <2>11 DEF StreamOpened, PlacesInv, ClaimInv, ReportedOnce
    <3> QED  BY <2>11, <3>1, RowsKept DEF StreamOpened, LifecycleInv
  <2>12. ASSUME NEW hasUsage \in BOOLEAN, Chunk(hasUsage)
         PROVE  LifecycleInv'
    <3>1. PlacesInv' /\ ClaimInv' /\ ReportedOnce'
      BY <2>0, <2>12 DEF Chunk, PlacesInv, ClaimInv, ReportedOnce
    <3> QED  BY <2>12, <3>1, RowsKept DEF Chunk, LifecycleInv
  <2>13. CASE ItemFails
    <3>1. PlacesInv' /\ ClaimInv' /\ ReportedOnce'
      BY <2>0, <2>13 DEF ItemFails, PlacesInv, ClaimInv, ReportedOnce
    <3>2. Len(rows) = 0
      BY <2>0, <2>13 DEF ItemFails, PlacesInv, TypeOK
    <3>3. UNCHANGED <<rows, lost, calls, gone>>
      BY <2>13 DEF ItemFails
    <3> QED
      BY <3>1, <3>2, <3>3 DEF LifecycleInv, OneFinalRow, NeverOkAfterError,
         CancelledMeansGone, OkIsReported
  <2>14. CASE StreamEnds
    <3>1. PlacesInv' /\ ClaimInv' /\ ReportedOnce'
      BY <2>0, <2>14 DEF StreamEnds, PlacesInv, ClaimInv, ReportedOnce
    <3> QED  BY <2>14, <3>1, RowsKept DEF StreamEnds, LifecycleInv
  <2>15. CASE TermMirrored
    <3>1. /\ Finish(TermCode, StreamUsage) /\ TermCode \in Codes
          /\ calls = 1 /\ Len(rows) + lost = 0
          /\ TermCode = "ok" => ~streamErr
          /\ TermCode # "cancelled"
      BY <2>0, <2>15 DEF TermMirrored, TermCode, Codes, PlacesInv
    <3>2. PlacesInv' /\ ClaimInv' /\ ReportedOnce'
      BY <2>0, <2>15 DEF TermMirrored, Finish, PlacesInv, ClaimInv, ReportedOnce,
         TypeOK
    <3>3. OneFinalRow' /\ NeverOkAfterError' /\ CancelledMeansGone' /\ OkIsReported'
      BY <2>15, <3>1, FinishKeeps, NoUsageType DEF TermMirrored
    <3> QED  BY <3>2, <3>3 DEF LifecycleInv
  <2>16. CASE BodyDropped
    <3>1. PlacesInv' /\ ClaimInv' /\ ReportedOnce'
      BY <2>0, <2>16 DEF BodyDropped, PlacesInv, ClaimInv, ReportedOnce, TypeOK
    <3> QED  BY <2>16, <3>1, RowsKept DEF BodyDropped, LifecycleInv
  <2>17. CASE Disconnect
    <3>1. calls' = calls \/ (calls = 0 /\ calls' = 1)
      BY <2>0, <2>17 DEF Disconnect, PlacesInv
    <3>2. PlacesInv' /\ ClaimInv' /\ ReportedOnce'
      BY <2>0, <2>17, <3>1 DEF Disconnect, PlacesInv, ClaimInv, ReportedOnce,
         TypeOK
    <3> QED  BY <2>17, <3>1, <3>2, RowsKept DEF Disconnect, LifecycleInv
  <2>18. ASSUME NEW a \in Accountants, TaskStarts(a)
         PROVE  LifecycleInv'
    <3>1. pc \in {"emitted", "ended", "dropped"}
      BY <2>0, <2>18 DEF TaskStarts, PlacesInv, TypeOK
    <3>2. PlacesInv' /\ ClaimInv' /\ ReportedOnce'
      BY <2>0, <2>18, <3>1 DEF TaskStarts, Finish, PlacesInv, ClaimInv,
         ReportedOnce, TypeOK
    <3>3. CASE recorded
      <4>1. /\ Finish(DropCode, StreamUsage) /\ DropCode \in Codes
            /\ DropCode # "ok"
        BY <2>18, <3>3 DEF TaskStarts, DropCode, Codes
      <4>2. ~finalized => gone /\ Len(rows) + lost = 0
        BY <2>0, <2>18, <3>1 DEF TaskStarts, PlacesInv
      <4>3. OneFinalRow' /\ NeverOkAfterError' /\ CancelledMeansGone' /\ OkIsReported'
        BY <2>18, <4>1, <4>2, FinishKeeps, NoUsageType DEF TaskStarts
      <4> QED  BY <3>2, <4>3 DEF LifecycleInv
    <3>4. CASE ~recorded
      BY <2>18, <3>2, <3>4, RowsKept DEF TaskStarts, LifecycleInv
    <3> QED  BY <3>3, <3>4
  <2>19. ASSUME NEW a \in Accountants, TaskReported(a)
         PROVE  LifecycleInv'
    <3>1. pc = "dropped" /\ calls = 0 /\ calls' = 1 /\ recorded
      BY <2>0, <2>19 DEF TaskReported, PlacesInv, ClaimInv, TypeOK
    <3>2. PlacesInv' /\ ClaimInv' /\ ReportedOnce'
      BY <2>0, <2>19, <3>1 DEF TaskReported, Finish, PlacesInv, ClaimInv,
         ReportedOnce, TypeOK
    <3>3. /\ Finish(DropCode, StreamUsage) /\ DropCode \in Codes
          /\ DropCode # "ok"
      BY <2>19 DEF TaskReported, DropCode, Codes
    <3>4. gone /\ (~finalized => Len(rows) + lost = 0)
      BY <2>0, <3>1 DEF PlacesInv
    <3>5. OneFinalRow' /\ NeverOkAfterError' /\ CancelledMeansGone' /\ OkIsReported'
      BY <2>19, <3>1, <3>3, <3>4, FinishKeeps, NoUsageType DEF TaskReported
    <3> QED  BY <3>2, <3>5 DEF LifecycleInv
  <2>20. CASE ChatPanics \/ ReaderExpires
    <3>1. PlacesInv' /\ ClaimInv' /\ ReportedOnce'
      BY <2>0, <2>20 DEF ChatPanics, ReaderExpires, PlacesInv, ClaimInv,
         ReportedOnce
    <3> QED
      BY <2>20, <3>1, RowsKept DEF ChatPanics, ReaderExpires, LifecycleInv
  <2>21. CASE UNCHANGED vars
    BY <2>21 DEF vars, LifecycleInv, PlacesInv, ClaimInv, OneFinalRow,
       ReportedOnce, NeverOkAfterError, CancelledMeansGone, OkIsReported
  <2> QED
    BY <2>1, <2>2, <2>3, <2>4, <2>5, <2>6, <2>7, <2>8, <2>9, <2>10, <2>11,
       <2>12, <2>13, <2>14, <2>15, <2>16, <2>17, <2>18, <2>19, <2>20, <2>21
       DEF Next, HandlerStep, BodyStep, TaskStep
<1> QED
  BY <1>1, <1>2, TypeCorrect, PTL DEF Spec

\* The final row and the usage report of a request are written at most once,
\* and the row says what happened, for every order of the terminal chunk, the
\* disconnect and the two Drop tasks.
THEOREM LifecycleSafe ==
    Spec => [](OneFinalRow /\ ReportedOnce /\ NeverOkAfterError
                 /\ CancelledMeansGone /\ OkIsReported)
<1>1. LifecycleInv => OneFinalRow /\ ReportedOnce /\ NeverOkAfterError
                        /\ CancelledMeansGone /\ OkIsReported
  BY DEF LifecycleInv
<1> QED
  BY <1>1, LifecycleInvariant, PTL

-----------------------------------------------------------------------------
(* What the row and the last metric say.                                   *)

\* The row and the last metric agree with what the client was told.
Told ==
    /\ HasRow
    /\ \A i \in 1..Len(rows) : rows[i].code = answer
    /\ obs = answer

\* An estimate without the prompt was written by the linear path, which spawns
\* no task and after which nothing happens.
EstimateInv ==
    \A i \in 1..Len(rows) :
        rows[i].use = [source |-> "estimated", prompt |-> "zero"] =>
            pc = "ended" /\ \A a \in Accountants : task[a] = "none"

\* A JSON answer has its metric before its row; an answered client was told
\* what was written; whoever finished the request, a Drop task included, wrote
\* or lost the row.
AnswerInv ==
    /\ pc \in {"report", "mirror"} => obs = "ok"
    /\ pc \in {"emitted", "ended"} /\ answer \notin {"invalid", "unconfigured"} =>
         Told
    /\ finalized => HasRow
    /\ \A a \in Accountants : task[a] = "done" => finalized
    /\ (\E a \in Accountants : task[a] = "none") =>
         pc \in {"emitted", "ended"} \/ \A a \in Accountants : task[a] = "none"
    /\ EstimateInv

\* A finish that is the first to write leaves exactly its own row.
LEMMA FinishWrites ==
    ASSUME TypeOK, NEW code \in Codes, NEW use \in Usage, Finish(code, use),
           ~finalized, Len(rows) + lost = 0
    PROVE  /\ finalized' /\ HasRow'
           /\ \A i \in 1..Len(rows') :
                rows'[i].code = code /\ rows'[i].use = use
<1>1. Len(rows) = 0 /\ lost = 0
  BY DEF TypeOK
<1>2. /\ finalized' = TRUE
      /\ Len(rows') + lost' = Len(rows) + lost + 1
      /\ \A i \in 1..Len(rows') :
           \/ i \in 1..Len(rows) /\ rows'[i] = rows[i]
           \/ ~finalized /\ rows'[i].code = code /\ rows'[i].use = use
  BY FinishEffect
<1> QED  BY <1>1, <1>2 DEF HasRow

\* A step that leaves the row, the metrics, the answer and the tasks alone and
\* does not end the request keeps the invariant.
LEMMA AnswerKept ==
    ASSUME TypeOK, LifecycleInv, AnswerInv,
           UNCHANGED <<rows, lost, finalized, answer, task>>,
           pc \in Handler \cup Body, pc' \in Handler \cup Body \cup {"panicked"},
           pc' \in {"report", "mirror"} => obs' = "ok"
    PROVE  AnswerInv'
<1>1. Len(rows) = 0
  BY DEF LifecycleInv, PlacesInv, TypeOK
<1> QED  BY <1>1 DEF AnswerInv, EstimateInv, HasRow

\* The payload still has its messages when the handler comes to its provider,
\* and whatever stream exists was made with the text taken from them.
TextInv ==
    /\ pc \in {"arrived", "admit"} => payload
    /\ pc \in {"open", "emitted"} \cup Body \/ Streamed => text = "some"

\* No step of the handler moves the payload before it has taken the text.
LEMMA TextInvariant == Spec => []TextInv
<1>1. Init => TextInv
  BY DEF Init, TextInv, Streamed
<1>2. TypeOK /\ TextInv /\ [Next]_vars => TextInv'
  <2> SUFFICES ASSUME TypeOK, TextInv, [Next]_vars
               PROVE  TextInv'
    OBVIOUS
  <2>1. CASE Invalid \/ ProviderMissing \/ ChatPanics \/ Reported \/ Mirrored
    BY <2>1 DEF Invalid, ProviderMissing, ChatPanics, Reported, Mirrored, Answer,
       TextInv, Streamed
  <2>2. ASSUME NEW code \in Refusals, Refused(code) \/ AdmitRefused(code)
        PROVE  TextInv'
    BY <2>2 DEF Refused, AdmitRefused, Answer, TextInv, Streamed
  <2>3. ASSUME NEW s \in BOOLEAN, Inspected(s)
        PROVE  TextInv'
    BY <2>3 DEF Inspected, TextInv, Streamed
  <2>4. CASE AdmitGranted \/ AdmitSkipped
    <3>1. /\ payload /\ UNCHANGED task
          /\ text' = IF stream THEN PromptText ELSE text
          /\ pc' = IF stream THEN "open" ELSE "chat"
      BY <2>4 DEF AdmitGranted, AdmitSkipped, Proceed, TextInv
    <3> QED  BY <3>1 DEF PromptText, TextInv, Streamed
  <2>5. CASE ProviderFails \/ Refunded
    BY <2>5 DEF ProviderFails, Refunded, FailAnswer, Answer, TextInv, Streamed
  <2>6. ASSUME NEW source \in Sources, ChatOk(source)
        PROVE  TextInv'
    BY <2>6 DEF ChatOk, TextInv, Streamed
  <2>7. ASSUME NEW hasUsage \in BOOLEAN, Chunk(hasUsage)
        PROVE  TextInv'
    BY <2>7 DEF Chunk, TextInv, Streamed
  <2>8. CASE StreamOpened \/ ItemFails \/ ReaderExpires \/ StreamEnds
               \/ TermReported
    BY <2>8 DEF StreamOpened, ItemFails, ReaderExpires, StreamEnds,
       TermReported, TextInv, Streamed
  <2>9. CASE TermMirrored
    BY <2>9 DEF TermMirrored, TextInv
  <2>10. CASE BodyDropped
    BY <2>10 DEF BodyDropped, TextInv
  <2>11. CASE Disconnect
    BY <2>11 DEF Disconnect, TextInv, Streamed
  <2>12. ASSUME NEW a \in Accountants, TaskStep(a)
         PROVE  TextInv'
    <3>1. Streamed /\ UNCHANGED <<pc, payload, text>>
      BY <2>12 DEF TaskStep, TaskStarts, TaskReported, Streamed
    <3> QED  BY <3>1 DEF TextInv
  <2>13. CASE UNCHANGED vars
    BY <2>13 DEF vars, TextInv, Streamed
  <2> QED
    BY <2>1, <2>2, <2>3, <2>4, <2>5, <2>6, <2>7, <2>8, <2>9, <2>10, <2>11,
       <2>12, <2>13 DEF Next, HandlerStep, BodyStep
<1> QED
  BY <1>1, <1>2, TypeCorrect, PTL DEF Spec

\* The invariant about rows, metrics and answers is preserved by every step.
LEMMA AnswerInvariant == Spec => []AnswerInv
<1>1. Init => AnswerInv
  BY DEF Init, AnswerInv, EstimateInv
<1>2. TypeOK /\ TypeOK' /\ LifecycleInv /\ LifecycleInv' /\ TextInv
        /\ AnswerInv /\ [Next]_vars => AnswerInv'
  <2> SUFFICES ASSUME TypeOK, TypeOK', LifecycleInv, LifecycleInv', TextInv,
                      AnswerInv, [Next]_vars
               PROVE  AnswerInv'
    OBVIOUS
  <2>0. PlacesInv /\ ClaimInv
    BY DEF LifecycleInv
  <2>a. pc \in Body \/ Streamed => StreamUsage.prompt = "some"
    BY DEF TextInv, StreamUsage
  <2>1. CASE Invalid \/ ProviderMissing
    <3>1. /\ UNCHANGED <<rows, lost, finalized, task>> /\ pc' = "ended"
          /\ answer' \in {"invalid", "unconfigured"} /\ pc \in Handler
      BY <2>1 DEF Invalid, ProviderMissing, Answer
    <3>2. Len(rows) = 0
      BY <2>0, <3>1 DEF PlacesInv, TypeOK
    <3> QED  BY <3>1, <3>2 DEF AnswerInv, EstimateInv, HasRow
  <2>2. ASSUME NEW code \in Refusals, Refused(code) \/ AdmitRefused(code)
        PROVE  AnswerInv'
    <3>1. /\ Audit(code, NoUsage) /\ Observe(code) /\ code \in Codes
          /\ UNCHANGED <<finalized, task>>
          /\ pc' = "ended" /\ answer' = code /\ pc \in Handler
      BY <2>2 DEF Refused, AdmitRefused, Answer, Codes
    <3>2. /\ Len(rows) = 0 /\ Len(rows) + lost = 0 /\ ~finalized
          /\ \A a \in Accountants : task[a] = "none"
      BY <2>0, <3>1 DEF PlacesInv, TypeOK
    <3>3. /\ Len(rows') + lost' = 1
          /\ \A i \in 1..Len(rows') :
               rows'[i].code = code /\ rows'[i].use = NoUsage
      BY <3>1, <3>2, AuditEffect, NoUsageType
    <3>4. obs' = code
      BY <3>1 DEF Observe
    <3>5. Told' /\ HasRow'
      BY <3>1, <3>3, <3>4 DEF Told, HasRow
    <3>6. EstimateInv'
      BY <3>1, <3>2 DEF EstimateInv
    <3> QED  BY <3>1, <3>2, <3>5, <3>6 DEF AnswerInv
  <2>3. ASSUME NEW s \in BOOLEAN, Inspected(s)
        PROVE  AnswerInv'
    BY <2>3, AnswerKept DEF Inspected
  <2>4. CASE AdmitGranted \/ AdmitSkipped
    <3>1. /\ UNCHANGED <<rows, lost, finalized, answer, task>>
          /\ pc \in Handler /\ pc' \in {"open", "chat"}
      BY <2>4 DEF AdmitGranted, AdmitSkipped, Proceed
    <3> QED  BY <3>1, AnswerKept
  <2>5. ASSUME FailAnswer, pc \in Handler, UNCHANGED task
        PROVE  AnswerInv'
    <3>1. /\ Finish("upstream_error", NoUsage) /\ Observe("upstream_error")
          /\ "upstream_error" \in Codes
          /\ pc' = "ended" /\ answer' = "upstream_error"
      BY <2>5 DEF FailAnswer, Answer, Codes
    <3>2. /\ Len(rows) + lost = 0 /\ ~finalized
          /\ \A a \in Accountants : task[a] = "none"
      BY <2>0, <2>5 DEF PlacesInv
    <3>3. /\ finalized' /\ HasRow'
          /\ \A i \in 1..Len(rows') : rows'[i].code = "upstream_error"
      BY <3>1, <3>2, FinishWrites, NoUsageType
    <3>4. Told'
      BY <3>1, <3>3 DEF Told, Observe
    <3>5. EstimateInv'
      BY <2>5, <3>1, <3>2 DEF EstimateInv
    <3> QED  BY <2>5, <3>1, <3>2, <3>3, <3>4, <3>5 DEF AnswerInv
  <2>6. CASE ProviderFails
    <3>1. CASE rsv
      BY <2>6, <3>1, AnswerKept DEF ProviderFails
    <3>2. CASE ~rsv
      BY <2>5, <2>6, <3>2 DEF ProviderFails
    <3> QED  BY <3>1, <3>2
  <2>7. CASE Refunded
    BY <2>5, <2>7 DEF Refunded
  <2>8. ASSUME NEW source \in Sources, ChatOk(source)
        PROVE  AnswerInv'
    <3>1. obs' = "ok"
      BY <2>8 DEF ChatOk, Observe
    <3> QED  BY <2>8, <3>1, AnswerKept DEF ChatOk
  <2>9. CASE Reported
    <3>1. obs' = "ok"
      BY <2>9 DEF Reported, AnswerInv
    <3> QED  BY <2>9, <3>1, AnswerKept DEF Reported
  <2>10. CASE Mirrored
    <3>1. /\ Finish("ok", usage) /\ "ok" \in Codes /\ usage \in Usage
          /\ pc = "mirror" /\ pc' = "ended" /\ answer' = "ok"
          /\ UNCHANGED <<task, obs>>
      BY <2>10 DEF Mirrored, Answer, Codes, TypeOK
    <3>2. /\ Len(rows) + lost = 0 /\ ~finalized
          /\ \A a \in Accountants : task[a] = "none"
          /\ obs = "ok"
      BY <2>0, <3>1 DEF PlacesInv, AnswerInv
    <3>3. /\ finalized' /\ HasRow'
          /\ \A i \in 1..Len(rows') : rows'[i].code = "ok"
      BY <3>1, <3>2, FinishWrites
    <3>4. Told'
      BY <3>1, <3>2, <3>3 DEF Told
    <3>5. EstimateInv'
      BY <3>1, <3>2 DEF EstimateInv
    <3> QED  BY <3>1, <3>2, <3>3, <3>4, <3>5 DEF AnswerInv
  <2>11. CASE StreamOpened
    BY <2>11, AnswerKept DEF StreamOpened
  <2>12. ASSUME NEW hasUsage \in BOOLEAN, Chunk(hasUsage)
         PROVE  AnswerInv'
    BY <2>12, AnswerKept DEF Chunk
  <2>13. CASE ItemFails
    BY <2>13, AnswerKept DEF ItemFails
  <2>14. CASE StreamEnds
    <3>1. /\ UNCHANGED <<rows, lost, finalized, answer, task>>
          /\ pc \in Body /\ pc' \in {"term_mirror", "term_report"}
      BY <2>14 DEF StreamEnds
    <3> QED  BY <3>1, AnswerKept
  <2>15. CASE TermReported
    BY <2>15, AnswerKept DEF TermReported
  <2>16. CASE TermMirrored
    <3>1. /\ Finish(TermCode, StreamUsage) /\ Observe(TermCode)
          /\ TermCode \in Codes /\ StreamUsage.prompt = "some"
          /\ pc = "term_mirror" /\ pc' = "emitted" /\ answer' = TermCode
          /\ task' = [task EXCEPT !["guard"] = "ready"]
      BY <2>16, <2>a DEF TermMirrored, TermCode, Codes
    <3>2. /\ Len(rows) + lost = 0 /\ ~finalized
          /\ \A a \in Accountants : task[a] = "none"
      BY <2>0, <3>1 DEF PlacesInv
    <3>3. /\ finalized' /\ HasRow'
          /\ \A i \in 1..Len(rows') :
               rows'[i].code = TermCode /\ rows'[i].use = StreamUsage
      BY <3>1, <3>2, FinishWrites, NoUsageType
    <3>4. Told'
      BY <3>1, <3>3 DEF Told, Observe
    <3>5. EstimateInv'
      BY <3>1, <3>3 DEF EstimateInv
    <3> QED  BY <3>1, <3>2, <3>3, <3>4, <3>5 DEF AnswerInv, TypeOK
  <2>17. CASE BodyDropped
    <3>1. /\ UNCHANGED <<rows, lost, finalized, answer, obs>>
          /\ pc = "emitted" /\ pc' = "ended"
          /\ task' = [task EXCEPT !["body"] = "ready"]
      BY <2>17 DEF BodyDropped
    <3>2. EstimateInv'
      BY <3>1 DEF AnswerInv, EstimateInv
    <3>3. HasRow' = HasRow /\ Told' = Told
      BY <3>1 DEF HasRow, Told
    <3> QED  BY <3>1, <3>2, <3>3 DEF AnswerInv, TypeOK
  <2>18. CASE Disconnect
    <3>1. /\ UNCHANGED <<rows, lost, finalized, answer, obs>>
          /\ pc \in Handler \cup Body /\ pc' = "dropped"
          /\ task' = task \/ task' = [a \in Accountants |-> "ready"]
      BY <2>18 DEF Disconnect
    <3>2. /\ Len(rows) = 0 /\ ~finalized
          /\ \A a \in Accountants : task[a] = "none"
      BY <2>0, <3>1 DEF PlacesInv, TypeOK
    <3> QED  BY <3>1, <3>2 DEF AnswerInv, EstimateInv
  <2>19. ASSUME NEW a \in Accountants, TaskStarts(a) \/ TaskReported(a)
         PROVE  AnswerInv'
    <3>1. /\ UNCHANGED <<pc, obs, answer>>
          /\ task[a] \in {"ready", "reporting"}
          /\ \/ /\ task' = [task EXCEPT ![a] = "done"]
                /\ Finish(DropCode, StreamUsage)
             \/ /\ task' = [task EXCEPT ![a] = "reporting"]
                /\ UNCHANGED <<finalized, rows, lost>>
      BY <2>19 DEF TaskStarts, TaskReported
    <3>2. /\ pc \in {"emitted", "ended", "dropped"}
          /\ pc \in {"emitted", "ended"} => finalized
          /\ ~finalized => Len(rows) + lost = 0
      BY <2>0, <3>1 DEF PlacesInv, TypeOK
    <3>3. \A b \in Accountants : task'[b] = "none" <=> task[b] = "none"
      BY <3>1 DEF TypeOK
    <3>4. CASE UNCHANGED <<finalized, rows, lost>>
      <4>1. \A b \in Accountants : task'[b] = "done" => task[b] = "done" \/ finalized'
        BY <3>1, <3>4 DEF TypeOK, Finish
      <4>2. HasRow' = HasRow /\ Told' = Told
        BY <3>1, <3>4 DEF HasRow, Told
      <4>3. EstimateInv'
        BY <3>1, <3>3, <3>4 DEF EstimateInv, AnswerInv
      <4> QED  BY <3>1, <3>3, <3>4, <4>1, <4>2, <4>3 DEF AnswerInv
    <3>5. CASE Finish(DropCode, StreamUsage) /\ ~finalized
      <4>1. DropCode \in Codes /\ StreamUsage.prompt = "some"
        BY <2>a, <3>1 DEF DropCode, Codes, Streamed
      <4>2. /\ finalized' /\ HasRow'
            /\ \A i \in 1..Len(rows') : rows'[i].use = StreamUsage
        BY <3>2, <3>5, <4>1, FinishWrites, NoUsageType
      <4>3. EstimateInv'
        BY <4>1, <4>2 DEF EstimateInv
      <4> QED  BY <3>1, <3>2, <3>3, <3>5, <4>2, <4>3 DEF AnswerInv
    <3>6. CASE Finish(DropCode, StreamUsage) /\ finalized
      BY <3>4, <3>6 DEF Finish, TypeOK
    <3> QED  BY <3>1, <3>4, <3>5, <3>6
  <2>20. CASE ChatPanics \/ ReaderExpires
    BY <2>20, AnswerKept DEF ChatPanics, ReaderExpires
  <2>21. CASE UNCHANGED vars
    BY <2>21 DEF vars, AnswerInv, EstimateInv, Told, HasRow
  <2> QED
    BY <2>1, <2>2, <2>3, <2>4, <2>6, <2>7, <2>8, <2>9, <2>10, <2>11, <2>12,
       <2>13, <2>14, <2>15, <2>16, <2>17, <2>18, <2>19, <2>20, <2>21
       DEF Next, HandlerStep, BodyStep, TaskStep
<1> QED
  BY <1>1, <1>2, TypeCorrect, LifecycleInvariant, TextInvariant, PTL DEF Spec

\* The estimate written for a stream, by the terminal future or by a Drop task,
\* counts the prompt: StreamAccountant has the text from before the payload was
\* moved into the provider's call.
LEMMA EstimateSafe == Spec => []EstimateCountsPrompt
<1>1. TypeOK /\ AnswerInv => EstimateCountsPrompt
  <2> SUFFICES ASSUME TypeOK, AnswerInv, NEW i \in 1..Len(rows), Streamed,
                      rows[i].use.source = "estimated"
               PROVE  rows[i].use.prompt = "some"
    BY DEF EstimateCountsPrompt
  <2> DEFINE Row == [code : Codes, use : Usage]
  <2>1. rows \in Seq(Row)
    BY DEF TypeOK
  <2>2. rows[i] \in Row
    <3> HIDE DEF Row
    <3> QED  BY <2>1
  <2>3. rows[i].use \in Usage
    BY <2>2
  <2>4. rows[i].use = [source |-> "estimated", prompt |-> "zero"]
          \/ rows[i].use.prompt = "some"
    BY <2>3 DEF Usage, Prompts
  <2> QED  BY <2>4 DEF AnswerInv, EstimateInv, Streamed
<1> QED
  BY <1>1, TypeCorrect, AnswerInvariant, PTL

\* Usage reaches the metering at most once, no success is audited before its
\* usage was reported, and a stream's estimate counts its prompt (settle_once,
\* usage_numbers and RequestLifecycle::finish).
THEOREM UsageSafe == Spec => []UsageReportedOnce
<1>1. LifecycleInv => ReportedOnce /\ OkIsReported
  BY DEF LifecycleInv
<1> QED
  BY <1>1, LifecycleInvariant, EstimateSafe, PTL DEF UsageReportedOnce

\* When a request is over, its client got an error that is never audited, or
\* one row was written or lost and row, last metric and answer agree, or the
\* client left before a stream was opened, or the handler panicked: chat_completions
\* and stream_response miss no other path, whatever the Drop tasks do.
THEOREM AnswerSafe == Spec => []AnswerAudited
<1>1. TypeOK /\ LifecycleInv /\ AnswerInv => AnswerAudited
  <2> SUFFICES ASSUME TypeOK, LifecycleInv, AnswerInv, Quiet,
                      answer \notin {"invalid", "unconfigured"}
               PROVE  \/ /\ HasRow
                         /\ pc = "ended" =>
                              /\ \A i \in 1..Len(rows) : rows[i].code = answer
                              /\ obs = answer
                      \/ gone /\ ~Streamed
                      \/ pc = "panicked"
    BY DEF AnswerAudited
  <2>1. CASE pc = "ended"
    BY <2>1 DEF AnswerInv, Told
  <2>2. CASE pc = "dropped" /\ Streamed
    <3>1. HasRow
      BY <2>2 DEF AnswerInv, Streamed, Quiet
    <3> QED  BY <2>2, <3>1
  <2>3. CASE pc = "dropped" /\ ~Streamed
    BY <2>3 DEF LifecycleInv, PlacesInv
  <2> QED  BY <2>1, <2>2, <2>3 DEF Quiet
<1> QED
  BY <1>1, TypeCorrect, LifecycleInvariant, AnswerInvariant, PTL
=============================================================================
