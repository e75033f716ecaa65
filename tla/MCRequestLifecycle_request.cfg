SPECIFICATION FairSpec
INVARIANTS
    TypeOK
    OneFinalRow
    UsageReportedOnce
    NeverOkAfterError
    CancelledMeansGone
    AnswerAudited
PROPERTY StreamFinishes
CHECK_DEADLOCK FALSE
