SPECIFICATION Spec
CONSTANTS
    None = None
    Tester = Tester
    Turn = {t1, t2}
    Parallel = 1
    Texts <- MCTexts
    MinSegment = 2
    QueueDepth = 1
    MaxLines = 2
    MaxEdits = 1
INVARIANTS AnswerIsWhole SpanTellsOutcome PromptIsFresh
PROPERTY NoSegmentAfterDone
CHECK_DEADLOCK FALSE
