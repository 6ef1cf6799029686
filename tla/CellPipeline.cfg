SPECIFICATION Spec
CONSTANTS
    Kinds = {"http", "stream", "cli", "sync", "async", "replay"}
    Inner = {"stream", "sync", "replay"}
    Formats = {"sse", "json_lines", "raw_chunks"}
    InnerFormats = {"raw_chunks"}
    Rules = {"none", "turn_count", "content_match", "judge"}
    MaxTurns = 2
    StopTurns = 1
    MaxEvents = 2
    Results <- SomeResults
    Recordings <- SomeRecordings
    None = none
    Missing = missing
    ScaleMin = 1
    ScaleMax = 2
    Checks <- AllChecks
    Config <- Config1
    Plans <- OneEach
    Artifacts <- SomeArtifacts
    JudgeReplies <- SomeReplies
    MaxPrice = 2
INVARIANTS ConversationIsWhole StreamAccountsForItself NothingLeftRunning PassesOnlyOnEvidence JudgeWithinLimit
PROPERTIES CellIsJudged
CHECK_DEADLOCK FALSE
