---------------------------- MODULE MCCellPipeline ----------------------------
(* Values of the constants of CellPipeline for TLC.                          *)
EXTENDS CellPipeline, TLC

\* A target that says it streamed, and one that reports nothing; a recorded trace that
\* failed late, and one that succeeded.
Metered == [chunks |-> 1, firstToken |-> TRUE, speed |-> FALSE, completed |-> TRUE]
SomeResults ==
    {[answer |-> "goal", cost |-> 1, tool |-> "ok", stream |-> Metered],
     [answer |-> None, cost |-> None, tool |-> "failed", stream |-> None]}
SomeRecordings ==
    {[error |-> "recorded", answer |-> "goal", cost |-> 1, tool |-> "ok", stream |-> Metered],
     [error |-> None, answer |-> None, cost |-> None, tool |-> "failed", stream |-> None]}

Config1 ==
    ("hasGoal" :> [type |-> "contains_text", all |-> {"goal"}, any |-> {}, none |-> {}])
 @@ ("noOther" :> [type |-> "contains_text", all |-> {}, any |-> {}, none |-> {"other"}])
 @@ ("same" :> [type |-> "exact_match", expected |-> "goal"])
 @@ ("tool" :> [type |-> "tool_called", mustAppear |-> TRUE, min |-> 1, max |-> 1,
                mustSucceed |-> TRUE])
 @@ ("diff" :> [type |-> "git_diff", mustModify |-> {"f"}, mustNotModify |-> {"g"}])
 @@ ("judge" :> [type |-> "llm_judge", assertions |-> {"a", "b"}, required |-> {"a"},
                 passWhen |-> "all", k |-> 1, rubric |-> TRUE, threshold |-> 2,
                 estimate |-> 1, limit |-> 1])
 @@ ("dear" :> [type |-> "llm_judge", assertions |-> {"a", "b"}, required |-> {"a"},
                passWhen |-> "majority", k |-> 1, rubric |-> FALSE, threshold |-> 0,
                estimate |-> 2, limit |-> 1])
 @@ ("leak" :> [type |-> "thinking_does_not_leak", patternHit |-> FALSE])
 @@ ("near" :> [type |-> "semantic_similarity", hasReference |-> TRUE])
 @@ ("tests" :> [type |-> "command", inArtifact |-> TRUE])
 @@ ("text" :> [type |-> "schema_match", accepts |-> Texts])
 @@ ("nullable" :> [type |-> "schema_match", accepts |-> Texts \cup {None}])
 @@ [t \in ThresholdTypes \cup {"stream_completed"} |-> [type |-> t]]

AllChecks == DOMAIN Config1

OneEach == {{c} : c \in AllChecks}

SomeArtifacts ==
    {None, [written |-> {"f"}, removed |-> {"g"}]}

SomeReplies ==
    {[judged |-> {"a", "b"}, passing |-> {"a", "b"}, score |-> 2],
     [judged |-> {"a", "b"}, passing |-> {"b"}, score |-> 2],
     [judged |-> {"a", "b"}, passing |-> {"a"}, score |-> 1],
     [judged |-> {"a", "b"}, passing |-> {"a", "b"}, score |-> 9],
     [judged |-> {"a"}, passing |-> {"a"}, score |-> 2]}
=============================================================================
