------------------------------ MODULE Evaluators ------------------------------
(* What each evaluator makes of a trace: functions of its configuration and   *)
(* of what it looks at.  A check is the record of its configuration:          *)
(*   contains_text            all, any, none: sets of words                   *)
(*   exact_match              expected: an answer, or Missing                 *)
(*   tool_called              mustAppear, min, max, mustSucceed               *)
(*   git_diff                 mustModify, mustNotModify: sets of files        *)
(*   llm_judge                assertions, required, passWhen, k, rubric,      *)
(*                            threshold, estimate, limit                      *)
(*   thinking_does_not_leak   patternHit: a pattern is found in the thinking  *)
(*   semantic_similarity      hasReference                                    *)
(*   command                  inArtifact                                      *)
(*   schema_match             accepts: the answers that satisfy the schema    *)
(* The thresholds on a metric (cost_under, latency_under, ...) have no        *)
(* parameter here: whether a number is within its threshold is left open.     *)
EXTENDS Naturals, Sequences, FiniteSets

CONSTANTS Missing, ScaleMin, ScaleMax

ASSUME ScaleAssumption == ScaleMin \in Nat /\ ScaleMax \in Nat /\ ScaleMin < ScaleMax

NoError == "no error"
Verdict(passed) == [passed |-> passed, error |-> NoError]
ErrorRow(type) == [passed |-> FALSE, error |-> type]

\* str(value), and "" for a field that is not there: the words the text has.
Words(answer) == IF answer \in {"goal", "other"} THEN {answer} ELSE {}

ContainsTextByOverlap(check, answer) ==
    /\ check.all = {} \/ Words(answer) \in SUBSET check.all
    /\ check.any = {} \/ check.any \cap Words(answer) # {}
    /\ check.none \cap Words(answer) = {}

ContainsText(check, answer) ==
    /\ check.all \subseteq Words(answer)
    /\ check.any = {} \/ check.any \cap Words(answer) # {}
    /\ check.none \cap Words(answer) = {}

ExactMatch(check, answer) == check.expected # Missing /\ answer = check.expected

\* The calls of the tool that is asked for; a failed call is looked at only if the count fits.
ToolCalled(check, calls) ==
    LET count == Len(calls) IN
    /\ IF check.mustAppear
       THEN count >= check.min /\ (check.max # Missing => count <= check.max)
       ELSE count = 0
    /\ check.mustSucceed => \A i \in 1..count : calls[i] # "failed"

GitDiff(check, artifact) ==
    /\ check.mustModify \subseteq artifact.written
    /\ check.mustNotModify \cap (artifact.written \cup artifact.removed) = {}

\* A field that the trace does not have, or has as null, is a value like another.
SchemaMatch(check, answer) == answer \in check.accepts

-----------------------------------------------------------------------------
(* llm_judge                                                                 *)

\* Overall verdict of the assertions that the judge let pass.
AssertionsPass(check, passing) ==
    LET required == check.required
        total == Cardinality(check.assertions)
    IN CASE check.passWhen = "all" -> required \subseteq passing
         [] check.passWhen = "any" ->
              (required \cap passing # {}) \/ (required = {} /\ passing # {})
         [] check.passWhen = "majority" -> 2 * Cardinality(passing) > total
         [] check.passWhen = "k_of_n" -> Cardinality(passing) >= check.k

\* _aggregate raises: a verdict is missing, or the score is not on the scale.
Malformed(check, reply) ==
    \/ check.assertions # {} /\ reply.judged # check.assertions
    \/ check.rubric /\ reply.score \notin ScaleMin..ScaleMax

JudgePasses(check, reply) ==
    /\ check.assertions # {} => AssertionsPass(check, reply.passing)
    /\ check.rubric => reply.score >= check.threshold

Limited(check) == check.limit # Missing

\* The call is refused before it is made when its estimate is above the limit.
Refused(check) == Limited(check) /\ check.estimate > check.limit

JudgeRowUnbilled(check, reply, price) ==
    IF Malformed(check, reply) THEN ErrorRow("adapter_error")
    ELSE Verdict(JudgePasses(check, reply))

\* price = 0: the backend reported no usage, so nothing is compared with the limit.
JudgeRow(check, reply, price) ==
    CASE Malformed(check, reply) -> ErrorRow("adapter_error")
      [] ~Malformed(check, reply) /\ Limited(check) /\ price > 0 /\ price > check.limit ->
            ErrorRow("cost_limit_exceeded")
      [] OTHER -> Verdict(JudgePasses(check, reply))

\* thinking_does_not_leak: neither the patterns nor the judge may find a leak.
LeakRow(check, judgeLeaks) == Verdict(~check.patternHit /\ ~judgeLeaks)

\* _cosine of two vectors; "undefined": lengths differ, or one is empty or has no norm.
SimilarityRow(similarity) ==
    IF similarity = "undefined" THEN ErrorRow("embedder_error") ELSE Verdict(similarity = "near")
=============================================================================
