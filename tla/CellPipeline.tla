----------------------------- MODULE CellPipeline -----------------------------
(* One cell from adapter.run to its evaluation results: SystemCalls produces  *)
(* the trace, and the evaluators of the run are gathered over it, each in its *)
(* own coroutine: a result, an error result or an exception of each becomes   *)
(* one row.                                                                   *)
EXTENDS SystemCalls, Evaluators

CONSTANTS
    Checks,     \* names of evaluators
    Config,     \* the configuration of each
    Plans,      \* which of them a run may have
    Artifacts,  \* what the workspace adapter may have collected; None: no workspace
    JudgeReplies,   \* what a judge model may say about assertions and rubric
    MaxPrice    \* bound: the price of one call of a model

ASSUME ChecksAssumption == IsFiniteSet(Checks) /\ DOMAIN Config = Checks /\ Plans \subseteq SUBSET Checks
ASSUME ConfigAssumption ==
    \A e \in Checks :
        /\ Config[e].type = "llm_judge" => Config[e].limit \in Nat \cup {Missing}
        /\ Config[e].type = "tool_called" => Config[e].min \in Nat
ASSUME PriceAssumption == MaxPrice \in Nat

RowErrors == {NoError, "crashed", "missing_artifact", "missing_reference", "missing_cwd", "adapter_error",
              "cost_limit_exceeded", "embedder_error", "command_not_found", "os_error", "timeout"}
ASSUME RowAssumption == None \notin [passed : BOOLEAN, error : RowErrors]

ModelTypes == {"llm_judge", "thinking_does_not_leak"}
InstantTypes == {"contains_text", "exact_match", "tool_called", "git_diff", "schema_match",
                 "stream_completed"}
ThresholdTypes == {"cost_under", "latency_under", "latency_first_token_under",
                   "tokens_per_second_above", "thinking_tokens_under", "thinking_present"}
Type(e) == Config[e].type

VARIABLES
    plan,       \* the evaluators of this run; None: they are not gathered yet
    artifact,   \* what was collected from the workspace of the cell
    at,         \* where each evaluator is
    row,        \* its result
    paid,       \* what its calls of a model cost
    command     \* the process of a command evaluator

checkVars == <<at, row, paid, command>>
vars == <<callVars, plan, artifact, checkVars>>

TypeOK ==
    /\ CallTypeOK
    /\ plan # None => plan \subseteq Checks
    /\ artifact \in Artifacts \cup {None}
    /\ at \in [Checks -> {"idle", "model", "answer", "reference", "process", "killing", "done"}]
    /\ \A e \in Checks : row[e] = None <=> at[e] # "done"
    /\ paid \in [Checks -> 0..MaxPrice]
    /\ command \in [Checks -> {"none", "running", "killed", "dead"}]

Init ==
    /\ CallInit
    /\ plan = None /\ artifact = None
    /\ at = [e \in Checks |-> "idle"]
    /\ row = [e \in Checks |-> None]
    /\ paid = [e \in Checks |-> 0]
    /\ command = [e \in Checks |-> "none"]

-----------------------------------------------------------------------------
\* Nothing before depends on which evaluators the run has or on what the workspace holds,
\* and only some of them look at that.
Gather ==
    /\ pc = "over" /\ plan = None
    /\ plan' \in Plans
    /\ artifact' \in IF \E e \in plan' : Type(e) \in {"git_diff", "command"}
                    THEN Artifacts ELSE {None}
    /\ UNCHANGED <<callVars, checkVars>>

Starts(e) == plan # None /\ e \in plan /\ at[e] = "idle"
Finish(e, result) == at' = [at EXCEPT ![e] = "done"] /\ row' = [row EXCEPT ![e] = result]
Wait(e, place) == at' = [at EXCEPT ![e] = place] /\ UNCHANGED row
Only(variables) == UNCHANGED <<callVars, plan, artifact, variables>>

\* Evaluators that await nothing.
InstantRow(e) ==
    CASE Type(e) = "contains_text" -> Verdict(ContainsText(Config[e], trace.answer))
      [] Type(e) = "exact_match" -> Verdict(ExactMatch(Config[e], trace.answer))
      [] Type(e) = "tool_called" -> Verdict(ToolCalled(Config[e], trace.tools))
      [] Type(e) = "git_diff" ->
            IF artifact = None THEN ErrorRow("missing_artifact")
            ELSE Verdict(GitDiff(Config[e], artifact))
      [] Type(e) = "schema_match" -> Verdict(SchemaMatch(Config[e], trace.answer))
      [] Type(e) = "stream_completed" ->
            Verdict(trace.stream # None /\ trace.stream.completed = TRUE)

EvaluateInstantly(e) ==
    /\ Starts(e) /\ Type(e) \in InstantTypes
    /\ Finish(e, InstantRow(e))
    /\ Only(<<paid, command>>)

\* Thresholds on a metric of the trace; within: the number, if there is one, satisfies it.
\* The price table fills a cost only after the checks; the thinking of a stream is dropped.
LatencyUnder(within) == within
CostUnder(within) == trace.cost # None /\ within
FirstTokenUnder(within) == trace.stream # None /\ trace.stream.firstToken /\ within
SpeedAbove(within) == trace.stream # None /\ trace.stream.speed /\ within
ThinkingFound(within) == trace.error \in {None, "recorded"} /\ kind # "stream" /\ within

ThresholdHolds(type, within) ==
    CASE type = "latency_under" -> LatencyUnder(within)
      [] type = "cost_under" -> CostUnder(within)
      [] type = "latency_first_token_under" -> FirstTokenUnder(within)
      [] type = "tokens_per_second_above" -> SpeedAbove(within)
      [] OTHER -> ThinkingFound(within)

\* A metric that is None fails the check; it is no error.
EvaluateThreshold(e) ==
    /\ Starts(e) /\ Type(e) \in ThresholdTypes
    /\ \E within \in BOOLEAN : Finish(e, Verdict(ThresholdHolds(Type(e), within)))
    /\ Only(<<paid, command>>)

\* The path of a text check does not parse: gather returns the exception, and
\* _normalize_result makes a row of it.
EvaluatorRaises(e) ==
    /\ Starts(e) /\ Type(e) \in {"contains_text", "exact_match", "schema_match"}
    /\ Finish(e, ErrorRow("crashed"))
    /\ Only(<<paid, command>>)

JudgeRefuses(e) ==
    /\ Starts(e) /\ Type(e) = "llm_judge" /\ Refused(Config[e])
    /\ Finish(e, ErrorRow("cost_limit_exceeded"))
    /\ Only(<<paid, command>>)

CallModel(e) ==
    /\ Starts(e) /\ Type(e) \in ModelTypes
    /\ Type(e) = "llm_judge" => ~Refused(Config[e])
    /\ Wait(e, "model")
    /\ Only(<<paid, command>>)

ModelAnswers(e) ==
    /\ at[e] = "model"
    /\ \E price \in 0..MaxPrice :
          /\ paid' = [paid EXCEPT ![e] = price]
          /\ IF Type(e) = "llm_judge"
             THEN \E reply \in JudgeReplies : Finish(e, JudgeRow(Config[e], reply, price))
             ELSE \E leaks \in BOOLEAN : Finish(e, LeakRow(Config[e], leaks))
    /\ Only(command)

\* The call raises, its reply is no JSON, or it has no structured payload.
ModelFails(e) ==
    /\ at[e] = "model"
    /\ \E price \in 0..MaxPrice : paid' = [paid EXCEPT ![e] = price]
    /\ Finish(e, ErrorRow("adapter_error"))
    /\ Only(command)

EmbedAnswer(e) ==
    /\ Starts(e) /\ Type(e) = "semantic_similarity"
    /\ IF Config[e].hasReference THEN Wait(e, "answer")
       ELSE Finish(e, ErrorRow("missing_reference"))
    /\ Only(<<paid, command>>)

EmbedReference(e) == at[e] = "answer" /\ Wait(e, "reference") /\ Only(<<paid, command>>)

Compare(e) ==
    /\ at[e] = "reference"
    /\ \E s \in {"near", "far", "undefined"} : Finish(e, SimilarityRow(s))
    /\ Only(<<paid, command>>)

EmbedderFails(e) ==
    /\ at[e] \in {"answer", "reference"} /\ Finish(e, ErrorRow("embedder_error"))
    /\ Only(<<paid, command>>)

RunCommandInArtifact(e) ==
    /\ Starts(e) /\ Type(e) = "command"
    /\ Config[e].inArtifact => artifact # None
    /\ \/ Wait(e, "process") /\ command' = [command EXCEPT ![e] = "running"]
       \/ \E error \in {"missing_cwd", "command_not_found", "os_error"} :
                Finish(e, ErrorRow(error)) /\ UNCHANGED command
    /\ Only(paid)

\* cwd: the artifact, or a directory that may not exist; then the executable may not.
RunCommand(e) ==
    /\ Starts(e) /\ Type(e) = "command"
    /\ \/ /\ Config[e].inArtifact => artifact # None
          /\ Wait(e, "process") /\ command' = [command EXCEPT ![e] = "running"]
       \/ /\ Config[e].inArtifact /\ artifact = None
          /\ Finish(e, ErrorRow("missing_artifact")) /\ UNCHANGED command
       \/ /\ Config[e].inArtifact => artifact # None
          /\ \E error \in {"missing_cwd", "command_not_found", "os_error"} :
                Finish(e, ErrorRow(error))
          /\ UNCHANGED command
    /\ Only(paid)

CommandExits(e) ==
    /\ at[e] = "process" /\ command' = [command EXCEPT ![e] = "dead"]
    /\ \E expected \in BOOLEAN : Finish(e, Verdict(expected))
    /\ Only(paid)

CommandTimesOut(e) ==
    /\ at[e] = "process" /\ command' = [command EXCEPT ![e] = "killed"]
    /\ Wait(e, "killing") /\ Only(paid)

CommandKilled(e) ==
    /\ at[e] = "killing" /\ command' = [command EXCEPT ![e] = "dead"]
    /\ Finish(e, ErrorRow("timeout")) /\ Only(paid)

Check(e) ==
    \/ EvaluateInstantly(e) \/ EvaluateThreshold(e) \/ EvaluatorRaises(e)
    \/ JudgeRefuses(e) \/ CallModel(e) \/ ModelAnswers(e) \/ ModelFails(e)
    \/ EmbedAnswer(e) \/ EmbedReference(e) \/ Compare(e) \/ EmbedderFails(e)
    \/ RunCommand(e) \/ CommandExits(e) \/ CommandTimesOut(e) \/ CommandKilled(e)

Next ==
    \/ CallNext /\ UNCHANGED <<plan, artifact, checkVars>>
    \/ Gather
    \/ \E e \in Checks : Check(e)

\* Evaluators run under no timeout of the runner: models and embedders are taken to answer
\* or to fail (their SDKs give up), a command is given up by its evaluator.  Each takes a few
\* steps only, so fairness to all of them together is fairness to each.
Fairness == CallFairness /\ WF_vars(Gather \/ \E e \in Checks : Check(e))

Spec == Init /\ [][Next]_vars /\ Fairness

-----------------------------------------------------------------------------
(* Properties                                                                *)

\* When the cell has its trace nothing of the call is held, and when it has a row nothing
\* of the evaluator runs: what goes on is only what the runner's own timeout cut loose.
NothingLeftRunning ==
    /\ NothingHeldAfterwards
    /\ \A e \in Checks : row[e] # None => command[e] \in {"none", "dead"}

AsksForPresence(e) ==
    \/ Type(e) = "contains_text" /\ (Config[e].all # {} \/ Config[e].any # {})
    \/ Type(e) = "tool_called" /\ Config[e].mustAppear /\ Config[e].min > 0
    \/ Type(e) = "exact_match" /\ Config[e].expected # None
    \/ Type(e) = "schema_match" /\ None \notin Config[e].accepts
    \/ Type(e) = "stream_completed"
    \/ Type(e) \in ThresholdTypes \ {"latency_under"}

\* The trace has something of what such a check asks for.
Shown(e) ==
    CASE Type(e) \in {"contains_text", "exact_match", "schema_match"} -> trace.answer # None
      [] Type(e) = "tool_called" -> trace.tools # <<>>
      [] Type(e) = "cost_under" -> trace.cost # None
      [] Type(e) \in {"stream_completed", "latency_first_token_under", "tokens_per_second_above"} ->
            trace.stream # None
      [] OTHER -> TRUE

\* Evaluators also judge the trace of a cell that failed.  A check that asks for something
\* passes only on a trace that has it, and never on the trace of a call that failed, whatever
\* that call got before: what a failure shows can only be a replayed one, which is judged by
\* the answer, the tool calls and the metrics it was recorded with.
PassesOnlyOnEvidence ==
    \A e \in Checks : (row[e] # None /\ row[e].passed /\ AsksForPresence(e)) =>
        trace.error \in {None, "recorded"} /\ Shown(e)

\* A judge with a limit: nothing is spent when the estimate is above it, and a verdict
\* never rests on a call that cost more.
JudgeWithinLimit ==
    \A e \in Checks : (Type(e) = "llm_judge" /\ Limited(Config[e])) =>
        /\ Refused(Config[e]) => paid[e] = 0
        /\ (row[e] # None /\ row[e].error = NoError) => paid[e] <= Config[e].limit

\* Whatever the system under test does, the runner's timeout ends the cell, unless a
\* synchronous target is on the event loop, which then fires no timer; and in the end every
\* evaluator of the run has a row, whatever happened to it and to the cell.
CellIsJudged ==
    pc # "onLoop" ~> (pc = "onLoop" \/ (plan # None /\ \A e \in plan : row[e] # None))
=============================================================================
