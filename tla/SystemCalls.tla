----------------------------- MODULE SystemCalls -----------------------------
(* One cell inside the run of its system adapter: http (plain and streaming), *)
(* cli, python_function (synchronous and asynchronous targets) and replay,    *)
(* each alone or as the inner system of user_simulator.  The runner awaits    *)
(* adapter.run under a timeout of its own; whatever the adapter raises        *)
(* becomes an error trace.                                                    *)
EXTENDS Naturals, Sequences

CONSTANTS
    Kinds,          \* adapter types the cell may be configured with
    Inner,          \* those user_simulator may be configured with as its inner system
    Formats,        \* stream formats
    InnerFormats,   \* those of a stream inside a conversation
    Rules,          \* stopping criteria of user_simulator, and "none": no simulator
    MaxTurns,       \* max_turns of user_simulator
    StopTurns,      \* n of the turn_count criterion
    MaxEvents,      \* bound: lines or chunks a server sends in one stream
    Results,        \* what a python_function target may return
    Recordings,     \* what a trace that a dataset embeds may hold
    None

Texts == {"goal", "other", "empty"}     \* "goal" is what content_match looks for
AllKinds == {"http", "stream", "cli", "sync", "async", "replay"}
AllRules == {"none", "turn_count", "content_match", "judge"}
AllFormats == {"sse", "json_lines", "raw_chunks"}

ASSUME KindsAssumption == Inner \subseteq Kinds /\ Kinds \subseteq AllKinds /\ Rules \subseteq AllRules
ASSUME FormatsAssumption ==
    Formats \subseteq AllFormats /\ Formats # {} /\ InnerFormats \subseteq Formats
ASSUME TurnsAssumption == MaxTurns \in Nat \ {0} /\ StopTurns \in Nat \ {0}
ASSUME EventsAssumption == MaxEvents \in Nat
ASSUME NoneAssumption ==
    None \notin Texts /\ None \notin Nat /\ None \notin {"adapter_error", "timeout", "recorded"}

\* The metrics of a stream in a trace: whether there is a latency_first_token_ms and a
\* tokens_per_second, and stream_completed, which may be missing.
Meters == [chunks : Nat, firstToken : BOOLEAN, speed : BOOLEAN, completed : BOOLEAN \cup {None}]
ASSUME ResultsAssumption ==
    Results \subseteq [answer : Texts \cup {None}, cost : Nat \cup {None},
                       tool : {"none", "ok", "failed"}, stream : Meters \cup {None}]
\* "recorded": an error of whatever type.
ASSUME RecordingsAssumption ==
    Recordings \subseteq [error : {None, "recorded"}, answer : Texts \cup {None},
                          cost : Nat \cup {None}, tool : {"none", "ok", "failed"},
                          stream : Meters \cup {None}]

\* Where the coroutine is; Awaits are the places a timeout can cancel it at.
Awaits == {"sent", "stream", "process", "killing", "thread", "coroutine",
           "userModel", "stopJudge"}
Places == Awaits \cup {"ready", "onLoop", "replay", "over"}

VARIABLES
    kind, format, rule,     \* the configuration of the cell
    pc,
    messages,   \* user_simulator: the conversation
    replies,    \* user_simulator: what the stop judge said after each turn
    costs,      \* what each inner call that returned reported as its cost
    sums,       \* and what they had cost together by then: sum_cost, None until one is seen
    tools,      \* the tool calls so far, each "ok" or "failed"
    log,        \* the lines of the current stream that were read
    stream,     \* the counters of the current stream
    conn,       \* the connection of the current stream
    proc,       \* the process of the current call
    thread,     \* a thread of the default pool is inside the target
    trace       \* what the runner goes on with

config == <<kind, format, rule>>
talk == <<messages, replies, costs, sums, tools>>
world == <<log, stream, conn, proc, thread>>
callVars == <<config, pc, talk, world, trace>>

NoStream == [chunks |-> 0, tokens |-> 0, goal |-> FALSE, tools |-> 0, completed |-> FALSE]
Message(role, text) == [role |-> role, text |-> text]

CallTypeOK ==
    /\ kind \in Kinds /\ format \in Formats /\ rule \in Rules
    /\ pc \in Places
    /\ messages \in Seq([role : {"user", "assistant"}, text : Texts])
    /\ replies \in Seq(BOOLEAN)
    /\ costs \in Seq(Nat \cup {None}) /\ sums \in Seq(Nat \cup {None})
    /\ tools \in Seq({"ok", "failed"})
    /\ Len(log) <= MaxEvents
    /\ stream \in [chunks : Nat, tokens : Nat, goal : BOOLEAN, tools : Nat, completed : BOOLEAN]
    /\ conn \in {"none", "open", "closed"}
    /\ proc \in {"none", "running", "killed", "dead"}
    /\ thread \in BOOLEAN
    /\ trace # None => trace.error \in {None, "adapter_error", "timeout", "recorded"}

\* The format matters to a stream only.
CallInit ==
    /\ rule \in Rules /\ kind \in IF rule = "none" THEN Kinds ELSE Inner
    /\ format \in IF kind # "stream" THEN {CHOOSE f \in Formats : TRUE}
                 ELSE IF rule = "none" THEN Formats ELSE InnerFormats
    /\ pc = "ready"
    /\ messages = <<>> /\ replies = <<>> /\ costs = <<>> /\ sums = <<>> /\ tools = <<>>
    /\ log = <<>> /\ stream = NoStream
    /\ conn = "none" /\ proc = "none" /\ thread = FALSE
    /\ trace = None

-----------------------------------------------------------------------------
(* How a call ends                                                           *)

Simulated == rule # "none"
Turns(conversation) == Len(conversation) \div 2

\* cost_usd of the conversation: None while no call has reported one.
Sum == IF sums = <<>> THEN None ELSE sums[Len(sums)]

PlusLast(sum, cost) == cost

Plus(sum, cost) ==
    IF cost = None THEN sum ELSE IF sum = None THEN cost ELSE sum + cost

ErrorTrace(type) ==
    [error |-> type, answer |-> None, cost |-> None, tools |-> <<>>,
     stream |-> None, turns |-> 0, stop |-> None]

\* A RetriableError too: the runner keeps the class name in the message only.
Fail ==
    /\ pc' = "over" /\ trace' = ErrorTrace("adapter_error")
    /\ UNCHANGED <<config, talk>>

\* The conversation ends after the turn whose answer closes ms.
Conclude(ms, stop, sum, ts) ==
    /\ pc' = "over"
    /\ trace' = [error |-> None, answer |-> ms[Len(ms)].text, cost |-> sum,
                 tools |-> ts, stream |-> None, turns |-> Turns(ms), stop |-> stop]

\* _check_stop without a judge.
StopsWithoutJudge(ms) ==
    \/ rule = "turn_count" /\ Turns(ms) >= StopTurns
    \/ rule = "content_match" /\ ms[Len(ms)].text = "goal"

AfterTurn(ms, stops, sum, ts) ==
    CASE stops -> Conclude(ms, rule, sum, ts)
      [] ~stops /\ Turns(ms) >= MaxTurns -> Conclude(ms, "max_turns_reached", sum, ts)
      [] OTHER -> pc' = "userModel" /\ UNCHANGED trace

NewTools(tool) == IF tool = "none" THEN <<>> ELSE <<tool>>

\* The inner adapter returned: its trace is the cell's, or one turn of the conversation,
\* of which the answer, the tool calls and the cost are kept: not an error it records.
Return(error, answer, cost, newTools, meter) ==
    /\ costs' = Append(costs, cost)
    /\ sums' = Append(sums, Plus(Sum, cost))
    /\ tools' = tools \o newTools
    /\ IF ~Simulated
       THEN /\ pc' = "over"
            /\ trace' = [error |-> error, answer |-> answer, cost |-> cost, tools |-> tools',
                         stream |-> meter, turns |-> 0, stop |-> None]
            /\ UNCHANGED messages
       ELSE LET text == IF answer = None THEN "empty" ELSE answer
                ms == Append(messages, Message("assistant", text))
            IN /\ messages' = ms
               /\ IF rule = "judge"
                  THEN pc' = "stopJudge" /\ UNCHANGED trace
                  ELSE AfterTurn(ms, StopsWithoutJudge(ms), Plus(Sum, cost), tools')
    /\ UNCHANGED <<config, replies>>

-----------------------------------------------------------------------------
(* The call begins: up to the first await of the inner adapter               *)

StartPlace ==
    CASE kind = "http" -> "sent"
      [] kind = "stream" -> "stream"
      [] kind = "cli" -> "process"
      [] kind = "sync" -> "onLoop"
      [] kind = "async" -> "coroutine"
      [] kind = "replay" -> "replay"

StartCall ==
    /\ messages' = IF Simulated THEN Append(messages, Message("user", "other")) ELSE messages
    /\ pc' = StartPlace
    /\ log' = <<>> /\ stream' = NoStream
    /\ conn' = IF kind = "stream" THEN "open" ELSE "none"
    /\ proc' = IF kind = "cli" THEN "running" ELSE "none"
    /\ UNCHANGED <<config, replies, costs, sums, tools, thread, trace>>

Begin == pc = "ready" /\ StartCall

\* The case has no user message, a template renders to no JSON, the command is
\* not found, the target is not callable: an AdapterError before any await.
BeginFails == pc = "ready" /\ Fail /\ UNCHANGED world

-----------------------------------------------------------------------------
(* http                                                                      *)

\* A response that is JSON and has, or has not, what the mapping looks for.
HttpAnswers ==
    /\ pc = "sent"
    /\ \E answer \in {"goal", "other", None}, tool \in {"none", "ok"} :
          Return(None, answer, None, NewTools(tool), None)
    /\ UNCHANGED world

\* Timeout, HTTP status, transport error, no JSON, a mapping that does not parse.
HttpFails == pc = "sent" /\ Fail /\ UNCHANGED world

\* What one line or chunk may say.  The fields of a JSON event are looked up one by one, so
\* it may carry a token, a tool call and the end together; a line of an sse stream that is
\* no JSON is a token, and its sentinel an end with nothing else.
Events == [text : {"goal", "other", None}, tool : BOOLEAN, done : BOOLEAN]
Lines == {line \in Events : format = "raw_chunks" => line.text # None /\ ~line.tool /\ ~line.done}

CountedTokensOnly(line) ==
    [chunks |-> stream.chunks + IF line.text # None THEN 1 ELSE 0,
     tokens |-> stream.tokens + IF line.text # None THEN 1 ELSE 0,
     goal |-> stream.goal \/ line.text = "goal",
     tools |-> stream.tools + IF line.tool THEN 1 ELSE 0,
     completed |-> line.done]

Counted(line) ==
    [chunks |-> stream.chunks + 1,
     tokens |-> stream.tokens + IF line.text # None THEN 1 ELSE 0,
     goal |-> stream.goal \/ line.text = "goal",
     tools |-> stream.tools + IF line.tool THEN 1 ELSE 0,
     completed |-> line.done]

StreamAnswer(counters) ==
    CASE counters.tokens = 0 -> None
      [] counters.tokens > 0 /\ counters.goal -> "goal"
      [] OTHER -> "other"

\* The first event is taken for the first token.
Meter(counters) ==
    [chunks |-> counters.chunks, firstToken |-> counters.chunks > 0,
     speed |-> counters.tokens > 0, completed |-> counters.completed]

ReturnStream(counters) ==
    Return(None, StreamAnswer(counters), None, [i \in 1..counters.tools |-> "ok"], Meter(counters))

StreamLine(line) ==
    /\ pc = "stream" /\ Len(log) < MaxEvents
    /\ log' = Append(log, line)
    /\ stream' = Counted(line)
    /\ IF line.done
       THEN conn' = "closed" /\ ReturnStream(stream')
       ELSE UNCHANGED <<config, pc, talk, conn, trace>>
    /\ UNCHANGED <<proc, thread>>

\* The server closes the stream; without a done marker the trace says so.
StreamEnds ==
    /\ pc = "stream" /\ conn' = "closed" /\ ReturnStream(stream)
    /\ UNCHANGED <<log, stream, proc, thread>>

\* A line that is no JSON, a status, a timeout, a lost connection.
StreamFails ==
    /\ pc = "stream" /\ conn' = "closed" /\ Fail
    /\ UNCHANGED <<log, stream, proc, thread>>

-----------------------------------------------------------------------------
(* cli                                                                       *)

ProcessExits ==
    /\ pc = "process" /\ proc' = "dead"
    /\ \/ \E answer \in {"goal", "other", None} : Return(None, answer, None, <<>>, None)
       \/ Fail      \* a non-zero exit, or stdout that is no JSON
    /\ UNCHANGED <<log, stream, conn, thread>>

OwnTimeoutNoKill ==
    /\ pc = "process" /\ Fail
    /\ UNCHANGED world

OwnTimeout ==
    /\ pc = "process" /\ proc' = "killed" /\ pc' = "killing"
    /\ UNCHANGED <<config, talk, log, stream, conn, thread, trace>>

Killed ==
    /\ pc = "killing" /\ proc' = "dead" /\ Fail
    /\ UNCHANGED <<log, stream, conn, thread>>

-----------------------------------------------------------------------------
(* python_function                                                           *)

\* The first call of a target that is no coroutine function, on the event loop: a value
\* that cannot be awaited is dropped, and the target called again in a thread.
FirstCallReturns ==
    /\ pc = "onLoop"
    /\ \/ pc' = "thread" /\ thread' = TRUE
       \/ pc' = "coroutine" /\ UNCHANGED thread
    /\ UNCHANGED <<config, talk, log, stream, conn, proc, trace>>

FirstCallRaises == pc = "onLoop" /\ Fail /\ UNCHANGED world

\* The metrics of a stream are the target's to report.
TargetReturns ==
    /\ pc \in {"thread", "coroutine"} /\ thread' = FALSE
    /\ \/ \E r \in Results : Return(None, r.answer, r.cost, NewTools(r.tool), r.stream)
       \/ Fail      \* it raised, or returned what is no trace
    /\ UNCHANGED <<log, stream, conn, proc>>

-----------------------------------------------------------------------------
(* replay, user_simulator                                                    *)

\* The embedded trace as it was recorded, its error with all that it had besides.
Replay ==
    /\ pc = "replay"
    /\ \/ \E r \in Recordings : Return(r.error, r.answer, r.cost, NewTools(r.tool), r.stream)
       \/ Fail      \* no embedded trace
    /\ UNCHANGED world

StopJudgeAnswers ==
    /\ pc = "stopJudge"
    /\ \E yes \in BOOLEAN :
          /\ replies' = Append(replies, yes)
          /\ AfterTurn(messages, yes, Sum, tools)
    /\ UNCHANGED <<config, messages, costs, sums, tools, world>>

UserModelAnswers == pc = "userModel" /\ StartCall

\* The model raises, or its next user turn is empty; or the call that follows cannot begin.
SimulatorFails == pc \in {"stopJudge", "userModel"} /\ Fail /\ UNCHANGED world

-----------------------------------------------------------------------------
(* The runner's timeout: wait_for cancels the coroutine at its await.  The    *)
(* response is closed on the way out; a process and a thread are not stopped. *)
Cut ==
    /\ pc \in Awaits
    /\ pc' = "over" /\ trace' = ErrorTrace("timeout")
    /\ conn' = IF conn = "open" THEN "closed" ELSE conn
    /\ UNCHANGED <<config, talk, log, stream, proc, thread>>

\* What the cell left behind comes to its end.
LeftoverEnds ==
    /\ pc = "over"
    /\ \/ thread /\ thread' = FALSE /\ UNCHANGED proc
       \/ proc \in {"running", "killed"} /\ proc' = "dead" /\ UNCHANGED thread
    /\ UNCHANGED <<config, pc, talk, log, stream, conn, trace>>

CallNext ==
    \/ Begin \/ BeginFails
    \/ HttpAnswers \/ HttpFails
    \/ \E line \in Lines : StreamLine(line)
    \/ StreamEnds \/ StreamFails
    \/ ProcessExits \/ OwnTimeout \/ Killed
    \/ FirstCallReturns \/ FirstCallRaises \/ TargetReturns
    \/ Replay \/ StopJudgeAnswers \/ UserModelAnswers \/ SimulatorFails
    \/ Cut \/ LeftoverEnds

\* Only the coroutine's own steps and the timer are sure to come; no peer has to answer.
CallFairness == WF_callVars(Begin) /\ WF_callVars(Replay) /\ WF_callVars(Cut)

-----------------------------------------------------------------------------
(* Properties                                                                *)

\* The criterion holds after turn t of the conversation.
StopsAt(t) ==
    CASE rule = "turn_count" -> t >= StopTurns
      [] rule = "content_match" -> messages[2 * t].text = "goal"
      [] rule = "judge" -> replies[t]

\* A simulated conversation that became a trace is whole: user and assistant alternate, it
\* went on exactly until its stopping criterion first held or max_turns were played, it
\* answers with its last turn, and its cost and tool calls are those of all of its turns.
ConversationIsWhole ==
    (trace # None /\ Simulated /\ trace.error = None) =>
        /\ trace.turns \in 1..MaxTurns /\ Len(messages) = 2 * trace.turns
        /\ \A i \in 1..Len(messages) :
              messages[i].role = IF i % 2 = 1 THEN "user" ELSE "assistant"
        /\ \A t \in 1..(trace.turns - 1) : ~StopsAt(t)
        /\ IF StopsAt(trace.turns) THEN trace.stop = rule
           ELSE trace.stop = "max_turns_reached" /\ trace.turns = MaxTurns
        /\ trace.answer = messages[Len(messages)].text
        /\ Len(costs) = trace.turns /\ Len(sums) = trace.turns
        /\ sums[1] = costs[1] /\ trace.cost = sums[trace.turns]
        /\ \A t \in 2..trace.turns :
              sums[t] = CASE costs[t] = None -> sums[t - 1]
                          [] costs[t] # None /\ sums[t - 1] = None -> costs[t]
                          [] OTHER -> sums[t - 1] + costs[t]
        /\ trace.tools = tools

\* What stream_completed, stream_chunks and the answer of a streaming cell say agrees with
\* what was read: complete iff the last line was the done marker of the format, and then
\* nothing after it was read; a stream the server cut short is a trace that says so.
StreamAccountsForItself ==
    (trace # None /\ kind = "stream" /\ trace.stream # None) =>
        /\ trace.stream.chunks = Len(log)
        /\ trace.stream.completed <=> (log # <<>> /\ log[Len(log)].done)
        /\ \A i \in 1..Len(log) : log[i].done => i = Len(log)
        /\ trace.answer = None <=> \A i \in 1..Len(log) : log[i].text = None

\* When the cell is over its stream is closed; a process or a thread goes on only when the
\* runner's timeout cut the cell, never after the adapter's own timeout or an answer.
NothingHeldAfterwards ==
    pc = "over" =>
        /\ conn # "open"
        /\ (thread \/ proc = "running") => trace.error = "timeout"
=============================================================================
