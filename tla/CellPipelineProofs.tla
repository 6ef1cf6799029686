-------------------------- MODULE CellPipelineProofs --------------------------
(***************************************************************************)
(* What CellPipeline promises for any adapter types, stream lengths,       *)
(* conversations, evaluators and configurations.                           *)
(*                                                                         *)
(* The call: a stream is open only while the adapter reads it, a thread or *)
(* a process runs only while the adapter awaits it or after the runner's   *)
(* timeout cut it loose, and the counters of a stream follow the lines as  *)
(* they are read.  The conversation: its place tells how many messages,    *)
(* verdicts and costs there are, no turn so far has met the stopping       *)
(* criterion, and the running sum adds up the costs.  The checks: the      *)
(* trace they look at no longer changes, and what a judge has spent is     *)
(* known before its row is written.                                        *)
(***************************************************************************)
EXTENDS CellPipeline, TLAPS

\* The counters are those of the lines that were read.
Follows(lines, counters) ==
    /\ counters.chunks = Len(lines)
    /\ counters.completed <=> (lines # <<>> /\ lines[Len(lines)].done)
    /\ counters.tokens = 0 <=> \A i \in 1..Len(lines) : lines[i].text = None
    /\ \A i \in 1..Len(lines) : lines[i].done => i = Len(lines)

Undone(lines) == \A i \in 1..Len(lines) : ~lines[i].done

CutLoose == pc = "over" /\ trace.error = "timeout"

\* A trace comes with the end of the call; that of a call that failed has nothing in it.
Filled ==
    \/ trace.error \in {None, "recorded"}
    \/ trace.answer = None /\ trace.cost = None /\ trace.tools = <<>> /\ trace.stream = None

TraceInv ==
    /\ trace # None => pc = "over"
    /\ pc = "over" => Filled

HeldInv ==
    /\ conn = "open" => pc = "stream"
    /\ thread => pc = "thread" \/ CutLoose
    /\ proc = "running" => pc = "process" \/ CutLoose

\* Where the call of a streaming adapter can be.
StreamPlaces == {"ready", "stream", "stopJudge", "userModel", "over"}

StreamInv ==
    /\ log \in Seq(Events)
    /\ kind = "stream" => pc \in StreamPlaces
    /\ pc = "stream" => Follows(log, stream) /\ Undone(log)
    /\ StreamAccountsForItself

CallInv == CallTypeOK /\ TraceInv /\ HeldInv /\ StreamInv

-----------------------------------------------------------------------------
(* The call                                                                  *)

LEMMA StopsIsBoolean == \A ms : StopsWithoutJudge(ms) \in BOOLEAN
  BY DEF StopsWithoutJudge

LEMMA CallInitial == CallInit => CallInv
<1> SUFFICES ASSUME CallInit PROVE CallInv
  OBVIOUS
<1>1. kind \in Kinds /\ format \in Formats /\ rule \in Rules
  BY KindsAssumption, FormatsAssumption DEF CallInit
<1>2. CallTypeOK
  <2>1. stream \in [chunks : Nat, tokens : Nat, goal : BOOLEAN, tools : Nat, completed : BOOLEAN]
    BY DEF CallInit, NoStream
  <2>2. Len(log) <= MaxEvents
    BY EventsAssumption DEF CallInit
  <2>3. /\ messages \in Seq([role : {"user", "assistant"}, text : Texts])
        /\ replies \in Seq(BOOLEAN) /\ costs \in Seq(Nat \cup {None})
        /\ sums \in Seq(Nat \cup {None}) /\ tools \in Seq({"ok", "failed"})
    BY DEF CallInit
  <2> QED BY <1>1, <2>1, <2>2, <2>3 DEF CallTypeOK, CallInit, Places
<1>3. TraceInv /\ HeldInv /\ StreamInv
  BY DEF CallInit, TraceInv, HeldInv, StreamInv, StreamPlaces, StreamAccountsForItself
<1> QED BY <1>2, <1>3 DEF CallInv

\* What a step that leaves the stream alone has to show for StreamInv.
LEMMA StreamAside ==
    ASSUME StreamInv, UNCHANGED <<config, log, stream>>, pc' # "stream",
           kind = "stream" => pc' \in StreamPlaces /\ (trace' = trace \/ trace'.stream = None)
    PROVE  StreamInv'
<1>1. log' \in Seq(Events) /\ kind' = kind
  BY DEF StreamInv, config
<1>2. StreamAccountsForItself'
  <2>1. CASE trace' = trace
    BY <1>1, <2>1 DEF StreamInv, StreamAccountsForItself
  <2>2. CASE trace'.stream = None \/ kind # "stream"
    BY <1>1, <2>2 DEF StreamAccountsForItself
  <2> QED BY <2>1, <2>2
<1> QED BY <1>1, <1>2 DEF StreamInv

\* Fail: everything an exception of the adapter leaves.
LEMMA FailKeeps ==
    ASSUME CallInv, Fail, UNCHANGED <<log, stream>>, pc # "over",
           conn' \in {"none", "open", "closed"}, conn' = conn \/ conn' = "closed",
           conn' # "open" \/ pc # "stream",
           thread' \in BOOLEAN, ~thread',
           proc' \in {"none", "running", "killed", "dead"}, proc' # "running"
    PROVE  CallInv'
<1>1. /\ trace'.error = "adapter_error" /\ trace'.answer = None /\ trace'.cost = None
      /\ trace'.tools = <<>> /\ trace'.stream = None /\ pc' = "over"
  BY DEF Fail, ErrorTrace
<1>2. CallTypeOK'
  BY <1>1 DEF CallInv, CallTypeOK, Fail, config, talk, Places
<1>3. TraceInv'
  BY <1>1 DEF TraceInv, Filled
<1>4. HeldInv'
  BY <1>1 DEF CallInv, HeldInv
<1>5. StreamInv'
  BY <1>1, StreamAside DEF CallInv, Fail, StreamPlaces
<1> QED BY <1>2, <1>3, <1>4, <1>5 DEF CallInv

\* Return: the trace of the cell, or the next place of the conversation.
Ended(answer, meter) ==
    \/ pc' \in {"stopJudge", "userModel"} /\ trace' = trace
    \/ /\ pc' = "over" /\ trace'.error \in {None, "recorded"}
       /\ trace'.stream = None \/ (trace'.stream = meter /\ trace'.answer = answer)

LEMMA AfterTurnEnds ==
    ASSUME NEW ms, NEW stops \in BOOLEAN, NEW cs, NEW ts, NEW answer, NEW meter,
           AfterTurn(ms, stops, cs, ts)
    PROVE  Ended(answer, meter)
<1>1. CASE stops
  BY <1>1 DEF AfterTurn, Conclude, Ended
<1>2. CASE ~stops /\ Turns(ms) >= MaxTurns
  BY <1>2 DEF AfterTurn, Conclude, Ended
<1>3. CASE ~stops /\ ~(Turns(ms) >= MaxTurns)
  BY <1>3 DEF AfterTurn, Ended
<1> QED BY <1>1, <1>2, <1>3

LEMMA ReturnEnds ==
    ASSUME CallTypeOK,
           NEW error \in {None, "recorded"},
           NEW answer \in Texts \cup {None}, NEW cost \in Nat \cup {None},
           NEW newTools \in Seq({"ok", "failed"}), NEW meter,
           Return(error, answer, cost, newTools, meter)
    PROVE  /\ UNCHANGED <<config, replies>>
           /\ messages' \in Seq([role : {"user", "assistant"}, text : Texts])
           /\ costs' \in Seq(Nat \cup {None}) /\ sums' \in Seq(Nat \cup {None})
           /\ tools' \in Seq({"ok", "failed"})
           /\ Ended(answer, meter)
<1>1. UNCHANGED <<config, replies>>
  BY DEF Return
<1>2. costs' \in Seq(Nat \cup {None}) /\ sums' \in Seq(Nat \cup {None})
  <2>1. Sum \in Nat \cup {None}
    BY DEF Sum, CallTypeOK
  <2>2. Plus(Sum, cost) \in Nat \cup {None}
    BY <2>1 DEF Plus
  <2> QED BY <2>2 DEF Return, CallTypeOK
<1>3. tools' \in Seq({"ok", "failed"})
  BY DEF Return, CallTypeOK
<1>4. CASE ~Simulated
  <2>1. messages' = messages /\ Ended(answer, meter)
    BY <1>4 DEF Return, Ended
  <2> QED BY <1>1, <1>2, <1>3, <2>1 DEF CallTypeOK
<1>5. CASE Simulated
  <2> DEFINE text == IF answer = None THEN "empty" ELSE answer
             ms == Append(messages, Message("assistant", text))
  <2>1. text \in Texts
    BY DEF Texts
  <2>2. Message("assistant", text) \in [role : {"user", "assistant"}, text : Texts]
    BY <2>1 DEF Message
  <2>3. ms \in Seq([role : {"user", "assistant"}, text : Texts])
    BY <2>2 DEF CallTypeOK
  <2>4. /\ messages' = ms
        /\ IF rule = "judge" THEN pc' = "stopJudge" /\ UNCHANGED trace
           ELSE AfterTurn(ms, StopsWithoutJudge(ms), Plus(Sum, cost), tools')
    BY <1>5 DEF Return
  <2> HIDE DEF ms
  <2>5. CASE rule = "judge"
    BY <1>1, <1>2, <1>3, <2>3, <2>4, <2>5 DEF Ended
  <2>6. CASE rule # "judge"
    <3>1. Ended(answer, meter)
      BY <2>4, <2>6, StopsIsBoolean, AfterTurnEnds
    <3> QED BY <1>1, <1>2, <1>3, <2>3, <2>4, <3>1
  <2> QED BY <2>5, <2>6
<1> QED BY <1>4, <1>5

\* A return of an adapter that does not stream.
LEMMA ReturnKeeps ==
    ASSUME CallInv, UNCHANGED <<log, stream, conn>>, pc \notin StreamPlaces,
           NEW error \in {None, "recorded"},
           NEW answer \in Texts \cup {None}, NEW cost \in Nat \cup {None},
           NEW newTools \in Seq({"ok", "failed"}), NEW meter,
           Return(error, answer, cost, newTools, meter),
           thread' = FALSE,
           proc' \in {"none", "running", "killed", "dead"}, proc' # "running"
    PROVE  CallInv'
<1>1. /\ UNCHANGED <<config, replies>>
      /\ messages' \in Seq([role : {"user", "assistant"}, text : Texts])
      /\ costs' \in Seq(Nat \cup {None}) /\ sums' \in Seq(Nat \cup {None})
      /\ tools' \in Seq({"ok", "failed"})
      /\ Ended(answer, meter)
  BY ReturnEnds DEF CallInv
<1>2. CallTypeOK'
  BY <1>1 DEF CallInv, CallTypeOK, Ended, config, Places, Awaits, TraceInv, StreamPlaces
<1>3. TraceInv'
  BY <1>1 DEF CallInv, TraceInv, Ended, Filled, StreamPlaces
<1>4. HeldInv'
  BY <1>1 DEF CallInv, HeldInv, Ended, StreamPlaces
<1>5. StreamInv'
  BY <1>1, StreamAside DEF CallInv, StreamInv, Ended
<1> QED BY <1>2, <1>3, <1>4, <1>5 DEF CallInv

LEMMA StartKeeps ==
    ASSUME CallInv, StartCall, pc \in {"ready", "userModel"}
    PROVE  CallInv'
<1>1. /\ kind \in AllKinds /\ pc' = StartPlace
      /\ StartPlace \in Places \ {"over", "killing", "ready", "thread"}
      /\ StartPlace = "stream" <=> kind = "stream"
      /\ StartPlace = "process" <=> kind = "cli"
  BY KindsAssumption DEF StartCall, StartPlace, CallInv, CallTypeOK, AllKinds, Places, Awaits
<1>2. trace = None /\ trace' = None
  BY DEF StartCall, CallInv, TraceInv
<1>3. /\ log' = <<>> /\ stream' = NoStream
      /\ conn' = IF kind = "stream" THEN "open" ELSE "none"
      /\ proc' = IF kind = "cli" THEN "running" ELSE "none"
      /\ UNCHANGED <<kind, format, rule, replies, costs, sums, tools, thread, trace>>
  BY DEF StartCall, config
<1>4. messages' \in Seq([role : {"user", "assistant"}, text : Texts])
  <2>1. Message("user", "other") \in [role : {"user", "assistant"}, text : Texts]
    BY DEF Message, Texts
  <2>2. messages \in Seq([role : {"user", "assistant"}, text : Texts])
    BY DEF CallInv, CallTypeOK
  <2>3. messages' = Append(messages, Message("user", "other")) \/ messages' = messages
    BY DEF StartCall
  <2>4. Append(messages, Message("user", "other")) \in Seq([role : {"user", "assistant"}, text : Texts])
    BY <2>1, <2>2
  <2> QED BY <2>2, <2>3, <2>4
<1>5. CallTypeOK'
  <2>1. stream' \in [chunks : Nat, tokens : Nat, goal : BOOLEAN, tools : Nat, completed : BOOLEAN]
    BY <1>3 DEF NoStream
  <2>2. Len(log') <= MaxEvents
    BY <1>3, EventsAssumption
  <2> QED BY <1>1, <1>2, <1>3, <1>4, <2>1, <2>2 DEF CallInv, CallTypeOK
<1>6. TraceInv'
  BY <1>1, <1>2 DEF TraceInv
<1>7. HeldInv'
  BY <1>1, <1>2, <1>3 DEF CallInv, HeldInv, CutLoose
<1>8. StreamInv'
  BY <1>1, <1>2, <1>3 DEF StreamInv, StreamPlaces, StreamAccountsForItself, Follows, Undone, NoStream
<1> QED BY <1>5, <1>6, <1>7, <1>8 DEF CallInv

-----------------------------------------------------------------------------
(* The stream                                                                *)

LEMMA LinesAreLines == CallTypeOK => \A line \in Lines : line \in Events
  BY DEF Lines

\* A line that is read is a line that is counted.
LEMMA CountFollows ==
    ASSUME NEW line \in Events, StreamInv, CallTypeOK, pc = "stream", log' = Append(log, line),
           stream' = Counted(line)
    PROVE  /\ Follows(log', stream')
           /\ ~line.done => Undone(log')
           /\ stream' \in [chunks : Nat, tokens : Nat, goal : BOOLEAN, tools : Nat, completed : BOOLEAN]
           /\ log' \in Seq(Events) /\ Len(log') = Len(log) + 1
           /\ stream'.completed = line.done
<1>1. /\ log \in Seq(Events) /\ Follows(log, stream) /\ Undone(log)
      /\ stream.chunks \in Nat /\ stream.tokens \in Nat /\ stream.tools \in Nat /\ stream.goal \in BOOLEAN
  BY DEF StreamInv, CallTypeOK
<1>2. /\ log' \in Seq(Events) /\ Len(log') = Len(log) + 1 /\ log' # <<>>
      /\ log'[Len(log')] = line
      /\ \A i \in 1..Len(log) : log'[i] = log[i]
      /\ Len(log) \in Nat
      /\ 1..Len(log') = (1..Len(log)) \cup {Len(log')}
  BY <1>1
<1>3. /\ stream'.chunks = stream.chunks + 1
      /\ stream'.tokens = stream.tokens + IF line.text # None THEN 1 ELSE 0
      /\ stream'.completed = line.done
  BY DEF Counted
<1>4. stream'.tokens = 0 <=> \A i \in 1..Len(log') : log'[i].text = None
  BY <1>1, <1>2, <1>3 DEF Follows
<1>5. \A i \in 1..Len(log') : log'[i].done => i = Len(log')
  BY <1>1, <1>2 DEF Undone
<1>6. Follows(log', stream')
  BY <1>1, <1>2, <1>3, <1>4, <1>5 DEF Follows
<1>7. ~line.done => Undone(log')
  BY <1>1, <1>2 DEF Undone
<1>8. stream' \in [chunks : Nat, tokens : Nat, goal : BOOLEAN, tools : Nat, completed : BOOLEAN]
  BY <1>1 DEF Counted, Events
<1> QED BY <1>2, <1>3, <1>6, <1>7, <1>8

\* ReturnStream, when the counters are those of the lines.
LEMMA ReturnStreamKeeps ==
    ASSUME CallInv, pc = "stream", UNCHANGED <<proc, thread>>, conn' = "closed",
           log' \in Seq(Events), Len(log') <= MaxEvents,
           stream' \in [chunks : Nat, tokens : Nat, goal : BOOLEAN, tools : Nat, completed : BOOLEAN],
           Follows(log', stream'), ReturnStream(stream')
    PROVE  CallInv'
<1> DEFINE answer == StreamAnswer(stream')
           newTools == [i \in 1..stream'.tools |-> "ok"]
           meter == Meter(stream')
<1>1. answer \in Texts \cup {None} /\ (answer = None <=> stream'.tokens = 0)
  BY NoneAssumption DEF StreamAnswer, Texts
<1>2. newTools \in Seq({"ok", "failed"})
  <2>1. stream'.tools \in Nat
    OBVIOUS
  <2> QED BY <2>1
<1>3. Return(None, answer, None, newTools, meter)
  BY DEF ReturnStream
<1>m. meter.chunks = stream'.chunks /\ meter.completed = stream'.completed
  BY DEF Meter
<1> HIDE DEF answer, newTools, meter
<1>4. /\ UNCHANGED <<config, replies>>
      /\ messages' \in Seq([role : {"user", "assistant"}, text : Texts])
      /\ costs' \in Seq(Nat \cup {None}) /\ sums' \in Seq(Nat \cup {None})
      /\ tools' \in Seq({"ok", "failed"})
      /\ Ended(answer, meter)
  BY <1>1, <1>2, <1>3, ReturnEnds DEF CallInv
<1>5. CallTypeOK'
  BY <1>4 DEF CallInv, CallTypeOK, Ended, config, Places, Awaits
<1>6. TraceInv'
  BY <1>4 DEF CallInv, TraceInv, Ended, Filled
<1>7. HeldInv'
  BY <1>4 DEF CallInv, HeldInv, Ended, CutLoose
<1>8. StreamAccountsForItself'
  <2>1. CASE pc' \in {"stopJudge", "userModel"} /\ trace' = trace
    BY <2>1 DEF CallInv, TraceInv, StreamAccountsForItself
  <2>2. CASE trace'.stream = None
    BY <2>2 DEF StreamAccountsForItself
  <2>3. CASE trace'.stream = meter /\ trace'.answer = answer
    BY <2>3, <1>1, <1>m DEF StreamAccountsForItself, Follows
  <2> QED BY <1>4, <2>1, <2>2, <2>3 DEF Ended
<1>9. StreamInv'
  BY <1>4, <1>8 DEF StreamInv, StreamPlaces, Ended
<1> QED BY <1>5, <1>6, <1>7, <1>9 DEF CallInv

LEMMA StreamLineKeeps ==
    ASSUME CallInv, NEW line \in Lines, StreamLine(line)
    PROVE  CallInv'
<1>1. line \in Events
  BY LinesAreLines DEF CallInv
<1>2. /\ pc = "stream" /\ Len(log) < MaxEvents /\ log' = Append(log, line) /\ stream' = Counted(line)
      /\ UNCHANGED <<proc, thread>>
  BY DEF StreamLine
<1>3. /\ Follows(log', stream') /\ (~line.done => Undone(log'))
      /\ stream' \in [chunks : Nat, tokens : Nat, goal : BOOLEAN, tools : Nat, completed : BOOLEAN]
      /\ log' \in Seq(Events) /\ Len(log') = Len(log) + 1
  BY <1>1, <1>2, CountFollows DEF CallInv
<1>4. Len(log') <= MaxEvents
  BY <1>2, <1>3, EventsAssumption DEF CallInv, StreamInv
<1>5. CASE line.done
  <2>1. conn' = "closed" /\ ReturnStream(stream')
    BY <1>5 DEF StreamLine
  <2> QED BY <1>2, <1>3, <1>4, <2>1, ReturnStreamKeeps
<1>6. CASE ~line.done
  <2>1. UNCHANGED <<config, pc, talk, conn, trace>>
    BY <1>6 DEF StreamLine
  <2>2. CallTypeOK'
    BY <1>2, <1>3, <1>4, <2>1 DEF CallInv, CallTypeOK, config, talk
  <2>3. TraceInv' /\ HeldInv'
    BY <1>2, <2>1 DEF CallInv, TraceInv, HeldInv, CutLoose
  <2>4. trace' = None
    BY <1>2, <2>1 DEF CallInv, TraceInv
  <2>5. StreamInv'
    BY <1>2, <1>3, <1>6, <2>1, <2>4 DEF StreamInv, StreamPlaces, StreamAccountsForItself
  <2> QED BY <2>2, <2>3, <2>5 DEF CallInv
<1> QED BY <1>5, <1>6

LEMMA StreamEndsKeeps ==
    ASSUME CallInv, StreamEnds
    PROVE  CallInv'
<1>1. /\ pc = "stream" /\ conn' = "closed" /\ ReturnStream(stream')
      /\ UNCHANGED <<log, stream, proc, thread>>
  BY DEF StreamEnds
<1>2. /\ log' \in Seq(Events) /\ Len(log') <= MaxEvents /\ Follows(log', stream')
      /\ stream' \in [chunks : Nat, tokens : Nat, goal : BOOLEAN, tools : Nat, completed : BOOLEAN]
  BY <1>1 DEF CallInv, CallTypeOK, StreamInv
<1> QED BY <1>1, <1>2, ReturnStreamKeeps

LEMMA StreamFailsKeeps ==
    ASSUME CallInv, StreamFails
    PROVE  CallInv'
<1>1. /\ pc = "stream" /\ conn' = "closed" /\ Fail /\ UNCHANGED <<log, stream, proc, thread>>
  BY DEF StreamFails
<1>2. ~thread /\ proc # "running" /\ thread \in BOOLEAN /\ proc \in {"none", "running", "killed", "dead"}
  BY <1>1 DEF CallInv, HeldInv, CutLoose, CallTypeOK
<1> QED BY <1>1, <1>2, FailKeeps

-----------------------------------------------------------------------------
(* The other steps of a call                                                 *)

\* Before its end, a call that is not in a thread, in a process or in a stream holds nothing.
LEMMA HoldsNothing ==
    ASSUME CallInv, pc # "over"
    PROVE  /\ thread => pc = "thread"
           /\ proc = "running" => pc = "process"
           /\ conn = "open" => pc = "stream"
           /\ trace = None
           /\ thread \in BOOLEAN /\ proc \in {"none", "running", "killed", "dead"}
           /\ conn \in {"none", "open", "closed"}
  BY DEF CallInv, CallTypeOK, HeldInv, TraceInv, CutLoose

LEMMA FailsBeforeWorldKeeps ==
    ASSUME CallInv, Fail, UNCHANGED world, pc \notin {"over", "thread", "process", "stream"}
    PROVE  CallInv'
  BY HoldsNothing, FailKeeps DEF world

LEMMA NewToolsType == \A tool \in {"none", "ok", "failed"} : NewTools(tool) \in Seq({"ok", "failed"})
<1> TAKE tool \in {"none", "ok", "failed"}
<1>1. CASE tool = "none"
  BY <1>1 DEF NewTools
<1>2. CASE tool \in {"ok", "failed"}
  <2>1. NewTools(tool) = <<tool>>
    BY <1>2 DEF NewTools
  <2> QED BY <1>2, <2>1
<1> QED BY <1>1, <1>2

LEMMA HttpKeeps ==
    ASSUME CallInv, HttpAnswers \/ HttpFails
    PROVE  CallInv'
<1>1. CASE HttpFails
  BY <1>1, FailsBeforeWorldKeeps DEF HttpFails
<1>2. CASE HttpAnswers
  <2>1. PICK answer \in {"goal", "other", None}, tool \in {"none", "ok"} :
            Return(None, answer, None, NewTools(tool), None)
    BY <1>2 DEF HttpAnswers
  <2>2. pc = "sent" /\ UNCHANGED <<log, stream, conn, proc, thread>>
    BY <1>2 DEF HttpAnswers, world
  <2>3. /\ answer \in Texts \cup {None} /\ None \in Nat \cup {None}
        /\ NewTools(tool) \in Seq({"ok", "failed"})
    BY NewToolsType DEF Texts
  <2> QED BY <2>1, <2>2, <2>3, HoldsNothing, ReturnKeeps DEF StreamPlaces
<1> QED BY <1>1, <1>2

LEMMA ProcessExitsKeeps ==
    ASSUME CallInv, ProcessExits
    PROVE  CallInv'
<1>1. pc = "process" /\ proc' = "dead" /\ UNCHANGED <<log, stream, conn, thread>>
  BY DEF ProcessExits
<1>2. CASE Fail
  BY <1>1, <1>2, HoldsNothing, FailKeeps
<1>3. CASE \E answer \in {"goal", "other", None} : Return(None, answer, None, <<>>, None)
  <2>1. PICK answer \in {"goal", "other", None} : Return(None, answer, None, <<>>, None)
    BY <1>3
  <2>2. answer \in Texts \cup {None} /\ None \in Nat \cup {None} /\ <<>> \in Seq({"ok", "failed"})
    BY DEF Texts
  <2> QED BY <1>1, <2>1, <2>2, HoldsNothing, ReturnKeeps DEF StreamPlaces
<1> QED BY <1>2, <1>3 DEF ProcessExits

\* Steps from one await to another, which change nothing but what is held.
LEMMA MoveKeeps ==
    ASSUME CallInv, UNCHANGED <<config, talk, log, stream, conn, trace>>,
           pc \notin StreamPlaces, pc' \in Places \ {"over", "stream"},
           thread' \in BOOLEAN, thread' => pc' = "thread",
           proc' \in {"none", "running", "killed", "dead"}, proc' = "running" => pc' = "process"
    PROVE  CallInv'
<1>1. CallTypeOK' /\ TraceInv'
  BY HoldsNothing DEF CallInv, CallTypeOK, TraceInv, StreamPlaces, config, talk
<1>2. HeldInv'
  BY HoldsNothing DEF HeldInv, StreamPlaces
<1>3. StreamInv'
  BY StreamAside DEF CallInv, StreamInv
<1> QED BY <1>1, <1>2, <1>3 DEF CallInv

LEMMA OwnTimeoutKeeps ==
    ASSUME CallInv, OwnTimeout
    PROVE  CallInv'
  BY HoldsNothing, MoveKeeps DEF OwnTimeout, Places, Awaits, StreamPlaces

LEMMA KilledKeeps ==
    ASSUME CallInv, Killed
    PROVE  CallInv'
  BY HoldsNothing, FailKeeps DEF Killed

LEMMA FirstCallKeeps ==
    ASSUME CallInv, FirstCallReturns \/ FirstCallRaises
    PROVE  CallInv'
<1>1. CASE FirstCallRaises
  BY <1>1, FailsBeforeWorldKeeps DEF FirstCallRaises
<1>2. CASE FirstCallReturns
  <2>1. pc = "onLoop" /\ UNCHANGED <<config, talk, log, stream, conn, proc, trace>>
    BY <1>2 DEF FirstCallReturns
  <2>2. \/ pc' = "thread" /\ thread' = TRUE
        \/ pc' = "coroutine" /\ thread' = thread
    BY <1>2 DEF FirstCallReturns
  <2>3. /\ ~thread /\ proc # "running" /\ proc \in {"none", "running", "killed", "dead"}
        /\ {"thread", "coroutine"} \subseteq Places \ {"over", "stream"}
    BY <2>1, HoldsNothing DEF Places, Awaits
  <2>4. pc' \in Places \ {"over", "stream"}
    BY <2>2, <2>3
  <2>5. CASE pc' = "thread" /\ thread' = TRUE
    BY <2>1, <2>3, <2>4, <2>5, MoveKeeps DEF StreamPlaces
  <2>6. CASE pc' = "coroutine" /\ thread' = thread
    <3>1. ~thread' /\ thread' \in BOOLEAN
      BY <2>1, <2>3, <2>6, HoldsNothing
    <3> QED BY <2>1, <2>3, <2>4, <3>1, MoveKeeps DEF StreamPlaces
  <2> QED BY <2>2, <2>5, <2>6
<1> QED BY <1>1, <1>2

LEMMA TargetReturnsKeeps ==
    ASSUME CallInv, TargetReturns
    PROVE  CallInv'
<1>1. pc \in {"thread", "coroutine"} /\ thread' = FALSE /\ UNCHANGED <<log, stream, conn, proc>>
  BY DEF TargetReturns
<1>2. CASE Fail
  BY <1>1, <1>2, HoldsNothing, FailKeeps
<1>3. CASE \E r \in Results : Return(None, r.answer, r.cost, NewTools(r.tool), r.stream)
  <2>1. PICK r \in Results : Return(None, r.answer, r.cost, NewTools(r.tool), r.stream)
    BY <1>3
  <2>2. /\ None \in {None, "recorded"} /\ r.answer \in Texts \cup {None}
        /\ r.cost \in Nat \cup {None}
        /\ NewTools(r.tool) \in Seq({"ok", "failed"})
    BY ResultsAssumption, NewToolsType
  <2> QED BY <1>1, <2>1, <2>2, HoldsNothing, ReturnKeeps DEF StreamPlaces
<1> QED BY <1>2, <1>3 DEF TargetReturns

LEMMA ReplayKeeps ==
    ASSUME CallInv, Replay
    PROVE  CallInv'
<1>1. pc = "replay" /\ UNCHANGED <<log, stream, conn, proc, thread>>
  BY DEF Replay, world
<1>2. CASE Fail
  BY <1>1, <1>2, FailsBeforeWorldKeeps DEF world
<1>3. CASE \E r \in Recordings : Return(r.error, r.answer, r.cost, NewTools(r.tool), r.stream)
  <2>1. PICK r \in Recordings : Return(r.error, r.answer, r.cost, NewTools(r.tool), r.stream)
    BY <1>3
  <2>2. /\ r.error \in {None, "recorded"} /\ r.answer \in Texts \cup {None}
        /\ r.cost \in Nat \cup {None}
        /\ NewTools(r.tool) \in Seq({"ok", "failed"})
    BY RecordingsAssumption, NewToolsType
  <2> QED BY <1>1, <2>1, <2>2, HoldsNothing, ReturnKeeps DEF StreamPlaces
<1> QED BY <1>2, <1>3 DEF Replay

LEMMA StopJudgeKeeps ==
    ASSUME CallInv, StopJudgeAnswers
    PROVE  CallInv'
<1>1. PICK yes \in BOOLEAN : replies' = Append(replies, yes) /\ AfterTurn(messages, yes, Sum, tools)
  BY DEF StopJudgeAnswers
<1>2. pc = "stopJudge" /\ UNCHANGED <<config, messages, costs, sums, tools, log, stream, conn, proc, thread>>
  BY DEF StopJudgeAnswers, world
<1>3. Ended(None, None)
  BY <1>1, AfterTurnEnds
<1>4. replies' \in Seq(BOOLEAN)
  BY <1>1 DEF CallInv, CallTypeOK
<1>5. CallTypeOK'
  BY <1>2, <1>3, <1>4, HoldsNothing DEF CallInv, CallTypeOK, Ended, config, Places, Awaits
<1>6. TraceInv'
  BY <1>2, <1>3, HoldsNothing DEF TraceInv, Ended, Filled
<1>7. HeldInv'
  BY <1>2, <1>3, HoldsNothing DEF HeldInv
<1>8. StreamInv'
  BY <1>2, <1>3, StreamAside DEF CallInv, StreamPlaces, Ended
<1> QED BY <1>5, <1>6, <1>7, <1>8 DEF CallInv

LEMMA CutKeeps ==
    ASSUME CallInv, Cut
    PROVE  CallInv'
<1>1. /\ pc \in Awaits /\ pc' = "over" /\ trace' = ErrorTrace("timeout")
      /\ conn' = IF conn = "open" THEN "closed" ELSE conn
      /\ UNCHANGED <<config, talk, log, stream, proc, thread>>
  BY DEF Cut
<1>2. /\ trace'.error = "timeout" /\ trace'.answer = None /\ trace'.cost = None
      /\ trace'.tools = <<>> /\ trace'.stream = None
  BY <1>1 DEF ErrorTrace
<1>3. CallTypeOK'
  BY <1>1, <1>2 DEF CallInv, CallTypeOK, config, talk, Places
<1>4. TraceInv'
  BY <1>1, <1>2 DEF TraceInv, Filled
<1>5. HeldInv'
  BY <1>1, <1>2 DEF CallInv, CallTypeOK, HeldInv, CutLoose
<1>6. StreamInv'
  BY <1>1, <1>2, StreamAside DEF CallInv, StreamPlaces
<1> QED BY <1>3, <1>4, <1>5, <1>6 DEF CallInv

LEMMA LeftoverKeeps ==
    ASSUME CallInv, LeftoverEnds
    PROVE  CallInv'
<1>1. /\ pc = "over" /\ UNCHANGED <<config, pc, talk, log, stream, conn, trace>>
      /\ thread' \in BOOLEAN /\ (thread' => thread)
      /\ proc' \in {"none", "running", "killed", "dead"} /\ (proc' = "running" => proc = "running")
  <2>1. thread \in BOOLEAN /\ proc \in {"none", "running", "killed", "dead"}
    BY DEF CallInv, CallTypeOK
  <2>2. CASE thread /\ thread' = FALSE /\ UNCHANGED proc
    BY <2>1, <2>2 DEF LeftoverEnds
  <2>3. CASE proc' = "dead" /\ UNCHANGED thread
    BY <2>1, <2>3 DEF LeftoverEnds
  <2> QED BY <2>2, <2>3 DEF LeftoverEnds
<1>2. CallTypeOK' /\ TraceInv' /\ HeldInv'
  BY <1>1 DEF CallInv, CallTypeOK, TraceInv, HeldInv, CutLoose, Filled, config, talk
<1>3. StreamInv'
  BY <1>1, StreamAside DEF CallInv, StreamPlaces
<1> QED BY <1>2, <1>3 DEF CallInv

\* One step of a call.
LEMMA CallStep ==
    ASSUME CallInv, CallNext
    PROVE  CallInv'
<1>1. CASE Begin
  BY <1>1, StartKeeps DEF Begin
<1>2. CASE BeginFails
  BY <1>2, FailsBeforeWorldKeeps DEF BeginFails
<1>3. CASE HttpAnswers \/ HttpFails
  BY <1>3, HttpKeeps
<1>4. CASE \E line \in Lines : StreamLine(line)
  BY <1>4, StreamLineKeeps
<1>5. CASE StreamEnds \/ StreamFails
  BY <1>5, StreamEndsKeeps, StreamFailsKeeps
<1>6. CASE ProcessExits \/ OwnTimeout \/ Killed
  BY <1>6, ProcessExitsKeeps, OwnTimeoutKeeps, KilledKeeps
<1>7. CASE FirstCallReturns \/ FirstCallRaises \/ TargetReturns
  BY <1>7, FirstCallKeeps, TargetReturnsKeeps
<1>8. CASE Replay
  BY <1>8, ReplayKeeps
<1>9. CASE StopJudgeAnswers
  BY <1>9, StopJudgeKeeps
<1>10. CASE UserModelAnswers
  BY <1>10, StartKeeps DEF UserModelAnswers
<1>11. CASE SimulatorFails
  BY <1>11, FailsBeforeWorldKeeps DEF SimulatorFails
<1>12. CASE Cut \/ LeftoverEnds
  BY <1>12, CutKeeps, LeftoverKeeps
<1> QED BY <1>1, <1>2, <1>3, <1>4, <1>5, <1>6, <1>7, <1>8, <1>9, <1>10, <1>11, <1>12 DEF CallNext

LEMMA CallStutter ==
    ASSUME CallInv, UNCHANGED callVars
    PROVE  CallInv'
<1>1. UNCHANGED <<kind, format, rule, pc, messages, replies, costs, sums, tools, log, stream, conn, proc, thread, trace>>
  BY DEF callVars, config, talk, world
<1> QED BY <1>1 DEF CallInv, CallTypeOK, TraceInv, HeldInv, CutLoose, StreamInv, StreamAccountsForItself, Follows, Undone, Filled

\* A call that is over goes on only in what it left behind: the trace stays as it is.
LEMMA OverIsOver ==
    ASSUME pc = "over", CallNext
    PROVE  UNCHANGED <<pc, kind, trace>>
  BY DEF CallNext, Begin, BeginFails, HttpAnswers, HttpFails, StreamLine, StreamEnds, StreamFails,
         ProcessExits, OwnTimeout, Killed, FirstCallReturns, FirstCallRaises, TargetReturns, Replay,
         StopJudgeAnswers, UserModelAnswers, SimulatorFails, Cut, LeftoverEnds, Awaits, config

-----------------------------------------------------------------------------
(* The conversation                                                          *)

\* A call of the inner adapter is under way.
InCall == {"sent", "stream", "process", "killing", "thread", "coroutine", "onLoop", "replay"}

Alternates ==
    \A i \in 1..Len(messages) : messages[i].role = IF i % 2 = 1 THEN "user" ELSE "assistant"

\* sums adds up what the calls cost, one after the other.
Summed ==
    /\ Len(sums) = Len(costs)
    /\ \A t \in 1..Len(costs) : sums[t] = IF t = 1 THEN costs[1] ELSE Plus(sums[t - 1], costs[t])

\* The place tells how many messages and verdicts there are for each call that returned.
Counts ==
    /\ pc = "ready" => messages = <<>> /\ costs = <<>> /\ replies = <<>>
    /\ pc \in InCall => Len(messages) = 2 * Len(costs) + 1
    /\ pc \in {"userModel", "stopJudge"} => Len(messages) = 2 * Len(costs) /\ costs # <<>>
    /\ pc = "stopJudge" => rule = "judge" /\ Len(replies) + 1 = Len(costs)
    /\ (rule = "judge" /\ pc \in InCall \cup {"userModel"}) => Len(replies) = Len(costs)

\* No turn so far has met the stopping criterion, and there are turns left.
GoesOn ==
    /\ pc \in InCall \cup {"userModel"} =>
          Len(costs) < MaxTurns /\ \A t \in 1..Len(costs) : ~StopsAt(t)
    /\ pc = "stopJudge" =>
          Len(costs) <= MaxTurns /\ \A t \in 1..(Len(costs) - 1) : ~StopsAt(t)

TalkInv ==
    Simulated => Alternates /\ Summed /\ Counts /\ GoesOn /\ ConversationIsWhole

\* The criterion of a simulated conversation is one of three; now and after a step.
Criteria == {"turn_count", "content_match", "judge"}

LEMMA CriterionNow ==
    ASSUME NEW t
    PROVE  /\ rule = "turn_count" => StopsAt(t) = (t >= StopTurns)
           /\ rule = "content_match" => StopsAt(t) = (messages[2 * t].text = "goal")
           /\ rule = "judge" => StopsAt(t) = replies[t]
<1>1. ASSUME rule = "turn_count" PROVE StopsAt(t) = (t >= StopTurns)
  BY <1>1, Zenon DEF StopsAt
<1>2. ASSUME rule = "content_match" PROVE StopsAt(t) = (messages[2 * t].text = "goal")
  BY <1>2, Zenon DEF StopsAt
<1>3. ASSUME rule = "judge" PROVE StopsAt(t) = replies[t]
  BY <1>3, Zenon DEF StopsAt
<1> QED BY <1>1, <1>2, <1>3

LEMMA CriterionThen ==
    ASSUME NEW t
    PROVE  /\ rule' = "turn_count" => StopsAt(t)' = (t >= StopTurns)
           /\ rule' = "content_match" => StopsAt(t)' = (messages'[2 * t].text = "goal")
           /\ rule' = "judge" => StopsAt(t)' = replies'[t]
<1>1. ASSUME rule' = "turn_count" PROVE StopsAt(t)' = (t >= StopTurns)
  BY <1>1, Zenon DEF StopsAt
<1>2. ASSUME rule' = "content_match" PROVE StopsAt(t)' = (messages'[2 * t].text = "goal")
  BY <1>2, Zenon DEF StopsAt
<1>3. ASSUME rule' = "judge" PROVE StopsAt(t)' = replies'[t]
  BY <1>3, Zenon DEF StopsAt
<1> QED BY <1>1, <1>2, <1>3

\* What was said of a turn is not taken back.
LEMMA TurnStays ==
    ASSUME NEW t, rule \in Criteria, rule' = rule, messages'[2 * t] = messages[2 * t],
           rule = "judge" => replies'[t] = replies[t]
    PROVE  StopsAt(t)' = StopsAt(t)
  BY CriterionNow, CriterionThen DEF Criteria

LEMMA SimulatedCriterion == CallTypeOK /\ Simulated => rule \in Criteria
  BY KindsAssumption DEF CallTypeOK, Simulated, AllRules, Criteria

LEMMA Halves == \A n \in Nat : (2 * n) \div 2 = n /\ (2 * n + 1) % 2 = 1 /\ (2 * n) % 2 = 0
  OBVIOUS

\* A user turn and then an assistant turn keep the order.
LEMMA SpeaksNext ==
    ASSUME CallTypeOK, Alternates, NEW m, messages' = Append(messages, m),
           m.role = IF (Len(messages) + 1) % 2 = 1 THEN "user" ELSE "assistant"
    PROVE  Alternates'
<1>1. /\ Len(messages) \in Nat /\ Len(messages') = Len(messages) + 1
      /\ messages'[Len(messages) + 1] = m
      /\ \A i \in 1..Len(messages) : messages'[i] = messages[i]
  BY DEF CallTypeOK
<1>2. 1..Len(messages') = (1..Len(messages)) \cup {Len(messages) + 1}
  BY <1>1
<1> QED BY <1>1, <1>2 DEF Alternates

\* The sum after one more call.
LEMMA SumsNext ==
    ASSUME CallTypeOK, Summed, NEW cost \in Nat \cup {None},
           costs' = Append(costs, cost), sums' = Append(sums, Plus(Sum, cost))
    PROVE  /\ Summed' /\ Len(costs') = Len(costs) + 1 /\ Len(sums') = Len(costs) + 1
           /\ sums'[Len(costs) + 1] = Plus(Sum, cost)
<1>1. /\ Len(costs) \in Nat /\ Len(costs') = Len(costs) + 1 /\ Len(sums') = Len(costs) + 1
      /\ costs'[Len(costs) + 1] = cost /\ sums'[Len(costs) + 1] = Plus(Sum, cost)
      /\ \A t \in 1..Len(costs) : costs'[t] = costs[t] /\ sums'[t] = sums[t]
  BY DEF CallTypeOK, Summed
<1>2. sums'[Len(costs) + 1] =
          IF Len(costs) + 1 = 1 THEN costs'[1] ELSE Plus(sums'[Len(costs)], costs'[Len(costs) + 1])
  <2>1. CASE costs = <<>>
    <3>1. sums = <<>> /\ Len(costs) = 0
      BY <2>1 DEF Summed, CallTypeOK
    <3>2. Plus(Sum, cost) = cost
      BY <3>1 DEF Sum, Plus
    <3> QED BY <1>1, <3>1, <3>2
  <2>2. CASE costs # <<>>
    <3>1. Len(costs) >= 1 /\ sums # <<>> /\ Len(sums) = Len(costs)
      BY <2>2 DEF Summed, CallTypeOK
    <3>2. Sum = sums[Len(costs)] /\ sums'[Len(costs)] = sums[Len(costs)]
      BY <1>1, <3>1 DEF Sum
    <3> QED BY <1>1, <3>1, <3>2
  <2> QED BY <2>1, <2>2
<1>3. \A t \in 1..Len(costs) :
          sums'[t] = IF t = 1 THEN costs'[1] ELSE Plus(sums'[t - 1], costs'[t])
  BY <1>1 DEF Summed
<1>4. 1..Len(costs') = (1..Len(costs)) \cup {Len(costs) + 1}
  BY <1>1
<1> QED BY <1>1, <1>2, <1>3, <1>4 DEF Summed

\* The end of a conversation of n turns, none of which but the last met the criterion.
LEMMA ConcludesWhole ==
    ASSUME NEW n \in 1..MaxTurns, NEW stop, NEW sum,
           CallTypeOK', Alternates', Summed',
           Len(messages') = 2 * n, Len(costs') = n, sum = sums'[n],
           \A t \in 1..(n - 1) : ~StopsAt(t)',
           IF StopsAt(n)' THEN stop = rule' ELSE stop = "max_turns_reached" /\ n = MaxTurns,
           Conclude(messages', stop, sum, tools')
    PROVE  pc' = "over" /\ ConversationIsWhole'
<1>1. MaxTurns \in Nat /\ n \in Nat /\ n >= 1 /\ Len(sums') = n
  BY TurnsAssumption DEF Summed
<1>2. /\ pc' = "over" /\ trace'.turns = n /\ trace'.stop = stop /\ trace'.cost = sum
      /\ trace'.answer = messages'[Len(messages')].text /\ trace'.tools = tools'
  BY <1>1, Halves DEF Conclude, Turns
<1>3. sums'[1] = costs'[1]
  BY <1>1 DEF Summed
<1>4. ASSUME NEW t \in 2..n
      PROVE  sums'[t] = CASE costs'[t] = None -> sums'[t - 1]
                          [] costs'[t] # None /\ sums'[t - 1] = None -> costs'[t]
                          [] OTHER -> sums'[t - 1] + costs'[t]
  <2>1. sums'[t] = Plus(sums'[t - 1], costs'[t])
    BY <1>1 DEF Summed
  <2> QED BY <2>1 DEF Plus
<1>5. \A i \in 1..Len(messages') :
          messages'[i].role = IF i % 2 = 1 THEN "user" ELSE "assistant"
  BY DEF Alternates
<1> QED BY <1>1, <1>2, <1>3, <1>4, <1>5 DEF ConversationIsWhole

\* The end of a turn: another one, or the end of the conversation.
LEMMA TurnEnds ==
    ASSUME NEW n \in 1..MaxTurns, NEW stops \in BOOLEAN, NEW sum,
           CallTypeOK', Alternates', Summed', rule' = rule,
           Len(messages') = 2 * n, Len(costs') = n, sum = sums'[n],
           \A t \in 1..(n - 1) : ~StopsAt(t)',
           stops <=> StopsAt(n)',
           AfterTurn(messages', stops, sum, tools')
    PROVE  \/ pc' = "userModel" /\ trace' = trace /\ n < MaxTurns /\ ~StopsAt(n)'
           \/ pc' = "over" /\ ConversationIsWhole'
<1>1. Turns(messages') = n /\ n \in Nat /\ MaxTurns \in Nat /\ n <= MaxTurns
  BY Halves, TurnsAssumption DEF Turns
<1>2. CASE stops
  <2>1. Conclude(messages', rule, sum, tools')
    BY <1>2 DEF AfterTurn
  <2> QED BY <1>2, <2>1, ConcludesWhole
<1>3. CASE ~stops /\ n = MaxTurns
  <2>1. Conclude(messages', "max_turns_reached", sum, tools')
    BY <1>1, <1>3 DEF AfterTurn
  <2> QED BY <1>3, <2>1, ConcludesWhole
<1>4. CASE ~stops /\ n < MaxTurns
  <2>1. pc' = "userModel" /\ trace' = trace
    BY <1>1, <1>4 DEF AfterTurn
  <2> QED BY <1>4, <2>1
<1> QED BY <1>1, <1>2, <1>3, <1>4

LEMMA OneMore ==
    ASSUME CallTypeOK, NEW m, messages' = Append(messages, m)
    PROVE  /\ Len(messages) \in Nat /\ Len(messages') = Len(messages) + 1
           /\ \A i \in 1..Len(messages) : messages'[i] = messages[i]
  BY DEF CallTypeOK

LEMMA StartTalks ==
    ASSUME CallInv, TalkInv, StartCall, pc \in {"ready", "userModel"}, CallTypeOK'
    PROVE  TalkInv'
<1> SUFFICES ASSUME Simulated PROVE (Alternates /\ Summed /\ Counts /\ GoesOn /\ ConversationIsWhole)'
  BY DEF TalkInv, StartCall, config, Simulated
<1>1. /\ Alternates /\ Summed /\ Counts /\ GoesOn
  BY DEF TalkInv
<1>2. /\ pc' \in InCall
      /\ UNCHANGED <<kind, format, rule, replies, costs, sums, tools, trace>>
      /\ messages' = Append(messages, Message("user", "other"))
  <2>1. kind \in AllKinds
    BY KindsAssumption DEF CallInv, CallTypeOK
  <2> QED BY <2>1 DEF StartCall, StartPlace, AllKinds, InCall, config
<1>3. CallTypeOK /\ rule \in Criteria /\ trace = None /\ Len(costs) \in Nat /\ MaxTurns \in Nat \ {0}
  BY SimulatedCriterion, TurnsAssumption DEF CallInv, TraceInv, CallTypeOK
<1>4. Len(messages) = 2 * Len(costs) /\ Len(messages') = 2 * Len(costs) + 1
  <2>1. CASE pc = "ready"
    <3>1. messages = <<>> /\ costs = <<>>
      BY <1>1, <2>1 DEF Counts
    <3> QED BY <1>2, <3>1
  <2>2. CASE pc = "userModel"
    <3>1. Len(messages) = 2 * Len(costs)
      BY <1>1, <2>2 DEF Counts
    <3> QED BY <1>2, <1>3, <3>1, OneMore
  <2> QED BY <2>1, <2>2
<1>5. Alternates'
  BY <1>1, <1>2, <1>3, <1>4, Halves, SpeaksNext DEF Message
<1>6. Summed'
  BY <1>1, <1>2 DEF Summed
<1>7. Counts'
  <2>1. rule = "judge" => Len(replies) = Len(costs)
    BY <1>1, <1>3 DEF Counts, CallTypeOK
  <2> QED BY <1>2, <1>4, <2>1 DEF Counts, InCall
<1>8. GoesOn'
  <2>1. Len(costs) < MaxTurns /\ \A t \in 1..Len(costs) : ~StopsAt(t)
    <3>1. CASE pc = "ready"
      <4>1. Len(costs) = 0
        BY <1>1, <3>1 DEF Counts
      <4> QED BY <4>1, <1>3
    <3>2. CASE pc = "userModel"
      BY <1>1, <3>2 DEF GoesOn
    <3> QED BY <3>1, <3>2
  <2>2. ASSUME NEW t \in 1..Len(costs) PROVE StopsAt(t)' = StopsAt(t)
    <3>1. 2 * t \in 1..Len(messages)
      BY <1>3, <1>4
    <3>2. messages'[2 * t] = messages[2 * t]
      BY <1>2, <1>3, <3>1 DEF CallTypeOK
    <3> QED BY <1>2, <1>3, <3>2, TurnStays
  <2> QED BY <1>2, <2>1, <2>2 DEF GoesOn, InCall
<1>9. ConversationIsWhole'
  BY <1>2, <1>3 DEF ConversationIsWhole
<1> QED BY <1>5, <1>6, <1>7, <1>8, <1>9

\* An inner call returns: the messages, the costs and the sums are those of one turn more.
LEMMA ReturnTalks ==
    ASSUME CallInv, TalkInv, pc \in InCall, CallTypeOK',
           NEW error, NEW answer \in Texts \cup {None}, NEW cost \in Nat \cup {None},
           NEW newTools, NEW meter, Return(error, answer, cost, newTools, meter)
    PROVE  TalkInv'
<1> SUFFICES ASSUME Simulated PROVE (Alternates /\ Summed /\ Counts /\ GoesOn /\ ConversationIsWhole)'
  BY DEF TalkInv, Return, config, Simulated
<1> DEFINE text == IF answer = None THEN "empty" ELSE answer
           ms == Append(messages, Message("assistant", text))
<1>0. PICK n \in Nat : n = Len(costs) + 1
  BY DEF CallInv, CallTypeOK
<1>1. /\ Alternates /\ Summed /\ Counts /\ GoesOn /\ CallTypeOK /\ rule \in Criteria
      /\ Len(costs) \in Nat /\ MaxTurns \in Nat
  BY SimulatedCriterion, TurnsAssumption DEF TalkInv, CallInv, CallTypeOK
<1>2. /\ UNCHANGED <<kind, format, rule, replies>>
      /\ costs' = Append(costs, cost) /\ sums' = Append(sums, Plus(Sum, cost))
      /\ messages' = ms
      /\ IF rule = "judge" THEN pc' = "stopJudge" /\ UNCHANGED trace
         ELSE AfterTurn(messages', StopsWithoutJudge(messages'), Plus(Sum, cost), tools')
  BY DEF Return, config
<1>3. Len(messages) = 2 * Len(costs) + 1 /\ Len(messages') = 2 * n
  <2>1. Len(messages) = 2 * Len(costs) + 1
    BY <1>1 DEF Counts
  <2> HIDE DEF text
  <2>2. Len(messages') = Len(messages) + 1
    BY <1>1, <1>2, OneMore
  <2> QED BY <1>0, <1>1, <2>1, <2>2
<1>4. Alternates'
  <2>1. (Len(messages) + 1) % 2 = 0
    <3>1. Len(messages) + 1 = 2 * n /\ n \in Nat
      BY <1>0, <1>1, <1>3
    <3> QED BY <3>1, Halves
  <2>2. Message("assistant", text).role = "assistant"
    BY DEF Message
  <2> HIDE DEF text
  <2> QED BY <1>1, <1>2, <2>1, <2>2, SpeaksNext
<1>5. Summed' /\ Len(costs') = n /\ Len(sums') = n /\ sums'[n] = Plus(Sum, cost)
  BY <1>0, <1>1, <1>2, SumsNext
<1>6. n \in 1..MaxTurns
  BY <1>0, <1>1 DEF GoesOn
<1> HIDE DEF ms
<1>7. ASSUME NEW t \in 1..(n - 1) PROVE ~StopsAt(t)'
  <2>1. 2 * t \in 1..Len(messages) /\ t \in 1..Len(costs)
    BY <1>0, <1>1, <1>3
  <2>2. messages'[2 * t] = messages[2 * t]
    BY <1>1, <1>2, <2>1 DEF CallTypeOK, ms
  <2>3. ~StopsAt(t)
    BY <1>1, <2>1 DEF GoesOn
  <2> QED BY <1>1, <1>2, <2>2, <2>3, TurnStays
<1>8. CASE rule = "judge"
  <2>1. pc' = "stopJudge" /\ trace' = trace /\ Len(replies') = Len(costs)
    BY <1>0, <1>1, <1>2, <1>8 DEF Counts
  <2>2. Counts'
    BY <1>0, <1>1, <1>2, <1>3, <1>5, <1>8, <2>1 DEF Counts, InCall
  <2>3. GoesOn'
    BY <1>0, <1>5, <1>6, <1>7, <2>1 DEF GoesOn, InCall
  <2>4. ConversationIsWhole'
    BY <2>1 DEF ConversationIsWhole, CallInv, TraceInv, InCall
  <2> QED BY <1>4, <1>5, <2>2, <2>3, <2>4
<1>9. CASE rule # "judge"
  <2>1. AfterTurn(messages', StopsWithoutJudge(messages'), sums'[n], tools')
    BY <1>2, <1>5, <1>9
  <2>2. StopsWithoutJudge(messages') <=> StopsAt(n)'
    <3>1. Turns(messages') = n /\ n \in Nat
      BY <1>0, <1>1, <1>3, Halves DEF Turns
    <3>2. CASE rule = "turn_count"
      <4>1. StopsAt(n)' = (n >= StopTurns)
        BY <1>2, <3>2, CriterionThen
      <4>2. StopsWithoutJudge(messages') <=> Turns(messages') >= StopTurns
        BY <3>2 DEF StopsWithoutJudge
      <4> QED BY <3>1, <4>1, <4>2
    <3>3. CASE rule = "content_match"
      <4>1. StopsAt(n)' = (messages'[2 * n].text = "goal")
        BY <1>2, <3>3, CriterionThen
      <4>2. StopsWithoutJudge(messages') <=> messages'[Len(messages')].text = "goal"
        BY <3>3 DEF StopsWithoutJudge
      <4> QED BY <1>3, <4>1, <4>2
    <3> QED BY <1>1, <1>9, <3>2, <3>3 DEF Criteria
  <2>3. \/ pc' = "userModel" /\ trace' = trace /\ n < MaxTurns /\ ~StopsAt(n)'
        \/ pc' = "over" /\ ConversationIsWhole'
    BY <1>0, <1>2, <1>3, <1>4, <1>5, <1>6, <1>7, <2>1, <2>2, StopsIsBoolean, TurnEnds
  <2>4. Counts'
    BY <1>0, <1>1, <1>2, <1>3, <1>5, <1>9, <2>3 DEF Counts, InCall
  <2>5. GoesOn'
    BY <1>0, <1>1, <1>5, <1>7, <2>3 DEF GoesOn, InCall
  <2>6. ConversationIsWhole'
    BY <2>3 DEF ConversationIsWhole, CallInv, TraceInv, InCall
  <2> QED BY <1>4, <1>5, <2>4, <2>5, <2>6
<1> QED BY <1>8, <1>9

LEMMA JudgeTalks ==
    ASSUME CallInv, TalkInv, StopJudgeAnswers, CallTypeOK'
    PROVE  TalkInv'
<1> SUFFICES ASSUME Simulated PROVE (Alternates /\ Summed /\ Counts /\ GoesOn /\ ConversationIsWhole)'
  BY DEF TalkInv, StopJudgeAnswers, config, Simulated
<1>0. PICK n \in Nat : n = Len(costs)
  BY DEF CallInv, CallTypeOK
<1>1. /\ Alternates /\ Summed /\ Counts /\ GoesOn /\ CallTypeOK /\ rule \in Criteria
      /\ MaxTurns \in Nat /\ trace = None
  BY SimulatedCriterion, TurnsAssumption DEF TalkInv, CallInv, TraceInv, StopJudgeAnswers
<1>2. PICK yes \in BOOLEAN : replies' = Append(replies, yes) /\ AfterTurn(messages, yes, Sum, tools)
  BY DEF StopJudgeAnswers
<1>3. pc = "stopJudge" /\ UNCHANGED <<kind, format, rule, messages, costs, sums, tools>>
  BY DEF StopJudgeAnswers, config
<1>4. /\ rule = "judge" /\ Len(replies) \in Nat /\ Len(replies) + 1 = n
      /\ Len(messages) = 2 * n /\ n \in 1..MaxTurns
  BY <1>0, <1>1, <1>3 DEF Counts, GoesOn, CallTypeOK
<1>5. /\ Len(replies') = n /\ replies'[n] = yes
      /\ \A t \in 1..(n - 1) : replies'[t] = replies[t]
  <2>1. replies \in Seq(BOOLEAN) /\ replies' = Append(replies, yes)
    BY <1>1, <1>2 DEF CallTypeOK
  <2> QED BY <1>0, <1>4, <2>1
<1>6. Alternates' /\ Summed'
  BY <1>1, <1>3 DEF Alternates, Summed
<1>7. ASSUME NEW t \in 1..(n - 1) PROVE ~StopsAt(t)'
  <2>1. ~StopsAt(t)
    BY <1>0, <1>1, <1>3 DEF GoesOn
  <2> QED BY <1>1, <1>3, <1>5, <2>1, TurnStays
<1>8. StopsAt(n)' = yes
  BY <1>3, <1>4, <1>5, CriterionThen
<1>9. Sum = sums'[n]
  <2>1. Len(sums) = n /\ sums # <<>>
    BY <1>0, <1>1, <1>4 DEF Summed
  <2> QED BY <1>3, <2>1 DEF Sum
<1>10. \/ pc' = "userModel" /\ trace' = trace /\ n < MaxTurns /\ ~StopsAt(n)'
       \/ pc' = "over" /\ ConversationIsWhole'
  <2>1. AfterTurn(messages', yes, Sum, tools')
    BY <1>2, <1>3
  <2> QED BY <1>0, <1>3, <1>4, <1>6, <1>7, <1>8, <1>9, <2>1, TurnEnds
<1>11. Counts'
  BY <1>0, <1>1, <1>3, <1>4, <1>5, <1>10 DEF Counts, InCall
<1>12. GoesOn'
  BY <1>0, <1>3, <1>4, <1>7, <1>10 DEF GoesOn, InCall
<1>13. ConversationIsWhole'
  BY <1>1, <1>10 DEF ConversationIsWhole
<1> QED BY <1>6, <1>11, <1>12, <1>13

\* A step that says nothing: between two awaits of a call, after the end, or into a failure.
Failing == pc' = "over" /\ trace'.error \in {"adapter_error", "timeout"}

LEMMA SilentTalks ==
    ASSUME TalkInv, TraceInv, UNCHANGED <<config, talk>>,
           \/ pc \in InCall /\ pc' \in InCall /\ UNCHANGED trace
           \/ UNCHANGED <<pc, trace>>
           \/ Failing
    PROVE  TalkInv'
<1> SUFFICES ASSUME Simulated PROVE (Alternates /\ Summed /\ Counts /\ GoesOn /\ ConversationIsWhole)'
  BY DEF TalkInv, config, Simulated
<1>1. /\ Alternates /\ Summed /\ Counts /\ GoesOn /\ ConversationIsWhole
      /\ UNCHANGED <<kind, format, rule, messages, replies, costs, sums, tools>>
  BY DEF TalkInv, config, talk
<1>2. \A t : StopsAt(t)' = StopsAt(t)
  BY <1>1 DEF StopsAt
<1>3. Alternates' /\ Summed'
  BY <1>1 DEF Alternates, Summed
<1>4. Counts'
  BY <1>1 DEF Counts, InCall, Failing
<1>5. GoesOn'
  BY <1>1, <1>2 DEF GoesOn, InCall, Failing
<1>6. ConversationIsWhole'
  <2>1. CASE pc \in InCall /\ UNCHANGED trace
    BY <2>1 DEF ConversationIsWhole, TraceInv, InCall
  <2>2. CASE UNCHANGED <<pc, trace>>
    BY <1>1, <1>2, <2>2 DEF ConversationIsWhole, Simulated
  <2>3. CASE Failing
    BY <2>3, NoneAssumption DEF Failing, ConversationIsWhole
  <2> QED BY <2>1, <2>2, <2>3
<1> QED BY <1>3, <1>4, <1>5, <1>6

\* What each step of a call says: an inner call begins or returns, the stop judge answers,
\* or nothing is said.
Returning ==
    \E answer \in Texts \cup {None}, cost \in Nat \cup {None} :
        \E error, newTools, meter : Return(error, answer, cost, newTools, meter)

LEMMA FailIsFailing == Fail => Failing /\ UNCHANGED <<config, talk>>
  BY DEF Fail, Failing, ErrorTrace

LEMMA StreamReturns ==
    ASSUME NEW counters, ReturnStream(counters)
    PROVE  Returning
<1>1. StreamAnswer(counters) \in Texts \cup {None}
  BY DEF StreamAnswer, Texts
<1> QED BY <1>1 DEF ReturnStream, Returning

LEMMA StepSays ==
    ASSUME CallNext, CallInv
    PROVE  \/ StartCall /\ pc \in {"ready", "userModel"}
           \/ pc \in InCall /\ Returning
           \/ StopJudgeAnswers
           \/ /\ UNCHANGED <<config, talk>>
              /\ \/ pc \in InCall /\ pc' \in InCall /\ UNCHANGED trace
                 \/ UNCHANGED <<pc, trace>>
                 \/ Failing
<1>1. CASE Begin \/ UserModelAnswers
  BY <1>1 DEF Begin, UserModelAnswers
<1>2. CASE BeginFails \/ HttpFails \/ StreamFails \/ Killed \/ FirstCallRaises \/ SimulatorFails
  BY <1>2, FailIsFailing DEF BeginFails, HttpFails, StreamFails, Killed, FirstCallRaises, SimulatorFails
<1>3. CASE HttpAnswers
  <2>1. {"goal", "other", None} \subseteq Texts \cup {None}
    BY DEF Texts
  <2>2. /\ pc \in InCall
        /\ \E answer \in {"goal", "other", None}, tool \in {"none", "ok"} :
              Return(None, answer, None, NewTools(tool), None)
    BY <1>3 DEF HttpAnswers, InCall
  <2> QED BY <2>1, <2>2 DEF Returning
<1>4. CASE \E line \in Lines : StreamLine(line)
  <2>1. PICK line \in Lines : StreamLine(line)
    BY <1>4
  <2>2. CASE line.done
    BY <2>1, <2>2, StreamReturns DEF StreamLine, InCall
  <2>3. CASE ~line.done
    BY <2>1, <2>3 DEF StreamLine, InCall
  <2> QED BY <2>2, <2>3
<1>5. CASE StreamEnds
  BY <1>5, StreamReturns DEF StreamEnds, InCall
<1>6. CASE ProcessExits
  <2>1. CASE Fail
    BY <2>1, FailIsFailing
  <2>2. CASE \E answer \in {"goal", "other", None} : Return(None, answer, None, <<>>, None)
    <3>1. {"goal", "other", None} \subseteq Texts \cup {None}
      BY DEF Texts
    <3>2. pc \in InCall
      BY <1>6 DEF ProcessExits, InCall
    <3> QED BY <2>2, <3>1, <3>2 DEF Returning
  <2> QED BY <1>6, <2>1, <2>2 DEF ProcessExits
<1>7. CASE OwnTimeout \/ FirstCallReturns
  BY <1>7 DEF OwnTimeout, FirstCallReturns, InCall
<1>8. CASE TargetReturns \/ Replay
  <2>1. CASE Fail
    BY <2>1, FailIsFailing
  <2>2. CASE \/ \E r \in Results : Return(None, r.answer, r.cost, NewTools(r.tool), r.stream)
             \/ \E r \in Recordings : Return(r.error, r.answer, r.cost, NewTools(r.tool), r.stream)
    <3>1. /\ \A r \in Results : r.answer \in Texts \cup {None} /\ r.cost \in Nat \cup {None}
          /\ \A r \in Recordings : r.answer \in Texts \cup {None} /\ r.cost \in Nat \cup {None}
      BY ResultsAssumption, RecordingsAssumption
    <3>2. pc \in InCall
      BY <1>8 DEF TargetReturns, Replay, InCall
    <3> QED BY <2>2, <3>1, <3>2 DEF Returning
  <2> QED BY <1>8, <2>1, <2>2 DEF TargetReturns, Replay
<1>9. CASE Cut
  BY <1>9 DEF Cut, Failing, ErrorTrace
<1>10. CASE LeftoverEnds
  BY <1>10 DEF LeftoverEnds
<1> QED BY <1>1, <1>2, <1>3, <1>4, <1>5, <1>6, <1>7, <1>8, <1>9, <1>10 DEF CallNext

\* One step of a call keeps what is known of its conversation.
LEMMA TalkStep ==
    ASSUME CallInv, TalkInv, CallNext
    PROVE  TalkInv'
<1>1. CallTypeOK' /\ TraceInv
  BY CallStep DEF CallInv
<1>2. CASE StartCall /\ pc \in {"ready", "userModel"}
  BY <1>1, <1>2, StartTalks
<1>3. CASE pc \in InCall /\ Returning
  <2>1. PICK answer \in Texts \cup {None}, cost \in Nat \cup {None} :
            \E error, newTools, meter : Return(error, answer, cost, newTools, meter)
    BY <1>3 DEF Returning
  <2>2. PICK error, newTools, meter : Return(error, answer, cost, newTools, meter)
    BY <2>1
  <2> QED BY <1>1, <1>3, <2>2, ReturnTalks
<1>4. CASE StopJudgeAnswers
  BY <1>1, <1>4, JudgeTalks
<1>5. CASE /\ UNCHANGED <<config, talk>>
           /\ \/ pc \in InCall /\ pc' \in InCall /\ UNCHANGED trace
              \/ UNCHANGED <<pc, trace>>
              \/ Failing
  BY <1>1, <1>5, SilentTalks
<1> QED BY <1>2, <1>3, <1>4, <1>5, StepSays

LEMMA TalkStutter ==
    ASSUME CallInv, TalkInv, UNCHANGED callVars
    PROVE  TalkInv'
  BY SilentTalks DEF callVars, CallInv

-----------------------------------------------------------------------------
(* The checks                                                                *)

CheckTypes ==
    /\ plan # None => plan \subseteq Checks
    /\ artifact \in Artifacts \cup {None}
    /\ at \in [Checks -> {"idle", "model", "answer", "reference", "process", "killing", "done"}]
    /\ \A e \in Checks : row[e] = None <=> at[e] # "done"
    /\ paid \in [Checks -> 0..MaxPrice]
    /\ command \in [Checks -> {"none", "running", "killed", "dead"}]

\* A row that passes where something was asked for.
Justified(e, result) ==
    (result.passed /\ AsksForPresence(e)) => trace.error \in {None, "recorded"} /\ Shown(e)

\* What is known of one evaluator; over the trace it looks at.
Judged(e, its, result, spent, process) ==
    /\ result # None => plan # None
    /\ process = "running" => its = "process"
    /\ process = "killed" => its = "killing"
    /\ its = "idle" => spent = 0
    /\ its \in {"model", "answer", "reference", "process", "killing"} => plan # None
    /\ its = "model" => Type(e) \in ModelTypes /\ spent = 0
    /\ its \in {"answer", "reference"} => Type(e) = "semantic_similarity"
    /\ its \in {"process", "killing"} => Type(e) = "command"
    /\ (its = "model" /\ Type(e) = "llm_judge") => ~Refused(Config[e])
    /\ (Type(e) = "llm_judge" /\ Limited(Config[e])) =>
          /\ Refused(Config[e]) => spent = 0
          /\ (result # None /\ result.error = NoError) => spent <= Config[e].limit
    /\ result # None => Justified(e, result)

CheckInv ==
    /\ CheckTypes
    /\ row = [e \in Checks |-> row[e]]
    /\ plan # None => pc = "over"
    /\ \A e \in Checks : Judged(e, at[e], row[e], paid[e], command[e])

IInv == CallInv /\ TalkInv /\ CheckInv

\* A row that is written is a row.
LEMMA RowsAreRows ==
    /\ \A error \in RowErrors : ErrorRow(error) # None
    /\ \A passed \in BOOLEAN : Verdict(passed) # None
<1>1. \A error \in RowErrors : ErrorRow(error) \in [passed : BOOLEAN, error : RowErrors]
  BY DEF ErrorRow
<1>2. ASSUME NEW passed \in BOOLEAN PROVE Verdict(passed) \in [passed : BOOLEAN, error : RowErrors]
  <2>1. NoError \in RowErrors
    BY DEF RowErrors
  <2> QED BY <2>1, Zenon DEF Verdict
<1> QED BY <1>1, <1>2, RowAssumption

\* The steps of one evaluator change what belongs to it and nothing else.
LEMMA OneEvaluator ==
    ASSUME IInv, NEW e \in Checks, UNCHANGED <<callVars, plan, artifact>>,
           at' = [at EXCEPT ![e] = at'[e]], row' = [row EXCEPT ![e] = row'[e]],
           paid' = [paid EXCEPT ![e] = paid'[e]], command' = [command EXCEPT ![e] = command'[e]],
           at'[e] \in {"model", "answer", "reference", "process", "killing", "done"},
           row'[e] = None <=> at'[e] # "done",
           paid'[e] \in 0..MaxPrice, command'[e] \in {"none", "running", "killed", "dead"},
           Judged(e, at'[e], row'[e], paid'[e], command'[e])
    PROVE  IInv'
<1>1. CallInv' /\ TalkInv'
  BY CallStutter, TalkStutter DEF IInv
<1>2. UNCHANGED <<pc, trace, kind, plan, artifact>>
  BY DEF callVars, config
<1>3. /\ \A f \in Checks \ {e} : at'[f] = at[f] /\ row'[f] = row[f] /\ paid'[f] = paid[f] /\ command'[f] = command[f]
      /\ row' = [f \in Checks |-> row'[f]]
  BY DEF IInv, CheckInv, CheckTypes
<1>4. CheckTypes'
  BY <1>2, <1>3 DEF IInv, CheckInv, CheckTypes
<1>5. ASSUME NEW f \in Checks
      PROVE  Judged(f, at[f], row[f], paid[f], command[f])'
  <2>1. CASE f = e
    BY <1>2, <1>3, <2>1 DEF Judged, Justified, AsksForPresence, Shown
  <2>2. CASE f # e
    <3>1. Judged(f, at[f], row[f], paid[f], command[f])
      BY DEF IInv, CheckInv
    <3> QED BY <1>2, <1>3, <2>2, <3>1 DEF Judged, Justified, AsksForPresence, Shown
  <2> QED BY <2>1, <2>2
<1> QED BY <1>1, <1>2, <1>3, <1>4, <1>5 DEF IInv, CheckInv

\* What is known of an evaluator of the run that has no row yet.
LEMMA Waiting ==
    ASSUME IInv, NEW e \in Checks, Starts(e) \/ at[e] \notin {"idle", "done"}
    PROVE  /\ plan # None /\ pc = "over"
           /\ at[e] \in {"idle", "model", "answer", "reference", "process", "killing"}
           /\ row[e] = None
           /\ Judged(e, at[e], row[e], paid[e], command[e])
           /\ paid[e] \in 0..MaxPrice /\ command[e] \in {"none", "running", "killed", "dead"}
           /\ paid = [paid EXCEPT ![e] = paid[e]]
           /\ command = [command EXCEPT ![e] = command[e]]
           /\ row = [row EXCEPT ![e] = None]
           /\ Filled
<1>1. /\ at[e] \in {"idle", "model", "answer", "reference", "process", "killing", "done"}
      /\ Judged(e, at[e], row[e], paid[e], command[e])
      /\ paid[e] \in 0..MaxPrice /\ command[e] \in {"none", "running", "killed", "dead"}
      /\ row[e] = None <=> at[e] # "done"
  BY DEF IInv, CheckInv, CheckTypes
<1>2. at[e] # "done"
  BY <1>1 DEF Starts
<1>3. plan # None /\ pc = "over"
  BY <1>1, <1>2 DEF Starts, Judged, IInv, CheckInv
<1>4. Filled
  BY <1>3 DEF IInv, CallInv, TraceInv
<1>5. /\ paid = [paid EXCEPT ![e] = paid[e]]
      /\ command = [command EXCEPT ![e] = command[e]]
  BY DEF IInv, CheckInv, CheckTypes
<1>6. row = [row EXCEPT ![e] = None]
  BY <1>1, <1>2 DEF IInv, CheckInv
<1> QED BY <1>1, <1>2, <1>3, <1>4, <1>5, <1>6

\* What is written is read back.
LEMMA Written ==
    ASSUME IInv, NEW e \in Checks,
           NEW its, at' = [at EXCEPT ![e] = its], NEW result, row' = [row EXCEPT ![e] = result],
           NEW spent, paid' = [paid EXCEPT ![e] = spent],
           NEW process, command' = [command EXCEPT ![e] = process]
    PROVE  /\ at'[e] = its /\ row'[e] = result /\ paid'[e] = spent /\ command'[e] = process
           /\ at' = [at EXCEPT ![e] = at'[e]] /\ row' = [row EXCEPT ![e] = row'[e]]
           /\ paid' = [paid EXCEPT ![e] = paid'[e]] /\ command' = [command EXCEPT ![e] = command'[e]]
  BY DEF IInv, CheckInv, CheckTypes

\* The row of an evaluator that is no judge.
LEMMA RowKeeps ==
    ASSUME IInv, NEW e \in Checks, Starts(e) \/ at[e] \notin {"idle", "done"},
           Type(e) # "llm_judge",
           NEW result, result # None, Finish(e, result), UNCHANGED <<callVars, plan, artifact>>,
           NEW spent \in 0..MaxPrice, paid' = [paid EXCEPT ![e] = spent],
           NEW process \in {"none", "dead"}, command' = [command EXCEPT ![e] = process],
           Justified(e, result)
    PROVE  IInv'
<1>1. plan # None
  BY Waiting
<1>2. Judged(e, "done", result, spent, process)
  BY <1>1 DEF Judged
<1>3. /\ at'[e] = "done" /\ row'[e] = result /\ paid'[e] = spent /\ command'[e] = process
      /\ at' = [at EXCEPT ![e] = at'[e]] /\ row' = [row EXCEPT ![e] = row'[e]]
      /\ paid' = [paid EXCEPT ![e] = paid'[e]] /\ command' = [command EXCEPT ![e] = command'[e]]
  BY Written DEF Finish
<1> QED BY <1>2, <1>3, OneEvaluator

\* The same, when it has paid nothing and started nothing.
LEMMA PlainRowKeeps ==
    ASSUME IInv, NEW e \in Checks, Starts(e) \/ at[e] \in {"answer", "reference"},
           Type(e) # "llm_judge",
           NEW result, result # None, Finish(e, result), UNCHANGED <<callVars, plan, artifact, paid, command>>,
           Justified(e, result)
    PROVE  IInv'
<1>1. /\ paid[e] \in 0..MaxPrice /\ paid' = [paid EXCEPT ![e] = paid[e]]
      /\ command' = [command EXCEPT ![e] = command[e]]
  BY Waiting
<1>2. command[e] \in {"none", "dead"}
  BY Waiting DEF Judged, Starts
<1> QED BY <1>1, <1>2, RowKeeps

\* An evaluator goes to an await.
LEMMA WaitKeeps ==
    ASSUME IInv, NEW e \in Checks, Starts(e) \/ at[e] \notin {"idle", "done"},
           NEW its \in {"model", "answer", "reference", "process", "killing"}, Wait(e, its),
           UNCHANGED <<callVars, plan, artifact, paid>>,
           NEW process \in {"none", "running", "killed", "dead"}, command' = [command EXCEPT ![e] = process],
           process = "running" => its = "process", process = "killed" => its = "killing",
           its = "model" => Starts(e) /\ Type(e) \in ModelTypes /\ (Type(e) = "llm_judge" => ~Refused(Config[e])),
           its \in {"answer", "reference"} => Type(e) = "semantic_similarity",
           its \in {"process", "killing"} => Type(e) = "command"
    PROVE  IInv'
<1>1. /\ plan # None /\ row[e] = None /\ paid[e] \in 0..MaxPrice
      /\ Judged(e, at[e], row[e], paid[e], command[e])
      /\ paid' = [paid EXCEPT ![e] = paid[e]] /\ row' = [row EXCEPT ![e] = None]
  BY Waiting DEF Wait
<1>2. its = "model" => paid[e] = 0
  BY <1>1 DEF Judged, Starts
<1>3. Judged(e, its, None, paid[e], process)
  BY <1>1, <1>2 DEF Judged
<1>4. /\ at'[e] = its /\ row'[e] = None /\ paid'[e] = paid[e] /\ command'[e] = process
      /\ at' = [at EXCEPT ![e] = at'[e]] /\ row' = [row EXCEPT ![e] = row'[e]]
      /\ paid' = [paid EXCEPT ![e] = paid'[e]] /\ command' = [command EXCEPT ![e] = command'[e]]
  <2>1. at' = [at EXCEPT ![e] = its]
    BY DEF Wait
  <2>2. /\ at \in [Checks -> {"idle", "model", "answer", "reference", "process", "killing", "done"}]
        /\ row = [f \in Checks |-> row[f]]
        /\ paid \in [Checks -> 0..MaxPrice]
        /\ command \in [Checks -> {"none", "running", "killed", "dead"}]
    BY DEF IInv, CheckInv, CheckTypes
  <2>3. at'[e] = its /\ at' = [at EXCEPT ![e] = at'[e]]
    BY <2>1, <2>2
  <2>4. row'[e] = None /\ row' = [row EXCEPT ![e] = row'[e]]
    BY <1>1, <2>2
  <2>5. paid'[e] = paid[e] /\ paid' = [paid EXCEPT ![e] = paid'[e]]
    BY <1>1, <2>2
  <2>6. command'[e] = process /\ command' = [command EXCEPT ![e] = command'[e]]
    BY <2>2
  <2> QED BY <2>3, <2>4, <2>5, <2>6
<1> QED BY <1>1, <1>3, <1>4, OneEvaluator

-----------------------------------------------------------------------------
(* The rows                                                                  *)

LEMMA VerdictPassed == \A passed \in BOOLEAN : Verdict(passed).passed <=> passed
  BY DEF Verdict

\* What a check asks for and finds is in the trace.
LEMMA FoundIsShown ==
    ASSUME NEW e \in Checks, AsksForPresence(e)
    PROVE  /\ Type(e) = "contains_text" => (ContainsText(Config[e], trace.answer) => trace.answer # None)
           /\ Type(e) = "exact_match" => (ExactMatch(Config[e], trace.answer) => trace.answer # None)
           /\ Type(e) = "tool_called" => (ToolCalled(Config[e], trace.tools) => trace.tools # <<>>)
           /\ Type(e) = "schema_match" => (SchemaMatch(Config[e], trace.answer) => trace.answer # None)
<1>1. ASSUME Type(e) = "contains_text", ContainsText(Config[e], trace.answer), trace.answer = None
      PROVE  FALSE
  <2>1. Words(trace.answer) = {}
    BY <1>1, NoneAssumption DEF Words, Texts
  <2>2. Config[e].all = {} /\ Config[e].any = {}
    BY <1>1, <2>1 DEF ContainsText
  <2> QED BY <1>1, <2>2 DEF AsksForPresence, ThresholdTypes
<1>2. ASSUME Type(e) = "exact_match", ExactMatch(Config[e], trace.answer), trace.answer = None
      PROVE  FALSE
  BY <1>2 DEF ExactMatch, AsksForPresence, ThresholdTypes
<1>3. ASSUME Type(e) = "tool_called", ToolCalled(Config[e], trace.tools), trace.tools = <<>>
      PROVE  FALSE
  <2>1. Len(trace.tools) = 0 /\ Config[e].min \in Nat
    BY <1>3, ConfigAssumption DEF Type
  <2>2. ~(Config[e].mustAppear /\ Config[e].min > 0)
    BY <1>3, <2>1 DEF ToolCalled
  <2> QED BY <1>3, <2>2 DEF AsksForPresence, ThresholdTypes
<1>4. ASSUME Type(e) = "schema_match", SchemaMatch(Config[e], trace.answer), trace.answer = None
      PROVE  FALSE
  BY <1>4 DEF SchemaMatch, AsksForPresence, ThresholdTypes
<1> QED BY <1>1, <1>2, <1>3, <1>4

\* What is shown, type by type.
LEMMA ShownIs ==
    ASSUME NEW e \in Checks
    PROVE  /\ Type(e) \in {"contains_text", "exact_match", "schema_match"} => (Shown(e) <=> trace.answer # None)
           /\ Type(e) = "tool_called" => (Shown(e) <=> trace.tools # <<>>)
           /\ Type(e) = "cost_under" => (Shown(e) <=> trace.cost # None)
           /\ Type(e) \in {"stream_completed", "latency_first_token_under", "tokens_per_second_above"} =>
                 (Shown(e) <=> trace.stream # None)
           /\ Type(e) \in {"thinking_tokens_under", "thinking_present"} => Shown(e)
  BY DEF Shown

\* Only a trace that is not that of a failed call shows anything.
LEMMA ShownIsNoFailure ==
    ASSUME NEW e \in Checks, Filled, Shown(e),
           Type(e) \in InstantTypes \cup {"cost_under", "latency_first_token_under", "tokens_per_second_above"},
           Type(e) # "git_diff"
    PROVE  trace.error \in {None, "recorded"}
  BY ShownIs DEF Filled, InstantTypes

LEMMA RowTypes ==
    ASSUME NEW e \in Checks
    PROVE  /\ ContainsText(Config[e], trace.answer) \in BOOLEAN /\ ExactMatch(Config[e], trace.answer) \in BOOLEAN
           /\ ToolCalled(Config[e], trace.tools) \in BOOLEAN /\ SchemaMatch(Config[e], trace.answer) \in BOOLEAN
           /\ GitDiff(Config[e], artifact) \in BOOLEAN
           /\ (trace.stream # None /\ trace.stream.completed = TRUE) \in BOOLEAN
  BY DEF ContainsText, ExactMatch, ToolCalled, SchemaMatch, GitDiff

\* A verdict that passes only where something is shown is justified.
LEMMA VerdictJustified ==
    ASSUME NEW e \in Checks, Filled, NEW holds \in BOOLEAN,
           Type(e) \in InstantTypes \cup {"cost_under", "latency_first_token_under", "tokens_per_second_above"},
           Type(e) # "git_diff", holds /\ AsksForPresence(e) => Shown(e)
    PROVE  Verdict(holds) # None /\ Justified(e, Verdict(holds))
<1>1. Verdict(holds) # None /\ (Verdict(holds).passed <=> holds)
  BY RowsAreRows, VerdictPassed
<1>2. ASSUME holds, AsksForPresence(e) PROVE trace.error \in {None, "recorded"} /\ Shown(e)
  BY <1>2, ShownIsNoFailure
<1> QED BY <1>1, <1>2 DEF Justified

LEMMA InstantRows ==
    ASSUME NEW e \in Checks, Type(e) \in InstantTypes, Filled
    PROVE  InstantRow(e) # None /\ Justified(e, InstantRow(e))
<1>1. CASE Type(e) = "contains_text"
  <2>1. InstantRow(e) = Verdict(ContainsText(Config[e], trace.answer))
    BY <1>1 DEF InstantRow
  <2> QED BY <1>1, <2>1, RowTypes, FoundIsShown, ShownIs, VerdictJustified
<1>2. CASE Type(e) = "exact_match"
  <2>1. InstantRow(e) = Verdict(ExactMatch(Config[e], trace.answer))
    BY <1>2 DEF InstantRow
  <2> QED BY <1>2, <2>1, RowTypes, FoundIsShown, ShownIs, VerdictJustified
<1>3. CASE Type(e) = "tool_called"
  <2>1. InstantRow(e) = Verdict(ToolCalled(Config[e], trace.tools))
    BY <1>3 DEF InstantRow
  <2> QED BY <1>3, <2>1, RowTypes, FoundIsShown, ShownIs, VerdictJustified
<1>4. CASE Type(e) = "git_diff"
  <2>1. InstantRow(e) = IF artifact = None THEN ErrorRow("missing_artifact")
                        ELSE Verdict(GitDiff(Config[e], artifact))
    BY <1>4 DEF InstantRow
  <2>2. InstantRow(e) # None
    BY <2>1, RowsAreRows, RowTypes DEF RowErrors
  <2>3. ~AsksForPresence(e)
    BY <1>4 DEF AsksForPresence, ThresholdTypes
  <2> QED BY <2>2, <2>3 DEF Justified
<1>5. CASE Type(e) = "schema_match"
  <2>1. InstantRow(e) = Verdict(SchemaMatch(Config[e], trace.answer))
    BY <1>5 DEF InstantRow
  <2> QED BY <1>5, <2>1, RowTypes, FoundIsShown, ShownIs, VerdictJustified
<1>6. CASE Type(e) = "stream_completed"
  <2> DEFINE passed == trace.stream # None /\ trace.stream.completed = TRUE
  <2>1. InstantRow(e) = Verdict(passed) /\ passed \in BOOLEAN
    BY <1>6 DEF InstantRow
  <2>2. passed => Shown(e)
    BY <1>6, ShownIs
  <2> HIDE DEF passed
  <2> QED BY <1>6, <2>1, <2>2, VerdictJustified
<1> QED BY <1>1, <1>2, <1>3, <1>4, <1>5, <1>6 DEF InstantTypes

LEMMA ThresholdRows ==
    ASSUME NEW e \in Checks, Type(e) \in ThresholdTypes, NEW within \in BOOLEAN, Filled
    PROVE  /\ Verdict(ThresholdHolds(Type(e), within)) # None
           /\ Justified(e, Verdict(ThresholdHolds(Type(e), within)))
<1> DEFINE holds == ThresholdHolds(Type(e), within)
<1>1. CASE Type(e) = "latency_under"
  <2>1. holds \in BOOLEAN /\ ~AsksForPresence(e)
    BY <1>1 DEF AsksForPresence, ThresholdTypes, ThresholdHolds, LatencyUnder
  <2> HIDE DEF holds
  <2>2. Verdict(holds) # None /\ Justified(e, Verdict(holds))
    BY <2>1, RowsAreRows DEF Justified
  <2> QED BY <2>2 DEF holds
<1>2. CASE Type(e) \in {"cost_under", "latency_first_token_under", "tokens_per_second_above"}
  <2>1. holds = CASE Type(e) = "cost_under" -> CostUnder(within)
                  [] Type(e) = "latency_first_token_under" -> FirstTokenUnder(within)
                  [] OTHER -> SpeedAbove(within)
    BY <1>2 DEF ThresholdHolds
  <2>2. holds => Shown(e)
    BY <1>2, <2>1, ShownIs DEF CostUnder, FirstTokenUnder, SpeedAbove
  <2>3. holds \in BOOLEAN
    BY <1>2, <2>1 DEF CostUnder, FirstTokenUnder, SpeedAbove
  <2> HIDE DEF holds
  <2>4. Verdict(holds) # None /\ Justified(e, Verdict(holds))
    BY <1>2, <2>2, <2>3, VerdictJustified DEF InstantTypes
  <2> QED BY <2>4 DEF holds
<1>3. CASE Type(e) \in {"thinking_tokens_under", "thinking_present"}
  <2>1. holds = ThinkingFound(within)
    BY <1>3 DEF ThresholdHolds
  <2>2. holds \in BOOLEAN /\ (holds => trace.error \in {None, "recorded"}) /\ Shown(e)
    BY <1>3, <2>1, ShownIs DEF ThinkingFound
  <2> HIDE DEF holds
  <2>3. Verdict(holds) # None /\ Justified(e, Verdict(holds))
    BY <2>2, RowsAreRows, VerdictPassed DEF Justified
  <2> QED BY <2>3 DEF holds
<1> QED BY <1>1, <1>2, <1>3 DEF ThresholdTypes

\* An error row passes nothing.
LEMMA ErrorRows ==
    \A error \in RowErrors : ErrorRow(error) # None /\ ErrorRow(error).passed = FALSE /\ ErrorRow(error).error = error
  BY RowsAreRows DEF ErrorRow

-----------------------------------------------------------------------------
(* The evaluators, action by action                                          *)

\* An evaluator that is no judge ends with an error.
LEMMA ErrorKeeps ==
    ASSUME IInv, NEW e \in Checks, Starts(e) \/ at[e] \in {"answer", "reference"}, Type(e) # "llm_judge",
           NEW error \in RowErrors, Finish(e, ErrorRow(error)),
           UNCHANGED <<callVars, plan, artifact, paid, command>>
    PROVE  IInv'
<1>1. ErrorRow(error) # None /\ ErrorRow(error).passed = FALSE
  BY ErrorRows
<1> QED BY <1>1, PlainRowKeeps DEF Justified

LEMMA InstantKeeps ==
    ASSUME IInv, NEW e \in Checks, EvaluateInstantly(e) \/ EvaluateThreshold(e) \/ EvaluatorRaises(e)
    PROVE  IInv'
<1>1. Starts(e) /\ UNCHANGED <<callVars, plan, artifact, paid, command>> /\ Type(e) # "llm_judge"
  BY DEF EvaluateInstantly, EvaluateThreshold, EvaluatorRaises, Only, InstantTypes, ThresholdTypes
<1>2. CASE EvaluateInstantly(e)
  <2>1. Finish(e, InstantRow(e)) /\ Type(e) \in InstantTypes
    BY <1>2 DEF EvaluateInstantly
  <2>2. /\ InstantRow(e) # None
        /\ Justified(e, InstantRow(e))
    BY <1>1, <2>1, Waiting, InstantRows
  <2> QED BY <1>1, <2>1, <2>2, PlainRowKeeps
<1>3. CASE EvaluateThreshold(e)
  <2>1. PICK within \in BOOLEAN : Finish(e, Verdict(ThresholdHolds(Type(e), within)))
    BY <1>3 DEF EvaluateThreshold
  <2> DEFINE result == Verdict(ThresholdHolds(Type(e), within))
  <2>2. Type(e) \in ThresholdTypes
    BY <1>3 DEF EvaluateThreshold
  <2>3. result # None /\ Justified(e, result)
    BY <1>1, <2>2, Waiting, ThresholdRows
  <2>4. Finish(e, result)
    BY <2>1
  <2> HIDE DEF result
  <2> QED BY <1>1, <2>3, <2>4, PlainRowKeeps
<1>4. CASE EvaluatorRaises(e)
  <2>1. Finish(e, ErrorRow("crashed")) /\ "crashed" \in RowErrors
    BY <1>4 DEF EvaluatorRaises, RowErrors
  <2> QED BY <1>1, <2>1, ErrorKeeps
<1> QED BY <1>2, <1>3, <1>4

\* The row of a judge: it was not refused, or nothing was spent.
LEMMA JudgeKeeps ==
    ASSUME IInv, NEW e \in Checks, Starts(e) \/ at[e] = "model", Type(e) = "llm_judge",
           NEW result, result # None, Finish(e, result), UNCHANGED <<callVars, plan, artifact, command>>,
           NEW spent \in 0..MaxPrice, paid' = [paid EXCEPT ![e] = spent],
           Limited(Config[e]) =>
               /\ Refused(Config[e]) => spent = 0
               /\ result.error = NoError => spent <= Config[e].limit
    PROVE  IInv'
<1>1. /\ plan # None /\ Judged(e, at[e], row[e], paid[e], command[e])
      /\ command[e] \in {"none", "running", "killed", "dead"}
      /\ command' = [command EXCEPT ![e] = command[e]]
  BY Waiting
<1>2. command[e] \in {"none", "dead"}
  BY <1>1 DEF Judged, Starts
<1>3. ~AsksForPresence(e)
  BY DEF AsksForPresence, ThresholdTypes
<1>4. Judged(e, "done", result, spent, command[e])
  BY <1>1, <1>2, <1>3 DEF Judged, Justified
<1>5. /\ at'[e] = "done" /\ row'[e] = result /\ paid'[e] = spent /\ command'[e] = command[e]
      /\ at' = [at EXCEPT ![e] = at'[e]] /\ row' = [row EXCEPT ![e] = row'[e]]
      /\ paid' = [paid EXCEPT ![e] = paid'[e]] /\ command' = [command EXCEPT ![e] = command'[e]]
  <2>1. at' = [at EXCEPT ![e] = "done"] /\ row' = [row EXCEPT ![e] = result]
    BY DEF Finish
  <2> DEFINE process == command[e]
  <2>2. command' = [command EXCEPT ![e] = process]
    BY <1>1
  <2> HIDE DEF process
  <2>3. /\ at'[e] = "done" /\ row'[e] = result /\ paid'[e] = spent /\ command'[e] = process
        /\ at' = [at EXCEPT ![e] = at'[e]] /\ row' = [row EXCEPT ![e] = row'[e]]
        /\ paid' = [paid EXCEPT ![e] = paid'[e]] /\ command' = [command EXCEPT ![e] = command'[e]]
    BY <2>1, <2>2, Written
  <2> QED BY <2>3 DEF process
<1> QED BY <1>1, <1>2, <1>4, <1>5, OneEvaluator

\* A verdict of a judge with a limit rests on a price within it.
LEMMA VerdictWithinLimit ==
    ASSUME NEW e \in Checks, Type(e) = "llm_judge", NEW reply, NEW price \in 0..MaxPrice
    PROVE  /\ JudgeRow(Config[e], reply, price) # None
           /\ (Limited(Config[e]) /\ JudgeRow(Config[e], reply, price).error = NoError)
                 => price <= Config[e].limit
<1> DEFINE malformed == Malformed(Config[e], reply)
           passes == JudgePasses(Config[e], reply)
<1>1. malformed \in BOOLEAN /\ passes \in BOOLEAN
  BY DEF Malformed, JudgePasses
<1>2. /\ ErrorRow("adapter_error") # None /\ ErrorRow("adapter_error").error # NoError
      /\ ErrorRow("cost_limit_exceeded") # None /\ ErrorRow("cost_limit_exceeded").error # NoError
  BY ErrorRows DEF RowErrors, NoError
<1>3. Verdict(passes) # None
  BY <1>1, RowsAreRows
<1>4. Limited(Config[e]) => Config[e].limit \in Nat
  BY ConfigAssumption DEF Type, Limited
<1>5. price \in Nat
  BY PriceAssumption
<1>6. CASE malformed
  BY <1>2, <1>6 DEF JudgeRow
<1>7. CASE ~malformed /\ Limited(Config[e]) /\ price > 0 /\ price > Config[e].limit
  BY <1>2, <1>7 DEF JudgeRow
<1>8. CASE ~malformed /\ ~(Limited(Config[e]) /\ price > 0 /\ price > Config[e].limit)
  <2>1. JudgeRow(Config[e], reply, price) = Verdict(passes)
    BY <1>8 DEF JudgeRow
  <2>2. Limited(Config[e]) => price <= Config[e].limit
    BY <1>4, <1>5, <1>8
  <2> QED BY <1>3, <2>1, <2>2
<1> QED BY <1>6, <1>7, <1>8

LEMMA JudgeRefusesKeeps ==
    ASSUME IInv, NEW e \in Checks, JudgeRefuses(e)
    PROVE  IInv'
<1>1. /\ Starts(e) /\ Type(e) = "llm_judge" /\ Finish(e, ErrorRow("cost_limit_exceeded"))
      /\ UNCHANGED <<callVars, plan, artifact, paid, command>>
  BY DEF JudgeRefuses, Only
<1>2. /\ paid[e] \in 0..MaxPrice /\ paid' = [paid EXCEPT ![e] = paid[e]] /\ paid[e] = 0
  BY <1>1, Waiting DEF Judged, Starts
<1>3. 0 \in 0..MaxPrice
  BY PriceAssumption
<1>4. ErrorRow("cost_limit_exceeded") # None /\ ErrorRow("cost_limit_exceeded").error # NoError
  BY ErrorRows DEF RowErrors, NoError
<1> QED BY <1>1, <1>2, <1>3, <1>4, JudgeKeeps

LEMMA CallModelKeeps ==
    ASSUME IInv, NEW e \in Checks, CallModel(e)
    PROVE  IInv'
<1>1. /\ Starts(e) /\ Type(e) \in ModelTypes /\ (Type(e) = "llm_judge" => ~Refused(Config[e]))
      /\ Wait(e, "model") /\ UNCHANGED <<callVars, plan, artifact, paid, command>>
  BY DEF CallModel, Only
<1>2. command[e] \in {"none", "dead"} /\ command' = [command EXCEPT ![e] = command[e]]
  BY <1>1, Waiting DEF Judged, Starts
<1> QED BY <1>1, <1>2, WaitKeeps

LEMMA ModelEndsKeeps ==
    ASSUME IInv, NEW e \in Checks, ModelAnswers(e) \/ ModelFails(e)
    PROVE  IInv'
<1>1. at[e] = "model" /\ UNCHANGED <<callVars, plan, artifact, command>>
  BY DEF ModelAnswers, ModelFails, Only
<1>2. /\ Judged(e, at[e], row[e], paid[e], command[e])
      /\ command[e] \in {"none", "running", "killed", "dead"}
      /\ command' = [command EXCEPT ![e] = command[e]]
  BY <1>1, Waiting
<1>3. /\ command[e] \in {"none", "dead"} /\ Type(e) \in ModelTypes
      /\ Type(e) = "llm_judge" => ~Refused(Config[e])
  BY <1>1, <1>2 DEF Judged
<1>4. /\ ErrorRow("adapter_error") # None /\ ErrorRow("adapter_error").error # NoError
      /\ ErrorRow("adapter_error").passed = FALSE
  BY ErrorRows DEF RowErrors, NoError
<1>5. PICK price \in 0..MaxPrice :
          /\ paid' = [paid EXCEPT ![e] = price]
          /\ \/ Finish(e, ErrorRow("adapter_error"))
             \/ IF Type(e) = "llm_judge"
                THEN \E reply \in JudgeReplies : Finish(e, JudgeRow(Config[e], reply, price))
                ELSE \E leaks \in BOOLEAN : Finish(e, LeakRow(Config[e], leaks))
  BY DEF ModelAnswers, ModelFails
<1>6. CASE Type(e) = "llm_judge"
  <2>1. CASE Finish(e, ErrorRow("adapter_error"))
    BY <1>1, <1>3, <1>4, <1>5, <1>6, <2>1, JudgeKeeps
  <2>2. CASE \E reply \in JudgeReplies : Finish(e, JudgeRow(Config[e], reply, price))
    <3>1. PICK reply \in JudgeReplies : Finish(e, JudgeRow(Config[e], reply, price))
      BY <2>2
    <3> DEFINE result == JudgeRow(Config[e], reply, price)
    <3>2. /\ result # None /\ Finish(e, result)
          /\ (Limited(Config[e]) /\ result.error = NoError) => price <= Config[e].limit
      BY <1>6, <3>1, VerdictWithinLimit
    <3> HIDE DEF result
    <3> QED BY <1>1, <1>3, <1>5, <1>6, <3>2, JudgeKeeps
  <2> QED BY <1>5, <1>6, <2>1, <2>2
<1>7. CASE Type(e) # "llm_judge"
  <2>1. ~AsksForPresence(e)
    BY <1>3, <1>7 DEF AsksForPresence, ThresholdTypes, ModelTypes
  <2>2. PICK result : result # None /\ Finish(e, result)
    <3>1. CASE Finish(e, ErrorRow("adapter_error"))
      BY <1>4, <3>1
    <3>2. CASE \E leaks \in BOOLEAN : Finish(e, LeakRow(Config[e], leaks))
      <4>1. PICK leaks \in BOOLEAN : Finish(e, LeakRow(Config[e], leaks))
        BY <3>2
      <4>2. LeakRow(Config[e], leaks) # None
        <5>1. (~Config[e].patternHit /\ ~leaks) \in BOOLEAN
          OBVIOUS
        <5> QED BY <5>1, RowsAreRows DEF LeakRow
      <4> QED BY <4>1, <4>2
    <3> QED BY <1>5, <1>7, <3>1, <3>2
  <2> DEFINE process == command[e]
  <2>3. process \in {"none", "dead"} /\ command' = [command EXCEPT ![e] = process]
    BY <1>2, <1>3
  <2> HIDE DEF process
  <2> QED BY <1>1, <1>5, <1>7, <2>1, <2>2, <2>3, RowKeeps DEF Justified
<1> QED BY <1>6, <1>7

LEMMA EmbedKeeps ==
    ASSUME IInv, NEW e \in Checks, EmbedAnswer(e) \/ EmbedReference(e) \/ Compare(e) \/ EmbedderFails(e)
    PROVE  IInv'
<1>1. /\ Starts(e) \/ at[e] \in {"answer", "reference"}
      /\ UNCHANGED <<callVars, plan, artifact, paid, command>>
  BY DEF EmbedAnswer, EmbedReference, Compare, EmbedderFails, Only
<1>2. /\ Judged(e, at[e], row[e], paid[e], command[e])
      /\ command[e] \in {"none", "running", "killed", "dead"}
      /\ command' = [command EXCEPT ![e] = command[e]]
  BY <1>1, Waiting
<1>3. Type(e) = "semantic_similarity" /\ command[e] \in {"none", "dead"}
  BY <1>1, <1>2 DEF Judged, EmbedAnswer, EmbedReference, Compare, EmbedderFails, Starts
<1>4. CASE Wait(e, "answer") \/ Wait(e, "reference")
  BY <1>1, <1>2, <1>3, <1>4, WaitKeeps
<1>5. CASE Finish(e, ErrorRow("missing_reference")) \/ Finish(e, ErrorRow("embedder_error"))
  BY <1>1, <1>3, <1>5, ErrorKeeps DEF RowErrors
<1>6. CASE \E s \in {"near", "far", "undefined"} : Finish(e, SimilarityRow(s))
  <2>1. PICK s \in {"near", "far", "undefined"} : Finish(e, SimilarityRow(s))
    BY <1>6
  <2>2. SimilarityRow(s) # None
    BY RowsAreRows DEF SimilarityRow, RowErrors
  <2>3. ~AsksForPresence(e)
    BY <1>3 DEF AsksForPresence, ThresholdTypes
  <2> QED BY <1>1, <1>3, <2>1, <2>2, <2>3, PlainRowKeeps DEF Justified
<1> QED BY <1>4, <1>5, <1>6 DEF EmbedAnswer, EmbedReference, Compare, EmbedderFails

LEMMA RunCommandKeeps ==
    ASSUME IInv, NEW e \in Checks, RunCommand(e)
    PROVE  IInv'
<1>1. Starts(e) /\ Type(e) = "command" /\ UNCHANGED <<callVars, plan, artifact, paid>>
  BY DEF RunCommand, Only
<1>2. CASE Wait(e, "process") /\ command' = [command EXCEPT ![e] = "running"]
  BY <1>1, <1>2, WaitKeeps
<1>3. CASE \E error \in {"missing_artifact", "missing_cwd", "command_not_found", "os_error"} :
              Finish(e, ErrorRow(error)) /\ UNCHANGED command
  BY <1>1, <1>3, ErrorKeeps DEF RowErrors
<1> QED BY <1>2, <1>3 DEF RunCommand

LEMMA CommandKeeps ==
    ASSUME IInv, NEW e \in Checks, CommandExits(e) \/ CommandTimesOut(e) \/ CommandKilled(e)
    PROVE  IInv'
<1>1. /\ at[e] \in {"process", "killing"} /\ UNCHANGED <<callVars, plan, artifact, paid>>
  BY DEF CommandExits, CommandTimesOut, CommandKilled, Only
<1>2. /\ Judged(e, at[e], row[e], paid[e], command[e])
      /\ paid[e] \in 0..MaxPrice /\ paid' = [paid EXCEPT ![e] = paid[e]]
  BY <1>1, Waiting
<1>3. Type(e) = "command" /\ ~AsksForPresence(e)
  BY <1>1, <1>2 DEF Judged, AsksForPresence, ThresholdTypes
<1>4. CASE CommandTimesOut(e)
  <2>1. Wait(e, "killing") /\ command' = [command EXCEPT ![e] = "killed"]
    BY <1>4 DEF CommandTimesOut
  <2> QED BY <1>1, <1>3, <2>1, WaitKeeps
<1>5. CASE CommandExits(e) \/ CommandKilled(e)
  <2>1. command' = [command EXCEPT ![e] = "dead"]
    BY <1>5 DEF CommandExits, CommandKilled
  <2>2. PICK result : result # None /\ Finish(e, result)
    <3>1. CASE CommandExits(e)
      <4>1. PICK expected \in BOOLEAN : Finish(e, Verdict(expected))
        BY <3>1 DEF CommandExits
      <4> QED BY <4>1, RowsAreRows
    <3>2. CASE CommandKilled(e)
      BY <3>2, RowsAreRows DEF CommandKilled, RowErrors
    <3> QED BY <1>5, <3>1, <3>2
  <2> DEFINE spent == paid[e]
  <2>3. spent \in 0..MaxPrice /\ paid' = [paid EXCEPT ![e] = spent]
    BY <1>2
  <2> HIDE DEF spent
  <2> QED BY <1>1, <1>3, <2>1, <2>2, <2>3, RowKeeps DEF Justified
<1> QED BY <1>4, <1>5

LEMMA CheckStep ==
    ASSUME IInv, NEW e \in Checks, Check(e)
    PROVE  IInv'
  BY InstantKeeps, JudgeRefusesKeeps, CallModelKeeps, ModelEndsKeeps, EmbedKeeps, RunCommandKeeps, CommandKeeps
  DEF Check

LEMMA GatherKeeps ==
    ASSUME IInv, Gather
    PROVE  IInv'
<1>1. /\ pc = "over" /\ plan = None /\ plan' \in Plans
      /\ artifact' \in Artifacts \cup {None}
      /\ UNCHANGED <<callVars, at, row, paid, command>>
  BY DEF Gather, checkVars
<1>2. UNCHANGED <<pc, trace, kind>>
  BY <1>1 DEF callVars, config
<1>3. CallInv' /\ TalkInv'
  BY <1>1, CallStutter, TalkStutter DEF IInv
<1>4. plan' \subseteq Checks
  BY <1>1, ChecksAssumption
<1>5. CheckTypes' /\ (row = [e \in Checks |-> row[e]])' /\ (plan # None => pc = "over")'
  BY <1>1, <1>2, <1>4 DEF IInv, CheckInv, CheckTypes
<1>6. ASSUME NEW e \in Checks
      PROVE  Judged(e, at[e], row[e], paid[e], command[e])'
  <2>1. Judged(e, at[e], row[e], paid[e], command[e])
    BY DEF IInv, CheckInv
  <2>2. row[e] = None /\ at[e] \notin {"model", "answer", "reference", "process", "killing"}
    BY <1>1, <2>1 DEF Judged
  <2> QED BY <1>1, <1>2, <2>1, <2>2 DEF Judged, Justified, AsksForPresence, Shown
<1> QED BY <1>3, <1>5, <1>6 DEF IInv, CheckInv

\* While the call goes on there is no row, and when it is over its trace is settled.
LEMMA CallKeeps ==
    ASSUME IInv, CallNext, UNCHANGED <<plan, artifact, checkVars>>
    PROVE  IInv'
<1>1. CallInv' /\ TalkInv'
  BY CallStep, TalkStep DEF IInv
<1>2. UNCHANGED <<plan, artifact, at, row, paid, command>>
  BY DEF checkVars
<1>3. CheckTypes' /\ (row = [e \in Checks |-> row[e]])'
  BY <1>2 DEF IInv, CheckInv, CheckTypes
<1>4. pc = "over" => UNCHANGED <<pc, trace>>
  BY OverIsOver
<1>5. (plan # None => pc = "over")'
  BY <1>2, <1>4 DEF IInv, CheckInv
<1>6. ASSUME NEW e \in Checks
      PROVE  Judged(e, at[e], row[e], paid[e], command[e])'
  <2>1. Judged(e, at[e], row[e], paid[e], command[e]) /\ (plan # None => pc = "over")
    BY DEF IInv, CheckInv
  <2>2. CASE plan # None
    BY <1>2, <1>4, <2>1, <2>2 DEF Judged, Justified, AsksForPresence, Shown
  <2>3. CASE plan = None
    BY <1>2, <2>1, <2>3 DEF Judged
  <2> QED BY <2>2, <2>3
<1> QED BY <1>1, <1>3, <1>5, <1>6 DEF IInv, CheckInv

LEMMA Initial == Init => IInv
<1> SUFFICES ASSUME Init PROVE IInv
  OBVIOUS
<1>1. CallInv
  BY CallInitial DEF Init
<1>2. CheckTypes /\ row = [e \in Checks |-> row[e]] /\ (plan # None => pc = "over")
  BY PriceAssumption DEF Init, CheckTypes
<1>3. ASSUME NEW e \in Checks
      PROVE  Judged(e, at[e], row[e], paid[e], command[e])
  BY DEF Init, Judged
<1>4. TalkInv
  <2>1. messages = <<>> /\ replies = <<>> /\ costs = <<>> /\ sums = <<>> /\ pc = "ready" /\ trace = None
    BY DEF Init, CallInit
  <2> QED BY <2>1 DEF TalkInv, Alternates, Summed, Counts, GoesOn, InCall, ConversationIsWhole
<1> QED BY <1>1, <1>2, <1>3, <1>4 DEF IInv, CheckInv

LEMMA Inductive == IInv /\ [Next]_vars => IInv'
<1> SUFFICES ASSUME IInv, [Next]_vars PROVE IInv'
  OBVIOUS
<1>1. CASE CallNext /\ UNCHANGED <<plan, artifact, checkVars>>
  BY <1>1, CallKeeps
<1>2. CASE Gather
  BY <1>2, GatherKeeps
<1>3. CASE \E e \in Checks : Check(e)
  BY <1>3, CheckStep
<1>4. CASE UNCHANGED vars
  <2>1. UNCHANGED <<callVars, plan, artifact, at, row, paid, command>>
    BY <1>4 DEF vars, checkVars
  <2>2. UNCHANGED <<pc, trace, kind>>
    BY <2>1 DEF callVars, config
  <2>3. CallInv' /\ TalkInv'
    BY <2>1, CallStutter, TalkStutter DEF IInv
  <2>4. CheckInv'
    BY <2>1, <2>2 DEF IInv, CheckInv, CheckTypes, Judged, Justified, AsksForPresence, Shown
  <2> QED BY <2>3, <2>4 DEF IInv
<1> QED BY <1>1, <1>2, <1>3, <1>4 DEF Next

-----------------------------------------------------------------------------
(* The theorems                                                              *)

\* IInv is an invariant of every run of the specification.
THEOREM Invariant == Spec => []IInv
  BY Initial, Inductive, PTL DEF Spec

\* Every variable keeps its type, for any adapters and evaluators: the whole of a cell from
\* adapter.run to its evaluation results.
THEOREM TypeInvariant == Spec => []TypeOK
<1>1. IInv => TypeOK
  BY DEF IInv, CallInv, CheckInv, CheckTypes, TypeOK
<1> QED BY <1>1, Invariant, PTL

\* A streaming cell accounts for what it read: its counters, its answer and whether it was
\* complete (HttpSystemAdapter._run_streaming), for streams of any length.
THEOREM StreamInvariant == Spec => []StreamAccountsForItself
<1>1. IInv => StreamAccountsForItself
  BY DEF IInv, CallInv, StreamInv
<1> QED BY <1>1, Invariant, PTL

\* A simulated conversation that became a trace is whole: it stopped when its criterion
\* first held or its turns were up, and its answer, tool calls and cost are those of all of
\* its turns (UserSimulatorSystemAdapter.run), for any limit of turns, criterion and costs.
THEOREM ConversationInvariant == Spec => []ConversationIsWhole
<1>1. IInv => ConversationIsWhole
  BY DEF IInv, TalkInv, ConversationIsWhole
<1> QED BY <1>1, Invariant, PTL

\* Nothing of a call or of an evaluator goes on once it has its trace or its row, but for
\* what the runner's own timeout cut loose (CliSystemAdapter.run, _run_subprocess).
THEOREM NothingRunsInvariant == Spec => []NothingLeftRunning
<1>1. IInv => NothingLeftRunning
  <2> SUFFICES ASSUME IInv PROVE NothingLeftRunning
    OBVIOUS
  <2>1. NothingHeldAfterwards
    BY DEF IInv, CallInv, HeldInv, CutLoose, NothingHeldAfterwards
  <2>2. ASSUME NEW e \in Checks, row[e] # None PROVE command[e] \in {"none", "dead"}
    BY <2>2 DEF IInv, CheckInv, CheckTypes, Judged
  <2> QED BY <2>1, <2>2 DEF NothingLeftRunning
<1> QED BY <1>1, Invariant, PTL

\* A check that asks for something passes only on a trace that has it, and never on that of
\* a call that failed (Trace.from_error, _run_one), for any configuration of the checks, any
\* target and any recorded trace: a failure that shows something is a replayed one.
THEOREM EvidenceInvariant == Spec => []PassesOnlyOnEvidence
<1>1. IInv => PassesOnlyOnEvidence
  BY DEF IInv, CheckInv, Judged, Justified, PassesOnlyOnEvidence
<1> QED BY <1>1, Invariant, PTL

\* A judge with a limit spends nothing that its estimate forbids, and gives no verdict that
\* cost more (LlmJudgeEvaluator.evaluate), for any prices, limits and replies.
THEOREM LimitInvariant == Spec => []JudgeWithinLimit
<1>1. IInv => JudgeWithinLimit
  BY DEF IInv, CheckInv, Judged, JudgeWithinLimit
<1> QED BY <1>1, Invariant, PTL
=============================================================================
