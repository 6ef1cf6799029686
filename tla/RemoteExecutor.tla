--------------------------- MODULE RemoteExecutor ---------------------------
(***************************************************************************)
(* The executors that carry cells to a task backend and wait for them in   *)
(* threads: RayExecutor, CeleryExecutor, ModalExecutor                     *)
(* (core/executors/{ray,celery,modal}_executor.py) with the worker they    *)
(* share (_worker.py), under run_eval or under a program that uses the     *)
(* Executor protocol itself.                                               *)
(*                                                                         *)
(* Every SDK call blocks, so it is made by asyncio.to_thread: it waits for *)
(* one of the Threads of the loop's default executor, first come first     *)
(* served, and goes on when the coroutine that asked for it is cancelled.  *)
(***************************************************************************)
EXTENDS Integers, FiniteSets

CONSTANTS
    Cells,      \* positions of the cells in dispatch_all
    None,       \* the call is not about a cell
    Kinds,      \* the executors of this instance
    Threads,    \* workers of the default ThreadPoolExecutor
    Slots,      \* tasks the backend runs at once
    Faults      \* which external failures may happen in this instance

FaultKinds == {"build", "init", "submit", "worker", "shutdown", "interrupt"}

ASSUME CellsAssumption == Cells \subseteq Nat /\ IsFiniteSet(Cells) /\ Cells # {}
ASSUME NoneAssumption == None \notin Cells
ASSUME KindAssumption == Kinds \subseteq {"ray", "celery", "modal"}
ASSUME CapacityAssumption == Threads \in Nat \ {0} /\ Slots \in Nat \ {0}
ASSUME FaultAssumption == Faults \subseteq FaultKinds

\* A call handed to asyncio.to_thread.
Jobs == {[op |-> o, cell |-> None] : o \in {"init", "shutdown"}}
          \cup [op : {"submit", "get"}, cell : Cells]

InitCall == [op |-> "init", cell |-> None]
ShutdownCall == [op |-> "shutdown", cell |-> None]
Submit(c) == [op |-> "submit", cell |-> c]
Get(c) == [op |-> "get", cell |-> c]

\* The order in which a run asks for its calls: a gather asks in cell order.
Rank == [init |-> 0, submit |-> 1, get |-> 2, shutdown |-> 3]
Earlier(i, j) == \/ Rank[i.op] < Rank[j.op]
                 \/ i.op = j.op /\ i.cell # None /\ i.cell < j.cell

VARIABLES
    kind,        \* run.executor.type
    caller,      \* who drives the protocol, and with what
    run,         \* where the driver is
    struck,      \* where Ctrl-C found the driver, or "never"
    dispatched,  \* dispatch_all has returned
    published,   \* the canonical trace store has the summary
    owned,       \* RayExecutor._we_initialised_ray
    ray,         \* Ray in this process
    waiting,     \* calls that wait for a thread
    busy,        \* calls that occupy a thread
    call,        \* what each cell's coroutine is doing
    task,        \* the cell on the backend
    counted      \* cells whose outcome is in the SummaryAggregator

settings == <<kind, caller>>
driverVars == <<settings, run, struck, dispatched, published, owned>>
threadVars == <<waiting, busy>>
vars == <<driverVars, ray, threadVars, call, task, counted>>

\* run_eval hands the executor its pools and nothing else, and leaves the
\* payload of the cells empty; another program may fill it.  Whether Ray is up
\* already concerns Ray alone, and the store run_eval alone.
Callers == [program : {"run_eval", "other"}, filled : BOOLEAN, storeNeedsOpen : BOOLEAN, rayUp : BOOLEAN]

Plausible(k) ==
    /\ k.filled => k.program = "other" /\ kind # "ray"
    /\ k.storeNeedsOpen => k.program = "run_eval"
    /\ k.rayUp => kind = "ray"

Stopping == {"leaving", "shuttingDown", "exiting"}
Ended == {"returned", "failed"}
RunStates == {"building", "initialising", "submitting", "waiting", "saving"} \cup Stopping \cup Ended
CallStates == {"idle", "submitting", "submitted", "getting", "got", "raised"}
TaskStates == {"none", "pending", "running", "judging", "answered", "broken", "killed"}

Init ==
    /\ kind \in Kinds
    /\ caller \in Callers /\ Plausible(caller)
    /\ run = "building" /\ struck = "never"
    /\ dispatched = FALSE /\ published = FALSE /\ owned = FALSE
    /\ ray = IF caller.rayUp THEN "up" ELSE "down"
    /\ waiting = {} /\ busy = {}
    /\ call = [c \in Cells |-> "idle"]
    /\ task = [c \in Cells |-> "none"]
    /\ counted = {}

-----------------------------------------------------------------------------
(* The default thread pool.                                                 *)

FreeThread == Cardinality(busy) < Threads

StartCall ==
    /\ FreeThread
    /\ \E j \in waiting :
          /\ \A i \in waiting : ~Earlier(i, j)
          /\ waiting' = waiting \ {j}
          /\ busy' = busy \cup {j}
    /\ UNCHANGED <<driverVars, ray, call, task, counted>>

\* The thread of j is free again.
Finishes(j) == j \in busy /\ busy' = busy \ {j}

\* The coroutine of cell c takes the answer of its call, if it still waits.
Resume(c, place, next) ==
    call' = IF call[c] = place /\ struck = "never" /\ run # "exiting"
            THEN [call EXCEPT ![c] = next] ELSE call

-----------------------------------------------------------------------------
(* Building and opening: executor_registry.build, __init__, open.           *)

\* Celery needs broker_url and Modal needs app_name; run_eval passes neither.
Constructible == kind = "ray" \/ caller.program = "other"

BuildFails ==
    /\ run = "building"
    /\ ~Constructible \/ "build" \in Faults
    /\ run' = "failed"
    /\ UNCHANGED <<settings, ray, struck, dispatched, published, owned, threadVars, call, task, counted>>

\* dispatch_all's first gather: every submit_cell asks for its thread.
StartSubmits ==
    /\ run' = "submitting"
    /\ call' = [c \in Cells |-> "submitting"]
    /\ waiting' = waiting \cup {Submit(c) : c \in Cells}

Open ==
    /\ run = "building" /\ Constructible
    /\ IF kind = "ray" /\ ray = "down"
       THEN /\ run' = "initialising"
            /\ waiting' = {InitCall}
            /\ UNCHANGED call
       ELSE StartSubmits
    /\ UNCHANGED <<settings, ray, struck, dispatched, published, owned, busy, task, counted>>

\* ray.init returns; if the await was cancelled meanwhile, nobody notes it.
RayInit ==
    /\ Finishes(InitCall)
    /\ ray' = "up"
    /\ IF run = "initialising"
       THEN StartSubmits /\ owned' = TRUE
       ELSE UNCHANGED <<run, owned, call, waiting>>
    /\ UNCHANGED <<settings, struck, dispatched, published, task, counted>>

RayInitFails ==
    /\ "init" \in Faults
    /\ Finishes(InitCall)
    /\ run' = IF run = "initialising" THEN "leaving" ELSE run
    /\ UNCHANGED <<settings, ray, struck, dispatched, published, owned, waiting, call, task, counted>>

-----------------------------------------------------------------------------
(* dispatch_all: submit every cell, then wait for every cell, then ingest.  *)

SubmitReturns(c) ==
    /\ Finishes(Submit(c))
    /\ task' = [task EXCEPT ![c] = "pending"]
    /\ Resume(c, "submitting", "submitted")
    /\ UNCHANGED <<driverVars, ray, waiting, counted>>

SubmitRaises(c) ==
    /\ "submit" \in Faults
    /\ Finishes(Submit(c))
    /\ Resume(c, "submitting", "raised")
    /\ UNCHANGED <<driverVars, ray, waiting, task, counted>>

\* Mutant: the outcomes are awaited as soon as one cell is submitted.
SomeCall(place) == \E c \in Cells : call[c] = place

EveryCall(place) == \A c \in Cells : call[c] = place

StartGets ==
    /\ run = "submitting" /\ EveryCall("submitted")
    /\ run' = "waiting"
    /\ call' = [c \in Cells |-> "getting"]
    /\ waiting' = waiting \cup {Get(c) : c \in Cells}
    /\ UNCHANGED <<settings, ray, struck, dispatched, published, owned, busy, task, counted>>

\* _outcome_from_dict of the worker's answer.
GetReturns(c) ==
    /\ task[c] = "answered"
    /\ Finishes(Get(c))
    /\ Resume(c, "getting", "got")
    /\ UNCHANGED <<driverVars, ray, waiting, task, counted>>

\* Mutant: AsyncResult.get is called without its timeout.
NeverTimesOut == FALSE

\* Celery and Modal give up after `timeout` seconds, ray.get never does.
TimesOut == kind # "ray"

\* The task crashed or was killed, or the answer is late: get raises.
GetRaises(c) ==
    /\ \/ task[c] \in {"broken", "killed"}
       \/ TimesOut /\ task[c] # "answered"
    /\ Finishes(Get(c))
    /\ Resume(c, "getting", "raised")
    /\ UNCHANGED <<driverVars, ray, waiting, task, counted>>

\* Both gathers are over, and nothing was counted before this: now every outcome
\* is added, in input order.
Ingest ==
    /\ run = "waiting" /\ EveryCall("got")
    /\ counted' = Cells
    /\ dispatched' = TRUE
    /\ run' = IF caller.program = "run_eval" THEN "saving" ELSE "leaving"
    /\ UNCHANGED <<settings, ray, struck, published, owned, threadVars, call, task>>

\* gather hands on the first exception; the other coroutines go on.
GatherRaises ==
    /\ run \in {"submitting", "waiting"} /\ SomeCall("raised")
    /\ run' = "leaving"
    /\ UNCHANGED <<settings, ray, struck, dispatched, published, owned, threadVars, call, task, counted>>

\* No one opened the trace store: a store that needs open() raises.
SaveSummary ==
    /\ run = "saving"
    /\ published' = ~caller.storeNeedsOpen
    /\ run' = "leaving"
    /\ UNCHANGED <<settings, ray, struck, dispatched, owned, threadVars, call, task, counted>>

-----------------------------------------------------------------------------
(* Leaving: __aexit__, the end of asyncio.run, the interpreter's exit.      *)

\* Mutant: __aexit__ shuts Ray down whoever started it.
ShutsAnyRayDown == kind = "ray"

ShutsRayDown == owned

\* __aexit__ shuts Ray down if open() started it, in a thread again.
Leave ==
    /\ run = "leaving"
    /\ IF ShutsRayDown
       THEN run' = "shuttingDown" /\ waiting' = waiting \cup {ShutdownCall}
       ELSE run' = "exiting" /\ waiting' = {}
    /\ UNCHANGED <<settings, ray, struck, dispatched, published, owned, busy, call, task, counted>>

Unanswered == {c \in Cells : task[c] \in {"pending", "running", "judging"}}

\* ray.shutdown ends the tasks of this driver; an error of it is suppressed.
RayShutdown ==
    /\ Finishes(ShutdownCall)
    /\ \/ /\ task' = [c \in Cells |-> IF c \in Unanswered THEN "killed" ELSE task[c]]
          /\ ray' = "down"
       \/ "shutdown" \in Faults /\ ray' = "defunct" /\ UNCHANGED task
    /\ IF run = "shuttingDown"
       THEN run' = "exiting" /\ waiting' = {} /\ owned' = FALSE
       ELSE UNCHANGED <<run, waiting, owned>>
    /\ UNCHANGED <<settings, struck, dispatched, published, call, counted>>

\* The threads are joined: the process ends when the last call has returned.
Exit ==
    /\ run = "exiting" /\ busy = {}
    /\ run' = IF dispatched /\ (caller.program = "run_eval" => published) /\ struck = "never"
              THEN "returned" ELSE "failed"
    /\ UNCHANGED <<settings, ray, struck, dispatched, published, owned, threadVars, call, task, counted>>

\* Ctrl-C cancels the await of the driver: the calls that wait for a thread
\* are dropped, the calls in a thread go on.
Interrupt ==
    /\ "interrupt" \in Faults /\ struck = "never"
    /\ run \in {"initialising", "submitting", "waiting", "saving", "shuttingDown"}
    /\ struck' = run
    /\ run' = IF run = "shuttingDown" THEN "exiting" ELSE "leaving"
    /\ waiting' = {}
    /\ UNCHANGED <<settings, ray, dispatched, published, owned, busy, call, task, counted>>

-----------------------------------------------------------------------------
(* The backend and worker_run_cell.                                         *)

Running == {c \in Cells : task[c] \in {"running", "judging"}}

\* Only the Ray executor fills the dicts that the worker rehydrates from.
Filled == kind = "ray" \/ caller.filled

\* EvalCase.model_validate, EvalConfig.model_validate, the factories.
Rehydrate(c) ==
    /\ task[c] = "pending" /\ Cardinality(Running) < Slots
    /\ task' = [task EXCEPT ![c] = IF Filled THEN "running" ELSE "broken"]
    /\ UNCHANGED <<driverVars, ray, threadVars, call, counted>>

\* adapter.run without a timeout; what it raises, and what __aexit__ raises
\* after a good run, becomes the error of a trace like any other.
RunCell(c) ==
    /\ task[c] = "running"
    /\ task' = [task EXCEPT ![c] = "judging"]
    /\ UNCHANGED <<driverVars, ray, threadVars, call, counted>>

\* The evaluators judge the trace; one that raises is a failing result.
Judge(c) ==
    /\ task[c] = "judging"
    /\ task' = [task EXCEPT ![c] = "answered"]
    /\ UNCHANGED <<driverVars, ray, threadVars, call, counted>>

\* The worker process dies, or raises outside the adapter and the evaluators.
WorkerFails(c) ==
    /\ "worker" \in Faults
    /\ c \in Running
    /\ task' = [task EXCEPT ![c] = "broken"]
    /\ UNCHANGED <<driverVars, ray, threadVars, call, counted>>

WorkerStep(c) == Rehydrate(c) \/ RunCell(c) \/ Judge(c) \/ WorkerFails(c)

-----------------------------------------------------------------------------
DriverStep ==
    \/ BuildFails \/ Open \/ StartGets \/ Ingest \/ GatherRaises
    \/ SaveSummary \/ Leave \/ Exit

CallReturns(c) == SubmitReturns(c) \/ SubmitRaises(c) \/ GetReturns(c) \/ GetRaises(c)

Over == run \in Ended /\ UNCHANGED vars

Next ==
    \/ DriverStep \/ StartCall \/ RayInit \/ RayInitFails \/ RayShutdown \/ Interrupt
    \/ \E c \in Cells : CallReturns(c) \/ WorkerStep(c)
    \/ Over

\* The threads and the event loop run; a broker, ray.init and ray.shutdown answer.
\* Nothing is assumed of the backend: a task may wait or run for ever.
Fairness ==
    /\ WF_vars(DriverStep) /\ WF_vars(StartCall)
    /\ WF_vars(RayInit) /\ WF_vars(RayShutdown)
    /\ \A c \in Cells : WF_vars(CallReturns(c))

Spec == Init /\ [][Next]_vars /\ Fairness

-----------------------------------------------------------------------------
(* Properties.                                                              *)

\* Every variable keeps its type, and no more threads work than there are.
TypeOK ==
    /\ kind \in Kinds /\ caller \in Callers /\ Plausible(caller)
    /\ run \in RunStates /\ struck \in RunStates \cup {"never"}
    /\ {dispatched, published, owned} \subseteq BOOLEAN /\ ray \in {"down", "up", "defunct"}
    /\ waiting \subseteq Jobs /\ busy \subseteq Jobs /\ Cardinality(busy) <= Threads
    /\ call \in [Cells -> CallStates] /\ task \in [Cells -> TaskStates]
    /\ counted \subseteq Cells

\* What the driver has of each cell.
Obtained == {c \in Cells : call[c] = "got"}

Contract == INSTANCE ExecutorContract WITH obtained <- Obtained, returned <- dispatched

\* dispatch_all returns with an outcome of every cell or does not return, and
\* the aggregator never holds a part of the cells.
ImplementsExecutor == Contract!Spec

\* Who pre-initialised Ray keeps it, and what open() started is shut down again when
\* the run is over, unless Ctrl-C came while the one or the other call was made: a
\* thread then starts Ray for nobody, or the shutdown is dropped before it got a
\* thread (ray_executor.py:128-137, 163-164).  What an exception of ray.shutdown,
\* which is suppressed, leaves is neither.
RayIsLeftAsFound ==
    /\ caller.rayUp => ray = "up"
    /\ run \in Ended /\ ray = "up" => caller.rayUp \/ struck \in {"initialising", "shuttingDown"}

\* A run ends with its threads joined whatever fails, whenever Ctrl-C comes and
\* however few threads there are, or it waits for ever in ray.get for a task that
\* does not answer: neither that call nor the worker has a timeout
\* (ray_executor.py:202, 277).  A Celery or Modal task may well never answer.
RunEnds ==
    \/ <>(run \in Ended /\ busy = {})
    \/ <>[](kind = "ray" /\ \E c \in Unanswered : Get(c) \in busy)
=============================================================================
