------------------------- MODULE JobsExecutorProofs -------------------------
(***************************************************************************)
(* Theorems about JobsExecutor for any number of cells and attempts,       *)
(* whatever fails and whenever Ctrl-C comes.                               *)
(***************************************************************************)
EXTENDS JobsExecutor, TLAPS

\* What each suspended coroutine may count on: only a cell with a large
\* payload is at a ConfigMap call; a handle and a poll stand for a Job of this
\* attempt; past the delete calls nothing is left unless deletes are refused.
Phases ==
    /\ \A c \in Cells : call[c] \in {"creatingMap", "deletingMap"} => c \in Large
    /\ \A c \in Cells : call[c] = "submitted" /\ run = "submitting" => job[c].by = attempt
    /\ WatchedJobIsOwn
    /\ mayDelete => \A c \in Cells : call[c] \in {"deletingMap", "done"} => job[c] = NoJob
    /\ mayDelete => \A c \in Cells : call[c] = "done" => c \notin maps
    /\ run = "returned" => \A c \in Cells : call[c] = "done"

LEMMA FirstCallType ==
    \A c \in Cells : /\ FirstCall(c) \in {"creatingMap", "creatingJob"}
                     /\ FirstCall(c) = "creatingMap" => c \in Large
  BY DEF FirstCall

LEMMA StartInv == Init => TypeOK /\ Phases
<1> SUFFICES ASSUME Init PROVE TypeOK /\ Phases
  OBVIOUS
<1>1. call \in [Cells -> CallStates] /\ \A c \in Cells : call[c] = FirstCall(c)
  BY FirstCallType DEF Init, CallStates, Quiet, Ended
<1>2. /\ took \in [Cells -> Outcomes] /\ stored \in [Cells -> Outcomes]
      /\ job \in [Cells -> JobsOK]
  BY AttemptAssumption DEF Init, Outcomes, NoOutcome, JobsOK, NoJob
<1>3. /\ attempt \in Attempts /\ run = "submitting" /\ kill = {} /\ exc = {} /\ maps = {} /\ mayDelete \in BOOLEAN
      /\ pod \in [Attempts -> [Cells -> PodStates]]
  BY AttemptAssumption DEF Init, Attempts, PodStates
<1>4. TypeOK
  BY <1>1, <1>2, <1>3 DEF TypeOK
<1>5. Phases
  BY <1>1, <1>3, FirstCallType DEF Phases, WatchedJobIsOwn
<1> QED BY <1>4, <1>5

-----------------------------------------------------------------------------
(* A step of one cell's coroutine touches that cell alone.                  *)

\* Deleting a Job or creating one keeps the types, and a Job that is created
\* belongs to the attempt.
LEMMA ObjectsType ==
    ASSUME TypeOK, NEW c \in Cells,
           \/ call[c] = "creatingMap" /\ c \in Large /\ MapCreated(c)
           \/ call[c] = "creatingJob" /\ JobCreated(c)
           \/ call[c] = "deletingJob" /\ JobDeleted(c)
           \/ call[c] = "deletingMap" /\ MapDeleted(c)
           \/ UNCHANGED clusterVars
    PROVE  /\ job' \in [Cells -> JobsOK] /\ maps' \subseteq Large /\ mayDelete' = mayDelete
           /\ pod' \in [Attempts -> [Cells -> PodStates]] /\ stored' = stored
           /\ \A d \in Cells \ {c} : job'[d] = job[d] /\ (d \in maps' <=> d \in maps)
           /\ call[c] \notin {"creatingJob", "deletingJob"} => job'[c] = job[c]
<1>1. NoJob \in JobsOK /\ [by |-> attempt, status |-> "running"] \in JobsOK
  BY AttemptAssumption DEF NoJob, JobsOK, TypeOK, Attempts
<1>2. CASE MapCreated(c) /\ c \in Large /\ call[c] = "creatingMap"
  BY <1>2 DEF MapCreated, TypeOK
<1>3. CASE JobCreated(c) /\ call[c] = "creatingJob"
  <2>1. pod' \in [Attempts -> [Cells -> PodStates]]
    BY <1>3 DEF JobCreated, TypeOK, PodStates
  <2> QED BY <1>1, <1>3, <2>1 DEF JobCreated, TypeOK
<1>4. CASE JobDeleted(c) /\ call[c] = "deletingJob"
  BY <1>1, <1>4 DEF JobDeleted, TypeOK
<1>5. CASE MapDeleted(c) /\ call[c] = "deletingMap"
  BY <1>5 DEF MapDeleted, TypeOK
<1>6. CASE UNCHANGED clusterVars
  BY <1>6 DEF clusterVars, TypeOK
<1> QED BY <1>2, <1>3, <1>4, <1>5, <1>6
\* A coroutine that moves from one await to the next.
LEMMA MoveType ==
    ASSUME TypeOK, NEW c \in Cells, NEW place \in CallStates, Goto(c, place),
           kill' = kill \ {c}, exc' \subseteq Cells, took' \in [Cells -> Outcomes],
           UNCHANGED <<attempt, run, stored, mayDelete>>,
           job' \in [Cells -> JobsOK], maps' \subseteq Large, pod' \in [Attempts -> [Cells -> PodStates]]
    PROVE  TypeOK'
<1>1. call' \in [Cells -> CallStates] /\ \A d \in Cells \ {c} : call'[d] = call[d]
  BY DEF Goto, TypeOK
<1>2. kill' \subseteq Live'
  BY <1>1 DEF TypeOK, Live
<1> QED BY <1>1, <1>2 DEF TypeOK

\* What the phases ask of the cell that moved, and nothing of the others.
LEMMA MovePhases ==
    ASSUME TypeOK, Phases, NEW c \in Cells, NEW place \in CallStates, Goto(c, place),
           UNCHANGED <<attempt, run, mayDelete>>,
           \A d \in Cells \ {c} : job'[d] = job[d] /\ (d \in maps' <=> d \in maps),
           place \in {"creatingMap", "deletingMap"} => c \in Large,
           place = "submitted" /\ run = "submitting" => job'[c].by = attempt,
           place \in {"polling", "reading"} => job'[c].by = attempt,
           mayDelete /\ place \in {"deletingMap", "done"} => job'[c] = NoJob,
           mayDelete /\ place = "done" => c \notin maps',
           call[c] # "done"
    PROVE  Phases'
<1>1. call'[c] = place /\ \A d \in Cells \ {c} : call'[d] = call[d]
  BY DEF Goto, TypeOK
<1>2. run # "returned"
  BY DEF Phases
<1> QED BY <1>1, <1>2 DEF Phases, WatchedJobIsOwn

LEMMA CellInv ==
    ASSUME TypeOK, Phases, NEW c \in Cells, CellStep(c) \/ PollRaises(c)
    PROVE  (TypeOK /\ Phases)'
<1> USE DEF CallStates, Quiet, Ended
<1>1. CASE CreateMap(c)
  <2>1. c \in Large /\ MapCreated(c) /\ Goto(c, "creatingJob") /\ call[c] = "creatingMap" /\ c \notin kill
    BY <1>1 DEF CreateMap, Awaits, Phases
  <2>2. TypeOK'
    BY <1>1, <2>1, ObjectsType, MoveType DEF CreateMap, MapCreated, TypeOK
  <2>3. UNCHANGED <<attempt, run, mayDelete, job>> /\ \A d \in Cells \ {c} : (d \in maps' <=> d \in maps)
    BY <1>1, <2>1 DEF CreateMap, MapCreated
  <2> QED BY <2>1, <2>2, <2>3, MovePhases
<1>2. CASE CreateJob(c)
  <2>1. JobCreated(c) /\ Goto(c, "submitted") /\ call[c] = "creatingJob" /\ c \notin kill
    BY <1>2 DEF CreateJob, Awaits
  <2>2. /\ job' \in [Cells -> JobsOK] /\ pod' \in [Attempts -> [Cells -> PodStates]]
        /\ UNCHANGED <<attempt, run, kill, exc, took, maps, mayDelete, stored>>
    BY <1>2, <2>1, ObjectsType DEF CreateJob, JobCreated
  <2>3. TypeOK'
    BY <2>1, <2>2, MoveType DEF TypeOK
  <2>4. job'[c].by = attempt /\ \A d \in Cells \ {c} : job'[d] = job[d]
    BY <2>1 DEF JobCreated, TypeOK
  <2> QED BY <2>1, <2>2, <2>3, <2>4, MovePhases
<1>3. CASE CreateRaises(c)
  <2>1. Goto(c, "raised") /\ call[c] \in {"creatingMap", "creatingJob"} /\ c \notin kill
    BY <1>3 DEF CreateRaises, Awaits
  <2>2. TypeOK'
    BY <1>3, <2>1, MoveType DEF CreateRaises, clusterVars, TypeOK
  <2> QED BY <1>3, <2>1, <2>2, MovePhases DEF CreateRaises, clusterVars
<1>4. CASE PollTerminal(c)
  <2>1. Goto(c, "reading") /\ call[c] = "polling" /\ c \notin kill /\ job[c].by = attempt
    BY <1>4 DEF PollTerminal, Awaits, Phases, WatchedJobIsOwn
  <2>2. TypeOK'
    BY <1>4, <2>1, MoveType DEF PollTerminal, clusterVars, TypeOK
  <2>3. UNCHANGED <<attempt, run, mayDelete, job, maps>>
    BY <1>4 DEF PollTerminal, clusterVars
  <2> QED BY <2>1, <2>2, <2>3, MovePhases
<1>5. CASE PollTimesOut(c) \/ ReadOutcome(c) \/ ReadRaises(c) \/ PollRaises(c)
  <2>1. Goto(c, "deletingJob") /\ call[c] \in {"polling", "reading"} /\ c \notin kill /\ UNCHANGED clusterVars
    BY <1>5 DEF PollTimesOut, ReadOutcome, ReadRaises, PollRaises, AwaitRaises, Awaits, Unwind
  <2>2. UNCHANGED <<attempt, run, kill>> /\ exc' \subseteq Cells
    BY <1>5 DEF PollTimesOut, ReadOutcome, ReadRaises, PollRaises, AwaitRaises, TypeOK
  <2>3. took' \in [Cells -> Outcomes]
    <3>1. NoOutcome \in Outcomes /\ stored[c] \in Outcomes
      BY AttemptAssumption DEF NoOutcome, Outcomes, TypeOK
    <3>2. took' \in {took, [took EXCEPT ![c] = NoOutcome], [took EXCEPT ![c] = stored[c]]}
      BY <1>5 DEF PollTimesOut, ReadOutcome, ReadRaises, PollRaises, AwaitRaises
    <3> QED BY <3>1, <3>2 DEF TypeOK
  <2>4. TypeOK'
    BY <2>1, <2>2, <2>3, MoveType DEF clusterVars, TypeOK
  <2> QED BY <2>1, <2>2, <2>4, MovePhases DEF clusterVars
<1>6. CASE DeleteJob(c)
  <2>1. JobDeleted(c) /\ AfterJob(c) /\ call[c] = "deletingJob" /\ c \notin kill
    BY <1>6 DEF DeleteJob, Awaits
  <2>2. UNCHANGED <<attempt, run, kill, took, maps, mayDelete, pod, stored>> /\ job' \in [Cells -> JobsOK]
    BY <1>6, <2>1, ObjectsType DEF DeleteJob, JobDeleted
  <2>3. /\ \A d \in Cells \ {c} : job'[d] = job[d]
        /\ mayDelete => job'[c] = NoJob
    BY <2>1 DEF JobDeleted, TypeOK
  <2>4. PICK place \in {"deletingMap", "raised", "done"} :
           Goto(c, place) /\ (place = "deletingMap" <=> c \in Large) /\ exc' \subseteq Cells
    BY <2>1 DEF AfterJob, Finish, TypeOK
  <2>5. TypeOK'
    BY <2>1, <2>2, <2>4, MoveType DEF TypeOK
  <2>6. place = "done" => c \notin maps'
    BY <2>2, <2>4 DEF TypeOK
  <2> QED BY <2>1, <2>2, <2>3, <2>4, <2>5, <2>6, MovePhases
<1>7. CASE DeleteMap(c)
  <2>1. MapDeleted(c) /\ Finish(c) /\ call[c] = "deletingMap" /\ c \notin kill
    BY <1>7 DEF DeleteMap, Awaits
  <2>2. UNCHANGED <<attempt, run, kill, took, job, mayDelete, pod, stored>> /\ maps' \subseteq Large
    BY <1>7, <2>1, ObjectsType DEF DeleteMap, MapDeleted
  <2>3. /\ \A d \in Cells \ {c} : (d \in maps' <=> d \in maps)
        /\ mayDelete => c \notin maps' /\ job[c] = NoJob
    BY <2>1 DEF MapDeleted, Phases
  <2>4. PICK place \in {"raised", "done"} : Goto(c, place) /\ exc' \subseteq Cells
    BY <2>1 DEF Finish, TypeOK
  <2>5. TypeOK'
    BY <2>1, <2>2, <2>4, MoveType DEF TypeOK
  <2> QED BY <2>1, <2>2, <2>3, <2>4, <2>5, MovePhases
<1>8. CASE Cancelled(c)
  <2>1. c \in kill /\ kill' = kill \ {c} /\ UNCHANGED <<attempt, run, took>> /\ call[c] \notin Quiet
    BY <1>8 DEF Cancelled, TypeOK, Live
  <2>2. CASE call[c] \in {"polling", "reading"}
    <3>1. Goto(c, "deletingJob") /\ exc' = exc \cup {c} /\ UNCHANGED clusterVars
      BY <1>8, <2>2 DEF Cancelled, Unwind
    <3>2. TypeOK'
      BY <2>1, <3>1, MoveType DEF clusterVars, TypeOK
    <3> QED BY <2>1, <3>1, <3>2, MovePhases DEF clusterVars
  <2>3. CASE call[c] \notin {"polling", "reading"}
    <3>1. /\ Goto(c, "raised") /\ exc' = exc \ {c}
          /\ \/ call[c] = "creatingMap" /\ c \in Large /\ MapCreated(c)
             \/ call[c] = "creatingJob" /\ JobCreated(c)
             \/ call[c] = "deletingJob" /\ JobDeleted(c)
             \/ call[c] = "deletingMap" /\ MapDeleted(c)
             \/ UNCHANGED clusterVars
      BY <1>8, <2>3 DEF Cancelled, Phases
    <3>2. TypeOK'
      BY <2>1, <3>1, ObjectsType, MoveType DEF TypeOK
    <3> QED BY <2>1, <3>1, <3>2, ObjectsType, MovePhases
  <2> QED BY <2>2, <2>3
<1> QED BY <1>1, <1>2, <1>3, <1>4, <1>5, <1>6, <1>7, <1>8 DEF CellStep
-----------------------------------------------------------------------------
\* Nothing but a coroutine creates a Job, and the cluster removes only Jobs
\* that no one watches.
LEMMA ClusterInv ==
    ASSUME TypeOK, Phases, NEW c \in Cells, ClusterStep(c)
    PROVE  (TypeOK /\ Phases)'
<1>1. UNCHANGED <<orchVars, maps, mayDelete>>
  BY DEF ClusterStep, JobDeadline, JobExpires, PodWrites, PodExits, PodDies
<1>2. \/ job' = job
      \/ job[c].status = "running" /\ job' \in {[job EXCEPT ![c].status = s] : s \in {"complete", "failed"}}
      \/ job' = [job EXCEPT ![c] = NoJob] /\ call[c] \in Ended \cup {"submitted"}
           /\ (call[c] = "submitted" => run = "failed")
  BY DEF ClusterStep, JobDeadline, JobExpires, PodWrites, PodExits, PodDies, JobEnds, Owned, Ended, TypeOK, JobsOK
<1>3. job' \in [Cells -> JobsOK]
  <2>1. NoJob \in JobsOK
    BY AttemptAssumption DEF NoJob, JobsOK
  <2>2. \A s \in {"complete", "failed"} : [job EXCEPT ![c].status = s] \in [Cells -> JobsOK]
    BY DEF TypeOK, JobsOK
  <2> QED BY <1>2, <2>1, <2>2 DEF TypeOK
<1>4. pod' \in [Attempts -> [Cells -> PodStates]]
  BY DEF ClusterStep, JobDeadline, JobExpires, PodWrites, PodExits, PodDies, TypeOK, PodStates
<1>5. stored' \in [Cells -> Outcomes]
  <2>1. CASE \E a \in Attempts : PodWrites(a, c)
    <3>1. PICK a \in Attempts, e \in BOOLEAN : stored' = [stored EXCEPT ![c] = [by |-> a, error |-> e]]
      BY <2>1 DEF PodWrites
    <3>2. [by |-> a, error |-> e] \in Outcomes
      BY AttemptAssumption DEF Outcomes, Attempts
    <3> QED BY <3>1, <3>2 DEF TypeOK
  <2>2. CASE stored' = stored
    BY <2>2 DEF TypeOK
  <2> QED BY <2>1, <2>2 DEF ClusterStep, JobDeadline, JobExpires, PodExits, PodDies
<1>6. TypeOK'
  BY <1>1, <1>3, <1>4, <1>5 DEF TypeOK, orchVars, Live
<1>7. /\ \A d \in Cells \ {c} : job'[d] = job[d]
      /\ call[c] \in {"polling", "reading"} \/ (call[c] = "submitted" /\ run = "submitting") => job'[c].by = job[c].by
      /\ job[c] = NoJob => job'[c] = NoJob
  BY <1>2 DEF Ended, TypeOK, JobsOK, NoJob
<1> QED BY <1>1, <1>6, <1>7 DEF Phases, WatchedJobIsOwn, orchVars

LEMMA RunInv == TypeOK /\ Phases /\ (RunStep \/ Interrupt \/ Again) => (TypeOK /\ Phases)'
<1> SUFFICES ASSUME TypeOK, Phases, RunStep \/ Interrupt \/ Again PROVE (TypeOK /\ Phases)'
  OBVIOUS
<1>1. CASE StartPolling
  <2>1. /\ call' \in [Cells -> CallStates] /\ run' = "awaiting" /\ Live = {}
        /\ \A c \in Cells : call'[c] = IF call[c] = "submitted" THEN "polling" ELSE call[c]
    BY <1>1 DEF StartPolling, TypeOK, CallStates, Quiet, Ended, Live
  <2>2. TypeOK'
    BY <1>1, <2>1 DEF StartPolling, TypeOK, clusterVars
  <2> QED BY <1>1, <2>1, <2>2 DEF StartPolling, Phases, WatchedJobIsOwn, clusterVars
<1>2. CASE Return \/ GatherRaises \/ Interrupt
  <2>1. UNCHANGED <<attempt, call, exc, took, clusterVars>> /\ kill' \in {kill, Live}
    BY <1>2 DEF Return, GatherRaises, Interrupt
  <2>2. /\ run' \in {"submitting", "awaiting", "returned", "failed"}
        /\ run' = "submitting" => run = "submitting"
        /\ run' = "returned" => \A c \in Cells : call[c] = "done"
    BY <1>2 DEF Return, GatherRaises, Interrupt, AllDone, TypeOK, Phases
  <2>3. TypeOK'
    BY <2>1, <2>2 DEF TypeOK, Live, clusterVars
  <2> QED BY <2>1, <2>2, <2>3 DEF Phases, WatchedJobIsOwn, clusterVars
<1>3. CASE Again
  <2>0. run \in {"returned", "failed"} /\ Live = {} /\ attempt < MaxAttempts /\ attempt' = attempt + 1
    BY <1>3 DEF Again
  <2>1. PICK Failed \in SUBSET Cells :
          /\ run = "returned" \/ Failed = Cells
          /\ call' = [c \in Cells |-> IF c \in Failed THEN FirstCall(c) ELSE "done"]
          /\ took' = [c \in Cells |-> IF c \in Failed THEN NoOutcome ELSE took[c]]
    <3> DEFINE F == {c \in Cells : run = "failed" \/ took[c].error}
    <3>1. F \in SUBSET Cells /\ (run = "returned" \/ F = Cells)
      BY <2>0
    <3>2. /\ call' = [c \in Cells |-> IF c \in F THEN FirstCall(c) ELSE "done"]
          /\ took' = [c \in Cells |-> IF c \in F THEN NoOutcome ELSE took[c]]
      BY <1>3 DEF Again
    <3> QED BY <3>1, <3>2
  <2>2. attempt' \in Attempts /\ Live = {} /\ run' = "submitting" /\ UNCHANGED <<kill, exc, clusterVars>>
    BY <1>3, <2>0, AttemptAssumption DEF Again, TypeOK, Attempts
  <2>3. call' \in [Cells -> CallStates] /\ took' \in [Cells -> Outcomes]
    BY <2>1, FirstCallType, AttemptAssumption DEF CallStates, Quiet, Ended, TypeOK, Outcomes, NoOutcome
  <2>4. TypeOK'
    BY <2>2, <2>3 DEF TypeOK, clusterVars
  <2>5. \A c \in Cells : \/ call'[c] \in {"creatingMap", "creatingJob"} /\ (call'[c] = "creatingMap" => c \in Large)
                         \/ call'[c] = "done" /\ call[c] = "done"
    BY <2>1, FirstCallType DEF Phases
  <2> QED BY <2>2, <2>4, <2>5 DEF Phases, WatchedJobIsOwn, clusterVars
<1> QED BY <1>1, <1>2, <1>3 DEF RunStep

LEMMA NextInv == TypeOK /\ Phases /\ [Next]_vars => (TypeOK /\ Phases)'
<1> SUFFICES ASSUME TypeOK, Phases, [Next]_vars PROVE (TypeOK /\ Phases)'
  OBVIOUS
<1>1. CASE Over \/ UNCHANGED vars
  <2>1. UNCHANGED <<attempt, run, call, kill, exc, took, job, maps, mayDelete, pod, stored>>
    BY <1>1 DEF Over, vars, orchVars, clusterVars
  <2>2. TypeOK'
    BY <2>1 DEF TypeOK, Live
  <2> QED BY <2>1, <2>2 DEF Phases, WatchedJobIsOwn
<1> QED BY <1>1, RunInv, CellInv, ClusterInv DEF Next

LEMMA Inductive == Spec => [](TypeOK /\ Phases)
  BY StartInv, NextInv, PTL DEF Spec

\* Every variable keeps its type; no ConfigMap is made for a small payload.
THEOREM TypeInvariant == Spec => []TypeOK
  BY Inductive, PTL

\* A coroutine never polls, and never reads an outcome for, a Job that an
\* earlier attempt at the same cell created.
THEOREM WatchedJobInvariant == Spec => []WatchedJobIsOwn
<1>1. Phases => WatchedJobIsOwn
  BY DEF Phases
<1> QED BY <1>1, Inductive, PTL

\* A dispatch_all that returns leaves no Job and no ConfigMap of its cells,
\* whatever earlier attempts, failures and interrupts left behind.
THEOREM CleanupInvariant == Spec => []ReturnedRunIsCleanedUp
<1>1. Phases => ReturnedRunIsCleanedUp
  BY DEF Phases, ReturnedRunIsCleanedUp
<1> QED BY <1>1, Inductive, PTL

-----------------------------------------------------------------------------
LEMMA ContractStart == Init => Contract!Init
  BY FirstCallType DEF Init, Contract!Init, Obtained, CountedCells

LEMMA ContractStep == TypeOK /\ Phases /\ [Next]_vars => [Contract!Next \/ Again]_(Contract!vars)
<1> SUFFICES ASSUME TypeOK, Phases, [Next]_vars PROVE [Contract!Next \/ Again]_(Contract!vars)
  OBVIOUS
<1>1. CASE Return
  <2>1. Obtained = Cells /\ UNCHANGED Obtained /\ CountedCells = {} /\ CountedCells' = Cells
    BY <1>1 DEF Return, AllDone, Obtained, CountedCells
  <2>2. Contract!Count(Cells)
    BY <1>1, <2>1 DEF Return, Contract!Count
  <2> QED BY <2>2 DEF Contract!Next
<1>2. CASE \E c \in Cells : CellStep(c) \/ PollRaises(c)
  <2>1. PICK c \in Cells : CellStep(c) \/ PollRaises(c)
    BY <1>2
  <2>2. PICK place \in CallStates : Goto(c, place)
    BY <2>1 DEF CellStep, CreateMap, CreateJob, CreateRaises, PollTerminal, PollTimesOut, ReadOutcome,
         ReadRaises, PollRaises, AwaitRaises, DeleteJob, DeleteMap, Cancelled, Unwind, AfterJob, Finish,
         CallStates, Quiet, Ended
  <2>3. run' = run /\ call[c] # "done"
    <3>1. CASE Cancelled(c)
      BY <3>1 DEF Cancelled, TypeOK, Live, Quiet, Ended
    <3>2. CASE ~Cancelled(c)
      BY <2>1, <3>2 DEF CellStep, CreateMap, CreateJob, CreateRaises, PollTerminal, PollTimesOut, ReadOutcome,
           ReadRaises, PollRaises, AwaitRaises, DeleteJob, DeleteMap, Awaits
    <3> QED BY <3>1, <3>2
  <2>4. CountedCells' = CountedCells /\ run # "returned"
    BY <2>3 DEF CountedCells, Phases
  <2>5. Obtained' = IF place = "done" THEN Obtained \cup {c} ELSE Obtained
    BY <2>2, <2>3 DEF Goto, Obtained, TypeOK
  <2> QED BY <2>3, <2>4, <2>5 DEF Contract!Next, Contract!Obtain, Contract!vars
<1>3. CASE StartPolling
  <2>1. Obtained' = Obtained
    BY <1>3 DEF StartPolling, Obtained, TypeOK
  <2> QED BY <1>3, <2>1 DEF StartPolling, CountedCells, Contract!vars
<1>4. CASE GatherRaises \/ Interrupt \/ Over \/ UNCHANGED vars
  BY <1>4 DEF GatherRaises, Interrupt, Over, vars, orchVars, Contract!vars, Obtained, CountedCells
<1>5. CASE \E c \in Cells : ClusterStep(c)
  BY <1>5 DEF ClusterStep, JobDeadline, JobExpires, PodWrites, PodExits, PodDies, orchVars,
       Contract!vars, Obtained, CountedCells
<1> QED BY <1>1, <1>2, <1>3, <1>4, <1>5 DEF Next, RunStep

\* Every attempt of KubernetesJobsExecutor keeps the Executor protocol, for any
\* number of cells, and only a new attempt starts the protocol afresh.
THEOREM RefinesExecutor == Spec => ImplementsExecutor
  BY ContractStart, ContractStep, Inductive, PTL DEF Spec, ImplementsExecutor
=============================================================================
