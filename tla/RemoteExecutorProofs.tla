------------------------ MODULE RemoteExecutorProofs ------------------------
(***************************************************************************)
(* Theorems about RemoteExecutor for any number of cells, threads and      *)
(* backend slots, whatever fails and whenever Ctrl-C comes.                *)
(***************************************************************************)
EXTENDS RemoteExecutor, FiniteSetTheorems, TLAPS

\* Who calls, and with what, never changes.
USE DEF Plausible, ShutsRayDown, settings

Early == {"building", "initialising"}
Past == {"submitted", "getting", "got"}

\* What ties the driver, the threads and the backend together: a cell whose
\* submit has returned has no submit call left that could start it again, so
\* what the driver got stays what the worker answered.
Phases ==
    /\ IsFiniteSet(busy)
    /\ run \in Early => \A c \in Cells : call[c] = "idle" /\ Submit(c) \notin waiting \cup busy
    /\ run \in Early \cup {"submitting", "waiting"} => ~dispatched
    /\ dispatched => \A c \in Cells : call[c] = "got"
    /\ \A c \in Cells : call[c] = "got" => task[c] = "answered"
    /\ \A c \in Cells : call[c] \in Past => Submit(c) \notin waiting \cup busy
    /\ \A c \in Cells : Submit(c) \notin waiting \/ Submit(c) \notin busy
    /\ counted = IF dispatched THEN Cells ELSE {}

LEMMA JobTypes ==
    /\ InitCall \in Jobs /\ ShutdownCall \in Jobs
    /\ \A c \in Cells : Submit(c) \in Jobs /\ Get(c) \in Jobs
  BY DEF Jobs, InitCall, ShutdownCall, Submit, Get

LEMMA JobsDiffer ==
    \A c, d \in Cells : /\ Submit(c) # InitCall /\ Submit(c) # ShutdownCall /\ Submit(c) # Get(d)
                        /\ Submit(c) = Submit(d) => c = d
  BY DEF InitCall, ShutdownCall, Submit, Get

\* A call that gives its thread back leaves one more free.
LEMMA FinishesBusy ==
    ASSUME IsFiniteSet(busy), Cardinality(busy) <= Threads, NEW j, Finishes(j)
    PROVE  IsFiniteSet(busy') /\ Cardinality(busy') <= Threads
<1>1. busy' = busy \ {j} /\ j \in busy
  BY DEF Finishes
<1>2. IsFiniteSet(busy') /\ Cardinality(busy') = Cardinality(busy) - 1
  BY <1>1, FS_RemoveElement
<1>3. Cardinality(busy) \in Nat
  BY FS_CardinalityType
<1> QED BY <1>2, <1>3, CapacityAssumption

LEMMA ResumeType ==
    ASSUME call \in [Cells -> CallStates], NEW c \in Cells, NEW place, NEW next \in CallStates,
           Resume(c, place, next)
    PROVE  /\ call' \in [Cells -> CallStates]
           /\ \A d \in Cells : call'[d] = call[d] \/ (d = c /\ call[c] = place /\ call'[c] = next)
  BY DEF Resume

-----------------------------------------------------------------------------
LEMMA StartInv == Init => TypeOK /\ Phases
<1> SUFFICES ASSUME Init PROVE TypeOK /\ Phases
  OBVIOUS
<1>1. IsFiniteSet(busy) /\ Cardinality(busy) = 0
  BY FS_EmptySet DEF Init
<1>2. TypeOK
  <2>1. kind \in Kinds /\ caller \in Callers /\ run \in RunStates
    BY DEF Init, RunStates
  <2>2. waiting \subseteq Jobs /\ busy \subseteq Jobs /\ Cardinality(busy) <= Threads
    BY <1>1, CapacityAssumption DEF Init
  <2>3. call \in [Cells -> CallStates] /\ task \in [Cells -> TaskStates]
    BY DEF Init, CallStates, TaskStates
  <2>4. /\ {dispatched, published, owned} \subseteq BOOLEAN /\ ray \in {"down", "up", "defunct"}
        /\ Plausible(caller) /\ struck \in RunStates \cup {"never"} /\ counted \subseteq Cells
    BY DEF Init
  <2> QED BY <2>1, <2>2, <2>3, <2>4 DEF TypeOK
<1>3. Phases
  BY <1>1 DEF Init, Phases, Early, Past
<1> QED BY <1>2, <1>3

\* The driver asks for its submits: nothing of them was anywhere before.
LEMMA StartSubmitsInv ==
    ASSUME TypeOK, Phases, StartSubmits, run \in Early, busy' \subseteq busy,
           IsFiniteSet(busy'), Cardinality(busy') <= Threads, owned' \in BOOLEAN,
           ray' \in {"down", "up", "defunct"},
           UNCHANGED <<settings, struck, dispatched, published, task, counted>>
    PROVE  (TypeOK /\ Phases)'
<1>1. TypeOK'
  BY JobTypes DEF TypeOK, StartSubmits, settings, RunStates, CallStates
<1>2. ~dispatched
  BY DEF Phases
<1>3. Phases'
  BY <1>2 DEF Phases, StartSubmits, Early, Past
<1> QED BY <1>1, <1>3

LEMMA DriverInv == TypeOK /\ Phases /\ DriverStep => (TypeOK /\ Phases)'
<1> SUFFICES ASSUME TypeOK, Phases, DriverStep PROVE (TypeOK /\ Phases)'
  OBVIOUS
<1>1. CASE BuildFails
  <2>1. TypeOK'
    BY <1>1 DEF BuildFails, TypeOK, settings, threadVars, RunStates, Ended
  <2> QED BY <1>1, <2>1 DEF BuildFails, Phases, Early, Past, settings, threadVars
<1>2. CASE Open
  <2>1. CASE kind = "ray" /\ ray = "down"
    <3>1. TypeOK'
      BY <1>2, <2>1, JobTypes DEF Open, TypeOK, settings, RunStates
    <3> QED BY <1>2, <2>1, <3>1, JobsDiffer DEF Open, Phases, Early, Past, settings
  <2>2. CASE ~(kind = "ray" /\ ray = "down")
    <3>1. StartSubmits /\ run \in Early /\ UNCHANGED <<settings, ray, struck, dispatched, published, owned, busy, task, counted>>
      BY <1>2, <2>2 DEF Open, Early
    <3>2. IsFiniteSet(busy') /\ Cardinality(busy') <= Threads /\ owned' \in BOOLEAN /\ ray' \in {"down", "up", "defunct"}
      BY <3>1 DEF TypeOK, Phases
    <3> QED BY <3>1, <3>2, StartSubmitsInv
  <2> QED BY <2>1, <2>2
<1>3. CASE StartGets
  <2>1. TypeOK'
    BY <1>3, JobTypes DEF StartGets, TypeOK, settings, RunStates, CallStates
  <2> QED BY <1>3, <2>1, JobsDiffer DEF StartGets, EveryCall, Phases, Early, Past, settings
<1>4. CASE Ingest
  <2>1. TypeOK'
    BY <1>4 DEF Ingest, TypeOK, settings, threadVars, RunStates, Stopping
  <2> QED BY <1>4, <2>1 DEF Ingest, EveryCall, Phases, Early, Past, settings, threadVars
<1>5. CASE GatherRaises \/ SaveSummary
  <2>1. TypeOK'
    BY <1>5 DEF GatherRaises, SaveSummary, TypeOK, Callers, settings, threadVars, RunStates, Stopping
  <2> QED BY <1>5, <2>1 DEF GatherRaises, SaveSummary, Phases, Early, Past, settings, threadVars
<1>6. CASE Leave
  <2>1. TypeOK'
    BY <1>6, JobTypes DEF Leave, TypeOK, settings, RunStates, Stopping
  <2> QED BY <1>6, <2>1, JobsDiffer DEF Leave, Phases, Early, Past, settings
<1>7. CASE Exit
  <2>1. TypeOK'
    BY <1>7 DEF Exit, TypeOK, settings, threadVars, RunStates, Ended
  <2> QED BY <1>7, <2>1 DEF Exit, Phases, Early, Past, settings, threadVars
<1> QED BY <1>1, <1>2, <1>3, <1>4, <1>5, <1>6, <1>7 DEF DriverStep

LEMMA ThreadInv ==
    TypeOK /\ Phases /\ (StartCall \/ RayInit \/ RayInitFails \/ RayShutdown \/ Interrupt) => (TypeOK /\ Phases)'
<1> SUFFICES ASSUME TypeOK, Phases, StartCall \/ RayInit \/ RayInitFails \/ RayShutdown \/ Interrupt
             PROVE  (TypeOK /\ Phases)'
  OBVIOUS
<1>1. CASE StartCall
  <2>1. PICK j \in waiting : waiting' = waiting \ {j} /\ busy' = busy \cup {j}
    BY <1>1 DEF StartCall
  <2>2. IsFiniteSet(busy') /\ Cardinality(busy') <= Threads
    <3>1. /\ IsFiniteSet(busy') /\ Cardinality(busy) \in Nat
          /\ Cardinality(busy') = Cardinality(busy) \/ Cardinality(busy') = Cardinality(busy) + 1
      BY <2>1, FS_AddElement, FS_CardinalityType DEF Phases
    <3> QED BY <1>1, <3>1, CapacityAssumption DEF StartCall, FreeThread
  <2>3. TypeOK'
    BY <1>1, <2>1, <2>2 DEF StartCall, TypeOK, driverVars, settings
  <2> QED BY <1>1, <2>1, <2>2, <2>3, JobsDiffer DEF StartCall, Phases, Early, Past, driverVars, settings
<1>2. CASE RayInit
  <2>1. IsFiniteSet(busy') /\ Cardinality(busy') <= Threads /\ busy' \subseteq busy
    BY <1>2, FinishesBusy DEF RayInit, Finishes, TypeOK, Phases
  <2>2. CASE run = "initialising"
    <3>1. StartSubmits /\ owned' = TRUE /\ ray' = "up" /\ UNCHANGED <<settings, struck, dispatched, published, task, counted>>
      BY <1>2, <2>2 DEF RayInit
    <3> QED BY <2>1, <2>2, <3>1, StartSubmitsInv DEF Early
  <2>3. CASE run # "initialising"
    <3>1. TypeOK'
      BY <1>2, <2>1, <2>3 DEF RayInit, TypeOK, settings
    <3> QED BY <1>2, <2>1, <2>3, <3>1 DEF RayInit, Phases, Early, Past, settings
  <2> QED BY <2>2, <2>3
<1>3. CASE RayInitFails
  <2>1. IsFiniteSet(busy') /\ Cardinality(busy') <= Threads /\ busy' \subseteq busy
    BY <1>3, FinishesBusy DEF RayInitFails, Finishes, TypeOK, Phases
  <2>2. TypeOK'
    BY <1>3, <2>1 DEF RayInitFails, TypeOK, settings, RunStates, Stopping
  <2> QED BY <1>3, <2>1, <2>2 DEF RayInitFails, Phases, Early, Past, settings
<1>4. CASE RayShutdown
  <2>1. IsFiniteSet(busy') /\ Cardinality(busy') <= Threads /\ busy' \subseteq busy
    BY <1>4, FinishesBusy DEF RayShutdown, Finishes, TypeOK, Phases
  <2>2. waiting' \subseteq waiting
    BY <1>4 DEF RayShutdown
  <2>3. task' \in [Cells -> TaskStates] /\ \A c \in Cells : task[c] = "answered" => task'[c] = "answered"
    BY <1>4 DEF RayShutdown, Unanswered, TypeOK, TaskStates
  <2>4. run' = run \/ run' = "exiting"
    BY <1>4 DEF RayShutdown
  <2>5. UNCHANGED <<settings, struck, dispatched, published, call, counted>> /\ owned' \in BOOLEAN /\ ray' \in {"down", "defunct"}
    BY <1>4 DEF RayShutdown, TypeOK
  <2>6. TypeOK'
    BY <2>1, <2>2, <2>3, <2>4, <2>5 DEF TypeOK, settings, RunStates, Stopping
  <2> QED BY <2>1, <2>2, <2>3, <2>4, <2>5, <2>6 DEF Phases, Early, Past
<1>5. CASE Interrupt
  <2>1. TypeOK'
    BY <1>5 DEF Interrupt, TypeOK, settings, RunStates, Stopping
  <2> QED BY <1>5, <2>1 DEF Interrupt, Phases, Early, Past, settings
<1> QED BY <1>1, <1>2, <1>3, <1>4, <1>5
LEMMA CallInv ==
    ASSUME TypeOK, Phases, NEW c \in Cells, CallReturns(c)
    PROVE  (TypeOK /\ Phases)'
<1>1. ASSUME NEW j, Finishes(j) PROVE IsFiniteSet(busy') /\ Cardinality(busy') <= Threads /\ busy' \subseteq busy
  BY <1>1, FinishesBusy DEF Finishes, TypeOK, Phases
<1>2. CASE SubmitReturns(c)
  <2>1. Finishes(Submit(c)) /\ Resume(c, "submitting", "submitted")
    BY <1>2 DEF SubmitReturns
  <2>2. /\ call' \in [Cells -> CallStates]
        /\ \A d \in Cells : call'[d] = call[d] \/ (d = c /\ call[c] = "submitting" /\ call'[c] = "submitted")
    BY <2>1, ResumeType DEF TypeOK, CallStates
  <2>3. IsFiniteSet(busy') /\ Cardinality(busy') <= Threads /\ busy' = busy \ {Submit(c)} /\ Submit(c) \in busy
    BY <1>1, <2>1 DEF Finishes
  <2>4. Submit(c) \notin waiting /\ call[c] # "got" /\ run \notin Early
    BY <2>3 DEF Phases, Past
  <2>5. TypeOK'
    BY <1>2, <2>2, <2>3 DEF SubmitReturns, TypeOK, driverVars, settings, TaskStates
  <2> QED BY <1>2, <2>2, <2>3, <2>4, <2>5, JobsDiffer DEF SubmitReturns, TypeOK, Phases, Early, Past, driverVars, settings
<1>3. CASE SubmitRaises(c) \/ GetRaises(c)
  <2>1. PICK j, place : Finishes(j) /\ Resume(c, place, "raised")
    BY <1>3 DEF SubmitRaises, GetRaises
  <2>2. /\ call' \in [Cells -> CallStates]
        /\ \A d \in Cells : call'[d] = call[d] \/ (d = c /\ call'[c] = "raised" /\ call[c] = place)
    BY <2>1, ResumeType DEF TypeOK, CallStates
  <2>3. IsFiniteSet(busy') /\ Cardinality(busy') <= Threads /\ busy' \subseteq busy
    BY <1>1, <2>1
  <2>4. UNCHANGED <<driverVars, ray, waiting, task, counted>>
    BY <1>3 DEF SubmitRaises, GetRaises
  <2>5. (run \in Early => call'[c] = "idle") /\ (dispatched => call'[c] = "got")
    BY <1>3, <2>2 DEF SubmitRaises, GetRaises, Resume, Phases, Early
  <2>6. TypeOK'
    BY <2>2, <2>3, <2>4 DEF TypeOK, driverVars, settings
  <2> QED BY <2>2, <2>3, <2>4, <2>5, <2>6 DEF Phases, Early, Past, driverVars, settings
<1>4. CASE GetReturns(c)
  <2>1. Finishes(Get(c)) /\ Resume(c, "getting", "got") /\ task[c] = "answered"
    BY <1>4 DEF GetReturns
  <2>2. /\ call' \in [Cells -> CallStates]
        /\ \A d \in Cells : call'[d] = call[d] \/ (d = c /\ call[c] = "getting" /\ call'[c] = "got")
    BY <2>1, ResumeType DEF TypeOK, CallStates
  <2>3. IsFiniteSet(busy') /\ Cardinality(busy') <= Threads /\ busy' \subseteq busy
    BY <1>1, <2>1
  <2>4. UNCHANGED <<driverVars, ray, waiting, task, counted>>
    BY <1>4 DEF GetReturns
  <2>5. TypeOK'
    BY <2>2, <2>3, <2>4 DEF TypeOK, driverVars, settings
  <2> QED BY <2>1, <2>2, <2>3, <2>4, <2>5 DEF Phases, Early, Past, driverVars, settings
<1> QED BY <1>2, <1>3, <1>4 DEF CallReturns

\* A worker never touches an answer that it has given.
LEMMA WorkerInv ==
    ASSUME TypeOK, Phases, NEW c \in Cells, WorkerStep(c)
    PROVE  (TypeOK /\ Phases)'
<1>1. task[c] # "answered" /\ UNCHANGED <<driverVars, ray, threadVars, call, counted>>
  BY DEF WorkerStep, Rehydrate, RunCell, Judge, WorkerFails, Running
<1>2. ~dispatched
  BY <1>1 DEF Phases
<1>3. /\ task' \in [Cells -> TaskStates]
      /\ \A d \in Cells \ {c} : task'[d] = task[d]
  <2>1. CASE Rehydrate(c) \/ WorkerFails(c)
    BY <2>1 DEF Rehydrate, WorkerFails, TypeOK, TaskStates
  <2>2. CASE RunCell(c)
    BY <2>2 DEF RunCell, TypeOK, TaskStates
  <2>3. CASE Judge(c)
    BY <2>3 DEF Judge, TypeOK, TaskStates
  <2> QED BY <2>1, <2>2, <2>3 DEF WorkerStep
<1>4. TypeOK'
  BY <1>1, <1>3 DEF TypeOK, driverVars, settings, threadVars
<1> QED BY <1>1, <1>2, <1>3, <1>4 DEF Phases, Early, Past, driverVars, settings, threadVars

LEMMA NextInv == TypeOK /\ Phases /\ [Next]_vars => (TypeOK /\ Phases)'
<1> SUFFICES ASSUME TypeOK, Phases, [Next]_vars PROVE (TypeOK /\ Phases)'
  OBVIOUS
<1>1. CASE Over \/ UNCHANGED vars
  <2>1. UNCHANGED <<kind, caller, ray, run, struck, dispatched, published, owned, waiting, busy, call, task, counted>>
    BY <1>1 DEF Over, vars, driverVars, settings, threadVars
  <2>2. TypeOK'
    BY <2>1 DEF TypeOK
  <2>3. Phases'
    BY <2>1 DEF Phases
  <2> QED BY <2>2, <2>3
<1> QED BY <1>1, DriverInv, ThreadInv, CallInv, WorkerInv DEF Next

LEMMA Inductive == Spec => [](TypeOK /\ Phases)
  BY StartInv, NextInv, PTL DEF Spec

\* Whatever fails, every variable keeps its type and no more calls run than
\* the default executor has threads.
THEOREM TypeInvariant == Spec => []TypeOK
  BY Inductive, PTL

-----------------------------------------------------------------------------
(* Ray: who started it, and the calls that are on their way.                *)

OnItsWay(j) == j \in waiting \/ j \in busy

RayFits ==
    /\ caller.rayUp => ray = "up" /\ ~owned /\ ~OnItsWay(InitCall) /\ ~OnItsWay(ShutdownCall)
    /\ run = "building" => /\ ~owned /\ ~OnItsWay(InitCall) /\ ~OnItsWay(ShutdownCall)
                          /\ ray = IF caller.rayUp THEN "up" ELSE "down"
    /\ OnItsWay(InitCall) => run = "initialising" \/ struck = "initialising"
    /\ InitCall \notin waiting \/ InitCall \notin busy
    /\ ray = "up" => caller.rayUp \/ owned \/ struck \in {"initialising", "shuttingDown"}
    /\ owned /\ run \in {"exiting"} \cup Ended => struck = "shuttingDown"

LEMMA CallsDiffer ==
    /\ InitCall # ShutdownCall
    /\ \A c \in Cells : /\ Submit(c) # InitCall /\ Submit(c) # ShutdownCall
                        /\ Get(c) # InitCall /\ Get(c) # ShutdownCall
  BY DEF InitCall, ShutdownCall, Submit, Get

\* A run that begins its submits asks for no other call.
LEMMA SubmitsOnly ==
    ASSUME StartSubmits
    PROVE  \A j \in {InitCall, ShutdownCall} : j \in waiting' <=> j \in waiting
  BY CallsDiffer DEF StartSubmits

LEMMA StartRay == Init => RayFits
  BY DEF Init, RayFits, OnItsWay, Ended

\* The steps that have nothing to do with Ray but where the driver is.
LEMMA DriverRay == TypeOK /\ RayFits /\ DriverStep => RayFits'
<1> SUFFICES ASSUME TypeOK, RayFits, DriverStep PROVE RayFits'
  OBVIOUS
<1> USE CallsDiffer DEF TypeOK, RayFits, OnItsWay, Ended, threadVars
<1>1. CASE BuildFails
  BY <1>1 DEF BuildFails
<1>2. CASE Open
  <2>1. /\ InitCall \in waiting' => run' = "initialising" /\ ~caller.rayUp
        /\ ShutdownCall \in waiting' => ShutdownCall \in waiting
        /\ run' \in {"initialising", "submitting"}
    <3>1. CASE kind = "ray" /\ ray = "down"
      BY <1>2, <3>1 DEF Open
    <3>2. CASE ~(kind = "ray" /\ ray = "down")
      BY <1>2, <3>2, SubmitsOnly DEF Open, StartSubmits
    <3> QED BY <3>1, <3>2
  <2> QED BY <1>2, <2>1 DEF Open
<1>3. CASE StartGets
  BY <1>3 DEF StartGets
<1>4. CASE Ingest \/ GatherRaises \/ SaveSummary
  BY <1>4 DEF Ingest, GatherRaises, SaveSummary
<1>5. CASE Leave
  BY <1>5 DEF Leave
<1>6. CASE Exit
  BY <1>6 DEF Exit
<1> QED BY <1>1, <1>2, <1>3, <1>4, <1>5, <1>6 DEF DriverStep

LEMMA ThreadRay ==
    TypeOK /\ RayFits /\ (StartCall \/ RayInit \/ RayInitFails \/ RayShutdown \/ Interrupt) => RayFits'
<1> SUFFICES ASSUME TypeOK, RayFits, StartCall \/ RayInit \/ RayInitFails \/ RayShutdown \/ Interrupt
             PROVE  RayFits'
  OBVIOUS
<1> USE CallsDiffer DEF TypeOK, RayFits, OnItsWay, Ended, Finishes, driverVars
<1>1. CASE StartCall
  BY <1>1 DEF StartCall
<1>2. CASE RayInit
  <2>1. ~caller.rayUp /\ run # "building" /\ InitCall \notin waiting /\ InitCall \notin busy'
    BY <1>2 DEF RayInit
  <2>2. InitCall \notin waiting'
    BY <1>2, <2>1, SubmitsOnly DEF RayInit
  <2>3. \/ run = "initialising" /\ run' = "submitting" /\ owned'
        \/ struck = "initialising" /\ UNCHANGED <<run, owned, waiting>>
    BY <1>2 DEF RayInit, StartSubmits
  <2> QED BY <1>2, <2>1, <2>2, <2>3 DEF RayInit
<1>3. CASE RayInitFails
  BY <1>3 DEF RayInitFails
<1>4. CASE RayShutdown
  BY <1>4 DEF RayShutdown
<1>5. CASE Interrupt
  BY <1>5 DEF Interrupt
<1> QED BY <1>1, <1>2, <1>3, <1>4, <1>5

LEMMA NextRay == TypeOK /\ RayFits /\ [Next]_vars => RayFits'
<1> SUFFICES ASSUME TypeOK, RayFits, [Next]_vars PROVE RayFits'
  OBVIOUS
<1>1. ASSUME NEW c \in Cells, CallReturns(c) \/ WorkerStep(c) PROVE RayFits'
  <2>1. UNCHANGED <<kind, caller, run, struck, owned, ray, waiting>>
    BY <1>1 DEF CallReturns, SubmitReturns, SubmitRaises, GetReturns, GetRaises, WorkerStep, Rehydrate,
                RunCell, Judge, WorkerFails, driverVars, threadVars
  <2>2. busy' \subseteq busy
    BY <1>1 DEF CallReturns, SubmitReturns, SubmitRaises, GetReturns, GetRaises, WorkerStep, Rehydrate,
                RunCell, Judge, WorkerFails, threadVars, Finishes
  <2> QED BY <2>1, <2>2 DEF RayFits, OnItsWay
<1>2. CASE Over \/ UNCHANGED vars
  <2>1. UNCHANGED <<kind, caller, run, struck, owned, ray, waiting, busy>>
    BY <1>2 DEF Over, vars, driverVars, threadVars
  <2> QED BY <2>1 DEF RayFits, OnItsWay
<1> QED BY <1>1, <1>2, DriverRay, ThreadRay DEF Next

\* Whoever initialised Ray before the run keeps it, and Ray that the run initialised
\* is shut down when it is over, for any number of cells and threads and whatever
\* fails, unless Ctrl-C comes exactly while it is initialised or shut down.
THEOREM RayInvariant == Spec => []RayIsLeftAsFound
<1>1. RayFits => RayIsLeftAsFound
  BY DEF RayFits, RayIsLeftAsFound
<1> QED BY <1>1, StartRay, NextRay, TypeInvariant, PTL DEF Spec

-----------------------------------------------------------------------------
LEMMA ContractStart == Init => Contract!Init
  BY DEF Init, Contract!Init, Obtained


LEMMA ContractStep == TypeOK /\ Phases /\ [Next]_vars => [Contract!Next]_(Contract!vars)
<1> SUFFICES ASSUME TypeOK, Phases, [Next]_vars PROVE [Contract!Next]_(Contract!vars)
  OBVIOUS
<1>1. CASE \E c \in Cells : GetReturns(c)
  <2>1. PICK c \in Cells : GetReturns(c)
    BY <1>1
  <2>2. CASE call' = call
    BY <2>1, <2>2 DEF GetReturns, driverVars, settings, Contract!vars, Obtained
  <2>3. CASE call' # call
    <3>1. call[c] = "getting" /\ call' = [call EXCEPT ![c] = "got"]
      BY <2>1, <2>3 DEF GetReturns, Resume
    <3>2. ~dispatched /\ Obtained' = Obtained \cup {c} /\ dispatched' = dispatched /\ counted' = counted
      BY <2>1, <3>1 DEF GetReturns, driverVars, Phases, TypeOK, Obtained
    <3> QED BY <3>2 DEF Contract!Next, Contract!Obtain
  <2> QED BY <2>2, <2>3
<1>2. CASE Ingest
  <2>1. Obtained = Cells /\ Obtained' = Obtained /\ ~dispatched /\ dispatched'
    BY <1>2 DEF Ingest, EveryCall, Obtained, Phases
  <2>2. counted = {} /\ counted' = Cells
    BY <1>2, <2>1 DEF Ingest, Phases
  <2>3. Contract!Count(Cells)
    BY <2>1, <2>2 DEF Contract!Count
  <2> QED BY <2>3 DEF Contract!Next
<1>3. CASE StartSubmits /\ run \in Early /\ UNCHANGED <<dispatched, counted>>
  BY <1>3 DEF StartSubmits, Phases, Contract!vars, Obtained
<1>4. CASE StartGets
  BY <1>4 DEF StartGets, EveryCall, Contract!vars, Obtained
<1>5. CASE UNCHANGED <<call, dispatched, counted>>
  BY <1>5 DEF Contract!vars, Obtained
<1>6. CASE \E c \in Cells : SubmitReturns(c) \/ SubmitRaises(c) \/ GetRaises(c)
  <2>1. PICK c \in Cells : SubmitReturns(c) \/ SubmitRaises(c) \/ GetRaises(c)
    BY <1>6
  <2>2. PICK place \in {"submitting", "getting"}, next \in {"submitted", "raised"} : Resume(c, place, next)
    BY <2>1 DEF SubmitReturns, SubmitRaises, GetRaises
  <2>3. Obtained' = Obtained
    BY <2>2 DEF Resume, Obtained, TypeOK
  <2> QED BY <2>1, <2>3 DEF SubmitReturns, SubmitRaises, GetRaises, driverVars, Contract!vars
<1> QED
  <2>1. Open \/ RayInit => (StartSubmits /\ run \in Early /\ UNCHANGED <<dispatched, counted>>) \/ UNCHANGED <<call, dispatched, counted>>
    BY DEF Open, RayInit, Early
  <2>2. BuildFails \/ GatherRaises \/ SaveSummary \/ Leave \/ Exit \/ StartCall \/ RayInitFails \/ RayShutdown \/ Interrupt \/ Over \/ UNCHANGED vars
          => UNCHANGED <<call, dispatched, counted>>
    BY DEF BuildFails, GatherRaises, SaveSummary, Leave, Exit, StartCall, RayInitFails, RayShutdown, Interrupt, Over, vars, driverVars
  <2>3. ASSUME NEW c \in Cells, WorkerStep(c) PROVE UNCHANGED <<call, dispatched, counted>>
    BY <2>3 DEF WorkerStep, Rehydrate, RunCell, Judge, WorkerFails, driverVars
  <2> QED BY <1>1, <1>2, <1>3, <1>4, <1>5, <1>6, <2>1, <2>2, <2>3 DEF Next, DriverStep, CallReturns

\* RayExecutor, CeleryExecutor and ModalExecutor keep the Executor protocol for
\* every number of cells, threads and slots, whatever fails: dispatch_all
\* returns with every outcome counted or does not return.
THEOREM RefinesExecutor == Spec => ImplementsExecutor
  BY ContractStart, ContractStep, Inductive, PTL DEF Spec, ImplementsExecutor, Contract!Spec
=============================================================================
