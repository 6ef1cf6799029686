------------------------------ MODULE Services ------------------------------
(* The docker and git_branch system adapters.  Each starts a service, a       *)
(* container or a process in a worktree of a branch, waits until a health     *)
(* check on a port of its own succeeds, opens an inner adapter on that port,  *)
(* and takes all of it down in the reverse order.  The run enters its         *)
(* adapters one after the other and leaves them in the reverse order; one     *)
(* Ctrl-C may cancel the await it is at.                                      *)
EXTENDS Naturals

CONSTANTS
    N,          \* how many adapters the run has; it enters 1, 2, ..., N
    Kinds,      \* the adapter types a run may be configured with
    Ports,      \* the ports the kernel hands out
    Free,       \* a port nobody listens on
    Stranger,   \* a listener that the run did not start
    NoPort,     \* the adapter has not picked its port
    Faults      \* which failures may happen

ASSUME NAssumption == N \in Nat \ {0}
ASSUME KindsAssumption == Kinds \subseteq {"docker", "branch"}
ASSUME PortsAssumption ==
    /\ NoPort \notin Ports
    /\ Free # Stranger
    /\ {Free, Stranger} \cap (1..N) = {}
ASSUME FaultsAssumption ==
    Faults \subseteq {"start", "stop", "disk", "inner", "crash", "stranger", "cancel"}

Adapters == 1..N

\* The awaits of an adapter, in the order it comes to them.
Opening == {"image", "worktree", "start", "spawn", "status", "request", "inner"}
Closing == {"closeInner", "stop", "terminate", "kill", "prune"}
Places == Opening \cup Closing \cup {"idle", "closed"}
ThreadPlaces == {"image", "worktree", "start", "status", "stop", "prune"}

VARIABLES
    kind,       \* the type of each adapter
    mode,       \* what the coroutine of the run is doing
    turn,       \* the adapter it is in, between the ends of __aenter__ and __aexit__
    at,         \* the await of that adapter
    kept,       \* what the exit stack of an adapter will undo
    late,       \* the deadline of the health check has passed
    port,       \* the port an adapter picked
    holder,     \* who listens on a port
    load,       \* the container or the process of an adapter
    tree,       \* the worktree of an adapter: "parent" is no more than the temporary
                \* directory for it, "husk" what a removal left that is no worktree
    threads,    \* threads that the cancelled coroutine left behind
    struck,     \* the adapter and the await that Ctrl-C cancelled
    stuck,      \* the adapters whose container docker did not remove
    littered    \* the adapters whose worktree could not be added, or not be removed

adapter == <<kept, port>>
world == <<holder, load, tree>>
failed == <<stuck, littered>>
vars == <<kind, mode, turn, at, late, adapter, world, threads, struck, failed>>

TypeOK ==
    /\ kind \in [Adapters -> Kinds]
    /\ mode \in {"opening", "running", "closing", "done"}
    /\ turn \in 0..N
    /\ at \in Places
    /\ kept \in [Adapters -> SUBSET {"tree", "load", "inner"}]
    /\ late \in BOOLEAN
    /\ port \in [Adapters -> Ports \cup {NoPort}]
    /\ holder \in [Ports -> Adapters \cup {Free, Stranger}]
    /\ load \in [Adapters -> {"none", "up", "exited", "gone"}]
    /\ tree \in [Adapters -> {"none", "parent", "there", "husk", "removed"}]
    /\ threads \subseteq Adapters \X ThreadPlaces
    /\ struck \subseteq Adapters \X Places
    /\ stuck \subseteq Adapters /\ littered \subseteq Adapters

Init ==
    /\ kind \in [Adapters -> Kinds]
    /\ mode = "opening" /\ turn = 1 /\ at = "idle" /\ late = FALSE
    /\ kept = [s \in Adapters |-> {}]
    /\ port = [s \in Adapters |-> NoPort]
    /\ holder = [p \in Ports |-> Free]
    /\ load = [s \in Adapters |-> "none"]
    /\ tree = [s \in Adapters |-> "none"]
    /\ threads = {} /\ struck = {} /\ stuck = {} /\ littered = {}

-----------------------------------------------------------------------------
(* The exit stack of an adapter: what was pushed last is undone first.       *)

StopPlace(s) == IF kind[s] = "docker" THEN "stop" ELSE "terminate"

NextOfFirstPushed(s, stack) ==
    IF "tree" \in stack THEN "prune"
    ELSE IF "load" \in stack THEN StopPlace(s)
    ELSE IF "inner" \in stack THEN "closeInner" ELSE "closed"

NextOf(s, stack) ==
    IF "inner" \in stack THEN "closeInner"
    ELSE IF "load" \in stack THEN StopPlace(s)
    ELSE IF "tree" \in stack THEN "prune" ELSE "closed"

RaiseAtOnce(s) == at' = "closed" /\ late' = FALSE

\* `except BaseException: await stack.aclose(); raise`
Raise(s) == at' = NextOf(s, kept[s]) /\ late' = FALSE

\* A callback ended, with or without an exception: the next one is due.
Undone(s, what) ==
    /\ kept' = [kept EXCEPT ![s] = @ \ {what}]
    /\ at' = NextOf(s, kept[s] \ {what})

\* The step of a thread: of the coroutine that awaits it, or of nobody.
Awaited(s, place) == turn = s /\ at = place /\ UNCHANGED threads
Left(s, place) == <<s, place>> \in threads /\ threads' = threads \ {<<s, place>>}

Push(s, what) == kept' = [kept EXCEPT ![s] = @ \cup {what}]

-----------------------------------------------------------------------------
(* __aenter__                                                                *)

\* _find_free_port binds a port, and lets it go before it returns.
PickPort(s) == \E p \in Ports : holder[p] = Free /\ port' = [port EXCEPT ![s] = p]

EnterDocker(s) ==
    /\ turn = s /\ mode = "opening" /\ at = "idle" /\ kind[s] = "docker"
    /\ at' = "image"
    /\ UNCHANGED <<kind, mode, turn, late, adapter, world, threads, struck, failed>>

EnterBranch(s) ==
    /\ turn = s /\ mode = "opening" /\ at = "idle" /\ kind[s] = "branch"
    /\ PickPort(s)
    /\ at' = "worktree"
    /\ UNCHANGED <<kind, mode, turn, late, kept, world, threads, struck, failed>>

\* The image is there, or was pulled.
EnsureImage(s) ==
    /\ \/ Awaited(s, "image") /\ PickPort(s) /\ at' = "start"
       \/ Left(s, "image") /\ UNCHANGED <<at, port>>
    /\ UNCHANGED <<kind, mode, turn, late, kept, world, struck, failed>>

RunContainerUnpublished(s) ==
    /\ \/ Awaited(s, "start") /\ at' = "status" /\ Push(s, "load")
       \/ Left(s, "start") /\ UNCHANGED <<at, kept>>
    /\ load' = [load EXCEPT ![s] = "up"]
    /\ holder' = [holder EXCEPT ![port[s]] = IF @ = Free THEN s ELSE @]
    /\ UNCHANGED <<kind, mode, turn, late, port, tree, struck, failed>>

\* `docker run` binds the port: it fails if somebody else listens there.
RunContainer(s) ==
    /\ \/ Awaited(s, "start") /\ at' = "status" /\ Push(s, "load")
       \/ Left(s, "start") /\ UNCHANGED <<at, kept>>
    /\ holder[port[s]] = Free
    /\ load' = [load EXCEPT ![s] = "up"]
    /\ holder' = [holder EXCEPT ![port[s]] = s]
    /\ UNCHANGED <<kind, mode, turn, late, port, tree, struck, failed>>

RunContainerFails(s) ==
    /\ \/ Awaited(s, "start") /\ Raise(s)
       \/ Left(s, "start") /\ UNCHANGED <<at, late>>
    /\ holder[port[s]] # Free \/ "start" \in Faults
    /\ UNCHANGED <<kind, mode, turn, adapter, world, struck, failed>>

AddWorktree(s) ==
    /\ \/ Awaited(s, "worktree") /\ at' = "spawn" /\ Push(s, "tree")
       \/ Left(s, "worktree") /\ UNCHANGED <<at, kept>>
    /\ tree' = [tree EXCEPT ![s] = "there"]
    /\ UNCHANGED <<kind, mode, turn, late, port, holder, load, struck, failed>>

\* No port is free, no such image, no such branch, no such command.
StartFails(s) ==
    /\ "start" \in Faults
    /\ \/ turn = s /\ at \in {"image", "worktree", "spawn"} /\ Raise(s) /\ UNCHANGED threads
       \/ \E p \in {"image", "worktree"} : Left(s, p) /\ UNCHANGED <<at, late>>
    /\ UNCHANGED <<kind, mode, turn, adapter, world, struck, failed>>

\* The temporary directory was made, and git would not add a worktree there: the
\* branch is checked out elsewhere, or the disk is full.
AddWorktreeFails(s) ==
    /\ "disk" \in Faults
    /\ \/ Awaited(s, "worktree") /\ Raise(s)
       \/ Left(s, "worktree") /\ UNCHANGED <<at, late>>
    /\ tree' = [tree EXCEPT ![s] = "parent"]
    /\ littered' = littered \cup {s}
    /\ UNCHANGED <<kind, mode, turn, adapter, holder, load, struck, stuck>>

Spawn(s) ==
    /\ Awaited(s, "spawn")
    /\ at' = "status"
    /\ Push(s, "load")
    /\ load' = [load EXCEPT ![s] = "up"]
    /\ UNCHANGED <<kind, mode, turn, late, port, holder, tree, struck, failed>>

-----------------------------------------------------------------------------
(* _wait_for_healthcheck                                                     *)

\* The status of a container that exited, until docker has removed it
\* (remove=True): then there is none, which is taken for "not yet".  The
\* returncode of a process, once the event loop has seen its end.
SeenOver(s) == load[s] = IF kind[s] = "docker" THEN "exited" ELSE "gone"

ReadStatus(s) ==
    /\ \/ Awaited(s, "status")
          /\ IF SeenOver(s) THEN Raise(s) ELSE at' = "request" /\ UNCHANGED late
       \/ Left(s, "status") /\ UNCHANGED <<at, late>>
    /\ UNCHANGED <<kind, mode, turn, adapter, world, struck, failed>>

\* Whoever listens there may answer with a 2xx.
Healthy(s) ==
    /\ turn = s /\ at = "request"
    /\ holder[port[s]] # Free
    /\ at' = "inner" /\ late' = FALSE
    /\ UNCHANGED <<kind, mode, turn, adapter, world, threads, struck, failed>>

NotHealthyNoDeadline(s) ==
    /\ turn = s /\ at = "request"
    /\ at' = "status"
    /\ UNCHANGED <<kind, mode, turn, late, adapter, world, threads, struck, failed>>

\* The status is looked at before the request and the clock after it.
NotHealthy(s) ==
    /\ turn = s /\ at = "request"
    /\ IF late THEN Raise(s) ELSE at' = "status" /\ UNCHANGED late
    /\ UNCHANGED <<kind, mode, turn, adapter, world, threads, struck, failed>>

DeadlinePasses ==
    /\ at \in {"status", "request"} /\ ~late
    /\ late' = TRUE
    /\ UNCHANGED <<kind, mode, turn, at, adapter, world, threads, struck, failed>>

\* The inner adapter is built for the port and entered: the adapter is open.
OpenInner(s) ==
    /\ turn = s /\ at = "inner"
    /\ Push(s, "inner")
    /\ at' = "idle"
    /\ IF s = N THEN mode' = "running" /\ UNCHANGED turn ELSE turn' = s + 1 /\ UNCHANGED mode
    /\ UNCHANGED <<kind, late, port, world, threads, struck, failed>>

OpenInnerFails(s) ==
    /\ "inner" \in Faults
    /\ turn = s /\ at = "inner"
    /\ Raise(s)
    /\ UNCHANGED <<kind, mode, turn, adapter, world, threads, struck, failed>>

-----------------------------------------------------------------------------
(* __aexit__, and the unwinding of an __aenter__ that failed                 *)

CloseInner(s) ==
    /\ turn = s /\ at = "closeInner"
    /\ Undone(s, "inner")
    /\ UNCHANGED <<kind, mode, turn, late, port, world, threads, struck, failed>>

Released(s) == [p \in Ports |-> IF holder[p] = s THEN Free ELSE holder[p]]

\* Stop and remove, or neither: both exceptions are suppressed.
StopContainer(s) ==
    /\ \/ Awaited(s, "stop") /\ Undone(s, "load")
       \/ Left(s, "stop") /\ UNCHANGED <<at, kept>>
    /\ \/ /\ load' = [load EXCEPT ![s] = "gone"]
          /\ holder' = Released(s)
          /\ UNCHANGED stuck
       \/ "stop" \in Faults /\ stuck' = stuck \cup {s} /\ UNCHANGED <<holder, load>>
    /\ UNCHANGED <<kind, mode, turn, late, port, tree, struck, littered>>

\* The process was over before, or was sent SIGTERM, or SIGKILL, and its end
\* was seen.
ProcessWaited(s) ==
    /\ turn = s /\ at \in {"terminate", "kill"} /\ load[s] = "gone"
    /\ Undone(s, "load")
    /\ UNCHANGED <<kind, mode, turn, late, port, world, threads, struck, failed>>

WaitTimesOut(s) ==
    /\ turn = s /\ at = "terminate"
    /\ at' = "kill"
    /\ UNCHANGED <<kind, mode, turn, late, adapter, world, threads, struck, failed>>

\* The directory, its parent and the registration, or what can be removed of them:
\* every error is ignored.
Prune(s) ==
    /\ \/ Awaited(s, "prune") /\ Undone(s, "tree")
       \/ Left(s, "prune") /\ UNCHANGED <<at, kept>>
    /\ \/ tree' = [tree EXCEPT ![s] = "removed"] /\ UNCHANGED littered
       \/ /\ "disk" \in Faults
          /\ \E rest \in {"there", "husk"} : tree' = [tree EXCEPT ![s] = rest]
          /\ littered' = littered \cup {s}
    /\ UNCHANGED <<kind, mode, turn, late, port, holder, load, struck, stuck>>

\* The exit stack of the run goes on with the adapter entered before.
Closed(s) ==
    /\ turn = s /\ at = "closed"
    /\ turn' = s - 1
    /\ IF s = 1
       THEN mode' = "done" /\ at' = "idle"
       ELSE mode' = "closing" /\ at' = NextOf(s - 1, kept[s - 1])
    /\ UNCHANGED <<kind, late, adapter, world, threads, struck, failed>>

-----------------------------------------------------------------------------
(* The run, Ctrl-C, and the world.                                           *)

CellsEnd ==
    /\ mode = "running"
    /\ mode' = "closing" /\ at' = NextOf(N, kept[N])
    /\ UNCHANGED <<kind, turn, late, adapter, world, threads, struck, failed>>

\* What the coroutine does with the CancelledError: __aenter__ unwinds; a
\* callback of the exit stack is over, and the SIGKILL that follows only on a
\* TimeoutError is not sent.  A thread it awaited goes on; a command that was
\* being spawned is killed by asyncio.
UndoneBy(place) ==
    IF place = "closeInner" THEN "inner" ELSE IF place = "prune" THEN "tree" ELSE "load"

Cancel ==
    /\ "cancel" \in Faults /\ struck = {}
    /\ mode # "done" /\ at # "closed"
    /\ at = "idle" => mode = "running"
    /\ struck' = {<<turn, at>>}
    /\ threads' = IF at \in ThreadPlaces /\ (at = "status" => kind[turn] = "docker")
                  THEN threads \cup {<<turn, at>>} ELSE threads
    /\ \/ at \in Opening /\ Raise(turn) /\ UNCHANGED <<mode, kept>>
       \/ at \in Closing /\ Undone(turn, UndoneBy(at)) /\ UNCHANGED <<mode, late>>
       \/ at = "idle" /\ mode' = "closing" /\ Raise(turn) /\ UNCHANGED kept
    /\ UNCHANGED <<kind, turn, port, world, failed>>

\* The command of git_branch binds the port it was told, when it gets there.
Bind(s) ==
    /\ kind[s] = "branch" /\ load[s] = "up" /\ holder[port[s]] = Free
    /\ holder' = [holder EXCEPT ![port[s]] = s]
    /\ UNCHANGED <<kind, mode, turn, at, late, adapter, load, tree, threads, struck, failed>>

\* A service ends: it crashed, could not bind its port, or took its SIGTERM.
MayEnd(s) ==
    \/ "crash" \in Faults
    \/ turn = s /\ at \in {"terminate", "kill"}
    \/ holder[port[s]] \notin {Free, s}

Ends(s) ==
    /\ load[s] = "up" /\ MayEnd(s)
    /\ load' = [load EXCEPT ![s] = "exited"]
    /\ holder' = Released(s)
    /\ UNCHANGED <<kind, mode, turn, at, late, adapter, tree, threads, struck, failed>>

\* docker removes the container; the event loop sees the end of the process.
Reaped(s) ==
    /\ load[s] = "exited"
    /\ load' = [load EXCEPT ![s] = "gone"]
    /\ UNCHANGED <<kind, mode, turn, at, late, adapter, holder, tree, threads, struck, failed>>

\* Another process of the host listens on a port that is free.  A bound: one
\* such port, so the kernel has another one to hand out.
StrangerBinds(p) ==
    /\ "stranger" \in Faults /\ holder[p] = Free
    /\ \A q \in Ports : holder[q] # Stranger
    /\ holder' = [holder EXCEPT ![p] = Stranger]
    /\ UNCHANGED <<kind, mode, turn, at, late, adapter, load, tree, threads, struck, failed>>

Enter(s) == EnterDocker(s) \/ EnterBranch(s) \/ Spawn(s) \/ OpenInner(s) \/ OpenInnerFails(s)
Thread(s) ==
    \/ EnsureImage(s) \/ RunContainer(s) \/ RunContainerFails(s) \/ AddWorktree(s)
    \/ AddWorktreeFails(s) \/ StartFails(s) \/ ReadStatus(s) \/ StopContainer(s) \/ Prune(s)
Probe(s) == Healthy(s) \/ NotHealthy(s)
Exit(s) == CloseInner(s) \/ ProcessWaited(s) \/ WaitTimesOut(s) \/ Closed(s)
Driver == CellsEnd \/ DeadlinePasses
World(s) == Bind(s) \/ Ends(s) \/ Reaped(s)

Terminated == mode = "done" /\ threads = {} /\ UNCHANGED vars

Next ==
    \/ \E s \in Adapters : Enter(s) \/ Thread(s) \/ Probe(s) \/ Exit(s) \/ World(s)
    \/ Driver
    \/ Cancel
    \/ \E p \in Ports : StrangerBinds(p)
    \/ Terminated

\* The event loop and the threads go on; the clock reaches a deadline; a process
\* that was sent SIGKILL ends, and its end is seen.  No service has to answer.
Fairness ==
    /\ WF_vars(Driver)
    /\ \A s \in Adapters :
          /\ WF_vars(Enter(s)) /\ WF_vars(Thread(s)) /\ WF_vars(Probe(s)) /\ WF_vars(Exit(s))
          /\ WF_vars(turn = s /\ at = "kill" /\ Ends(s))
          /\ WF_vars(Reaped(s))

Spec == Init /\ [][Next]_vars /\ Fairness

-----------------------------------------------------------------------------
(* Properties                                                                *)

\* An adapter at which Ctrl-C struck an await that starts something, or the
\* wait for a process.
StruckAt(s, places) == \E p \in places : <<s, p>> \in struck

\* What lies in the temporary directory or is registered in the repository.
Lying(s) == tree[s] \in {"parent", "there", "husk"}

\* When the run is over no container, process or worktree of an adapter is left:
\* whatever failed, whatever the order, and wherever Ctrl-C struck, but for what
\* docker would not stop, for a worktree that git or the disk would not add or
\* remove (git_branch_adapter.py:246-271), for an await struck that starts a
\* container or adds a worktree (docker_adapter.py:93, git_branch_adapter.py:112),
\* and for the wait before the SIGKILL.
NothingLeft ==
    mode = "done" /\ threads = {} =>
        \A s \in Adapters :
            /\ load[s] = "up" => s \in stuck \/ StruckAt(s, {"start", "terminate", "kill"})
            /\ Lying(s) => s \in littered \/ StruckAt(s, {"worktree"})

\* A worktree is removed under a process, be it in part, only if Ctrl-C struck the
\* wait for that process (git_branch_adapter.py:175-195).
NoProcessLosesItsTree ==
    [][\A s \in Adapters :
          tree[s] = "there" /\ tree'[s] \in {"husk", "removed"} /\ load[s] = "up"
              => StruckAt(s, {"terminate", "kill"})]_vars

\* A docker adapter opens on the container it started, unless that container is
\* gone: docker run refused the port otherwise (docker_adapter.py:177-182).
OpensOnItsContainer ==
    [][\A s \in Adapters :
          kind[s] = "docker" /\ turn = s /\ at = "request" /\ at' = "inner"
              => holder[port[s]] = s \/ load[s] \in {"exited", "gone"}]_vars

\* The run comes to its end, whatever its services do.
RunCloses == <>(mode = "done")
=============================================================================
