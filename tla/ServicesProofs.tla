--------------------------- MODULE ServicesProofs ---------------------------
(* What Services promises for any number of adapters of any kind, any ports   *)
(* and any failures, and SharedClients for any number of runs and variants of *)
(* any of the vendors.                                                        *)
(*                                                                            *)
(* Services: whatever an adapter started is on its exit stack, or in the      *)
(* hands of a thread, or is one of the two exceptions that NothingLeft names. *)
(* That this goes on until the stacks are empty rests on Ctrl-C striking      *)
(* once: an await that was struck is followed by nothing but the unwinding.   *)
(*                                                                            *)
(* SharedClients: the counts of the registries are right because everybody    *)
(* who holds something holds what the registry has, and a client drops its    *)
(* OTel client only together with its own entry.  Who holds a reference       *)
(* follows from how far the run is.                                           *)
EXTENDS Services, SharedClients, FiniteSetTheorems, TLAPS

\* Tuples of variables are always taken apart.
USE DEF adapter, world, failed, Lying

Starting == {"idle", "image", "worktree", "start", "spawn"}
Watching == {"status", "request", "inner"}

\* Where the run is.
Turns ==
    /\ mode = "done" <=> turn = 0
    /\ mode \in {"done", "running"} => at = "idle"
    /\ mode = "running" => turn = N
    /\ mode = "closing" => at \in Closing \cup {"closed"}
    /\ at \in Opening => mode = "opening"

\* Ctrl-C strikes once; what follows is the unwinding.
Strikes ==
    /\ threads \subseteq struck
    /\ \A x, y \in struck : x = y
    /\ struck # {} => at \in Closing \cup {"closed"} \/ mode = "done"

OfKind(s, spot) ==
    /\ spot \in {"image", "start", "stop"} => kind[s] = "docker"
    /\ spot \in {"worktree", "spawn", "terminate", "kill", "prune"} => kind[s] = "branch"

KindsFit ==
    /\ turn \in Adapters => OfKind(turn, at)
    /\ \A strike \in struck : OfKind(strike[1], strike[2])
    /\ \A s \in Adapters :
          /\ s \in stuck => kind[s] = "docker"
          /\ "tree" \in kept[s] \/ tree[s] # "none" => kind[s] = "branch"

\* What the exit stacks hold, and not any more.
Stacks ==
    /\ \A s \in Adapters :
          /\ s > turn => kept[s] = {}
          /\ <<s, "prune">> \in struck => "load" \notin kept[s]
    /\ at = "closed" => kept[turn] = {}
    /\ at = "prune" => "load" \notin kept[turn]

\* Somebody will take down what is up of an adapter, or nobody can.
Goes(s) ==
    /\ load[s] = "up" =>
          \/ "load" \in kept[s] \/ <<s, "stop">> \in threads
          \/ s \in stuck \/ StruckAt(s, {"start", "terminate", "kill"})
    /\ Lying(s) =>
          \/ "tree" \in kept[s] \/ <<s, "prune">> \in threads
          \/ s \in littered \/ StruckAt(s, {"worktree"})

WillGo == \A s \in Adapters : Goes(s)

\* The adapters that the run has not come to start.
Unstarted(s) ==
    mode = "opening" /\ ((at \in Starting /\ s >= turn) \/ (at \in Watching /\ s > turn))

\* A container that is up listens on its port.
Served ==
    /\ \A s \in Adapters :
          /\ kind[s] = "docker" /\ load[s] = "up" => port[s] \in Ports /\ holder[port[s]] = s
          /\ <<s, "start">> \in struck => port[s] \in Ports
          /\ Unstarted(s) => load[s] = "none"
    /\ at = "start" => port[turn] \in Ports
    /\ at \in Watching => load[turn] # "none"

IInv == TypeOK /\ Turns /\ Strikes /\ KindsFit /\ Stacks /\ WillGo /\ Served

-----------------------------------------------------------------------------
(* The exit stack of an adapter.                                             *)

Due == {"closeInner", "stop", "terminate", "prune", "closed"}

LEMMA NextOfFacts ==
    \A s, stack :
        /\ NextOf(s, stack) \in Due
        /\ NextOf(s, stack) = "closed" => stack \cap {"tree", "load", "inner"} = {}
        /\ NextOf(s, stack) = "prune" => "load" \notin stack /\ "tree" \in stack
        /\ NextOf(s, stack) = "stop" => kind[s] = "docker"
        /\ NextOf(s, stack) = "terminate" => kind[s] # "docker"
<1> SUFFICES ASSUME NEW s, NEW stack
             PROVE  /\ NextOf(s, stack) \in Due
                    /\ NextOf(s, stack) = "closed" => stack \cap {"tree", "load", "inner"} = {}
                    /\ NextOf(s, stack) = "prune" => "load" \notin stack /\ "tree" \in stack
                    /\ NextOf(s, stack) = "stop" => kind[s] = "docker"
                    /\ NextOf(s, stack) = "terminate" => kind[s] # "docker"
  OBVIOUS
<1> QED BY DEF NextOf, StopPlace, Due

-----------------------------------------------------------------------------
(* Types.                                                                    *)

LEMMA TypeInit == Init => TypeOK
<1> SUFFICES ASSUME Init PROVE TypeOK
  OBVIOUS
<1>1. kind \in [Adapters -> Kinds] /\ mode = "opening" /\ at \in Places
  BY DEF Init, Places
<1>5. turn \in 0..N
  BY NAssumption DEF Init
<1>6. late \in BOOLEAN
  BY DEF Init
<1>2. /\ kept \in [Adapters -> SUBSET {"tree", "load", "inner"}]
      /\ port \in [Adapters -> Ports \cup {NoPort}]
      /\ holder \in [Ports -> Adapters \cup {Free, Stranger}]
  BY DEF Init
<1>3. /\ load \in [Adapters -> {"none", "up", "exited", "gone"}]
      /\ tree \in [Adapters -> {"none", "parent", "there", "husk", "removed"}]
  BY DEF Init
<1>4. threads = {} /\ struck = {} /\ stuck = {} /\ littered = {}
  BY DEF Init
<1> QED BY <1>1, <1>2, <1>3, <1>4, <1>5, <1>6 DEF TypeOK

LEMMA LateStep == late \in BOOLEAN /\ [Next]_vars => late' \in BOOLEAN
<1> SUFFICES ASSUME [Next]_vars PROVE late' = late \/ late' = TRUE \/ late' = FALSE
  OBVIOUS
<1>1. ASSUME NEW s \in Adapters, Enter(s) \/ Thread(s) \/ Probe(s) PROVE late' = late \/ late' = FALSE
  BY <1>1, Zenon DEF Enter, EnterDocker, EnterBranch, Spawn, OpenInner, OpenInnerFails, Thread, EnsureImage,
        RunContainer, RunContainerFails, AddWorktree, StartFails, AddWorktreeFails, ReadStatus, StopContainer, Prune, Probe,
        Healthy, NotHealthy, Raise
<1>2. ASSUME NEW s \in Adapters, Exit(s) \/ World(s) PROVE late' = late
  BY <1>2, Zenon DEF Exit, CloseInner, ProcessWaited, WaitTimesOut, Closed, World, Bind, Ends, Reaped
<1>3. CASE Driver \/ Cancel
  BY <1>3, Zenon DEF Driver, CellsEnd, DeadlinePasses, Cancel, Raise
<1>4. CASE (\E p \in Ports : StrangerBinds(p)) \/ UNCHANGED vars
  BY <1>4, Zenon DEF StrangerBinds, vars
<1> QED BY <1>1, <1>2, <1>3, <1>4, Zenon DEF Next, Terminated

LEMMA TypeStep == TypeOK /\ Turns /\ [Next]_vars => TypeOK'
<1> SUFFICES ASSUME TypeOK, Turns, [Next]_vars PROVE TypeOK'
  OBVIOUS
<1> DEFINE Typed ==
        /\ kind \in [Adapters -> Kinds]
        /\ mode \in {"opening", "running", "closing", "done"} /\ turn \in 0..N /\ at \in Places
        /\ kept \in [Adapters -> SUBSET {"tree", "load", "inner"}]
        /\ port \in [Adapters -> Ports \cup {NoPort}]
        /\ holder \in [Ports -> Adapters \cup {Free, Stranger}]
        /\ load \in [Adapters -> {"none", "up", "exited", "gone"}]
        /\ tree \in [Adapters -> {"none", "parent", "there", "husk", "removed"}]
        /\ threads \subseteq Adapters \X ThreadPlaces /\ struck \subseteq Adapters \X Places
        /\ stuck \subseteq Adapters /\ littered \subseteq Adapters
<1> SUFFICES Typed'
  BY LateStep DEF TypeOK
<1>12. Typed
  BY DEF TypeOK
<1>0. \A s, stack : NextOf(s, stack) \in Places
  BY NextOfFacts DEF Due, Places, Opening, Closing
<1>1. ASSUME NEW s \in Adapters, Enter(s) PROVE Typed'
  <2>1. CASE EnterDocker(s) \/ EnterBranch(s) \/ OpenInnerFails(s)
    BY <1>0, <1>12, <2>1 DEF EnterDocker, EnterBranch, OpenInnerFails, Raise, PickPort, Places, Opening
  <2>2. CASE Spawn(s)
    BY <1>12, <2>2 DEF Spawn, Push, Awaited, Places, Opening
  <2>3. CASE OpenInner(s)
    <3>1. at' \in Places /\ mode' \in {"opening", "running", "closing", "done"} /\ turn' \in 0..N
      BY <1>12, <2>3, NAssumption DEF OpenInner, Adapters, Places
    <3> QED BY <1>12, <2>3, <3>1 DEF OpenInner, Push
  <2> QED BY <1>1, <2>1, <2>2, <2>3 DEF Enter
<1>2. ASSUME NEW s \in Adapters, EnsureImage(s) \/ StartFails(s) \/ AddWorktreeFails(s) \/ RunContainerFails(s) \/ ReadStatus(s)
      PROVE Typed'
  BY <1>12, <1>0, <1>2 DEF EnsureImage, StartFails, AddWorktreeFails, RunContainerFails, ReadStatus, Raise, PickPort, Awaited, Left,
        Places, Opening
<1>3. ASSUME NEW s \in Adapters, RunContainer(s) \/ AddWorktree(s) PROVE Typed'
  BY <1>12, <1>3 DEF RunContainer, AddWorktree, Awaited, Left, Push, Places, Opening
<1>4. ASSUME NEW s \in Adapters, StopContainer(s) \/ Prune(s) PROVE Typed'
  BY <1>12, <1>0, <1>4 DEF StopContainer, Prune, Awaited, Left, Undone, Released
<1>5. ASSUME NEW s \in Adapters, Probe(s) PROVE Typed'
  BY <1>12, <1>0, <1>5 DEF Probe, Healthy, NotHealthy, Raise, Places, Opening
<1>6. ASSUME NEW s \in Adapters, Exit(s) PROVE Typed'
  <2>1. CASE CloseInner(s) \/ ProcessWaited(s)
    BY <1>0, <1>12, <2>1 DEF CloseInner, ProcessWaited, Undone
  <2>2. CASE WaitTimesOut(s)
    BY <1>12, <2>2 DEF WaitTimesOut, Places, Closing
  <2>3. CASE Closed(s)
    <3>1. at' \in Places /\ mode' \in {"opening", "running", "closing", "done"} /\ turn' \in 0..N
      BY <1>0, <1>12, <2>3, NAssumption DEF Closed, Adapters, Places
    <3> QED BY <1>12, <2>3, <3>1 DEF Closed
  <2> QED BY <1>6, <2>1, <2>2, <2>3 DEF Exit
<1>7. ASSUME NEW s \in Adapters, World(s) PROVE Typed'
  BY <1>12, <1>7 DEF World, Bind, Ends, Reaped, Released
<1>8. CASE Driver
  BY <1>12, <1>0, <1>8 DEF Driver, CellsEnd, DeadlinePasses
<1>9. CASE Cancel
  <2>1. turn \in Adapters
    BY <1>9, <1>12, NAssumption DEF Cancel, Turns, Adapters
  <2>2. threads' \subseteq Adapters \X ThreadPlaces /\ struck' \subseteq Adapters \X Places
    BY <1>9, <1>12, <2>1 DEF Cancel
  <2> QED BY <1>0, <1>9, <1>12, <2>1, <2>2 DEF Cancel, Raise, Undone
<1>10. CASE \E p \in Ports : StrangerBinds(p)
  BY <1>12, <1>10 DEF StrangerBinds
<1>11. CASE UNCHANGED vars
  BY <1>12, <1>11 DEF vars
<1> QED BY <1>12, <1>1, <1>2, <1>3, <1>4, <1>5, <1>6, <1>7, <1>8, <1>9, <1>10, <1>11
        DEF Next, Thread, Terminated

-----------------------------------------------------------------------------
(* Where the run is, and what a strike is followed by.                       *)

\* An adapter goes on opening, or begins to unwind.
OpensOn ==
    /\ UNCHANGED <<mode, turn>>
    /\ mode = "opening" /\ at \in Opening \cup {"idle"} /\ at' \in Opening \cup Due

\* An adapter goes on closing.
ClosesOn == UNCHANGED <<mode, turn>> /\ at \in Closing /\ at' \in Due \cup {"kill"}

Opens ==
    /\ mode = "opening" /\ at = "inner" /\ at' = "idle"
    /\ \/ turn = N /\ turn' = turn /\ mode' = "running"
       \/ turn # N /\ turn' = turn + 1 /\ mode' = mode

Leaves ==
    /\ turn \in Adapters /\ at = "closed" /\ turn' = turn - 1
    /\ \/ turn = 1 /\ mode' = "done" /\ at' = "idle"
       \/ turn # 1 /\ mode' = "closing" /\ at' \in Due

Returns == mode = "running" /\ mode' = "closing" /\ turn' = turn /\ at' \in Due

LEMMA Moves ==
    ASSUME TypeOK, Turns, [Next]_vars
    PROVE  UNCHANGED <<mode, turn, at>> \/ OpensOn \/ ClosesOn \/ Opens \/ Leaves \/ Returns
<1> USE DEF Turns
<1>0. \A s, stack : NextOf(s, stack) \in Due
  BY NextOfFacts
<1>1. ASSUME NEW s \in Adapters, Enter(s)
      PROVE  OpensOn \/ Opens
  BY <1>0, <1>1 DEF Enter, EnterDocker, EnterBranch, Spawn, OpenInner, OpenInnerFails, Raise, Awaited,
        OpensOn, Opens, Opening
<1>2. ASSUME NEW s \in Adapters, EnsureImage(s) \/ StartFails(s) \/ AddWorktreeFails(s) \/ RunContainerFails(s) \/ ReadStatus(s)
      PROVE  OpensOn \/ UNCHANGED <<mode, turn, at>>
  BY <1>0, <1>2 DEF EnsureImage, StartFails, AddWorktreeFails, RunContainerFails, ReadStatus, Raise, Awaited, Left,
        OpensOn, Opening
<1>3. ASSUME NEW s \in Adapters, RunContainer(s) \/ AddWorktree(s)
      PROVE  OpensOn \/ UNCHANGED <<mode, turn, at>>
  BY <1>3 DEF RunContainer, AddWorktree, Awaited, Left, OpensOn, Opening
<1>4. ASSUME NEW s \in Adapters, StopContainer(s) \/ Prune(s)
      PROVE  ClosesOn \/ UNCHANGED <<mode, turn, at>>
  BY <1>0, <1>4 DEF StopContainer, Prune, Awaited, Left, Undone, ClosesOn, Closing
<1>5. ASSUME NEW s \in Adapters, Probe(s) PROVE OpensOn
  BY <1>0, <1>5 DEF Probe, Healthy, NotHealthy, Raise, OpensOn, Opening
<1>6. ASSUME NEW s \in Adapters, CloseInner(s) \/ ProcessWaited(s) \/ WaitTimesOut(s) PROVE ClosesOn
  BY <1>0, <1>6 DEF CloseInner, ProcessWaited, WaitTimesOut, Undone, ClosesOn, Closing
<1>7. ASSUME NEW s \in Adapters, Closed(s) PROVE Leaves
  BY <1>0, <1>7 DEF Closed, Leaves
<1>8. ASSUME NEW s \in Adapters, World(s) PROVE UNCHANGED <<mode, turn, at>>
  BY <1>8 DEF World, Bind, Ends, Reaped
<1>9. CASE Driver
  BY <1>0, <1>9 DEF Driver, CellsEnd, DeadlinePasses, Returns
<1>10. CASE Cancel
  BY <1>0, <1>10 DEF Cancel, Raise, Undone, OpensOn, ClosesOn, Returns
<1>11. CASE (\E p \in Ports : StrangerBinds(p)) \/ UNCHANGED vars
  BY <1>11 DEF StrangerBinds, vars
<1> QED BY <1>1, <1>2, <1>3, <1>4, <1>5, <1>6, <1>7, <1>8, <1>9, <1>10, <1>11
        DEF Next, Thread, Exit, Terminated

LEMMA TurnsStep == TypeOK /\ Turns /\ [Next]_vars => Turns'
<1> SUFFICES ASSUME TypeOK, Turns, [Next]_vars PROVE Turns'
  OBVIOUS
<1>1. turn \in 0..N /\ N \in Nat \ {0}
  BY NAssumption DEF TypeOK
<1>2. Due \subseteq Closing \cup {"closed"} /\ "kill" \in Closing /\ (Closing \cup {"closed"}) \cap Opening = {}
      /\ "idle" \notin Opening \cup Closing
  BY DEF Due, Closing, Opening
<1>3. CASE UNCHANGED <<mode, turn, at>>
  BY <1>3 DEF Turns
<1>4. CASE OpensOn
  BY <1>2, <1>4 DEF OpensOn, Turns
<1>5. CASE ClosesOn
  BY <1>2, <1>5 DEF ClosesOn, Turns
<1>6. CASE Opens
  BY <1>1, <1>2, <1>6 DEF Opens, Turns
<1>7. CASE Leaves
  BY <1>1, <1>2, <1>7 DEF Leaves, Turns, Adapters
<1>8. CASE Returns
  BY <1>2, <1>8 DEF Returns, Turns
<1> QED BY <1>3, <1>4, <1>5, <1>6, <1>7, <1>8, Moves

\* Only Ctrl-C strikes, and only it leaves threads behind.
LEMMA StrikesMove ==
    ASSUME Next
    PROVE  Cancel \/ (struck' = struck /\ threads' \subseteq threads)
<1>1. ASSUME NEW s \in Adapters, Enter(s) \/ Probe(s) \/ Exit(s) \/ World(s)
      PROVE  struck' = struck /\ threads' = threads
  BY <1>1 DEF Enter, EnterDocker, EnterBranch, Spawn, OpenInner, OpenInnerFails, Awaited, Probe, Healthy,
        NotHealthy, Exit, CloseInner, ProcessWaited, WaitTimesOut, Closed, World, Bind, Ends, Reaped
<1>2. ASSUME NEW s \in Adapters, Thread(s)
      PROVE  struck' = struck /\ threads' \subseteq threads
  BY <1>2 DEF Thread, EnsureImage, RunContainer, RunContainerFails, AddWorktree, StartFails, AddWorktreeFails, ReadStatus,
        StopContainer, Prune, Awaited, Left
<1>3. CASE Driver \/ (\E p \in Ports : StrangerBinds(p)) \/ Terminated
  BY <1>3 DEF Driver, CellsEnd, DeadlinePasses, StrangerBinds, Terminated, vars
<1>4. CASE \E s \in Adapters : Enter(s) \/ Thread(s) \/ Probe(s) \/ Exit(s) \/ World(s)
  BY <1>1, <1>2, <1>4
<1> QED BY <1>3, <1>4 DEF Next

LEMMA StrikesStep == TypeOK /\ Turns /\ Strikes /\ [Next]_vars => Strikes'
<1> SUFFICES ASSUME TypeOK, Turns, Strikes, [Next]_vars PROVE Strikes'
  OBVIOUS
<1>1. /\ Due \subseteq Closing \cup {"closed"} /\ "kill" \in Closing
      /\ "idle" \notin Opening \cup Closing /\ "inner" \in Opening
      /\ (Closing \cup {"closed"}) \cap Opening = {}
  BY DEF Due, Closing, Opening
<1>2. CASE Cancel
  <2>1. struck = {} /\ threads = {} /\ struck' = {<<turn, at>>}
    BY <1>2 DEF Cancel, Strikes
  <2>2. threads' \subseteq struck'
    BY <1>2, <2>1 DEF Cancel
  <2>3. at' \in Due
    BY <1>2, NextOfFacts DEF Cancel, Raise, Undone
  <2> QED BY <1>1, <2>1, <2>2, <2>3 DEF Strikes
<1>3. CASE struck' = struck /\ threads' \subseteq threads
  <2>1. ASSUME struck # {} PROVE at' \in Closing \cup {"closed"} \/ mode' = "done"
    BY <1>1, <2>1, Moves DEF Strikes, Turns, OpensOn, ClosesOn, Opens, Leaves, Returns
  <2> QED BY <1>3, <2>1 DEF Strikes
<1> QED BY <1>2, <1>3, StrikesMove DEF vars

-----------------------------------------------------------------------------
(* Containers are of docker adapters, worktrees and processes of git_branch. *)

LEMMA KindStays == ASSUME [Next]_vars PROVE kind' = kind
<1>1. ASSUME NEW s \in Adapters, Enter(s) \/ Probe(s) \/ Exit(s) \/ World(s) PROVE kind' = kind
  BY <1>1 DEF Enter, EnterDocker, EnterBranch, Spawn, OpenInner, OpenInnerFails, Probe, Healthy,
        NotHealthy, Exit, CloseInner, ProcessWaited, WaitTimesOut, Closed, World, Bind, Ends, Reaped
<1>2. ASSUME NEW s \in Adapters, Thread(s) PROVE kind' = kind
  BY <1>2 DEF Thread, EnsureImage, RunContainer, RunContainerFails, AddWorktree, StartFails, AddWorktreeFails, ReadStatus,
        StopContainer, Prune
<1>3. CASE Driver \/ Cancel \/ (\E p \in Ports : StrangerBinds(p)) \/ UNCHANGED vars
  BY <1>3 DEF Driver, CellsEnd, DeadlinePasses, Cancel, StrangerBinds, vars
<1>4. CASE \E s \in Adapters : Enter(s) \/ Thread(s) \/ Probe(s) \/ Exit(s) \/ World(s)
  BY <1>1, <1>2, <1>4
<1> QED BY <1>3, <1>4 DEF Next, Terminated

LEMMA DueFits ==
    ASSUME TypeOK, KindsFit, NEW s \in Adapters, NEW stack, stack \subseteq kept[s]
    PROVE  OfKind(s, NextOf(s, stack))
<1>1. kind[s] \in {"docker", "branch"}
  BY KindsAssumption DEF TypeOK
<1>2. "tree" \in stack => kind[s] = "branch"
  BY DEF KindsFit
<1> QED BY <1>1, <1>2, NextOfFacts DEF OfKind, Due

\* Where the run goes next fits the kind of the adapter.
LEMMA PlaceFits ==
    ASSUME TypeOK, Turns, KindsFit, [Next]_vars, turn' \in Adapters
    PROVE  OfKind(turn', at')
<1>0. \A s \in Adapters : \A stack : stack \subseteq kept[s] => OfKind(s, NextOf(s, stack))
  BY DueFits
<1>1. OfKind(turn, at) \/ turn \notin Adapters
  BY DEF KindsFit
<1>2. ASSUME NEW spot \in {"status", "request", "inner", "closeInner", "closed", "idle"}, NEW s
      PROVE  OfKind(s, spot)
  BY <1>2 DEF OfKind
<1>3. ASSUME NEW s \in Adapters, Enter(s) PROVE OfKind(turn', at')
  <2>1. CASE EnterDocker(s) \/ EnterBranch(s) \/ OpenInnerFails(s)
    BY <1>0, <2>1 DEF EnterDocker, EnterBranch, OpenInnerFails, Raise, OfKind
  <2>2. CASE Spawn(s) \/ OpenInner(s)
    BY <1>2, <2>2 DEF Spawn, OpenInner
  <2> QED BY <1>3, <2>1, <2>2 DEF Enter
<1>4. ASSUME NEW s \in Adapters, EnsureImage(s) \/ RunContainer(s) \/ AddWorktree(s)
      PROVE  OfKind(turn', at')
  BY <1>1, <1>4 DEF EnsureImage, RunContainer, AddWorktree, Awaited, Left, OfKind
<1>5. ASSUME NEW s \in Adapters, StartFails(s) \/ AddWorktreeFails(s) \/ RunContainerFails(s) \/ ReadStatus(s)
      PROVE  OfKind(turn', at')
  BY <1>0, <1>1, <1>2, <1>5 DEF StartFails, AddWorktreeFails, RunContainerFails, ReadStatus, Raise, Awaited, Left
<1>6. ASSUME NEW s \in Adapters, StopContainer(s) \/ Prune(s) \/ CloseInner(s) \/ ProcessWaited(s)
      PROVE  OfKind(turn', at')
  BY <1>0, <1>1, <1>6 DEF StopContainer, Prune, CloseInner, ProcessWaited, Undone, Awaited, Left
<1>7. ASSUME NEW s \in Adapters, Probe(s) \/ WaitTimesOut(s) PROVE OfKind(turn', at')
  BY <1>0, <1>1, <1>7 DEF Probe, Healthy, NotHealthy, WaitTimesOut, Raise, OfKind
<1>8. ASSUME NEW s \in Adapters, Closed(s) PROVE OfKind(turn', at')
  <2>1. CASE s = 1
    BY <1>2, <1>8, <2>1 DEF Closed
  <2>2. CASE s # 1
    BY <1>0, <1>8, <2>2 DEF Closed
  <2> QED BY <2>1, <2>2
<1>9. ASSUME NEW s \in Adapters, World(s) PROVE OfKind(turn', at')
  BY <1>1, <1>9 DEF World, Bind, Ends, Reaped
<1>10. CASE Driver
  BY <1>0, <1>1, <1>10 DEF Driver, CellsEnd, DeadlinePasses, Turns
<1>11. CASE Cancel
  BY <1>0, <1>11 DEF Cancel, Raise, Undone
<1>12. CASE (\E p \in Ports : StrangerBinds(p)) \/ UNCHANGED vars
  BY <1>1, <1>12 DEF StrangerBinds, vars
<1> QED BY <1>3, <1>4, <1>5, <1>6, <1>7, <1>8, <1>9, <1>10, <1>11, <1>12
        DEF Next, Thread, Exit, Terminated

\* Only an adapter of the right kind gets a worktree or a stuck container.
LEMMA LoadsFit ==
    ASSUME TypeOK, Strikes, KindsFit, [Next]_vars, NEW s \in Adapters
    PROVE  /\ s \in stuck' => kind[s] = "docker"
           /\ "tree" \in kept'[s] \/ tree'[s] # "none" => kind[s] = "branch"
<1> USE DEF TypeOK
<1>1. /\ s \in stuck => kind[s] = "docker"
      /\ "tree" \in kept[s] \/ tree[s] # "none" => kind[s] = "branch"
  BY DEF KindsFit
<1>3. ASSUME NEW t \in Adapters, Enter(t)
      PROVE  tree' = tree /\ stuck' = stuck /\ ("tree" \in kept'[s] => "tree" \in kept[s])
  BY <1>3 DEF Enter, EnterDocker, EnterBranch, Spawn, OpenInner, OpenInnerFails, Push
<1>4. ASSUME NEW t \in Adapters, EnsureImage(t) \/ StartFails(t) \/ RunContainerFails(t) \/ ReadStatus(t)
                                 \/ Probe(t) \/ WaitTimesOut(t) \/ Closed(t) \/ World(t)
      PROVE  UNCHANGED <<tree, stuck, kept>>
  BY <1>4 DEF EnsureImage, StartFails, RunContainerFails, ReadStatus, Probe, Healthy, NotHealthy,
        WaitTimesOut, Closed, World, Bind, Ends, Reaped
<1>5. ASSUME NEW t \in Adapters, RunContainer(t) \/ CloseInner(t) \/ ProcessWaited(t)
      PROVE  tree' = tree /\ stuck' = stuck /\ ("tree" \in kept'[s] => "tree" \in kept[s])
  BY <1>5 DEF RunContainer, CloseInner, ProcessWaited, Push, Undone, Awaited, Left
<1>6. ASSUME NEW t \in Adapters, AddWorktree(t) \/ AddWorktreeFails(t) \/ Prune(t)
      PROVE  /\ stuck' = stuck
             /\ t # s => tree'[s] = tree[s] /\ kept'[s] = kept[s]
             /\ OfKind(t, "worktree") \/ OfKind(t, "prune")
  BY <1>6 DEF AddWorktree, AddWorktreeFails, Prune, Push, Undone, Awaited, Left, KindsFit, Strikes
<1>7. ASSUME NEW t \in Adapters, StopContainer(t)
      PROVE  /\ tree' = tree /\ ("tree" \in kept'[s] => "tree" \in kept[s])
             /\ stuck' \subseteq stuck \cup {t} /\ OfKind(t, "stop")
  BY <1>7 DEF StopContainer, Undone, Awaited, Left, KindsFit, Strikes
<1>8. CASE Driver \/ (\E p \in Ports : StrangerBinds(p)) \/ UNCHANGED vars
  BY <1>1, <1>8 DEF Driver, CellsEnd, DeadlinePasses, StrangerBinds, vars
<1>9. CASE Cancel
  BY <1>1, <1>9 DEF Cancel, Undone
<1>10. CASE \E t \in Adapters : Enter(t) \/ Thread(t) \/ Probe(t) \/ Exit(t) \/ World(t)
  BY <1>1, <1>3, <1>4, <1>5, <1>6, <1>7, <1>10 DEF Thread, Exit, OfKind
<1> QED BY <1>8, <1>9, <1>10 DEF Next, Terminated

LEMMA KindsStep == TypeOK /\ Turns /\ Strikes /\ KindsFit /\ [Next]_vars => KindsFit'
<1> SUFFICES ASSUME TypeOK, Turns, Strikes, KindsFit, [Next]_vars PROVE KindsFit'
  OBVIOUS
<1>1. kind' = kind
  BY KindStays
<1>2. turn' \in Adapters => OfKind(turn', at')
  BY PlaceFits
<1>3. ASSUME NEW strike \in struck' PROVE OfKind(strike[1], strike[2])
  <2>1. CASE Cancel
    <3>1. strike[1] = turn /\ strike[2] = at /\ turn \in Adapters
      BY <1>3, <2>1, NAssumption DEF Cancel, TypeOK, Turns, Adapters
    <3> QED BY <3>1 DEF KindsFit
  <2>2. CASE struck' = struck
    BY <1>3, <2>2 DEF KindsFit
  <2> QED BY <2>1, <2>2, StrikesMove DEF vars
<1>4. \A s \in Adapters :
         /\ s \in stuck' => kind[s] = "docker"
         /\ "tree" \in kept'[s] \/ tree'[s] # "none" => kind[s] = "branch"
  BY LoadsFit
<1> QED BY <1>1, <1>2, <1>3, <1>4 DEF KindsFit, OfKind

-----------------------------------------------------------------------------
(* The exit stacks.                                                          *)

\* Only the adapter that the run is in changes its stack, and it adds to it only
\* on its way in.
LEMMA KeptMoves ==
    ASSUME TypeOK, [Next]_vars, NEW s \in Adapters
    PROVE  /\ s # turn => kept'[s] = kept[s]
           /\ kept'[s] \subseteq kept[s] \/ at \in Opening
<1> USE DEF TypeOK
<1>1. ASSUME NEW t \in Adapters, Enter(t)
      PROVE  /\ s # turn => kept'[s] = kept[s]
             /\ kept'[s] \subseteq kept[s] \/ at \in Opening
  BY <1>1 DEF Enter, EnterDocker, EnterBranch, Spawn, OpenInner, OpenInnerFails, Push, Awaited, Opening
<1>2. ASSUME NEW t \in Adapters, RunContainer(t) \/ AddWorktree(t)
      PROVE  /\ s # turn => kept'[s] = kept[s]
             /\ kept'[s] \subseteq kept[s] \/ at \in Opening
  BY <1>2 DEF RunContainer, AddWorktree, Push, Awaited, Left, Opening
<1>3. ASSUME NEW t \in Adapters, EnsureImage(t) \/ StartFails(t) \/ AddWorktreeFails(t) \/ RunContainerFails(t) \/ ReadStatus(t)
                                 \/ Probe(t) \/ WaitTimesOut(t) \/ Closed(t) \/ World(t)
      PROVE  kept' = kept
  BY <1>3 DEF EnsureImage, StartFails, AddWorktreeFails, RunContainerFails, ReadStatus, Probe, Healthy, NotHealthy,
        WaitTimesOut, Closed, World, Bind, Ends, Reaped
<1>4. ASSUME NEW t \in Adapters, CloseInner(t) \/ ProcessWaited(t) \/ StopContainer(t) \/ Prune(t)
      PROVE  /\ s # turn => kept'[s] = kept[s]
             /\ kept'[s] \subseteq kept[s]
  BY <1>4 DEF CloseInner, ProcessWaited, StopContainer, Prune, Undone, Awaited, Left
<1>5. CASE Cancel
  BY <1>5 DEF Cancel, Undone
<1>6. CASE Driver \/ (\E p \in Ports : StrangerBinds(p)) \/ UNCHANGED vars
  BY <1>6 DEF Driver, CellsEnd, DeadlinePasses, StrangerBinds, vars
<1>7. CASE \E t \in Adapters : Enter(t) \/ Thread(t) \/ Probe(t) \/ Exit(t) \/ World(t)
  BY <1>1, <1>2, <1>3, <1>4, <1>7 DEF Thread, Exit
<1> QED BY <1>5, <1>6, <1>7 DEF Next, Terminated

LEMMA UndoneFacts ==
    ASSUME TypeOK, NEW s \in Adapters, NEW what, Undone(s, what)
    PROVE  at' = NextOf(s, kept'[s])
<1>1. kept'[s] = kept[s] \ {what}
  BY DEF Undone, TypeOK
<1> QED BY <1>1, Zenon DEF Undone

\* What is due is what is on the stack.
LEMMA DueNow ==
    ASSUME TypeOK, Turns, [Next]_vars, at' \in {"closed", "prune"}
    PROVE  \/ turn' \in Adapters /\ at' = NextOf(turn', kept'[turn'])
           \/ UNCHANGED <<at, turn, kept>>
<1> USE DEF TypeOK
<1>1. ASSUME NEW s \in Adapters, Enter(s) \/ Probe(s)
      PROVE  turn' \in Adapters /\ at' = NextOf(turn', kept'[turn'])
  <2>1. CASE EnterDocker(s) \/ EnterBranch(s) \/ Spawn(s) \/ OpenInner(s) \/ Healthy(s)
    BY <2>1 DEF EnterDocker, EnterBranch, Spawn, OpenInner, Awaited, Healthy
  <2>2. CASE OpenInnerFails(s) \/ NotHealthy(s)
    BY <2>2 DEF OpenInnerFails, NotHealthy, Raise
  <2> QED BY <1>1, <2>1, <2>2 DEF Enter, Probe
<1>2. ASSUME NEW s \in Adapters, EnsureImage(s) \/ RunContainer(s) \/ AddWorktree(s)
      PROVE  UNCHANGED <<at, turn, kept>>
  BY <1>2 DEF EnsureImage, RunContainer, AddWorktree, Awaited, Left
<1>3. ASSUME NEW s \in Adapters, StartFails(s) \/ AddWorktreeFails(s) \/ RunContainerFails(s) \/ ReadStatus(s)
      PROVE  (turn' \in Adapters /\ at' = NextOf(turn', kept'[turn'])) \/ UNCHANGED <<at, turn, kept>>
  BY <1>3 DEF StartFails, AddWorktreeFails, RunContainerFails, ReadStatus, Raise, Awaited, Left
<1>4. ASSUME NEW s \in Adapters, StopContainer(s) \/ Prune(s)
      PROVE  (turn' \in Adapters /\ at' = NextOf(turn', kept'[turn'])) \/ UNCHANGED <<at, turn, kept>>
  <2>1. CASE turn' = s
    BY <1>4, <2>1, UndoneFacts DEF StopContainer, Prune, Awaited, Left
  <2>2. CASE UNCHANGED <<at, turn, kept>>
    BY <2>2
  <2> QED BY <1>4, <2>1, <2>2 DEF StopContainer, Prune, Awaited, Left
<1>5. ASSUME NEW s \in Adapters, CloseInner(s) \/ ProcessWaited(s) \/ WaitTimesOut(s)
      PROVE  turn' \in Adapters /\ at' = NextOf(turn', kept'[turn'])
  BY <1>5, UndoneFacts DEF CloseInner, ProcessWaited, WaitTimesOut
<1>6. ASSUME NEW s \in Adapters, Closed(s)
      PROVE  turn' \in Adapters /\ at' = NextOf(turn', kept'[turn'])
  <2>1. s # 1 /\ s - 1 \in Adapters
    BY <1>6, NAssumption DEF Closed, Adapters
  <2> QED BY <1>6, <2>1 DEF Closed
<1>7. ASSUME NEW s \in Adapters, World(s) PROVE UNCHANGED <<at, turn, kept>>
  BY <1>7 DEF World, Bind, Ends, Reaped
<1>8. CASE Driver
  <2>1. N \in Adapters
    BY NAssumption DEF Adapters
  <2> QED BY <1>8, <2>1 DEF Driver, CellsEnd, DeadlinePasses, Turns
<1>9. CASE Cancel
  <2>1. turn \in Adapters
    BY <1>9, NAssumption DEF Cancel, Turns, Adapters
  <2> QED BY <1>9, <2>1 DEF Cancel, Raise, Undone
<1>10. CASE (\E p \in Ports : StrangerBinds(p)) \/ UNCHANGED vars
  BY <1>10 DEF StrangerBinds, vars
<1>11. CASE \E s \in Adapters : Enter(s) \/ Thread(s) \/ Probe(s) \/ Exit(s) \/ World(s)
  BY <1>1, <1>2, <1>3, <1>4, <1>5, <1>6, <1>7, <1>11 DEF Thread, Exit
<1> QED BY <1>8, <1>9, <1>10, <1>11 DEF Next, Terminated

LEMMA StacksStep == TypeOK /\ Turns /\ Strikes /\ Stacks /\ [Next]_vars => Stacks'
<1> SUFFICES ASSUME TypeOK, Turns, Strikes, Stacks, [Next]_vars PROVE Stacks'
  OBVIOUS
<1>1. \A s \in Adapters : /\ s # turn => kept'[s] = kept[s]
                          /\ kept'[s] \subseteq kept[s] \/ at \in Opening
  BY KeptMoves
<1>2. turn \in 0..N /\ N \in Nat \ {0} /\ "closed" \notin Opening /\ "idle" \notin Opening
  BY NAssumption DEF TypeOK, Opening
<1>3. ASSUME NEW s \in Adapters, s > turn' PROVE kept'[s] = {}
  <2>1. CASE s > turn
    <3>1. s # turn
      BY <1>2, <2>1 DEF Adapters
    <3>2. kept[s] = {}
      BY <2>1 DEF Stacks
    <3> QED BY <1>1, <3>1, <3>2
  <2>2. CASE ~(s > turn)
    <3>1. turn' < turn
      BY <1>2, <1>3, <2>2, Moves DEF OpensOn, ClosesOn, Opens, Leaves, Returns, Adapters
    <3>2. Leaves
      BY <1>2, <3>1, Moves DEF OpensOn, ClosesOn, Opens, Returns
    <3>3. s = turn /\ at = "closed"
      BY <1>2, <1>3, <2>2, <3>2 DEF Leaves, Adapters
    <3> QED BY <1>1, <1>2, <3>3 DEF Stacks
  <2> QED BY <2>1, <2>2
<1>4. ASSUME NEW s \in Adapters, <<s, "prune">> \in struck' PROVE "load" \notin kept'[s]
  <2>1. CASE struck' = struck
    <3>1. at \notin Opening
      BY <1>4, <2>1 DEF Strikes, Closing, Opening, Turns
    <3> QED BY <1>1, <1>4, <2>1, <3>1 DEF Stacks
  <2>2. CASE Cancel
    <3>1. s = turn /\ at = "prune"
      BY <1>4, <2>2 DEF Cancel
    <3> QED BY <1>1, <3>1 DEF Stacks, Opening
  <2> QED BY <2>1, <2>2, StrikesMove DEF vars
<1>5. /\ at' = "closed" => kept'[turn'] = {}
      /\ at' = "prune" => "load" \notin kept'[turn']
  <2>1. CASE UNCHANGED <<at, turn, kept>>
    BY <2>1 DEF Stacks
  <2>2. CASE turn' \in Adapters /\ at' = NextOf(turn', kept'[turn'])
    <3>1. kept'[turn'] \subseteq {"tree", "load", "inner"}
      BY <2>2, TypeStep DEF TypeOK
    <3> QED BY <2>2, <3>1, NextOfFacts
  <2> QED BY <2>1, <2>2, DueNow
<1> QED BY <1>3, <1>4, <1>5 DEF Stacks

-----------------------------------------------------------------------------
(* Who takes down what is up.                                                *)

\* A step that starts nothing of an adapter and takes nobody's duty to undo it.
Tame(s) ==
    /\ load'[s] = "up" => load[s] = "up"
    /\ Lying(s)' => Lying(s) \/ s \in littered'
    /\ \A what \in {"load", "tree"} : what \in kept[s] => what \in kept'[s]
    /\ \A spot \in {"stop", "prune"} : <<s, spot>> \in threads => <<s, spot>> \in threads'
    /\ stuck \subseteq stuck' /\ littered \subseteq littered' /\ struck' = struck

LEMMA TameGoes == ASSUME NEW s \in Adapters, Goes(s), Tame(s) PROVE Goes(s)'
  BY DEF Goes, Tame, StruckAt

LEMMA TameSteps ==
    ASSUME TypeOK, NEW s \in Adapters, NEW t \in Adapters,
           \/ EnterDocker(t) \/ EnterBranch(t) \/ OpenInner(t) \/ OpenInnerFails(t)
           \/ EnsureImage(t) \/ RunContainerFails(t) \/ StartFails(t) \/ AddWorktreeFails(t) \/ ReadStatus(t)
           \/ Probe(t) \/ CloseInner(t) \/ WaitTimesOut(t) \/ Closed(t) \/ World(t)
    PROVE  Tame(s)
<1> USE DEF TypeOK
<1>1. CASE EnterDocker(t) \/ EnterBranch(t) \/ OpenInnerFails(t) \/ Probe(t) \/ WaitTimesOut(t) \/ Closed(t)
  BY <1>1 DEF EnterDocker, EnterBranch, OpenInnerFails, Probe, Healthy, NotHealthy, WaitTimesOut, Closed, Tame
<1>2. CASE OpenInner(t) \/ CloseInner(t)
  BY <1>2 DEF OpenInner, CloseInner, Push, Undone, Tame
<1>3. CASE EnsureImage(t) \/ RunContainerFails(t) \/ StartFails(t) \/ AddWorktreeFails(t) \/ ReadStatus(t)
  BY <1>3 DEF EnsureImage, RunContainerFails, StartFails, AddWorktreeFails, ReadStatus, Awaited, Left, Tame
<1>4. CASE World(t)
  BY <1>4 DEF World, Bind, Ends, Reaped, Tame
<1> QED BY <1>1, <1>2, <1>3, <1>4

LEMMA GoesStep ==
    ASSUME TypeOK, Turns, Strikes, NEW s \in Adapters, Goes(s), [Next]_vars
    PROVE  Goes(s)'
<1> USE DEF TypeOK
<1>1. ASSUME NEW t \in Adapters, Spawn(t) PROVE Goes(s)'
  BY <1>1 DEF Spawn, Push, Awaited, Goes, StruckAt
<1>2. ASSUME NEW t \in Adapters, RunContainer(t) PROVE Goes(s)'
  <2>1. CASE t = s /\ Awaited(s, "start") /\ Push(s, "load")
    BY <1>2, <2>1 DEF RunContainer, Push, Awaited, Goes, StruckAt
  <2>2. CASE t = s /\ Left(s, "start") /\ kept' = kept
    BY <1>2, <2>2 DEF RunContainer, Left, Goes, StruckAt, Strikes
  <2>3. CASE t # s
    BY <1>2, <2>3, TameGoes DEF RunContainer, Push, Awaited, Left, Tame
  <2> QED BY <1>2, <2>1, <2>2, <2>3 DEF RunContainer
<1>3. ASSUME NEW t \in Adapters, AddWorktree(t) PROVE Goes(s)'
  <2>1. CASE t = s /\ Awaited(s, "worktree") /\ Push(s, "tree")
    BY <1>3, <2>1 DEF AddWorktree, Push, Awaited, Goes, StruckAt
  <2>2. CASE t = s /\ Left(s, "worktree") /\ kept' = kept
    BY <1>3, <2>2 DEF AddWorktree, Left, Goes, StruckAt, Strikes
  <2>3. CASE t # s
    BY <1>3, <2>3, TameGoes DEF AddWorktree, Push, Awaited, Left, Tame
  <2> QED BY <1>3, <2>1, <2>2, <2>3 DEF AddWorktree
<1>4. ASSUME NEW t \in Adapters, StopContainer(t) PROVE Goes(s)'
  <2>1. CASE t = s
    BY <1>4, <2>1 DEF StopContainer, Undone, Awaited, Left, Goes, StruckAt
  <2>2. CASE t # s
    BY <1>4, <2>2, TameGoes DEF StopContainer, Undone, Awaited, Left, Tame
  <2> QED BY <2>1, <2>2
<1>5. ASSUME NEW t \in Adapters, ProcessWaited(t) PROVE Goes(s)'
  BY <1>5 DEF ProcessWaited, Undone, Goes, StruckAt
<1>6. ASSUME NEW t \in Adapters, Prune(t) PROVE Goes(s)'
  <2>1. CASE t = s
    BY <1>6, <2>1 DEF Prune, Undone, Awaited, Left, Goes, StruckAt
  <2>2. CASE t # s
    BY <1>6, <2>2, TameGoes DEF Prune, Undone, Awaited, Left, Tame
  <2> QED BY <2>1, <2>2
<1>7. CASE Cancel
  <2>1. /\ struck = {} /\ struck' = {<<turn, at>>} /\ UNCHANGED <<load, tree, stuck, littered>>
        /\ at \in {"stop", "prune"} => <<turn, at>> \in threads'
        /\ threads \subseteq threads'
    BY <1>7 DEF Cancel, ThreadPlaces
  <2>2. CASE kept' = kept
    BY <2>1, <2>2 DEF Goes, StruckAt
  <2>3. CASE at \in Closing /\ Undone(turn, UndoneBy(at))
    BY <2>1, <2>3 DEF Undone, UndoneBy, Closing, Goes, StruckAt
  <2> QED BY <1>7, <2>2, <2>3 DEF Cancel
<1>8. CASE Driver \/ (\E p \in Ports : StrangerBinds(p)) \/ UNCHANGED vars
  BY <1>8, TameGoes DEF Driver, CellsEnd, DeadlinePasses, StrangerBinds, vars, Tame
<1>9. ASSUME NEW t \in Adapters, Enter(t) \/ Thread(t) \/ Probe(t) \/ Exit(t) \/ World(t)
      PROVE  Goes(s)'
  BY <1>1, <1>2, <1>3, <1>4, <1>5, <1>6, <1>9, TameSteps, TameGoes DEF Enter, Thread, Exit
<1> QED BY <1>7, <1>8, <1>9 DEF Next, Terminated

LEMMA WillGoStep == TypeOK /\ Turns /\ Strikes /\ WillGo /\ [Next]_vars => WillGo'
  BY GoesStep DEF WillGo

-----------------------------------------------------------------------------
(* The ports.                                                                *)

\* An adapter picks its port before it starts anything; the port is one.
LEMMA PortMoves ==
    ASSUME TypeOK, [Next]_vars, NEW s \in Adapters
    PROVE  \/ port'[s] = port[s]
           \/ /\ turn = s /\ port'[s] \in Ports /\ load' = load
              /\ (at = "image" \/ (at = "idle" /\ mode = "opening"))
<1> USE DEF TypeOK
<1>1. ASSUME NEW t \in Adapters, EnterBranch(t) \/ EnsureImage(t)
      PROVE  \/ port'[s] = port[s]
             \/ /\ turn = s /\ port'[s] \in Ports /\ load' = load
                /\ (at = "image" \/ (at = "idle" /\ mode = "opening"))
  BY <1>1 DEF EnterBranch, EnsureImage, PickPort, Awaited, Left
<1>2. ASSUME NEW t \in Adapters,
             \/ EnterDocker(t) \/ Spawn(t) \/ OpenInner(t) \/ OpenInnerFails(t) \/ Probe(t)
             \/ Exit(t) \/ World(t)
      PROVE  port' = port
  BY <1>2 DEF EnterDocker, Spawn, OpenInner, OpenInnerFails, Probe, Healthy, NotHealthy, Exit, CloseInner,
        ProcessWaited, WaitTimesOut, Closed, World, Bind, Ends, Reaped
<1>3. ASSUME NEW t \in Adapters,
             \/ RunContainer(t) \/ RunContainerFails(t) \/ AddWorktree(t) \/ StartFails(t) \/ AddWorktreeFails(t)
             \/ ReadStatus(t) \/ StopContainer(t) \/ Prune(t)
      PROVE  port' = port
  BY <1>3 DEF RunContainer, RunContainerFails, AddWorktree, StartFails, AddWorktreeFails, ReadStatus, StopContainer, Prune
<1>4. CASE Driver \/ Cancel \/ (\E p \in Ports : StrangerBinds(p)) \/ UNCHANGED vars
  BY <1>4 DEF Driver, CellsEnd, DeadlinePasses, Cancel, StrangerBinds, vars
<1>5. CASE \E t \in Adapters : Enter(t) \/ Thread(t) \/ Probe(t) \/ Exit(t) \/ World(t)
  BY <1>1, <1>2, <1>3, <1>5 DEF Enter, Thread
<1> QED BY <1>4, <1>5 DEF Next, Terminated

\* Nobody listens where somebody does.
LEMMA HolderStays ==
    ASSUME TypeOK, [Next]_vars, NEW s \in Adapters, NEW p \in Ports, holder[p] = s, load'[s] = "up"
    PROVE  holder'[p] = s
<1> USE DEF TypeOK
<1>0. s # Free
  BY PortsAssumption DEF Adapters
<1>1. ASSUME NEW t \in Adapters, RunContainer(t) \/ Bind(t) PROVE holder'[p] = s
  BY <1>0, <1>1 DEF RunContainer, Bind
<1>2. ASSUME NEW t \in Adapters, StopContainer(t) \/ Ends(t) PROVE holder'[p] = s
  BY <1>2 DEF StopContainer, Ends, Released
<1>3. ASSUME NEW t \in Adapters, Enter(t) \/ Probe(t) \/ Exit(t) \/ Reaped(t) PROVE holder' = holder
  BY <1>3 DEF Enter, EnterDocker, EnterBranch, Spawn, OpenInner, OpenInnerFails, Probe, Healthy, NotHealthy,
        Exit, CloseInner, ProcessWaited, WaitTimesOut, Closed, Reaped
<1>4. ASSUME NEW t \in Adapters,
             \/ EnsureImage(t) \/ RunContainerFails(t) \/ AddWorktree(t) \/ StartFails(t) \/ AddWorktreeFails(t)
             \/ ReadStatus(t) \/ Prune(t)
      PROVE  holder' = holder
  BY <1>4 DEF EnsureImage, RunContainerFails, AddWorktree, StartFails, AddWorktreeFails, ReadStatus, Prune
<1>5. CASE \E q \in Ports : StrangerBinds(q)
  BY <1>0, <1>5 DEF StrangerBinds
<1>6. CASE Driver \/ Cancel \/ UNCHANGED vars
  BY <1>6 DEF Driver, CellsEnd, DeadlinePasses, Cancel, vars
<1>7. CASE \E t \in Adapters : Enter(t) \/ Thread(t) \/ Probe(t) \/ Exit(t) \/ World(t)
  BY <1>1, <1>2, <1>3, <1>4, <1>7 DEF Thread, World
<1> QED BY <1>5, <1>6, <1>7 DEF Next, Terminated

\* What comes up, and from where.
LEMMA LoadMoves ==
    ASSUME TypeOK, [Next]_vars, NEW s \in Adapters
    PROVE  /\ load[s] # "none" => load'[s] # "none"
           /\ \/ load'[s] = load[s] \/ load'[s] # "up"
              \/ Spawn(s) \/ RunContainer(s)
           /\ load'[s] # load[s] /\ load[s] = "none" => Spawn(s) \/ RunContainer(s) \/ StopContainer(s)
<1> USE DEF TypeOK
<1>1. ASSUME NEW t \in Adapters, Spawn(t) \/ RunContainer(t) \/ StopContainer(t)
      PROVE  load'[s] # load[s] => t = s
  BY <1>1 DEF Spawn, RunContainer, StopContainer
<1>2. ASSUME Spawn(s) \/ RunContainer(s) PROVE load'[s] = "up"
  BY <1>2 DEF Spawn, RunContainer
<1>3. ASSUME StopContainer(s) PROVE load'[s] = load[s] \/ load'[s] = "gone"
  BY <1>3 DEF StopContainer
<1>4. ASSUME NEW t \in Adapters, Ends(t) \/ Reaped(t)
      PROVE  load'[s] = load[s] \/ (load[s] # "none" /\ load'[s] \in {"exited", "gone"})
  BY <1>4 DEF Ends, Reaped
<1>5. ASSUME NEW t \in Adapters,
             \/ EnterDocker(t) \/ EnterBranch(t) \/ OpenInner(t) \/ OpenInnerFails(t) \/ Probe(t)
             \/ Exit(t) \/ Bind(t)
      PROVE  load' = load
  BY <1>5 DEF EnterDocker, EnterBranch, OpenInner, OpenInnerFails, Probe, Healthy, NotHealthy, Exit,
        CloseInner, ProcessWaited, WaitTimesOut, Closed, Bind
<1>6. ASSUME NEW t \in Adapters,
             \/ EnsureImage(t) \/ RunContainerFails(t) \/ AddWorktree(t) \/ StartFails(t) \/ AddWorktreeFails(t)
             \/ ReadStatus(t) \/ Prune(t)
      PROVE  load' = load
  BY <1>6 DEF EnsureImage, RunContainerFails, AddWorktree, StartFails, AddWorktreeFails, ReadStatus, Prune
<1>7. CASE Driver \/ Cancel \/ (\E p \in Ports : StrangerBinds(p)) \/ UNCHANGED vars
  BY <1>7 DEF Driver, CellsEnd, DeadlinePasses, Cancel, StrangerBinds, vars
<1>8. CASE \E t \in Adapters : Enter(t) \/ Thread(t) \/ Probe(t) \/ Exit(t) \/ World(t)
  BY <1>1, <1>2, <1>3, <1>4, <1>5, <1>6, <1>8 DEF Enter, Thread, World
<1> QED BY <1>7, <1>8 DEF Next, Terminated

\* The ways of an adapter that is opening, up to the health check and through it.
Ways ==
    \/ UNCHANGED <<mode, turn, at>>
    \/ at = "inner" /\ at' = "idle" /\ turn' = turn + 1 /\ load' = load
    \/ /\ turn' = turn /\ at \in Starting /\ at' \in Starting /\ load' = load
       /\ at' = "start" => port'[turn] \in Ports
    \/ /\ turn' = turn /\ turn \in Adapters /\ at \in Starting /\ at' = "status"
       /\ load' = [load EXCEPT ![turn] = "up"]
    \/ turn' = turn /\ at \in Watching /\ at' \in Watching /\ load' = load

LEMMA OpeningWays ==
    ASSUME TypeOK, Turns, [Next]_vars, mode' = "opening", at' \in Starting \cup Watching
    PROVE  Ways /\ mode = "opening"
<1> USE DEF TypeOK
<1>0. \A s, stack : NextOf(s, stack) \notin Starting \cup Watching
  BY NextOfFacts DEF Due, Starting, Watching
<1>1. mode = "opening"
  BY <1>0, Moves DEF OpensOn, ClosesOn, Opens, Leaves, Returns
<1>2. ASSUME NEW s \in Adapters, Enter(s) PROVE Ways
  <2>1. CASE EnterDocker(s) \/ EnterBranch(s)
    BY <2>1 DEF EnterDocker, EnterBranch, Ways, Starting
  <2>2. CASE Spawn(s)
    BY <2>2 DEF Spawn, Awaited, Ways, Starting
  <2>3. CASE OpenInner(s)
    BY <2>3 DEF OpenInner, Ways
  <2>4. CASE OpenInnerFails(s)
    BY <1>0, <2>4 DEF OpenInnerFails, Raise
  <2> QED BY <1>2, <2>1, <2>2, <2>3, <2>4 DEF Enter
<1>3. ASSUME NEW s \in Adapters, EnsureImage(s) \/ AddWorktree(s) PROVE Ways
  BY <1>3 DEF EnsureImage, AddWorktree, PickPort, Awaited, Left, Ways, Starting
<1>4. ASSUME NEW s \in Adapters, RunContainer(s) PROVE Ways
  BY <1>4 DEF RunContainer, Awaited, Left, Ways, Starting
<1>5. ASSUME NEW s \in Adapters, StartFails(s) \/ AddWorktreeFails(s) \/ RunContainerFails(s) PROVE Ways
  BY <1>0, <1>5 DEF StartFails, AddWorktreeFails, RunContainerFails, Raise, Awaited, Left, Ways
<1>6. ASSUME NEW s \in Adapters, ReadStatus(s) \/ Probe(s) PROVE Ways
  BY <1>0, <1>6 DEF ReadStatus, Probe, Healthy, NotHealthy, Raise, Awaited, Left, Ways, Watching
<1>7. ASSUME NEW s \in Adapters, StopContainer(s) \/ Prune(s) PROVE Ways
  BY <1>0, <1>7 DEF StopContainer, Prune, Undone, Awaited, Left, Ways
<1>8. ASSUME NEW s \in Adapters, Exit(s) PROVE FALSE
  BY <1>0, <1>1, <1>8 DEF Exit, CloseInner, ProcessWaited, WaitTimesOut, Closed, Undone, Starting, Watching
<1>9. ASSUME NEW s \in Adapters, World(s) PROVE Ways
  BY <1>9 DEF World, Bind, Ends, Reaped, Ways
<1>10. CASE Driver
  BY <1>10 DEF Driver, CellsEnd, DeadlinePasses, Ways
<1>11. CASE Cancel
  BY <1>0, <1>1, <1>11 DEF Cancel, Raise, Undone
<1>12. CASE (\E p \in Ports : StrangerBinds(p)) \/ UNCHANGED vars
  BY <1>12 DEF StrangerBinds, vars, Ways
<1>13. CASE \E s \in Adapters : Enter(s) \/ Thread(s) \/ Probe(s) \/ Exit(s) \/ World(s)
  BY <1>1, <1>2, <1>3, <1>4, <1>5, <1>6, <1>7, <1>8, <1>9, <1>13 DEF Thread
<1> QED BY <1>1, <1>10, <1>11, <1>12, <1>13 DEF Next, Terminated

\* Nothing was struck yet, so no thread is on its own.
LEMMA OpeningIsWatched ==
    ASSUME Turns, Strikes, mode = "opening", at \in Starting \cup Watching
    PROVE  struck = {} /\ threads = {}
  BY DEF Strikes, Starting, Watching, Closing

LEMMA UnstartedStep ==
    ASSUME TypeOK, Turns, Strikes, Served, [Next]_vars, NEW s \in Adapters, Unstarted(s)'
    PROVE  load'[s] = "none"
<1>1. Ways /\ mode = "opening"
  BY OpeningWays DEF Unstarted
<1>2. turn \in 0..N /\ N \in Nat /\ s \in 1..N
  BY NAssumption DEF TypeOK, Adapters
<1>3. Starting \cap Watching = {} /\ "inner" \in Watching /\ "status" \in Watching
  BY DEF Starting, Watching
<1>4. Unstarted(s)
  BY <1>1, <1>2, <1>3 DEF Unstarted, Ways
<1>5. load[s] = "none"
  BY <1>4 DEF Served
<1>6. CASE UNCHANGED <<mode, turn, at>>
  <2>1. threads = {}
    BY <1>4, OpeningIsWatched DEF Unstarted
  <2>2. ~Spawn(s) /\ ~RunContainer(s) /\ ~StopContainer(s)
    BY <1>4, <1>6, <2>1 DEF Spawn, RunContainer, StopContainer, Awaited, Left, Unstarted, Starting, Watching
  <2> QED BY <1>5, <2>2, LoadMoves
<1>7. CASE ~UNCHANGED <<mode, turn, at>>
  BY <1>1, <1>2, <1>3, <1>5, <1>7 DEF Ways, TypeOK, Unstarted
<1> QED BY <1>6, <1>7

LEMMA ServedStep ==
    TypeOK /\ Turns /\ Strikes /\ KindsFit /\ Served /\ [Next]_vars => Served'
<1> SUFFICES ASSUME TypeOK, Turns, Strikes, KindsFit, Served, [Next]_vars PROVE Served'
  OBVIOUS
<1>1. ASSUME NEW s \in Adapters, kind[s] = "docker", load'[s] = "up"
      PROVE  port'[s] \in Ports /\ holder'[port'[s]] = s
  <2>1. CASE RunContainer(s)
    <3>1. port[s] \in Ports
      BY <2>1 DEF RunContainer, Awaited, Left, Served, Strikes
    <3> QED BY <2>1, <3>1 DEF RunContainer, TypeOK
  <2>2. CASE ~RunContainer(s)
    <3>1. ~Spawn(s)
      BY <1>1 DEF Spawn, Awaited, KindsFit, OfKind
    <3>2. load[s] = "up"
      BY <1>1, <2>2, <3>1, LoadMoves
    <3>3. port[s] \in Ports /\ holder[port[s]] = s
      BY <1>1, <3>2 DEF Served
    <3>4. ~Unstarted(s)
      BY <3>2 DEF Served
    <3>5. port'[s] = port[s]
      BY <3>4, PortMoves, NAssumption DEF Unstarted, Starting, Turns, Opening, Adapters
    <3> QED BY <1>1, <3>3, <3>5, HolderStays
  <2> QED BY <2>1, <2>2
<1>2. \A s \in Adapters : port[s] \in Ports => port'[s] \in Ports
  BY PortMoves
<1>3. ASSUME NEW s \in Adapters, <<s, "start">> \in struck' PROVE port'[s] \in Ports
  <2>1. CASE struck' = struck
    BY <1>2, <1>3, <2>1 DEF Served
  <2>2. CASE Cancel
    BY <1>2, <1>3, <2>2 DEF Cancel, Served
  <2> QED BY <2>1, <2>2, StrikesMove DEF vars
<1>4. \A s \in Adapters : Unstarted(s)' => load'[s] = "none"
  BY UnstartedStep
<1>5. /\ at' = "start" => port'[turn'] \in Ports
      /\ at' \in Watching => load'[turn'] # "none"
  <2> SUFFICES ASSUME at' = "start" \/ at' \in Watching
               PROVE  /\ at' = "start" => port'[turn'] \in Ports
                      /\ at' \in Watching => load'[turn'] # "none"
    OBVIOUS
  <2>1. Turns'
    BY TurnsStep
  <2>2. Ways /\ mode = "opening"
    BY <2>1, OpeningWays DEF Turns, Watching, Starting, Opening
  <2>3. turn \in Adapters
    BY <2>2, NAssumption DEF TypeOK, Turns, Adapters
  <2>4. CASE UNCHANGED <<mode, turn, at>>
    BY <1>2, <2>3, <2>4, LoadMoves DEF Served
  <2>5. CASE ~UNCHANGED <<mode, turn, at>>
    BY <2>2, <2>3, <2>5 DEF Ways, Starting, Watching, Served, TypeOK
  <2> QED BY <2>4, <2>5
<1> QED BY <1>1, <1>3, <1>4, <1>5, KindStays DEF Served

-----------------------------------------------------------------------------
(* The theorems.                                                             *)

LEMMA IInvInit == Init => IInv
<1> SUFFICES ASSUME Init PROVE IInv
  OBVIOUS
<1>1. TypeOK
  BY TypeInit
<1>2. Turns
  BY NAssumption DEF Init, Turns, Opening
<1>3. Strikes /\ KindsFit /\ Stacks
  BY DEF Init, Strikes, KindsFit, OfKind, Stacks
<1>4. WillGo /\ Served
  BY DEF Init, WillGo, Goes, Served, Unstarted, Watching
<1> QED BY <1>1, <1>2, <1>3, <1>4 DEF IInv

LEMMA IInvStep == IInv /\ [Next]_vars => IInv'
  BY TypeStep, TurnsStep, StrikesStep, KindsStep, StacksStep, WillGoStep, ServedStep DEF IInv

THEOREM Invariant == Spec => []IInv
<1> QED BY IInvInit, IInvStep, PTL DEF Spec

\* Every variable keeps its type, for any number of adapters of any kind.
THEOREM TypeInvariant == Spec => []TypeOK
<1>1. IInv => TypeOK
  BY DEF IInv
<1> QED BY <1>1, Invariant, PTL

\* However many adapters a run has, whatever fails and wherever Ctrl-C strikes:
\* what is left when the run is over is what docker, git or the disk would not
\* remove, the directory of a worktree that could not be added, or what was being
\* started or waited for when Ctrl-C struck (docker_adapter.py:93,
\* git_branch_adapter.py:112, 246-271).
THEOREM NothingLeftInvariant == Spec => []NothingLeft
<1>1. IInv => NothingLeft
  <2> SUFFICES ASSUME IInv, mode = "done", threads = {}, NEW s \in Adapters
               PROVE  /\ load[s] = "up" => s \in stuck \/ StruckAt(s, {"start", "terminate", "kill"})
                      /\ Lying(s) => s \in littered \/ StruckAt(s, {"worktree"})
    BY DEF NothingLeft
  <2>1. turn = 0 /\ s > 0
    BY NAssumption DEF IInv, Turns, Adapters
  <2>2. kept[s] = {}
    BY <2>1 DEF IInv, Stacks
  <2> QED BY <2>2 DEF IInv, WillGo, Goes
<1> QED BY <1>1, Invariant, PTL

LEMMA TreeMoves ==
    ASSUME TypeOK, Next, NEW s \in Adapters
    PROVE  tree'[s] = tree[s] \/ tree'[s] \in {"parent", "there"} \/ Prune(s)
<1> USE DEF TypeOK
<1>1. ASSUME NEW t \in Adapters, AddWorktree(t) \/ AddWorktreeFails(t)
      PROVE  tree'[s] = tree[s] \/ tree'[s] \in {"parent", "there"}
  BY <1>1 DEF AddWorktree, AddWorktreeFails
<1>2. ASSUME NEW t \in Adapters, Prune(t) PROVE tree'[s] = tree[s] \/ t = s
  BY <1>2 DEF Prune
<1>3. ASSUME NEW t \in Adapters, Enter(t) \/ Probe(t) \/ Exit(t) \/ World(t) PROVE tree' = tree
  BY <1>3 DEF Enter, EnterDocker, EnterBranch, Spawn, OpenInner, OpenInnerFails, Probe, Healthy, NotHealthy,
        Exit, CloseInner, ProcessWaited, WaitTimesOut, Closed, World, Bind, Ends, Reaped
<1>4. ASSUME NEW t \in Adapters,
             \/ EnsureImage(t) \/ RunContainer(t) \/ RunContainerFails(t) \/ StartFails(t)
             \/ ReadStatus(t) \/ StopContainer(t)
      PROVE  tree' = tree
  BY <1>4 DEF EnsureImage, RunContainer, RunContainerFails, StartFails, ReadStatus, StopContainer
<1>5. CASE Driver \/ Cancel \/ (\E p \in Ports : StrangerBinds(p)) \/ Terminated
  BY <1>5 DEF Driver, CellsEnd, DeadlinePasses, Cancel, StrangerBinds, Terminated, vars
<1>6. CASE \E t \in Adapters : Enter(t) \/ Thread(t) \/ Probe(t) \/ Exit(t) \/ World(t)
  BY <1>1, <1>2, <1>3, <1>4, <1>6 DEF Thread
<1> QED BY <1>5, <1>6 DEF Next

\* A worktree is removed under a process, be it in part, only if Ctrl-C struck the
\* wait for that process (git_branch_adapter.py:175-195).
THEOREM TreesOutlive == Spec => NoProcessLosesItsTree
<1>1. IInv /\ [Next]_vars =>
          [\A s \in Adapters :
              tree[s] = "there" /\ tree'[s] \in {"husk", "removed"} /\ load[s] = "up"
                  => StruckAt(s, {"terminate", "kill"})]_vars
  <2> SUFFICES ASSUME IInv, Next, NEW s \in Adapters,
                      tree[s] = "there", tree'[s] \in {"husk", "removed"}, load[s] = "up"
               PROVE  StruckAt(s, {"terminate", "kill"})
    OBVIOUS
  <2> USE DEF IInv
  <2>1. Prune(s)
    BY TreeMoves
  <2>2. "load" \notin kept[s]
    BY <2>1 DEF Prune, Awaited, Left, Stacks, Strikes
  <2>3. kind[s] # "docker"
    BY DEF KindsFit
  <2>4. s \notin stuck /\ <<s, "stop">> \notin threads /\ <<s, "start">> \notin struck
    BY <2>3 DEF KindsFit, OfKind, Strikes
  <2> QED BY <2>2, <2>4 DEF WillGo, Goes, StruckAt
<1> QED BY <1>1, Invariant, PTL DEF Spec, NoProcessLosesItsTree

\* A docker adapter opens on the container it started, unless that container is
\* gone, whoever else listens on the ports of the host (docker_adapter.py:177-182).
THEOREM OpensOnItsOwn == Spec => OpensOnItsContainer
<1>1. IInv /\ [Next]_vars =>
          [\A s \in Adapters :
              kind[s] = "docker" /\ turn = s /\ at = "request" /\ at' = "inner"
                  => holder[port[s]] = s \/ load[s] \in {"exited", "gone"}]_vars
  <2> SUFFICES ASSUME IInv, NEW s \in Adapters, kind[s] = "docker", turn = s, at = "request"
               PROVE  holder[port[s]] = s \/ load[s] \in {"exited", "gone"}
    OBVIOUS
  <2>1. load[s] \in {"up", "exited", "gone"}
    BY DEF IInv, Served, Watching, TypeOK
  <2> QED BY <2>1 DEF IInv, Served
<1> QED BY <1>1, Invariant, PTL DEF Spec, OpensOnItsContainer

-----------------------------------------------------------------------------
(* SharedClients: the invariant.                                             *)

USE DEF config, place, clients, pipes, cells
Mine(x) == holds[<<run, x>>]

\* An entry stands for its references.
Stands(reg) == reg.client <= reg.made /\ (reg.client = None <=> reg.refs = 0)

VendorFits ==
    /\ vendor = "helicone" => remote = {dataset}
    /\ vendor = "otel" => dataset \notin remote

\* What is in a registry is up, and those who hold something hold that.
Registered ==
    /\ Stands(registry) /\ Stands(otel)
    /\ \A c \in Clients :
          /\ <<"client", c>> \in down => c <= registry.made /\ c # registry.client
          /\ <<"otel", c>> \in down => c <= otel.made /\ c # otel.client
          /\ c \in closed => Nests /\ c <= registry.made
    /\ Nests /\ registry.client # None => nested[registry.client] = otel.client
    /\ \A a \in Holders : holds[a] = registry.client
    /\ \A a \in OtelHolders : holds[a] = otel.client
    /\ CountsHolders

Planning == {"plan", "load", "build"}
Storing == {"cells", "exit", "exitStore"}
Borrows(x) == x \in remote /\ vendor # "otel"

\* Who holds a reference, by how far the run is.
Borrowed ==
    /\ \A r \in 1..Runs, x \in Roles :
          holds[<<r, x>>] # None => r <= run /\ x \in remote /\ (vendor = "otel" => x = store)
    /\ \A r \in 1..Runs : StoreOnOtel /\ holds[<<r, store>>] # None =>
          r = run /\ phase \in Storing \cup {"enter"}
    /\ phase \in Planning => Mine(store) = None
    /\ phase = "plan" => Mine(dataset) = None
    /\ phase = "load" => dataset \in remote
    /\ phase \in {"load", "build"} /\ dataset \in remote => Mine(dataset) # None
    /\ phase \in Planning =>
          /\ nth \in 1..(E + 1) /\ (phase # "build" => nth = 1)
          /\ \A v \in Variants : v >= nth => Mine(v) = None
          /\ \A v \in Variants : v < nth /\ Borrows(v) => Mine(v) # None
    /\ phase \in {"enter", "cells"} => \A v \in Variants : Borrows(v) => Mine(v) # None
    /\ phase = "exit" =>
          /\ nth \in Variants
          /\ \A v \in Variants : v <= nth /\ Borrows(v) => Mine(v) # None
    /\ phase = "enter" /\ store \in remote /\ ~StoreOnOtel => Mine(store) # None
    /\ phase \in Storing /\ store \in remote => Mine(store) # None

\* A run creates one client, and one OTel client with it or when its store opens.
Untouched == phase = "plan" \/ (phase = "build" /\ \A x \in Roles : Mine(x) = None)
StoreToCome == phase \in Planning \/ (phase = "enter" /\ Mine(store) = None)

Created ==
    /\ registry.made <= IF Untouched THEN run - 1 ELSE run
    /\ otel.made <= registry.made + IF StoreToCome THEN run - 1 ELSE run

CellsFit ==
    \A v \in Variants :
        /\ cell[v] \in {"asked", "asleep", "enriched"} => phase = "cells"
        /\ cell[v] \in {"asked", "asleep"} => v \in remote /\ tries[v] < Attempts
        /\ cell[v] = "ready" => tries[v] = 0

\* Only what somebody holds has anything left to send.
Piped ==
    /\ \A c \in Clients :
          /\ queue[<<"client", c>>] # {} =>
                ~StoreOnOtel /\ phase \in Storing /\ store \in remote /\ c = Mine(store)
          /\ queue[<<"otel", c>>] # {} => c = otel.client
    /\ saved \subseteq arrived \cup UNION {queue[p] : p \in Pipes}

\* An enricher of an earlier run that was never exited.
Abandoned == \E r \in 1..Runs, v \in Variants : r < run /\ holds[<<r, v>>] # None

\* A client that was closed is still in the registry only for somebody abandoned.
Closings ==
    /\ dataset \in remote /\ phase \in {"build", "enter", "cells"} => registry.client \notin closed
    /\ dataset \notin remote /\ Releases /\ phase \in Planning \cup {"enter", "cells"}
          /\ registry.client \in closed => Abandoned
    /\ Releases /\ (\E v \in Variants : fate[v] = "dead") => Abandoned

ClientsIInv ==
    ClientsTypeOK /\ VendorFits /\ Registered /\ Borrowed /\ Created /\ CellsFit /\ Piped /\ Closings

-----------------------------------------------------------------------------
(* Registries, and those who hold something.                                 *)

LEMMA BumpedFacts ==
    ASSUME NEW reg \in Entry, Stands(reg)
    PROVE  /\ Bumped(reg).refs = reg.refs + 1 /\ Stands(Bumped(reg)) /\ Bumped(reg).client # None
           /\ Bumped(reg).client = IF reg.client = None THEN reg.made + 1 ELSE reg.client
           /\ Bumped(reg).made = IF reg.client = None THEN reg.made + 1 ELSE reg.made
           /\ (reg.client = None => reg.made < 2 * Runs) => Bumped(reg) \in Entry
<1>1. 2 * Runs \in Nat
  BY RunsAssumption
<1> QED BY <1>1 DEF Entry, Stands, Bumped, Clients, None

LEMMA DroppedFacts ==
    ASSUME NEW reg \in Entry, Stands(reg), reg.client # None
    PROVE  /\ Dropped(reg, reg.client) \in Entry /\ Stands(Dropped(reg, reg.client))
           /\ Dropped(reg, reg.client).refs = reg.refs - 1 /\ Dropped(reg, reg.client).made = reg.made
           /\ Dropped(reg, reg.client).client = IF reg.refs = 1 THEN None ELSE reg.client
           /\ GoesDown(reg, reg.client) <=> reg.refs = 1
<1>1. reg.refs \in Nat \ {0} /\ reg.made \in Nat /\ reg.client \in Clients
  BY DEF Entry, Stands, None
<1>2. CASE reg.refs = 1
  <2>1. Dropped(reg, reg.client) = [reg EXCEPT !.client = None, !.refs = 0]
    BY <1>2 DEF Dropped
  <2>2. Dropped(reg, reg.client) = [client |-> None, refs |-> 0, made |-> reg.made]
    BY <2>1 DEF Entry
  <2>3. Dropped(reg, reg.client) \in Entry
    BY <1>1, <2>2 DEF Entry
  <2> QED BY <1>1, <1>2, <2>2, <2>3 DEF Stands, GoesDown, None, Clients
<1>3. CASE reg.refs # 1
  <2>1. Dropped(reg, reg.client) = [reg EXCEPT !.refs = @ - 1]
    BY <1>1, <1>3 DEF Dropped
  <2>2. /\ Dropped(reg, reg.client) \in Entry /\ Dropped(reg, reg.client).client = reg.client
        /\ Dropped(reg, reg.client).refs = reg.refs - 1 /\ Dropped(reg, reg.client).made = reg.made
    BY <1>1, <1>3, <2>1 DEF Entry
  <2> QED BY <1>1, <1>3, <2>2 DEF Stands, GoesDown, None
<1> QED BY <1>2, <1>3

LEMMA FiniteHolders ==
    /\ IsFiniteSet(Holders) /\ IsFiniteSet(OtelHolders)
    /\ Cardinality(Holders) \in Nat /\ Cardinality(OtelHolders) \in Nat
<1>1. IsFiniteSet(1..Runs) /\ IsFiniteSet(Variants)
  BY RunsAssumption, EAssumption, FS_Interval DEF Variants
<1>2. IsFiniteSet(Roles)
  <2>1. IsFiniteSet({dataset, store})
    <3>1. IsFiniteSet({} \cup {dataset})
      BY FS_EmptySet, FS_AddElement
    <3>2. IsFiniteSet(({} \cup {dataset}) \cup {store})
      BY <3>1, FS_AddElement
    <3>3. {dataset, store} = ({} \cup {dataset}) \cup {store}
      OBVIOUS
    <3> QED BY <3>2, <3>3
  <2> QED BY <1>1, <2>1, FS_Union DEF Roles
<1>3. IsFiniteSet(Borrowers)
  BY <1>1, <1>2, FS_Product DEF Borrowers
<1>4. Holders \in SUBSET Borrowers /\ OtelHolders \in SUBSET Borrowers
  BY DEF Holders, OtelHolders
<1>5. IsFiniteSet(Holders) /\ IsFiniteSet(OtelHolders)
  BY <1>3, <1>4, FS_Subset
<1> QED BY <1>5, FS_CardinalityType

\* A trace store on OTel; everybody else holds a client.
OnOtel(a) == StoreOnOtel /\ a[2] = store

LEMMA HoldersOnTaking ==
    ASSUME ClientsTypeOK, UNCHANGED config, NEW a \in Borrowers, holds[a] = None,
           NEW c, c # None, holds' = [holds EXCEPT ![a] = c]
    PROVE  /\ OnOtel(a) =>
                /\ Holders' = Holders /\ OtelHolders' = OtelHolders \cup {a}
                /\ Cardinality(OtelHolders') = Cardinality(OtelHolders) + 1
           /\ ~OnOtel(a) =>
                /\ Holders' = Holders \cup {a} /\ OtelHolders' = OtelHolders
                /\ Cardinality(Holders') = Cardinality(Holders) + 1
<1>1. a \notin Holders /\ a \notin OtelHolders
  BY DEF Holders, OtelHolders
<1>2. \A b \in Borrowers : holds'[b] = IF b = a THEN c ELSE holds[b]
  BY DEF ClientsTypeOK
<1>3. StoreOnOtel' <=> StoreOnOtel
  BY DEF StoreOnOtel, Nests
<1>4. OnOtel(a) => Holders' = Holders /\ OtelHolders' = OtelHolders \cup {a}
  BY <1>2, <1>3 DEF Holders, OtelHolders, OnOtel
<1>5. ~OnOtel(a) => Holders' = Holders \cup {a} /\ OtelHolders' = OtelHolders
  BY <1>2, <1>3 DEF Holders, OtelHolders, OnOtel
<1> QED BY <1>1, <1>4, <1>5, FiniteHolders, FS_AddElement

LEMMA HoldersOnGiving ==
    ASSUME ClientsTypeOK, UNCHANGED config, NEW a \in Borrowers, holds[a] # None,
           holds' = [holds EXCEPT ![a] = None]
    PROVE  /\ OnOtel(a) =>
                /\ Holders' = Holders /\ OtelHolders' = OtelHolders \ {a}
                /\ Cardinality(OtelHolders') = Cardinality(OtelHolders) - 1
           /\ ~OnOtel(a) =>
                /\ Holders' = Holders \ {a} /\ OtelHolders' = OtelHolders
                /\ Cardinality(Holders') = Cardinality(Holders) - 1
<1>1. IF OnOtel(a) THEN a \in OtelHolders ELSE a \in Holders
  BY DEF Holders, OtelHolders, OnOtel
<1>2. \A b \in Borrowers : holds'[b] = IF b = a THEN None ELSE holds[b]
  BY DEF ClientsTypeOK
<1>3. StoreOnOtel' <=> StoreOnOtel
  BY DEF StoreOnOtel, Nests
<1>4. OnOtel(a) => Holders' = Holders /\ OtelHolders' = OtelHolders \ {a}
  BY <1>2, <1>3 DEF Holders, OtelHolders, OnOtel
<1>5. ~OnOtel(a) => Holders' = Holders \ {a} /\ OtelHolders' = OtelHolders
  BY <1>2, <1>3 DEF Holders, OtelHolders, OnOtel
<1> QED BY <1>1, <1>4, <1>5, FiniteHolders, FS_RemoveElement

-----------------------------------------------------------------------------
(* Taking and giving back.                                                   *)

Takes(a) ==
    /\ holds[a] = None /\ ~OnOtel(a)
    /\ registry' = Bumped(registry)
    /\ holds' = [holds EXCEPT ![a] = registry'.client]
    /\ IF Nests /\ registry.client = None
       THEN otel' = Bumped(otel) /\ nested' = [nested EXCEPT ![registry'.client] = otel'.client]
       ELSE UNCHANGED <<otel, nested>>
    /\ UNCHANGED <<closed, down>>

TakesOtel(a) == holds[a] = None /\ OnOtel(a) /\ AcquireOtel(a)

\* The registry loses its client, and with it a reference to the OTel client.
LastOne == registry.refs = 1

Downs ==
    (IF LastOne THEN {<<"client", registry.client>>} ELSE {})
        \cup (IF LastOne /\ Nests /\ otel.refs = 1 THEN {<<"otel", otel.client>>} ELSE {})

Gives(a) ==
    /\ holds[a] # None /\ ~OnOtel(a)
    /\ holds' = [holds EXCEPT ![a] = None] /\ UNCHANGED nested
    /\ \/ ~Releases /\ UNCHANGED <<registry, otel, down>>
       \/ /\ Releases /\ registry' = Dropped(registry, registry.client)
          /\ otel' = IF LastOne /\ Nests THEN Dropped(otel, otel.client) ELSE otel
          /\ down' = down \cup Downs
    /\ closed' = closed \/ (Nests /\ closed' = closed \cup {registry.client})

GivesOtel(a) ==
    /\ holds[a] # None /\ OnOtel(a)
    /\ holds' = [holds EXCEPT ![a] = None]
    /\ otel' = Dropped(otel, otel.client)
    /\ down' = down \cup (IF otel.refs = 1 THEN {<<"otel", otel.client>>} ELSE {})
    /\ UNCHANGED <<registry, nested, closed>>

LEMMA SameVendor ==
    ASSUME UNCHANGED config
    PROVE  /\ (Nests' <=> Nests) /\ (StoreOnOtel' <=> StoreOnOtel) /\ (Releases' <=> Releases)
           /\ (VendorFits => VendorFits')
BY DEF Nests, StoreOnOtel, Releases, VendorFits

\* The counts, as numbers.
LEMMA Counts ==
    ASSUME ClientsTypeOK, Registered
    PROVE  /\ registry.refs \in Nat /\ otel.refs \in Nat /\ registry.made \in Nat /\ otel.made \in Nat
           /\ registry.client \in Clients \cup {None} /\ otel.client \in Clients \cup {None}
           /\ registry.client = None => Holders = {}
           /\ otel.client = None => OtelHolders = {} /\ (Nests => registry.client = None)
           /\ Nests /\ registry.client # None => otel.client # None
<1>1. /\ registry.refs \in Nat /\ otel.refs \in Nat /\ registry.made \in Nat /\ otel.made \in Nat
      /\ registry.client \in Clients \cup {None} /\ otel.client \in Clients \cup {None}
  BY DEF ClientsTypeOK, Entry
<1>2. registry.client = None => Holders = {}
  <2>1. registry.client = None => Cardinality(Holders) = 0
    BY <1>1, FiniteHolders DEF Registered, Stands, CountsHolders
  <2> QED BY <2>1, FiniteHolders, FS_EmptySet
<1>3. otel.client = None => Cardinality(OtelHolders) = 0 /\ (Nests => registry.client = None)
  BY <1>1, FiniteHolders DEF Registered, Stands, CountsHolders
<1> QED BY <1>1, <1>2, <1>3, FiniteHolders, FS_EmptySet

LEMMA Numbered == None \in Nat /\ \A c \in Clients : c \in Nat /\ c # None
BY RunsAssumption DEF Clients, None

\* What was ever created is numbered below what will be.
LEMMA Older ==
    ASSUME ClientsTypeOK, Registered
    PROVE  /\ registry.client <= registry.made /\ otel.client <= otel.made
           /\ \A c \in Clients :
                 /\ <<"client", c>> \in down => c <= registry.made /\ c # registry.client
                 /\ <<"otel", c>> \in down => c <= otel.made /\ c # otel.client
                 /\ c \in closed => Nests /\ c <= registry.made
BY DEF Registered, Stands

LEMMA TakesRegistered ==
    ASSUME ClientsTypeOK, Registered, UNCHANGED config, NEW a \in Borrowers, Takes(a),
           registry' \in Entry, otel' \in Entry
    PROVE  Registered'
<1>1. /\ registry'.refs = registry.refs + 1 /\ Stands(registry') /\ registry'.client # None
      /\ registry'.client = IF registry.client = None THEN registry.made + 1 ELSE registry.client
      /\ registry'.made = IF registry.client = None THEN registry.made + 1 ELSE registry.made
  BY BumpedFacts DEF Takes, Registered, ClientsTypeOK
<1>2. ASSUME Nests /\ registry.client = None
      PROVE  /\ otel'.refs = otel.refs + 1 /\ Stands(otel') /\ otel'.client # None
             /\ otel'.client = IF otel.client = None THEN otel.made + 1 ELSE otel.client
             /\ otel'.made = IF otel.client = None THEN otel.made + 1 ELSE otel.made
             /\ nested'[registry'.client] = otel'.client
  <2>1. registry'.client \in Clients
    BY <1>1 DEF Entry
  <2>2. otel' = Bumped(otel) /\ nested' = [nested EXCEPT ![registry'.client] = otel'.client]
    BY <1>2 DEF Takes
  <2>3. nested'[registry'.client] = otel'.client
    BY <2>1, <2>2 DEF ClientsTypeOK
  <2>4. otel \in Entry /\ Stands(otel)
    BY DEF ClientsTypeOK, Registered
  <2> QED BY <2>2, <2>3, <2>4, BumpedFacts
<1>3. ASSUME ~(Nests /\ registry.client = None) PROVE UNCHANGED <<otel, nested>>
  BY <1>3 DEF Takes
<1>4. /\ Holders' = Holders \cup {a} /\ OtelHolders' = OtelHolders
      /\ Cardinality(Holders') = Cardinality(Holders) + 1
  BY <1>1, HoldersOnTaking DEF Takes
<1>5. /\ \A b \in Borrowers : holds'[b] = IF b = a THEN registry'.client ELSE holds[b]
      /\ closed' = closed /\ down' = down
  BY DEF Takes, ClientsTypeOK
<1>6. \A c \in Clients :
          /\ <<"client", c>> \in down' => c <= registry'.made /\ c # registry'.client
          /\ c \in closed' => Nests' /\ c <= registry'.made
  <2> SUFFICES ASSUME NEW c \in Clients
               PROVE  /\ <<"client", c>> \in down' => c <= registry'.made /\ c # registry'.client
                      /\ c \in closed' => Nests' /\ c <= registry'.made
    OBVIOUS
  <2>1. c \in Nat /\ c # None
    BY Numbered
  <2>2. registry.made \in Nat /\ registry.made <= registry'.made
    BY <1>1, Counts
  <2>3. <<"client", c>> \in down \/ c \in closed => c <= registry.made
    BY Older
  <2>4. <<"client", c>> \in down => c # registry'.client
    <3>1. registry.client = None => registry'.client = registry.made + 1
      BY <1>1
    <3>2. registry.client # None => registry'.client = registry.client
      BY <1>1
    <3>3. <<"client", c>> \in down => c # registry.client
      BY Older
    <3> QED BY <2>1, <2>2, <2>3, <3>1, <3>2, <3>3
  <2>5. registry'.made \in Nat
    BY <1>1, Counts
  <2>6. c \in closed => Nests'
    BY Older, SameVendor
  <2> QED BY <1>5, <2>1, <2>2, <2>3, <2>4, <2>5, <2>6
<1>7. \A c \in Clients : <<"otel", c>> \in down' => c <= otel'.made /\ c # otel'.client
  <2> SUFFICES ASSUME NEW c \in Clients, <<"otel", c>> \in down PROVE c <= otel'.made /\ c # otel'.client
    BY <1>5
  <2>1. c \in Nat /\ c # None /\ c <= otel.made /\ c # otel.client
    BY Numbered, Older
  <2> QED BY <2>1, <1>2, <1>3, Counts
<1>8. Stands(otel') /\ (Nests' /\ registry'.client # None => nested'[registry'.client] = otel'.client)
  BY <1>1, <1>2, <1>3, SameVendor DEF Registered
<1>9. \A b \in Holders' : holds'[b] = registry'.client
  BY <1>1, <1>4, <1>5, Counts DEF Registered, Holders
<1>10. \A b \in OtelHolders' : holds'[b] = otel'.client
  <2> SUFFICES ASSUME NEW b \in OtelHolders PROVE holds'[b] = otel'.client
    BY <1>4
  <2>1. b \in Borrowers /\ b # a /\ holds[b] = otel.client /\ otel.client # None
    BY Counts DEF Takes, OtelHolders, Registered
  <2> QED BY <1>2, <1>3, <1>5, <2>1
<1>11. CountsHolders'
  BY <1>1, <1>2, <1>3, <1>4, Counts, FiniteHolders, SameVendor DEF Registered, CountsHolders
<1> QED BY <1>1, <1>6, <1>7, <1>8, <1>9, <1>10, <1>11 DEF Registered

LEMMA TakesOtelRegistered ==
    ASSUME ClientsTypeOK, Registered, UNCHANGED config, NEW a \in Borrowers, TakesOtel(a), UNCHANGED closed
    PROVE  Registered'
<1>1. /\ otel'.refs = otel.refs + 1 /\ Stands(otel') /\ otel'.client # None
      /\ otel'.client = IF otel.client = None THEN otel.made + 1 ELSE otel.client
      /\ otel'.made = IF otel.client = None THEN otel.made + 1 ELSE otel.made
  BY BumpedFacts DEF TakesOtel, AcquireOtel, Registered, ClientsTypeOK
<1>2. UNCHANGED <<registry, nested, closed, down>>
  BY DEF TakesOtel, AcquireOtel
<1>3. /\ Holders' = Holders /\ OtelHolders' = OtelHolders \cup {a}
      /\ Cardinality(OtelHolders') = Cardinality(OtelHolders) + 1
  BY <1>1, HoldersOnTaking DEF TakesOtel, AcquireOtel
<1>4. \A b \in Borrowers : holds'[b] = IF b = a THEN otel'.client ELSE holds[b]
  BY DEF TakesOtel, AcquireOtel, ClientsTypeOK
<1>5. \A c \in Clients :
          /\ <<"client", c>> \in down' => c <= registry'.made /\ c # registry'.client
          /\ <<"otel", c>> \in down' => c <= otel'.made /\ c # otel'.client
          /\ c \in closed' => Nests' /\ c <= registry'.made
  <2> SUFFICES ASSUME NEW c \in Clients
               PROVE  /\ <<"client", c>> \in down' => c <= registry'.made /\ c # registry'.client
                      /\ <<"otel", c>> \in down' => c <= otel'.made /\ c # otel'.client
                      /\ c \in closed' => Nests' /\ c <= registry'.made
    OBVIOUS
  <2>1. c \in Nat /\ c # None
    BY Numbered
  <2> QED BY <2>1, <1>1, <1>2, Counts, Older, SameVendor
<1>6. Stands(registry') /\ (Nests' /\ registry'.client # None => nested'[registry'.client] = otel'.client)
  BY <1>1, <1>2, Counts, SameVendor DEF Registered
<1>7. \A b \in Holders' : holds'[b] = registry'.client
  BY <1>2, <1>3, <1>4 DEF Registered, Holders, TakesOtel
<1>8. \A b \in OtelHolders' : holds'[b] = otel'.client
  BY <1>1, <1>3, <1>4, Counts DEF Registered, OtelHolders
<1>9. CountsHolders'
  BY <1>1, <1>2, <1>3, Counts, FiniteHolders, SameVendor DEF Registered, CountsHolders
<1> QED BY <1>1, <1>5, <1>6, <1>7, <1>8, <1>9 DEF Registered

LEMMA GivesRegistered ==
    ASSUME ClientsTypeOK, Registered, UNCHANGED config, NEW a \in Borrowers, Gives(a)
    PROVE  Registered'
<1>1. /\ Holders' = Holders \ {a} /\ OtelHolders' = OtelHolders /\ a \in Holders
      /\ Cardinality(Holders') = Cardinality(Holders) - 1
  BY HoldersOnGiving DEF Gives, Holders, OnOtel
<1>2. registry.client # None /\ holds[a] = registry.client
  BY <1>1, Counts DEF Registered
<1>3. \A b \in Borrowers : holds'[b] = IF b = a THEN None ELSE holds[b]
  BY DEF Gives, ClientsTypeOK
<1>4. nested' = nested
  BY DEF Gives
<1>5. \A c \in closed' : c \in closed \/ (Nests /\ c = registry.client)
  BY DEF Gives
<1>6. ASSUME ~Releases PROVE Registered'
  <2>1. UNCHANGED <<registry, otel, down>>
    BY <1>6 DEF Gives
  <2>2. CountsHolders'
    BY <1>1, <1>6, <2>1, Counts, FiniteHolders, SameVendor DEF Registered, CountsHolders
  <2>3. (\A b \in Holders' : holds'[b] = registry'.client) /\ (\A b \in OtelHolders' : holds'[b] = otel'.client)
    BY <1>1, <1>3, <2>1 DEF Registered, Holders, OtelHolders, Gives, OnOtel
  <2>4. \A c \in Clients :
            /\ <<"client", c>> \in down' => c <= registry'.made /\ c # registry'.client
            /\ <<"otel", c>> \in down' => c <= otel'.made /\ c # otel'.client
            /\ c \in closed' => Nests' /\ c <= registry'.made
    BY <1>5, <2>1, SameVendor DEF Registered, Stands
  <2> QED BY <1>4, <2>1, <2>2, <2>3, <2>4, SameVendor DEF Registered
<1>7. ASSUME Releases PROVE Registered'
  <2>1. /\ registry' = Dropped(registry, registry.client) /\ down' = down \cup Downs
        /\ otel' = IF LastOne /\ Nests THEN Dropped(otel, otel.client) ELSE otel
    BY <1>7 DEF Gives
  <2>2. /\ Stands(registry') /\ registry'.refs = registry.refs - 1 /\ registry'.made = registry.made
        /\ registry'.client = IF LastOne THEN None ELSE registry.client
    BY <1>2, <2>1, DroppedFacts DEF Registered, ClientsTypeOK, LastOne
  <2>3. ASSUME LastOne /\ Nests
        PROVE  /\ otel.client # None /\ Stands(otel') /\ otel'.refs = otel.refs - 1 /\ otel'.made = otel.made
               /\ otel'.client = IF otel.refs = 1 THEN None ELSE otel.client
    <3>1. otel.client # None
      BY <1>2, <2>3, Counts
    <3> QED BY <2>1, <2>3, <3>1, DroppedFacts DEF Registered, ClientsTypeOK
  <2>4. ASSUME ~(LastOne /\ Nests) PROVE otel' = otel
    BY <2>1, <2>4
  <2>5. CountsHolders'
    BY <1>1, <1>2, <1>7, <2>2, <2>3, <2>4, Counts, FiniteHolders, SameVendor DEF Registered, CountsHolders, LastOne
  <2>6. \A b \in Holders' : holds'[b] = registry'.client
    <3>1. LastOne => Cardinality(Holders') = 0
      BY <1>1, <1>7, FiniteHolders DEF Registered, CountsHolders, LastOne
    <3>2. LastOne => Holders' = {}
      <4>1. IsFiniteSet(Holders')
        BY <1>1, FiniteHolders, FS_RemoveElement
      <4> QED BY <3>1, <4>1, FS_EmptySet
    <3> QED BY <1>1, <1>3, <2>2, <3>2 DEF Registered, Holders
  <2>7. \A b \in OtelHolders' : holds'[b] = otel'.client
    <3>1. LastOne /\ Nests /\ otel.refs = 1 => Cardinality(OtelHolders) = 0
      BY <1>2, Counts, FiniteHolders DEF Registered, CountsHolders
    <3>2. LastOne /\ Nests /\ otel.refs = 1 => OtelHolders = {}
      BY <3>1, FiniteHolders, FS_EmptySet
    <3> QED BY <1>1, <1>3, <2>3, <2>4, <3>2 DEF Registered, OtelHolders, Gives, OnOtel
  <2>8. \A c \in Clients :
            /\ <<"client", c>> \in down' => c <= registry'.made /\ c # registry'.client
            /\ c \in closed' => Nests' /\ c <= registry'.made
    <3>1. \A c : <<"client", c>> \in down' => <<"client", c>> \in down \/ (LastOne /\ c = registry.client)
      BY <2>1 DEF Downs
    <3>2. registry.client <= registry.made /\ None \notin Clients
      BY DEF Registered, Stands, None, Clients
    <3> QED BY <1>5, <2>2, <3>1, <3>2, SameVendor DEF Registered
  <2>9. \A c \in Clients : <<"otel", c>> \in down' => c <= otel'.made /\ c # otel'.client
    <3>1. \A c : <<"otel", c>> \in down' =>
                    <<"otel", c>> \in down \/ (LastOne /\ Nests /\ otel.refs = 1 /\ c = otel.client)
      BY <2>1 DEF Downs
    <3>2. otel.client <= otel.made /\ None \notin Clients
      BY DEF Registered, Stands, None, Clients
    <3> QED BY <2>3, <2>4, <3>1, <3>2 DEF Registered
  <2>10. Stands(otel') /\ (Nests' /\ registry'.client # None => nested'[registry'.client] = otel'.client)
    BY <1>2, <1>4, <2>2, <2>3, <2>4, SameVendor DEF Registered
  <2> QED BY <2>2, <2>5, <2>6, <2>7, <2>8, <2>9, <2>10 DEF Registered
<1> QED BY <1>6, <1>7

LEMMA GivesOtelRegistered ==
    ASSUME ClientsTypeOK, Registered, UNCHANGED config, NEW a \in Borrowers, GivesOtel(a)
    PROVE  Registered'
<1>1. /\ Holders' = Holders /\ OtelHolders' = OtelHolders \ {a} /\ a \in OtelHolders
      /\ Cardinality(OtelHolders') = Cardinality(OtelHolders) - 1
  BY HoldersOnGiving DEF GivesOtel, OtelHolders, OnOtel
<1>2. otel.client # None /\ holds[a] = otel.client
  BY <1>1, Counts DEF Registered
<1>3. \A b \in Borrowers : holds'[b] = IF b = a THEN None ELSE holds[b]
  BY DEF GivesOtel, ClientsTypeOK
<1>4. UNCHANGED <<registry, nested, closed>>
  BY DEF GivesOtel
<1>5. /\ Stands(otel') /\ otel'.refs = otel.refs - 1 /\ otel'.made = otel.made
      /\ otel'.client = IF otel.refs = 1 THEN None ELSE otel.client
  BY <1>2, DroppedFacts DEF Registered, ClientsTypeOK, GivesOtel
<1>6. CountsHolders'
  BY <1>1, <1>4, <1>5, Counts, FiniteHolders, SameVendor DEF Registered, CountsHolders
<1>7. \A b \in Holders' : holds'[b] = registry'.client
  BY <1>1, <1>3, <1>4 DEF Registered, Holders, GivesOtel, OnOtel
<1>8. \A b \in OtelHolders' : holds'[b] = otel'.client
  <2>1. otel.refs = 1 => Cardinality(OtelHolders') = 0
    <3>1. Cardinality(OtelHolders) # 0
      BY <1>1, FiniteHolders, FS_EmptySet
    <3> QED BY <1>1, <3>1, Counts, FiniteHolders DEF Registered, CountsHolders
  <2>2. otel.refs = 1 => OtelHolders' = {}
    <3>1. IsFiniteSet(OtelHolders')
      BY <1>1, FiniteHolders, FS_RemoveElement
    <3> QED BY <2>1, <3>1, FS_EmptySet
  <2> QED BY <1>1, <1>3, <1>5, <2>2 DEF Registered, OtelHolders
<1>9. \A c \in Clients :
          /\ <<"client", c>> \in down' => c <= registry'.made /\ c # registry'.client
          /\ <<"otel", c>> \in down' => c <= otel'.made /\ c # otel'.client
          /\ c \in closed' => Nests' /\ c <= registry'.made
  <2>1. \A x, c : <<x, c>> \in down' => <<x, c>> \in down \/ (x = "otel" /\ otel.refs = 1 /\ c = otel.client)
    BY DEF GivesOtel
  <2>2. otel.client <= otel.made /\ None \notin Clients
    BY DEF Registered, Stands, None, Clients
  <2> QED BY <1>4, <1>5, <2>1, <2>2, SameVendor DEF Registered
<1>10. Nests' /\ registry'.client # None => nested'[registry'.client] = otel'.client
  <2>1. Nests /\ registry.client # None => otel.refs # 1
    <3>1. Cardinality(OtelHolders) # 0
      BY <1>1, FiniteHolders, FS_EmptySet
    <3> QED BY <3>1, FiniteHolders, Counts DEF Registered, CountsHolders
  <2> QED BY <1>4, <1>5, <2>1, SameVendor DEF Registered
<1> QED BY <1>4, <1>5, <1>6, <1>7, <1>8, <1>9, <1>10 DEF Registered

-----------------------------------------------------------------------------
(* The steps of a run, by what they do to the registries.                    *)

LEMMA RoleFacts ==
    /\ store \in Roles /\ dataset \in Roles /\ Variants \subseteq Roles
    /\ store \notin Variants /\ dataset \notin Variants /\ dataset # store
    /\ \A x \in Roles : x = dataset \/ x = store \/ x \in Variants
    /\ \A r \in 1..Runs, x \in Roles : <<r, x>> \in Borrowers
    /\ \A x : OnOtel(<<run, x>>) <=> StoreOnOtel /\ x = store
BY EAssumption DEF Roles, store, dataset, Variants, Borrowers, OnOtel

Borrow(x) ==
    /\ x \in remote /\ vendor # "otel" /\ Takes(<<run, x>>)
    /\ UNCHANGED <<config, run, pipes, cells>>
    /\ \/ x = dataset /\ phase = "plan" /\ phase' = "load" /\ nth' = nth
       \/ x \in Variants /\ phase = "build" /\ nth = x /\ nth' = x + 1 /\ phase' = phase
       \/ x = store /\ phase = "build" /\ nth = E + 1 /\ phase' = "enter" /\ nth' = nth

BorrowOtel ==
    /\ phase = "enter" /\ store \in remote /\ TakesOtel(Store)
    /\ UNCHANGED <<config, closed, place, pipes, cells>>

\* The exit of the enrichers goes on.
GoesDownTo(v) ==
    /\ phase = "exit" /\ nth = v
    /\ IF v = 1 THEN phase' = "exitStore" /\ nth' = nth ELSE nth' = v - 1 /\ phase' = phase

Shuts(o) == o # None /\ Sent(<<"otel", o>>)

Return(a) ==
    /\ Gives(a) /\ UNCHANGED <<config, run, cells>>
    /\ \/ \E v \in Variants :
             /\ a = <<run, v>> /\ GoesDownTo(v)
             /\ (UNCHANGED pipes /\ otel'.client = otel.client) \/ Shuts(otel.client)
       \/ /\ a = Store /\ ~StoreOnOtel /\ phase = "exitStore" /\ phase' = "over" /\ nth' = nth
          /\ Sent(<<"client", Mine(store)>>) /\ UNCHANGED <<otel, closed>>
       \/ \E r \in 1..Runs :
             /\ a = <<r, dataset>> /\ (r < run \/ phase \notin Planning)
             /\ UNCHANGED <<place, closed>>
             /\ (UNCHANGED pipes /\ otel'.client = otel.client) \/ Shuts(otel.client)

ReturnOtel ==
    /\ GivesOtel(Store) /\ UNCHANGED <<config, run, cells>>
    /\ phase = "exitStore" /\ phase' = "over" /\ nth' = nth
    /\ (UNCHANGED pipes /\ otel'.client = otel.client) \/ Shuts(otel.client)

\* Nobody takes or gives anything.
GoesOn ==
    /\ UNCHANGED <<config, clients>>
    /\ \/ UNCHANGED <<pipes, saved>>
       \/ UNCHANGED <<place, saved>> /\ \E p \in Pipes : Sent(p)
       \/ \E v \in Variants : SaveTrace(v)
    /\ \/ UNCHANGED place
       \/ phase = "plan" /\ dataset \notin remote /\ phase' = "build" /\ UNCHANGED <<run, nth>>
       \/ phase = "load" /\ Searches(Mine(dataset)) /\ phase' = "build" /\ UNCHANGED <<run, nth>>
       \/ phase \in {"load", "build"} /\ phase' = "over" /\ UNCHANGED <<run, nth>>
       \/ phase = "enter" /\ ~Planned /\ phase' = "over" /\ UNCHANGED <<run, nth>>
       \/ phase = "build" /\ nth \in Variants /\ ~Borrows(nth) /\ nth' = nth + 1 /\ UNCHANGED <<run, phase>>
       \/ /\ phase = "build" /\ nth = E + 1 /\ ~(store \in remote /\ ~StoreOnOtel)
          /\ phase' = "enter" /\ UNCHANGED <<run, nth>>
       \/ phase = "enter" /\ StoreEntered /\ phase' \in {"cells", "exitStore"} /\ UNCHANGED <<run, nth>>
       \/ CellsDone
       \/ run' = run /\ \E v \in Variants : GoesDownTo(v) /\ ~Borrows(v)
       \/ phase = "exitStore" /\ store \notin remote /\ phase' = "over" /\ UNCHANGED <<run, nth>>
       \/ NextRun

LEMMA AcquireTakes ==
    ASSUME ClientsTypeOK, VendorFits, NEW x \in Roles, x \in remote, vendor # "otel",
           Mine(x) = None, ~(StoreOnOtel /\ x = store), Acquire(<<run, x>>)
    PROVE  Takes(<<run, x>>)
<1>1. ~OnOtel(<<run, x>>)
  BY RoleFacts
<1>2. CASE AcquireNesting(<<run, x>>) /\ Nests
  BY <1>1, <1>2 DEF AcquireNesting, Takes, Mine
<1>3. CASE AcquirePlain(<<run, x>>) /\ ~Nests
  BY <1>1, <1>3 DEF AcquirePlain, Takes, Mine
<1> QED BY <1>2, <1>3 DEF Acquire, AcquirePhoenix, AcquireArize, AcquireLangfuse, AcquireBraintrust,
        AcquireHelicone, AcquireNothing, Nests

\* What all the releases of a client come to.
LEMMA ReleaseGives ==
    ASSUME ClientsTypeOK, Registered, NEW a \in Borrowers, holds[a] # None, ~OnOtel(a),
           \/ (ReleasePhoenix(a) \/ ReleaseArize(a)) /\ (closed' = closed \/ CloseHttp(holds[a]))
           \/ (ReleaseLangfuse(a) \/ ReleaseBraintrust(a) \/ ReleaseHelicone(a)) /\ closed' = closed
    PROVE  /\ Gives(a)
           /\ Nests => (UNCHANGED pipes /\ otel'.client = otel.client) \/ Shuts(otel.client)
           /\ ~Nests => otel' = otel
<1>1. holds[a] = registry.client /\ registry.client # None
  BY DEF Registered, Holders, OnOtel
<1>2. GoesDown(registry, holds[a]) <=> LastOne
  BY <1>1, DroppedFacts DEF ClientsTypeOK, Registered, LastOne
<1>3. CASE /\ Nests /\ ReleaseNesting(a, ~keyed)
           /\ closed' = closed \/ closed' = closed \cup {holds[a]}
  <2>1. Releases <=> ~keyed
    BY <1>3 DEF Releases
  <2>2. CASE ~Releases \/ ~LastOne
    BY <1>1, <1>2, <1>3, <2>1, <2>2 DEF ReleaseNesting, Gives, Downs, LastOne
  <2>3. CASE Releases /\ LastOne
    <3>1. nested[holds[a]] = otel.client /\ otel.client # None
      BY <1>1, <1>3, Counts DEF Registered
    <3>2. ReleaseOtel(otel.client, down \cup {<<"client", registry.client>>})
      BY <1>1, <1>2, <1>3, <2>1, <2>3, <3>1 DEF ReleaseNesting
    <3>3. /\ GoesDown(otel, otel.client) <=> otel.refs = 1
          /\ Dropped(otel, otel.client).client = IF otel.refs = 1 THEN None ELSE otel.client
      BY <3>1, DroppedFacts DEF ClientsTypeOK, Registered
    <3>4. down' = down \cup Downs /\ otel' = Dropped(otel, otel.client)
      BY <1>3, <2>3, <3>2, <3>3 DEF ReleaseOtel, Downs
    <3>5. (UNCHANGED pipes /\ otel'.client = otel.client) \/ Shuts(otel.client)
      BY <3>1, <3>2, <3>3 DEF ReleaseOtel, OtelShutdown, Shuts
    <3>6. registry' = Dropped(registry, registry.client) /\ holds' = [holds EXCEPT ![a] = None] /\ UNCHANGED nested
      BY <1>1, <1>3, <2>1, <2>3 DEF ReleaseNesting
    <3> QED BY <1>1, <1>3, <2>3, <3>4, <3>5, <3>6 DEF Gives, LastOne
  <2> QED BY <2>2, <2>3
<1>4. CASE ~Nests /\ ReleasePlain(a) /\ closed' = closed
  BY <1>1, <1>2, <1>4 DEF ReleasePlain, Gives, Downs, LastOne, Releases
<1> QED BY <1>3, <1>4 DEF ReleasePhoenix, ReleaseArize, ReleaseLangfuse, ReleaseBraintrust, ReleaseHelicone,
        PhoenixReleaseFinds, ArizeReleaseFinds, CloseHttp, Nests

LEMMA PlanSteps ==
    ASSUME ClientsTypeOK, VendorFits, Borrowed, Plan
    PROVE  (\E x \in Roles : Borrow(x)) \/ GoesOn
<1>1. CASE BuildDataset
  <2>1. CASE dataset \in remote
    <3>1. /\ phase = "plan" /\ phase' = "load" /\ Acquire(<<run, dataset>>)
          /\ UNCHANGED <<config, run, nth, pipes, cells>>
      BY <1>1, <2>1 DEF BuildDataset, Dataset
    <3>2. vendor # "otel" /\ Mine(dataset) = None
      BY <2>1, <3>1 DEF VendorFits, Borrowed
    <3>3. Takes(<<run, dataset>>)
      BY <2>1, <3>1, <3>2, RoleFacts, AcquireTakes
    <3> QED BY <2>1, <3>1, <3>2, <3>3, RoleFacts DEF Borrow
  <2> QED BY <1>1, <2>1 DEF BuildDataset, GoesOn
<1>2. CASE LoadCases
  BY <1>2 DEF LoadCases, GoesOn, Dataset, Mine
<1>3. CASE BuildStore
  <2>1. CASE store \in remote /\ ~StoreOnOtel
    <3>1. /\ phase = "build" /\ nth = E + 1 /\ phase' = "enter" /\ Acquire(<<run, store>>)
          /\ UNCHANGED <<config, run, nth, pipes, cells>>
      BY <1>3, <2>1 DEF BuildStore, Store
    <3>2. vendor # "otel" /\ Mine(store) = None
      BY <2>1, <3>1 DEF StoreOnOtel, Borrowed, ClientsTypeOK, Mine, Planning
    <3>3. Takes(<<run, store>>)
      BY <2>1, <3>1, <3>2, RoleFacts, AcquireTakes
    <3> QED BY <2>1, <3>1, <3>2, <3>3, RoleFacts DEF Borrow
  <2> QED BY <1>3, <2>1 DEF BuildStore, GoesOn
<1>4. CASE BuildFails
  BY <1>4 DEF BuildFails, GoesOn
<1>5. ASSUME NEW v \in Variants, BuildEnricher(v) PROVE (\E x \in Roles : Borrow(x)) \/ GoesOn
  <2>1. CASE Borrows(v)
    <3>1. /\ phase = "build" /\ nth = v /\ nth' = v + 1 /\ Acquire(<<run, v>>)
          /\ UNCHANGED <<config, run, phase, pipes, cells>> /\ v \in remote /\ vendor # "otel"
      BY <1>5, <2>1 DEF BuildEnricher, Borrows
    <3>2. Mine(v) = None
      BY <3>1 DEF Borrowed, Planning, Variants
    <3>3. Takes(<<run, v>>)
      BY <3>1, <3>2, RoleFacts, AcquireTakes
    <3> QED BY <3>1, <3>3, RoleFacts DEF Borrow
  <2>2. CASE ~Borrows(v)
    <3>1. UNCHANGED clients
      BY <1>5, <2>2 DEF BuildEnricher, Borrows, Acquire, AcquirePhoenix, AcquireArize, AcquireLangfuse,
            AcquireBraintrust, AcquireHelicone, AcquireNothing
    <3> QED BY <1>5, <2>2, <3>1 DEF BuildEnricher, GoesOn
  <2> QED BY <2>1, <2>2
<1> QED BY <1>1, <1>2, <1>3, <1>4, <1>5 DEF Plan

LEMMA OpenSteps ==
    ASSUME ClientsTypeOK, Open
    PROVE  BorrowOtel \/ GoesOn
<1>1. CASE EnterOtelStore
  <2>1. TakesOtel(Store)
    BY <1>1, RoleFacts DEF EnterOtelStore, TakesOtel, Store
  <2>2. closed' = closed
    BY <1>1 DEF EnterOtelStore, AcquireOtel
  <2> QED BY <1>1, <2>1, <2>2 DEF EnterOtelStore, BorrowOtel
<1>2. CASE Opened \/ OpenFails
  BY <1>2 DEF Opened, OpenFails, GoesOn
<1> QED BY <1>1, <1>2 DEF Open

LEMMA ExitEnricherSteps ==
    ASSUME ClientsTypeOK, VendorFits, Registered, Borrowed, NEW v \in Variants, ExitEnricher(v)
    PROVE  Return(<<run, v>>) \/ GoesOn
<1>1. GoesDownTo(v) /\ UNCHANGED <<config, run, cells>>
  BY DEF ExitEnricher, GoesDownTo
<1>2. CASE ~Borrows(v)
  <2>1. UNCHANGED <<clients, pipes>>
    <3>1. CASE v \notin remote
      BY <3>1 DEF ExitEnricher
    <3>2. CASE v \in remote /\ vendor = "otel"
      BY <3>2 DEF ExitEnricher, ExitOfVendor, ExitPhoenixEnricher, ExitArizeEnricher, ExitLangfuseEnricher,
            ExitBraintrustEnricher, ExitOtelEnricher, ReleasePhoenix, ReleaseArize, ReleaseLangfuse,
            ReleaseBraintrust
    <3> QED BY <1>2, <3>1, <3>2 DEF Borrows
  <2> QED BY <1>1, <1>2, <2>1 DEF GoesOn
<1>3. CASE Borrows(v)
  <2> DEFINE a == <<run, v>>
  <2>1. a \in Borrowers /\ ~OnOtel(a)
    BY RoleFacts DEF ClientsTypeOK
  <2>2. holds[a] # None
    BY <1>1, <1>3 DEF GoesDownTo, Borrowed, Mine, Variants
  <2>3. ExitOfVendor(a) /\ vendor # "otel"
    BY <1>3 DEF ExitEnricher, Borrows
  <2>4. \/ /\ ReleasePhoenix(a) \/ ReleaseArize(a)
           /\ CloseHttp(holds[a])
        \/ (ReleaseLangfuse(a) \/ ReleaseBraintrust(a)) /\ UNCHANGED <<closed, pipes>>
    BY <2>3 DEF ExitOfVendor, ExitPhoenixEnricher, ExitArizeEnricher, ExitLangfuseEnricher,
          ExitBraintrustEnricher, ExitOtelEnricher
  <2>5. /\ Gives(a)
        /\ Nests => (UNCHANGED pipes /\ otel'.client = otel.client) \/ Shuts(otel.client)
        /\ ~Nests => otel' = otel
    BY <2>1, <2>2, <2>4, ReleaseGives
  <2>6. ~Nests => UNCHANGED pipes
    BY <2>4 DEF ReleasePhoenix, ReleaseArize, Nests
  <2>7. (UNCHANGED pipes /\ otel'.client = otel.client) \/ Shuts(otel.client)
    BY <2>5, <2>6
  <2> QED BY <1>1, <2>5, <2>7 DEF Return
<1> QED BY <1>2, <1>3

LEMMA ExitStoreSteps ==
    ASSUME ClientsTypeOK, VendorFits, Registered, Borrowed, ExitStore
    PROVE  Return(Store) \/ ReturnOtel \/ GoesOn
<1>1. /\ phase = "exitStore" /\ phase' = "over" /\ nth' = nth /\ UNCHANGED <<config, run, cells>>
      /\ Store \in Borrowers /\ (OnOtel(Store) <=> StoreOnOtel)
  BY RoleFacts DEF ExitStore, ClientsTypeOK, Store
<1>2. CASE store \notin remote
  BY <1>1, <1>2 DEF ExitStore, GoesOn
<1>3. CASE store \in remote
  <2>1. holds[Store] # None /\ Mine(store) = holds[Store]
    BY <1>1, <1>3 DEF Borrowed, Storing, Mine, Store
  <2>2. CASE ExitOtelStore
    <3>1. StoreOnOtel /\ ReleaseOtel(holds[Store], down) /\ holds' = [holds EXCEPT ![Store] = None]
          /\ UNCHANGED <<registry, nested, closed>>
      BY <2>2 DEF ExitOtelStore
    <3>2. holds[Store] = otel.client
      BY <1>1, <2>1, <3>1 DEF Registered, OtelHolders, OnOtel
    <3>3. /\ GoesDown(otel, otel.client) <=> otel.refs = 1
          /\ Dropped(otel, otel.client).client = IF otel.refs = 1 THEN None ELSE otel.client
      BY <2>1, <3>2, DroppedFacts DEF ClientsTypeOK, Registered
    <3>4. /\ otel' = Dropped(otel, otel.client)
          /\ down' = down \cup (IF otel.refs = 1 THEN {<<"otel", otel.client>>} ELSE {})
          /\ (UNCHANGED pipes /\ otel'.client = otel.client) \/ Shuts(otel.client)
      BY <2>1, <3>1, <3>2, <3>3 DEF ReleaseOtel, OtelShutdown, Shuts
    <3> QED BY <1>1, <2>1, <3>1, <3>4 DEF ReturnOtel, GivesOtel
  <2>3. CASE ExitLangfuseStore \/ ExitBraintrustStore
    <3>1. /\ Sent(<<"client", Mine(store)>>) /\ closed' = closed
          /\ ReleaseLangfuse(Store) \/ ReleaseBraintrust(Store)
      BY <2>1, <2>3 DEF ExitLangfuseStore, ExitBraintrustStore
    <3>2. ~StoreOnOtel /\ ~Nests
      BY <3>1 DEF StoreOnOtel, Nests, ReleaseLangfuse, ReleaseBraintrust
    <3>3. Gives(Store) /\ otel' = otel
      BY <1>1, <2>1, <3>1, <3>2, ReleaseGives
    <3> QED BY <1>1, <3>1, <3>2, <3>3 DEF Return
  <2> QED BY <1>3, <2>2, <2>3 DEF ExitStore
<1> QED BY <1>2, <1>3

LEMMA CollectSteps ==
    ASSUME ClientsTypeOK, VendorFits, Registered, Borrowed, NEW r \in 1..Runs, CollectDataset(r)
    PROVE  Return(<<r, dataset>>)
<1> DEFINE a == <<r, dataset>>
<1>1. /\ holds[a] # None /\ (r < run \/ phase \notin Planning) /\ UNCHANGED <<config, place, cells>>
      /\ a \in Borrowers /\ ~OnOtel(a)
  BY RoleFacts DEF CollectDataset, Planning, OnOtel
<1>2. \/ (ReleasePhoenix(a) \/ ReleaseArize(a)) /\ closed' = closed
      \/ /\ ReleaseLangfuse(a) \/ ReleaseBraintrust(a) \/ ReleaseHelicone(a)
         /\ UNCHANGED <<closed, pipes>>
  BY DEF CollectDataset
<1>3. /\ Gives(a)
      /\ Nests => (UNCHANGED pipes /\ otel'.client = otel.client) \/ Shuts(otel.client)
      /\ ~Nests => otel' = otel
  BY <1>1, <1>2, ReleaseGives
<1>4. ~Nests => UNCHANGED pipes
  BY <1>2 DEF ReleasePhoenix, ReleaseArize, Nests
<1>5. (UNCHANGED pipes /\ otel'.client = otel.client) \/ Shuts(otel.client)
  BY <1>3, <1>4
<1>6. closed' = closed
  BY <1>2
<1> QED BY <1>1, <1>3, <1>5, <1>6 DEF Return

LEMMA Steps ==
    ASSUME ClientsTypeOK, VendorFits, Registered, Borrowed, [ClientsNext]_clientVars
    PROVE  \/ \E x \in Roles : Borrow(x)
           \/ BorrowOtel
           \/ \E a \in Borrowers : Return(a)
           \/ ReturnOtel
           \/ GoesOn
<1>0. run \in 1..Runs
  BY DEF ClientsTypeOK
<1>1. CASE Plan \/ Open
  BY <1>1, PlanSteps, OpenSteps
<1>2. CASE CellsDone \/ NextRun
  BY <1>2 DEF GoesOn, CellsDone, NextRun
<1>3. CASE ExitStore \/ \E v \in Variants : ExitEnricher(v)
  BY <1>0, <1>3, ExitStoreSteps, ExitEnricherSteps, RoleFacts DEF Store
<1>4. ASSUME NEW v \in Variants, Cell(v) \/ Platform(v) PROVE GoesOn
  BY <1>4 DEF Cell, Platform, Enrich, Fetch, Wake, SaveTrace, Ingest, WaitIsOver, GoesOn
<1>5. CASE \E r \in 1..Runs : CollectDataset(r)
  BY <1>5, CollectSteps, RoleFacts
<1>6. CASE (\E p \in Pipes : SendInBackground(p)) \/ ClientsTerminated \/ UNCHANGED clientVars
  BY <1>6 DEF SendInBackground, ClientsTerminated, clientVars, GoesOn
<1> QED BY <1>1, <1>2, <1>3, <1>4, <1>5, <1>6 DEF ClientsNext, ExitRun

-----------------------------------------------------------------------------
(* How many clients are created.                                             *)

LEMMA BorrowCreates ==
    ASSUME ClientsTypeOK, Registered, Borrowed, Created, NEW x \in Roles, Borrow(x)
    PROVE  registry' \in Entry /\ otel' \in Entry /\ Created'
<1>1. /\ registry' = Bumped(registry) /\ run' = run /\ run \in 1..Runs /\ <<run, x>> \in Borrowers
      /\ holds' = [holds EXCEPT ![<<run, x>>] = registry'.client]
      /\ (Nests /\ registry.client = None) \/ otel' = otel
      /\ (Nests /\ registry.client = None) => otel' = Bumped(otel)
  BY RoleFacts DEF Borrow, Takes, ClientsTypeOK
<1>2. registry.client = None => Untouched
  <2>1. CASE phase = "plan"
    BY <2>1 DEF Untouched
  <2>2. CASE phase = "build"
    <3> SUFFICES ASSUME registry.client = None, NEW y \in Roles PROVE Mine(y) = None
      BY <2>2 DEF Untouched
    <3>1. Holders = {}
      BY Counts
    <3>2. Mine(store) = None
      BY <2>2, <1>1 DEF Borrowed, Mine, Planning
    <3> QED BY <1>1, <3>1, <3>2, RoleFacts DEF Holders, Mine
  <2> QED BY <2>1, <2>2 DEF Borrow
<1>3. /\ registry.made <= run /\ (registry.client = None => registry.made <= run - 1)
      /\ otel.made <= registry.made + run - 1
  BY <1>1, <1>2, Counts DEF Created, StoreToCome, Borrow, Planning
<1>4. /\ registry' \in Entry /\ registry'.client # None
      /\ registry'.made = IF registry.client = None THEN registry.made + 1 ELSE registry.made
  BY <1>1, <1>3, Counts, RunsAssumption, BumpedFacts DEF Registered, ClientsTypeOK
<1>5. /\ otel' \in Entry
      /\ otel'.made <= IF registry.client = None THEN otel.made + 1 ELSE otel.made
  <2>1. otel \in Entry /\ Stands(otel)
    BY DEF ClientsTypeOK, Registered
  <2>2. otel.made < 2 * Runs
    BY <1>1, <1>3, Counts, RunsAssumption
  <2>3. CASE Nests /\ registry.client = None
    <3>1. Bumped(otel) \in Entry /\ Bumped(otel).made <= otel.made + 1
      BY <2>1, <2>2, Counts, BumpedFacts
    <3> QED BY <1>1, <2>3, <3>1
  <2>4. CASE otel' = otel
    BY <2>1, <2>4, Counts
  <2> QED BY <1>1, <2>3, <2>4
<1>6. ~Untouched'
  <2>1. holds'[<<run, x>>] # None
    BY <1>1, <1>4 DEF ClientsTypeOK
  <2> QED BY <1>1, <2>1 DEF Untouched, Borrow, Mine
<1>7. registry'.made <= run /\ otel'.made <= registry'.made + run - 1
  BY <1>1, <1>3, <1>4, <1>5, Counts DEF Entry
<1> QED BY <1>1, <1>4, <1>5, <1>6, <1>7 DEF Created, Entry

LEMMA BorrowOtelCreates ==
    ASSUME ClientsTypeOK, Registered, Borrowed, Created, BorrowOtel
    PROVE  registry' \in Entry /\ otel' \in Entry /\ Created'
<1>1. /\ otel' = Bumped(otel) /\ registry' = registry /\ UNCHANGED place /\ run \in 1..Runs
      /\ holds' = [holds EXCEPT ![Store] = otel'.client] /\ phase = "enter" /\ Mine(store) = None
      /\ Store \in Borrowers /\ Store = <<run, store>>
  BY RoleFacts DEF BorrowOtel, TakesOtel, AcquireOtel, ClientsTypeOK, Mine, Store
<1>2. registry.made <= run /\ otel.made <= registry.made + run - 1
  BY <1>1 DEF Created, Untouched, StoreToCome
<1>3. otel' \in Entry /\ otel'.made <= otel.made + 1
  BY <1>1, <1>2, Counts, RunsAssumption, BumpedFacts DEF Registered, ClientsTypeOK
<1>4. otel'.made <= registry'.made + run
  BY <1>1, <1>2, <1>3, Counts DEF Entry
<1>5. otel'.client # None
  BY <1>1, BumpedFacts DEF Registered, ClientsTypeOK
<1>6. ~StoreToCome' /\ ~Untouched'
  <2>1. holds'[Store] # None
    BY <1>1, <1>5 DEF ClientsTypeOK
  <2> QED BY <1>1, <2>1 DEF StoreToCome, Untouched, Planning, Mine
<1> QED BY <1>1, <1>2, <1>3, <1>4, <1>6 DEF Created, ClientsTypeOK

LEMMA EntriesOnReturn ==
    ASSUME ClientsTypeOK, Registered, NEW a \in Borrowers, Gives(a) \/ GivesOtel(a)
    PROVE  registry' \in Entry /\ otel' \in Entry /\ registry'.made = registry.made /\ otel'.made = otel.made
<1>1. /\ registry \in Entry /\ otel \in Entry /\ Stands(registry) /\ Stands(otel)
  BY DEF ClientsTypeOK, Registered
<1>2. CASE Gives(a)
  <2>1. registry.client # None
    BY <1>2, Counts DEF Gives, Holders, OnOtel
  <2>2. Nests => otel.client # None
    BY <2>1, Counts
  <2>3. registry' \in {registry, Dropped(registry, registry.client)}
        /\ otel' \in {otel} \cup (IF Nests THEN {Dropped(otel, otel.client)} ELSE {})
    BY <1>2 DEF Gives
  <2> QED BY <1>1, <2>1, <2>2, <2>3, DroppedFacts
<1>3. CASE GivesOtel(a)
  <2>1. otel.client # None
    BY <1>3, Counts DEF GivesOtel, OtelHolders, OnOtel
  <2> QED BY <1>1, <1>3, <2>1, DroppedFacts DEF GivesOtel
<1> QED BY <1>2, <1>3

LEMMA CreatedStep ==
    ASSUME ClientsTypeOK, VendorFits, Registered, Borrowed, Created, [ClientsNext]_clientVars
    PROVE  registry' \in Entry /\ otel' \in Entry /\ Created'
<1>0. /\ registry \in Entry /\ otel \in Entry /\ registry.made \in Nat /\ otel.made \in Nat /\ run \in 1..Runs
      /\ phase \in Phases /\ run \in Int
  BY Counts DEF ClientsTypeOK
<1>1. ASSUME NEW x \in Roles, Borrow(x) PROVE registry' \in Entry /\ otel' \in Entry /\ Created'
  BY <1>1, BorrowCreates
<1>2. CASE BorrowOtel
  BY <1>2, BorrowOtelCreates
<1>3. ASSUME NEW a \in Borrowers, Return(a) \/ (a = Store /\ ReturnOtel)
      PROVE  registry' \in Entry /\ otel' \in Entry /\ Created'
  <2>1. /\ registry' \in Entry /\ otel' \in Entry /\ registry'.made = registry.made /\ otel'.made = otel.made
        /\ run' = run
    BY <1>3, EntriesOnReturn DEF Return, ReturnOtel
  <2>2. CASE phase' = phase /\ phase # "exit" /\ phase # "exitStore"
    <3>1. PICK r \in 1..Runs : a = <<r, dataset>> /\ (r < run \/ phase \notin Planning)
      BY <1>3, <2>2 DEF Return, ReturnOtel, GoesDownTo
    <3>2. holds' = [holds EXCEPT ![a] = None] /\ holds[a] # None
      BY <1>3, <2>2 DEF Return, Gives, ReturnOtel
    <3>3. phase = "build" => \A x \in Roles : holds'[<<run, x>>] = holds[<<run, x>>]
      BY <1>0, <3>1, <3>2 DEF Planning, ClientsTypeOK
    <3>4. (Untouched' => Untouched) /\ Mine(store)' = Mine(store)
      BY <1>0, <2>1, <2>2, <3>1, <3>2, <3>3, RoleFacts DEF Untouched, Mine, ClientsTypeOK
    <3> QED BY <1>0, <2>1, <2>2, <3>4 DEF Created, StoreToCome
  <2>3. CASE phase \in {"exit", "exitStore"} /\ phase' \in {"exit", "exitStore", "over"}
    BY <1>0, <2>1, <2>3 DEF Created, Untouched, StoreToCome, Planning
  <2> QED BY <1>0, <1>3, <2>2, <2>3 DEF Return, ReturnOtel, GoesDownTo, Planning
<1>4. CASE GoesOn
  <2>1. registry' = registry /\ otel' = otel /\ holds' = holds
    BY <1>4 DEF GoesOn
  <2>2. CASE run' = run
    <3>1. (Untouched' => Untouched) /\ (StoreToCome' => StoreToCome)
      <4>1. CASE UNCHANGED place
        BY <2>1, <4>1 DEF Untouched, StoreToCome, Mine
      <4>2. CASE phase = "plan" \/ phase = "load"
        <5>1. phase = "load" => \E x \in Roles : holds[<<run, x>>] # None
          BY RoleFacts DEF Borrowed, Mine
        <5>2. phase = "load" => phase' # "plan"
          BY <1>4 DEF GoesOn, CellsDone, GoesDownTo, NextRun
        <5> QED BY <2>1, <2>2, <4>2, <5>1, <5>2 DEF Untouched, StoreToCome, Mine, Planning
      <4>3. CASE phase \notin {"plan", "load"} /\ ~UNCHANGED place
        BY <1>0, <1>4, <2>1, <2>2, <4>3 DEF GoesOn, Untouched, StoreToCome, Mine, Planning, CellsDone, GoesDownTo,
              NextRun, StoreEntered, Store
      <4> QED BY <4>1, <4>2, <4>3
    <3> QED BY <1>0, <2>1, <2>2, <3>1 DEF Created
  <2>3. CASE NextRun
    <3>1. run' = run + 1 /\ phase = "over" /\ phase' = "plan"
      BY <2>3 DEF NextRun
    <3>2. registry.made <= run /\ otel.made <= registry.made + run
      BY <3>1 DEF Created, Untouched, StoreToCome, Planning
    <3>3. Untouched' /\ StoreToCome'
      BY <3>1 DEF Untouched, StoreToCome, Planning
    <3> QED BY <1>0, <2>1, <3>1, <3>2, <3>3 DEF Created
  <2> QED BY <1>0, <1>4, <2>1, <2>2, <2>3 DEF GoesOn, CellsDone
<1> QED BY <1>0, <1>1, <1>2, <1>3, <1>4, Steps, RoleFacts DEF Store

LEMMA RegisteredStep ==
    ASSUME ClientsTypeOK, VendorFits, Registered, Borrowed, Created, [ClientsNext]_clientVars
    PROVE  Registered'
<1>1. run \in 1..Runs /\ registry' \in Entry /\ otel' \in Entry
  BY CreatedStep DEF ClientsTypeOK
<1>2. ASSUME NEW x \in Roles, Borrow(x) PROVE Registered'
  BY <1>1, <1>2, RoleFacts, TakesRegistered DEF Borrow
<1>3. CASE BorrowOtel
  BY <1>1, <1>3, RoleFacts, TakesOtelRegistered DEF BorrowOtel, Store
<1>4. ASSUME NEW a \in Borrowers, Return(a) PROVE Registered'
  BY <1>4, GivesRegistered DEF Return
<1>5. CASE ReturnOtel
  BY <1>1, <1>5, RoleFacts, GivesOtelRegistered DEF ReturnOtel, Store
<1>6. CASE GoesOn
  BY <1>6 DEF GoesOn, Registered, Stands, Holders, OtelHolders, CountsHolders, StoreOnOtel, Nests, Releases
<1> QED BY <1>2, <1>3, <1>4, <1>5, <1>6, Steps

-----------------------------------------------------------------------------
(* Who holds a reference.                                                    *)

LEMMA BorrowBorrowed ==
    ASSUME ClientsTypeOK, Registered, Borrowed, NEW x \in Roles, Borrow(x)
    PROVE  Borrowed'
<1>1. /\ UNCHANGED <<config, run>> /\ x \in remote /\ vendor # "otel" /\ run \in 1..Runs
      /\ ~(StoreOnOtel /\ x = store)
  BY RoleFacts DEF Borrow, Takes, ClientsTypeOK
<1>2. \E c : c # None /\ \A r \in 1..Runs, y \in Roles :
                 holds'[<<r, y>>] = IF r = run /\ y = x THEN c ELSE holds[<<r, y>>]
  <2>1. registry'.client # None /\ holds' = [holds EXCEPT ![<<run, x>>] = registry'.client]
    BY BumpedFacts DEF Borrow, Takes, ClientsTypeOK, Registered
  <2> QED BY <2>1, RoleFacts DEF ClientsTypeOK
<1>3. PICK c : c # None /\ \A r \in 1..Runs, y \in Roles :
                 holds'[<<r, y>>] = IF r = run /\ y = x THEN c ELSE holds[<<r, y>>]
  BY <1>2
<1>4. (StoreOnOtel' <=> StoreOnOtel) /\ (\A y : Borrows(y)' <=> Borrows(y))
  BY <1>1, SameVendor DEF Borrows
<1> USE DEF Borrowed, Mine, Planning, Storing, Borrows
<1>5. CASE x = dataset /\ phase = "plan" /\ phase' = "load" /\ nth' = nth
  <2>1. nth = 1
    BY <1>5
  <2>2. \A v \in Variants : v >= nth /\ v # x /\ v # store
    BY <1>5, <2>1, RoleFacts DEF Variants
  <2> QED BY <1>1, <1>3, <1>4, <1>5, <2>1, <2>2, RoleFacts
<1>6. CASE x \in Variants /\ phase = "build" /\ nth = x /\ nth' = x + 1 /\ phase' = phase
  <2>1. /\ nth' \in 1..(E + 1)
        /\ \A v \in Variants : /\ v >= nth' => v >= nth /\ v # x
                               /\ v < nth' => v < nth \/ v = x
    BY <1>6, EAssumption DEF Variants
  <2> QED BY <1>1, <1>3, <1>4, <1>6, <2>1, RoleFacts
<1>7. CASE x = store /\ phase = "build" /\ nth = E + 1 /\ phase' = "enter" /\ nth' = nth
  <2>1. \A v \in Variants : v < nth
    BY <1>7, EAssumption DEF Variants
  <2> QED BY <1>1, <1>3, <1>4, <1>7, <2>1, RoleFacts
<1> QED BY <1>5, <1>6, <1>7 DEF Borrow

LEMMA BorrowOtelBorrowed ==
    ASSUME ClientsTypeOK, Registered, Borrowed, BorrowOtel
    PROVE  Borrowed'
<1>1. UNCHANGED <<config, place>> /\ phase = "enter" /\ store \in remote /\ run \in 1..Runs /\ StoreOnOtel
  BY RoleFacts DEF BorrowOtel, TakesOtel, ClientsTypeOK, Store
<1>2. \E c : c # None /\ \A r \in 1..Runs, y \in Roles :
                 holds'[<<r, y>>] = IF r = run /\ y = store THEN c ELSE holds[<<r, y>>]
  <2>1. otel'.client # None /\ holds' = [holds EXCEPT ![<<run, store>>] = otel'.client]
    BY BumpedFacts DEF BorrowOtel, TakesOtel, AcquireOtel, ClientsTypeOK, Registered, Store
  <2> QED BY <2>1, RoleFacts DEF ClientsTypeOK
<1>3. PICK c : c # None /\ \A r \in 1..Runs, y \in Roles :
                 holds'[<<r, y>>] = IF r = run /\ y = store THEN c ELSE holds[<<r, y>>]
  BY <1>2
<1>4. (StoreOnOtel' <=> StoreOnOtel) /\ (\A y : Borrows(y)' <=> Borrows(y))
  BY <1>1, SameVendor DEF Borrows
<1> QED BY <1>1, <1>3, <1>4, RoleFacts DEF Borrowed, Mine, Planning, Storing, Borrows

LEMMA ReturnBorrowed ==
    ASSUME ClientsTypeOK, Borrowed, NEW a \in Borrowers, Return(a) \/ (a = Store /\ ReturnOtel)
    PROVE  Borrowed'
<1>1. UNCHANGED <<config, run>> /\ run \in 1..Runs
  BY DEF Return, ReturnOtel, ClientsTypeOK
<1>2. \A r \in 1..Runs, y \in Roles : holds'[<<r, y>>] = IF <<r, y>> = a THEN None ELSE holds[<<r, y>>]
  <2>1. holds' = [holds EXCEPT ![a] = None]
    BY DEF Return, ReturnOtel, Gives, GivesOtel
  <2> QED BY <2>1, RoleFacts DEF ClientsTypeOK
<1>3. (StoreOnOtel' <=> StoreOnOtel) /\ (\A y : Borrows(y)' <=> Borrows(y))
  BY <1>1, SameVendor DEF Borrows
<1> USE DEF Borrowed, Mine, Planning, Storing, Borrows
<1>4. ASSUME NEW v \in Variants, a = <<run, v>>, GoesDownTo(v) PROVE Borrowed'
  <2>1. phase = "exit" /\ nth = v
    BY <1>4 DEF GoesDownTo
  <2>2. CASE v = 1
    BY <1>1, <1>2, <1>3, <1>4, <2>1, <2>2, RoleFacts DEF GoesDownTo
  <2>3. CASE v # 1
    <3>1. /\ nth' \in Variants /\ phase' = "exit"
          /\ \A w \in Variants : w <= nth' => w <= nth /\ w # v
      BY <1>4, <2>1, <2>3, EAssumption DEF GoesDownTo, Variants
    <3> QED BY <1>1, <1>2, <1>3, <1>4, <2>1, <3>1, RoleFacts
  <2> QED BY <2>2, <2>3
<1>5. CASE a = Store /\ phase = "exitStore" /\ phase' = "over"
  BY <1>1, <1>2, <1>3, <1>5, RoleFacts DEF Store
<1>6. ASSUME NEW r \in 1..Runs, a = <<r, dataset>>, r < run \/ phase \notin Planning, UNCHANGED place
      PROVE  Borrowed'
  BY <1>1, <1>2, <1>3, <1>6, RoleFacts
<1> QED BY <1>4, <1>5, <1>6 DEF Return, ReturnOtel

LEMMA GoesOnBorrowed ==
    ASSUME ClientsTypeOK, Borrowed, GoesOn
    PROVE  Borrowed'
<1>1. UNCHANGED <<config, holds>> /\ run \in 1..Runs /\ phase \in Phases
  BY DEF GoesOn, ClientsTypeOK
<1>2. (StoreOnOtel' <=> StoreOnOtel) /\ (\A y : Borrows(y)' <=> Borrows(y))
  BY <1>1, SameVendor DEF Borrows
<1> USE DEF Borrowed, Mine, Planning, Storing, Borrows
<1>3. CASE UNCHANGED place
  BY <1>1, <1>2, <1>3
<1>4. CASE /\ phase \in {"plan", "load"} /\ (phase = "plan" => dataset \notin remote)
           /\ phase' = "build" /\ UNCHANGED <<run, nth>>
  BY <1>1, <1>2, <1>4
<1>5. CASE phase' = "over" /\ phase \in {"load", "build"} /\ UNCHANGED <<run, nth>>
  BY <1>1, <1>2, <1>5, RoleFacts
<1>13. CASE phase = "enter" /\ ~Planned /\ phase' = "over" /\ UNCHANGED <<run, nth>>
  BY <1>1, <1>2, <1>13, RoleFacts DEF Planned, Store
<1>6. CASE phase = "build" /\ nth \in Variants /\ ~Borrows(nth) /\ nth' = nth + 1 /\ UNCHANGED <<run, phase>>
  <2>1. /\ nth' \in 1..(E + 1)
        /\ \A v \in Variants : /\ v >= nth' => v >= nth
                               /\ v < nth' => v < nth \/ v = nth
    BY <1>6, EAssumption DEF Variants
  <2> QED BY <1>1, <1>2, <1>6, <2>1
<1>7. CASE /\ phase = "build" /\ nth = E + 1 /\ ~(store \in remote /\ ~StoreOnOtel)
           /\ phase' = "enter" /\ UNCHANGED <<run, nth>>
  <2>1. \A v \in Variants : v < nth
    BY <1>7, EAssumption DEF Variants
  <2> QED BY <1>1, <1>2, <1>7, <2>1
<1>8. CASE phase = "enter" /\ StoreEntered /\ phase' \in {"cells", "exitStore"} /\ UNCHANGED <<run, nth>>
  BY <1>1, <1>2, <1>8 DEF StoreEntered, Store
<1>9. CASE CellsDone
  <2>1. E \in Variants
    BY EAssumption DEF Variants
  <2> QED BY <1>1, <1>2, <1>9, <2>1 DEF CellsDone
<1>10. ASSUME NEW v \in Variants, run' = run, GoesDownTo(v), ~Borrows(v) PROVE Borrowed'
  <2>1. CASE v = 1
    BY <1>1, <1>2, <1>10, <2>1 DEF GoesDownTo
  <2>2. CASE v # 1
    <3>1. /\ nth' \in Variants /\ phase' = phase /\ phase = "exit" /\ nth = v
          /\ \A w \in Variants : w <= nth' => w <= nth
      BY <1>10, <2>2, EAssumption DEF GoesDownTo, Variants
    <3> QED BY <1>1, <1>2, <1>10, <3>1
  <2> QED BY <2>1, <2>2
<1>11. CASE phase = "exitStore" /\ store \notin remote /\ phase' = "over" /\ UNCHANGED <<run, nth>>
  BY <1>1, <1>2, <1>11, RoleFacts
<1>12. CASE NextRun
  <2>1. /\ phase = "over" /\ run' = run + 1 /\ phase' = "plan" /\ nth' = 1 /\ run < Runs /\ run' \in 1..Runs
    BY <1>1, <1>12, RunsAssumption DEF NextRun
  <2>2. \A r \in 1..Runs : r <= run => r <= run' /\ r # run'
    BY <1>1, <2>1
  <2>3. \A x \in Roles : holds[<<run', x>>] = None
    BY <1>1, <2>1, <2>2
  <2>4. 1 \in 1..(E + 1) /\ \A v \in Variants : ~(v < 1)
    BY EAssumption DEF Variants
  <2> QED BY <1>1, <1>2, <2>1, <2>2, <2>3, <2>4, RoleFacts
<1> QED BY <1>3, <1>4, <1>5, <1>6, <1>7, <1>8, <1>9, <1>10, <1>11, <1>12, <1>13 DEF GoesOn

LEMMA BorrowedStep ==
    ASSUME ClientsTypeOK, VendorFits, Registered, Borrowed, [ClientsNext]_clientVars
    PROVE  Borrowed'
<1>1. Store \in Borrowers
  BY RoleFacts DEF Store, ClientsTypeOK
<1> QED BY <1>1, Steps, BorrowBorrowed, BorrowOtelBorrowed, ReturnBorrowed, GoesOnBorrowed

-----------------------------------------------------------------------------
(* The cells.                                                                *)

CellsTyped ==
    /\ cell \in [Variants -> {"ready", "asked", "asleep", "enriched", "saved"}]
    /\ there \subseteq Variants /\ overdue \subseteq Variants
    /\ tries \in [Variants -> 0..Attempts]
    /\ fate \in [Variants -> {"none", "merged", "missed", "noTraceId", "dead"}]
    /\ saved \subseteq (1..Runs) \X Variants

LEMMA CellsStep ==
    ASSUME ClientsTypeOK, CellsFit, [ClientsNext]_clientVars
    PROVE  CellsFit' /\ CellsTyped'
<1>0. CellsTyped /\ run \in 1..Runs
  BY DEF ClientsTypeOK, CellsTyped
<1>1. ASSUME NEW v \in Variants, Cell(v) PROVE CellsFit' /\ CellsTyped'
  <2>1. UNCHANGED <<remote, phase>>
    BY <1>1 DEF Cell, Enrich, Fetch, Wake, SaveTrace
  <2>2. CASE Enrich(v)
    BY <1>0, <2>1, <2>2, AttemptsAssumption DEF Enrich, Step, EndsAs, CellsFit, CellsTyped
  <2>3. CASE Wake(v)
    BY <1>0, <2>1, <2>3 DEF Wake, Step, CellsFit, CellsTyped
  <2>4. CASE SaveTrace(v)
    BY <1>0, <2>1, <2>4 DEF SaveTrace, Step, CellsFit, CellsTyped
  <2>5. CASE Fetch(v)
    <3>1. /\ cell[v] = "asked" /\ phase = "cells" /\ v \in remote /\ tries[v] < Attempts
          /\ UNCHANGED <<there, overdue, saved>>
      BY <2>5 DEF Fetch, FetchFromPlatform, FetchPhoenix, FetchArize, FetchLangfuse, FetchBraintrust, FetchOtel,
            PollHttp, PollSdk, Found, Missed, CellsFit
    <3>2. /\ \/ cell' = [cell EXCEPT ![v] = "asleep"] /\ fate' = fate
             \/ \E as \in {"merged", "missed", "dead"} : EndsAs(v, as)
          /\ \/ tries' = tries
             \/ /\ tries' = [tries EXCEPT ![v] = @ + 1]
                /\ cell' = [cell EXCEPT ![v] = "asleep"] =>
                      tries'[v] < Attempts \/ \E as \in {"merged", "missed"} : EndsAs(v, as)
      BY <2>5, <3>1, <1>0, AttemptsAssumption DEF Fetch, FetchFromPlatform, FetchPhoenix, FetchArize,
            FetchLangfuse, FetchBraintrust, FetchOtel, PollHttp, PollSdk, Found, Missed, Step
    <3> QED BY <1>0, <2>1, <3>1, <3>2, AttemptsAssumption DEF EndsAs, CellsFit, CellsTyped
  <2> QED BY <1>1, <2>2, <2>3, <2>4, <2>5 DEF Cell
<1>2. ASSUME NEW v \in Variants, Platform(v) PROVE CellsFit' /\ CellsTyped'
  BY <1>0, <1>2 DEF Platform, Ingest, WaitIsOver, CellsFit, CellsTyped
<1>3. CASE NextRun
  BY <1>0, <1>3, AttemptsAssumption DEF NextRun, CellsFit, CellsTyped
<1>4. CASE /\ UNCHANGED cells /\ remote' = remote
           /\ phase # "cells" \/ phase' = phase \/ \A v \in Variants : cell[v] = "saved"
  BY <1>0, <1>4 DEF CellsFit, CellsTyped
<1>5. CASE Plan \/ Open \/ CellsDone \/ ExitStore \/ \E v \in Variants : ExitEnricher(v)
  BY <1>4, <1>5 DEF Plan, BuildDataset, LoadCases, BuildStore, BuildFails, BuildEnricher, Open,
        EnterOtelStore, Opened, OpenFails, CellsDone, ExitStore, ExitEnricher
<1>6. CASE \/ \E r \in 1..Runs : CollectDataset(r)
           \/ \E p \in Pipes : SendInBackground(p)
           \/ ClientsTerminated \/ UNCHANGED clientVars
  BY <1>4, <1>6 DEF CollectDataset, SendInBackground, ClientsTerminated, clientVars
<1> QED BY <1>1, <1>2, <1>3, <1>5, <1>6 DEF ClientsNext, ExitRun

-----------------------------------------------------------------------------
(* Types.                                                                    *)

LEMMA TypeOfClients ==
    ASSUME ClientsTypeOK, VendorFits, Registered, Borrowed, Created, [ClientsNext]_clientVars
    PROVE  /\ holds' \in [Borrowers -> Clients \cup {None}] /\ registry' \in Entry /\ otel' \in Entry
           /\ nested' \in [Clients -> Clients \cup {None}] /\ closed' \subseteq Clients /\ down' \subseteq Pipes
<1>1. registry' \in Entry /\ otel' \in Entry
  BY CreatedStep
<1>2. /\ registry'.client \in Clients \cup {None} /\ otel'.client \in Clients \cup {None}
      /\ registry.client \in Clients \cup {None} /\ otel.client \in Clients \cup {None}
  BY <1>1, Counts DEF Entry
<1>3. /\ holds \in [Borrowers -> Clients \cup {None}] /\ nested \in [Clients -> Clients \cup {None}]
      /\ closed \subseteq Clients /\ down \subseteq Pipes
  BY DEF ClientsTypeOK
<1>4. ASSUME NEW a \in Borrowers, Takes(a) PROVE /\ holds' \in [Borrowers -> Clients \cup {None}]
                                                 /\ nested' \in [Clients -> Clients \cup {None}]
                                                 /\ closed' \subseteq Clients /\ down' \subseteq Pipes
  BY <1>2, <1>3, <1>4 DEF Takes
<1>5. ASSUME NEW a \in Borrowers, Gives(a) PROVE /\ holds' \in [Borrowers -> Clients \cup {None}]
                                                 /\ nested' \in [Clients -> Clients \cup {None}]
                                                 /\ closed' \subseteq Clients /\ down' \subseteq Pipes
  <2>1. registry.client \in Clients /\ (Nests => otel.client \in Clients)
    BY <1>2, <1>5, Counts DEF Gives, Holders, OnOtel
  <2>2. Downs \subseteq Pipes
    BY <2>1 DEF Downs, Pipes
  <2> QED BY <1>3, <1>5, <2>1, <2>2 DEF Gives
<1>6. CASE BorrowOtel
  BY <1>1, <1>2, <1>3, <1>6 DEF BorrowOtel, TakesOtel, AcquireOtel
<1>7. CASE ReturnOtel
  <2>1. otel.client \in Clients
    <3>1. Store \in OtelHolders
      BY <1>7, RoleFacts DEF ReturnOtel, GivesOtel, OtelHolders, OnOtel, Store, ClientsTypeOK
    <3> QED BY <1>2, <3>1, Counts
  <2>2. down' \subseteq Pipes
    BY <1>3, <1>7, <2>1 DEF ReturnOtel, GivesOtel, Pipes
  <2>3. holds' = [holds EXCEPT ![Store] = None] /\ UNCHANGED <<nested, closed>>
    BY <1>7 DEF ReturnOtel, GivesOtel
  <2> QED BY <1>1, <1>3, <2>2, <2>3
<1>8. CASE GoesOn
  BY <1>1, <1>3, <1>8 DEF GoesOn
<1> QED BY <1>1, <1>4, <1>5, <1>6, <1>7, <1>8, Steps, RoleFacts DEF Borrow, Return, ClientsTypeOK

LEMMA TypeOfPlace ==
    ASSUME ClientsTypeOK, VendorFits, Registered, Borrowed, [ClientsNext]_clientVars
    PROVE  run' \in 1..Runs /\ phase' \in Phases /\ nth' \in 0..(E + 1)
<1>1. run \in 1..Runs /\ phase \in Phases /\ nth \in 0..(E + 1)
  BY DEF ClientsTypeOK
<1>2. ASSUME NEW v \in Variants, GoesDownTo(v), run' = run
      PROVE  run' \in 1..Runs /\ phase' \in Phases /\ nth' \in 0..(E + 1)
  BY <1>1, <1>2, EAssumption DEF GoesDownTo, Phases, Variants
<1>3. ASSUME NEW x \in Roles, Borrow(x) PROVE run' \in 1..Runs /\ phase' \in Phases /\ nth' \in 0..(E + 1)
  BY <1>1, <1>3, EAssumption DEF Borrow, Phases, Variants
<1>4. CASE BorrowOtel \/ ReturnOtel
  BY <1>1, <1>4 DEF BorrowOtel, ReturnOtel, Phases
<1>5. ASSUME NEW a \in Borrowers, Return(a) PROVE run' \in 1..Runs /\ phase' \in Phases /\ nth' \in 0..(E + 1)
  BY <1>1, <1>2, <1>5 DEF Return, Phases
<1>6. CASE GoesOn
  <2>1. CASE CellsDone \/ NextRun
    BY <1>1, <2>1, EAssumption, RunsAssumption DEF CellsDone, NextRun, Phases
  <2>2. CASE phase = "build" /\ nth \in Variants /\ nth' = nth + 1 /\ UNCHANGED <<run, phase>>
    BY <1>1, <2>2, EAssumption DEF Variants
  <2> QED BY <1>1, <1>2, <1>6, <2>1, <2>2 DEF GoesOn, Phases
<1> QED BY <1>3, <1>4, <1>5, <1>6, Steps

-----------------------------------------------------------------------------
(* What is still to be sent.                                                 *)

Unsent == UNION {queue[p] : p \in Pipes}
Traces == (1..Runs) \X Variants

LEMMA SentFacts ==
    ASSUME ClientsTypeOK, NEW p \in Pipes, Sent(p)
    PROVE  /\ queue' \in [Pipes -> SUBSET Traces] /\ arrived' \subseteq Traces
           /\ queue'[p] = {} /\ \A q \in Pipes : q # p => queue'[q] = queue[q]
           /\ arrived \cup Unsent \subseteq arrived' \cup Unsent'
BY DEF Sent, ClientsTypeOK, Unsent, Traces

LEMMA PipesFollow ==
    ASSUME ClientsTypeOK, Piped, UNCHANGED saved,
           UNCHANGED pipes \/ \E p \in Pipes : Sent(p)
    PROVE  /\ queue' \in [Pipes -> SUBSET Traces] /\ arrived' \subseteq Traces
           /\ \A q \in Pipes : queue'[q] # {} => queue[q] # {}
           /\ saved' \subseteq arrived' \cup Unsent'
<1>1. CASE UNCHANGED pipes
  BY <1>1 DEF ClientsTypeOK, Piped, Unsent, Traces
<1>2. ASSUME NEW p \in Pipes, Sent(p)
      PROVE  /\ queue' \in [Pipes -> SUBSET Traces] /\ arrived' \subseteq Traces
             /\ \A q \in Pipes : queue'[q] # {} => queue[q] # {}
             /\ saved' \subseteq arrived' \cup Unsent'
  BY <1>2, SentFacts DEF Piped, Unsent
<1> QED BY <1>1, <1>2

LEMMA PipeNames == \A c \in Clients : <<"client", c>> \in Pipes /\ <<"otel", c>> \in Pipes
BY DEF Pipes

PipesTyped == queue \in [Pipes -> SUBSET Traces] /\ arrived \subseteq Traces

LEMMA PipedStep ==
    ASSUME ClientsTypeOK, VendorFits, Registered, Borrowed, Created, CellsFit, Piped, [ClientsNext]_clientVars
    PROVE  Piped' /\ PipesTyped'
<1>0. /\ run \in 1..Runs /\ run \in Int
      /\ registry.client \in Clients \cup {None} /\ otel.client \in Clients \cup {None}
      /\ \A c \in Clients : c # None
  BY Counts, Numbered DEF ClientsTypeOK
<1> USE DEF Storing
<1>1. ASSUME NEW x \in Roles, Borrow(x) PROVE Piped' /\ PipesTyped'
  <2>1. UNCHANGED <<pipes, saved, run, config>> /\ phase \notin Storing /\ phase' \notin Storing
    BY <1>1 DEF Borrow
  <2>2. otel.client # None => otel'.client = otel.client
    BY <1>1, BumpedFacts DEF Borrow, Takes, ClientsTypeOK, Registered
  <2> QED BY <1>0, <2>1, <2>2, PipesFollow DEF Piped, PipesTyped, Unsent
<1>2. CASE BorrowOtel
  <2>1. UNCHANGED <<pipes, saved, run, config>> /\ phase \notin Storing /\ phase' \notin Storing
    BY <1>2 DEF BorrowOtel
  <2>2. otel.client # None => otel'.client = otel.client
    BY <1>2, BumpedFacts DEF BorrowOtel, TakesOtel, AcquireOtel, ClientsTypeOK, Registered
  <2> QED BY <1>0, <2>1, <2>2, PipesFollow DEF Piped, PipesTyped, Unsent
<1>3. ASSUME (UNCHANGED pipes /\ otel'.client = otel.client) \/ Shuts(otel.client), UNCHANGED saved
      PROVE  /\ PipesTyped' /\ saved' \subseteq arrived' \cup Unsent'
             /\ \A c \in Clients : /\ queue'[<<"otel", c>>] # {} => c = otel'.client
                                   /\ queue'[<<"client", c>>] # {} => queue[<<"client", c>>] # {}
  <2>1. CASE UNCHANGED pipes /\ otel'.client = otel.client
    BY <1>3, <2>1, PipesFollow DEF Piped, PipesTyped, Unsent
  <2>2. CASE Shuts(otel.client)
    <3>1. <<"otel", otel.client>> \in Pipes /\ Sent(<<"otel", otel.client>>)
      BY <1>0, <2>2, PipeNames DEF Shuts
    <3> QED BY <1>3, <3>1, SentFacts, PipesFollow, PipeNames DEF Piped, PipesTyped
  <2> QED BY <1>3, <2>1, <2>2
<1>4. ASSUME NEW a \in Borrowers, Return(a) PROVE Piped' /\ PipesTyped'
  <2>1. UNCHANGED <<config, run, saved>> /\ (StoreOnOtel' <=> StoreOnOtel)
    BY <1>4, SameVendor DEF Return
  <2>2. ASSUME NEW v \in Variants, a = <<run, v>>, GoesDownTo(v),
               (UNCHANGED pipes /\ otel'.client = otel.client) \/ Shuts(otel.client)
        PROVE  Piped' /\ PipesTyped'
    <3>1. phase' \in Storing /\ Mine(store)' = Mine(store)
      BY <1>0, <1>4, <2>1, <2>2, RoleFacts DEF GoesDownTo, Return, Gives, Mine, ClientsTypeOK
    <3> QED BY <1>3, <2>1, <2>2, <3>1 DEF Piped, Unsent
  <2>3. CASE /\ ~StoreOnOtel /\ phase = "exitStore" /\ phase' = "over"
             /\ Sent(<<"client", Mine(store)>>) /\ UNCHANGED <<otel, closed>> /\ a = Store
    <3>1. <<"client", Mine(store)>> \in Pipes
      BY <1>0, <1>4, <2>3, PipeNames, RoleFacts DEF Return, Gives, Mine, Store, ClientsTypeOK
    <3> QED BY <2>1, <2>3, <3>1, SentFacts, PipesFollow, PipeNames DEF Piped, PipesTyped, Unsent
  <2>4. ASSUME NEW r \in 1..Runs, a = <<r, dataset>>, UNCHANGED place,
               (UNCHANGED pipes /\ otel'.client = otel.client) \/ Shuts(otel.client)
        PROVE  Piped' /\ PipesTyped'
    <3>1. Mine(store)' = Mine(store)
      BY <1>0, <1>4, <2>1, <2>4, RoleFacts DEF Return, Gives, Mine, ClientsTypeOK
    <3> QED BY <1>3, <2>1, <2>4, <3>1 DEF Piped, Unsent
  <2> QED BY <1>4, <2>2, <2>3, <2>4 DEF Return
<1>5. CASE ReturnOtel
  <2>1. /\ UNCHANGED <<config, run, saved>> /\ StoreOnOtel
        /\ (UNCHANGED pipes /\ otel'.client = otel.client) \/ Shuts(otel.client)
    BY <1>5 DEF ReturnOtel, GivesOtel, OnOtel
  <2>2. \A c \in Clients : queue'[<<"client", c>>] = {}
    BY <1>3, <2>1 DEF Piped
  <2> QED BY <1>3, <2>1, <2>2 DEF Piped, Unsent
<1>6. CASE GoesOn
  <2>1. /\ UNCHANGED <<config, clients>> /\ (StoreOnOtel' <=> StoreOnOtel)
        /\ otel' = otel /\ holds' = holds
    BY <1>6, SameVendor DEF GoesOn
  <2>2. CASE UNCHANGED <<pipes, saved>>
    <3>1. \/ phase \notin Storing
          \/ run' = run /\ (phase' \in Storing \/ store \notin remote)
      BY <1>0, <1>6 DEF GoesOn, CellsDone, NextRun, GoesDownTo
    <3>2. \A c \in Clients : queue'[<<"client", c>>] # {} =>
                ~StoreOnOtel' /\ phase' \in Storing /\ store \in remote' /\ c = Mine(store)'
      BY <2>1, <2>2, <3>1 DEF Piped, Mine
    <3> QED BY <2>1, <2>2, <3>2, PipesFollow DEF Piped, PipesTyped, Unsent
  <2>3. CASE UNCHANGED <<place, saved>> /\ \E p \in Pipes : Sent(p)
    <3>1. Mine(store)' = Mine(store)
      BY <2>1, <2>3 DEF Mine
    <3> QED BY <2>1, <2>3, <3>1, PipesFollow, PipeNames DEF Piped, PipesTyped, Unsent
  <2>4. ASSUME NEW v \in Variants, SaveTrace(v) PROVE Piped' /\ PipesTyped'
    <3>1. /\ phase = "cells" /\ UNCHANGED <<config, place, arrived>> /\ Mine(store)' = Mine(store)
      BY <2>1, <2>4 DEF SaveTrace, Step, CellsFit, Mine
    <3>2. CASE store \notin remote
      BY <2>1, <2>4, <3>1, <3>2, PipesFollow DEF SaveTrace, Piped, PipesTyped, Unsent
    <3>3. CASE store \in remote
      <4>1. Mine(store) \in Clients /\ Mine(store) = holds[Store]
        BY <1>0, <3>1, <3>3, RoleFacts DEF Borrowed, Mine, Store, ClientsTypeOK
      <4>2. StoreOnOtel => Mine(store) = otel.client
        BY <1>0, <4>1, RoleFacts DEF Registered, OtelHolders, Store
      <4>3. PICK p \in Pipes :
                /\ queue' = [queue EXCEPT ![p] = @ \cup {<<run, v>>}]
                /\ p = IF StoreOnOtel THEN <<"otel", Mine(store)>> ELSE <<"client", Mine(store)>>
        BY <2>4, <3>3, <4>1, PipeNames DEF SaveTrace, SaveSpans, PushLangfuse, PushBraintrust, Queued,
              StoreOnOtel, Nests
      <4>4. saved' = saved \cup {<<run, v>>}
        BY <2>4, <3>3 DEF SaveTrace
      <4>5. \A q \in Pipes : queue'[q] = IF q = p THEN queue[p] \cup {<<run, v>>} ELSE queue[q]
        BY <4>3 DEF ClientsTypeOK
      <4>6. PipesTyped'
        BY <1>0, <3>1, <4>3 DEF PipesTyped, Traces, ClientsTypeOK
      <4>7. saved' \subseteq arrived' \cup Unsent'
        BY <3>1, <4>4, <4>5 DEF Piped, Unsent
      <4> QED BY <2>1, <3>1, <3>3, <4>2, <4>3, <4>5, <4>6, <4>7, PipeNames DEF Piped, Unsent
    <3> QED BY <3>2, <3>3
  <2> QED BY <1>6, <2>2, <2>3, <2>4 DEF GoesOn
<1> QED BY <1>1, <1>2, <1>4, <1>5, <1>6, Steps

-----------------------------------------------------------------------------
(* Closed clients, and enrichments that die of them.                         *)

\* An enricher that an earlier run did not exit is never exited.
LEMMA AbandonedStays ==
    ASSUME ClientsTypeOK, VendorFits, Registered, Borrowed, [ClientsNext]_clientVars, Abandoned
    PROVE  Abandoned'
<1>1. PICK r \in 1..Runs, v \in Variants : r < run /\ holds[<<r, v>>] # None
  BY DEF Abandoned
<1>2. run \in 1..Runs /\ <<r, v>> \in Borrowers /\ <<r, v>> # Store /\ v # dataset
  BY <1>1, RoleFacts DEF ClientsTypeOK, Store
<1>3. holds'[<<r, v>>] = holds[<<r, v>>] /\ (run' = run \/ run' = run + 1)
  <2>1. ASSUME NEW x \in Roles, Borrow(x) PROVE holds'[<<r, v>>] = holds[<<r, v>>] /\ run' = run
    BY <1>1, <1>2, <2>1 DEF Borrow, Takes, ClientsTypeOK
  <2>2. CASE BorrowOtel
    BY <1>1, <1>2, <2>2 DEF BorrowOtel, TakesOtel, AcquireOtel, ClientsTypeOK
  <2>3. ASSUME NEW a \in Borrowers, Return(a) PROVE holds'[<<r, v>>] = holds[<<r, v>>] /\ run' = run
    <3>1. a # <<r, v>>
      BY <1>1, <1>2, <2>3 DEF Return
    <3> QED BY <1>2, <2>3, <3>1 DEF Return, Gives, ClientsTypeOK
  <2>4. CASE ReturnOtel
    BY <1>2, <2>4 DEF ReturnOtel, GivesOtel, ClientsTypeOK
  <2>5. CASE GoesOn
    BY <2>5 DEF GoesOn, CellsDone, NextRun
  <2> QED BY <2>1, <2>2, <2>3, <2>4, <2>5, Steps
<1> QED BY <1>1, <1>2, <1>3 DEF Abandoned

\* The client of the registry is not closed by a step, unless an enricher exits.
LEMMA ClosedStep ==
    ASSUME ClientsTypeOK, VendorFits, Registered, Borrowed, [ClientsNext]_clientVars
    PROVE  \/ phase = "exit" /\ phase' \in {"exit", "exitStore"}
           \/ registry'.client \in closed' => registry.client \in closed /\ registry.client = registry'.client
<1>0. None \notin closed /\ registry.made \in Nat
  BY Numbered, Counts DEF ClientsTypeOK
<1>1. ASSUME NEW x \in Roles, Borrow(x)
      PROVE  registry'.client \in closed' => registry.client \in closed /\ registry.client = registry'.client
  <2>1. registry'.client = (IF registry.client = None THEN registry.made + 1 ELSE registry.client) /\ closed' = closed
    BY <1>1, BumpedFacts DEF Borrow, Takes, ClientsTypeOK, Registered
  <2>2. registry.made + 1 \notin closed
    <3> SUFFICES ASSUME registry.made + 1 \in closed PROVE FALSE
      OBVIOUS
    <3>1. registry.made + 1 \in Clients
      BY DEF ClientsTypeOK
    <3>2. registry.made + 1 <= registry.made
      BY <3>1, Older
    <3> QED BY <1>0, <3>2
  <2> QED BY <2>1, <2>2
<1>2. CASE BorrowOtel
  BY <1>2 DEF BorrowOtel, TakesOtel, AcquireOtel
<1>3. ASSUME NEW a \in Borrowers, Return(a), closed' = closed
      PROVE  registry'.client \in closed' => registry.client \in closed /\ registry.client = registry'.client
  <2>1. registry.client # None
    BY <1>3, Counts DEF Return, Gives, Holders, OnOtel
  <2>2. registry'.client \in {registry.client, None}
    BY <1>3, <2>1, DroppedFacts DEF Return, Gives, ClientsTypeOK, Registered
  <2> QED BY <1>0, <1>3, <2>2
<1>4. ASSUME NEW a \in Borrowers, Return(a), closed' # closed
      PROVE  phase = "exit" /\ phase' \in {"exit", "exitStore"}
  BY <1>4 DEF Return, GoesDownTo
<1>5. CASE ReturnOtel \/ GoesOn
  BY <1>5 DEF ReturnOtel, GivesOtel, GoesOn
<1> QED BY <1>1, <1>2, <1>3, <1>4, <1>5, Steps

LEMMA DeathFacts ==
    ASSUME ClientsTypeOK, VendorFits, Registered, Borrowed, CellsFit, [ClientsNext]_clientVars,
           NEW v \in Variants, fate'[v] = "dead"
    PROVE  fate[v] = "dead" \/ (phase = "cells" /\ registry.client \in closed)
<1>1. ASSUME NEW w \in Variants, Fetch(w), w = v, fate[v] # "dead"
      PROVE  phase = "cells" /\ registry.client \in closed
  <2>1. fate' # fate
    BY <1>1
  <2>2. /\ vendor # "otel" /\ cell[v] = "asked"
        /\ IF Nests THEN ~Usable(holds[<<run, v>>]) ELSE ~IsUp(holds[<<run, v>>])
    BY <1>1, <2>1 DEF Fetch, FetchFromPlatform, FetchPhoenix, FetchArize, FetchLangfuse, FetchBraintrust,
          FetchOtel, PollHttp, PollSdk, Found, Missed, Step, EndsAs, Nests, ClientsTypeOK
  <2>3. phase = "cells" /\ Borrows(v) /\ run \in 1..Runs
    BY <2>2 DEF CellsFit, Borrows, ClientsTypeOK
  <2>4. holds[<<run, v>>] # None /\ <<run, v>> \in Borrowers /\ ~OnOtel(<<run, v>>)
    BY <2>3, RoleFacts DEF Borrowed, Mine
  <2>5. holds[<<run, v>>] = registry.client /\ registry.client \in Clients
    BY <2>4, Counts DEF Registered, Holders, OnOtel
  <2>6. <<"client", registry.client>> \notin down
    BY <2>5, Older
  <2> QED BY <2>2, <2>3, <2>5, <2>6 DEF Usable, IsUp
<1>2. ASSUME NEW w \in Variants, Fetch(w), w # v PROVE fate'[v] = fate[v]
  BY <1>2 DEF Fetch, FetchFromPlatform, FetchPhoenix, FetchArize, FetchLangfuse, FetchBraintrust, FetchOtel,
          PollHttp, PollSdk, Found, Missed, Step, EndsAs, ClientsTypeOK
<1>3. ASSUME NEW w \in Variants, Enrich(w) PROVE fate'[v] = fate[v] \/ fate'[v] # "dead"
  BY <1>3 DEF Enrich, EndsAs, Step, ClientsTypeOK
<1>4. ASSUME NEW w \in Variants, Wake(w) \/ SaveTrace(w) \/ Platform(w) PROVE fate' = fate
  BY <1>4 DEF Wake, SaveTrace, Platform, Ingest, WaitIsOver
<1>5. CASE NextRun
  BY <1>5 DEF NextRun
<1>6. CASE Plan \/ Open \/ CellsDone \/ ExitStore \/ \E w \in Variants : ExitEnricher(w)
  BY <1>6 DEF Plan, BuildDataset, LoadCases, BuildStore, BuildFails, BuildEnricher, Open, EnterOtelStore, Opened,
        OpenFails, CellsDone, ExitStore, ExitEnricher
<1>7. CASE \/ \E r \in 1..Runs : CollectDataset(r)
           \/ \E p \in Pipes : SendInBackground(p)
           \/ ClientsTerminated \/ UNCHANGED clientVars
  BY <1>7 DEF CollectDataset, SendInBackground, ClientsTerminated, clientVars
<1> QED BY <1>1, <1>2, <1>3, <1>4, <1>5, <1>6, <1>7 DEF ClientsNext, ExitRun, Cell

LEMMA ClosingsStep ==
    ASSUME ClientsTypeOK, VendorFits, Registered, Borrowed, CellsFit, Closings, [ClientsNext]_clientVars
    PROVE  Closings'
<1>0. /\ UNCHANGED config /\ (Releases' <=> Releases) /\ run \in 1..Runs /\ run \in Int /\ phase \in Phases
  <2>1. UNCHANGED config
    BY Steps DEF Borrow, BorrowOtel, Return, ReturnOtel, GoesOn
  <2> QED BY <2>1, SameVendor DEF ClientsTypeOK
<1>1. ASSUME dataset \in remote, phase' \in {"build", "enter", "cells"}, registry'.client \in closed' PROVE FALSE
  <2>1. registry.client \in closed
    BY <1>1, ClosedStep
  <2>2. phase = "load"
    <3>1. phase \notin {"build", "enter", "cells"}
      BY <1>1, <2>1 DEF Closings
    <3> QED BY <1>1, <3>1, Steps DEF Borrow, BorrowOtel, Return, ReturnOtel, GoesOn, GoesDownTo, CellsDone, NextRun
  <2>3. Searches(Mine(dataset))
    BY <1>1, <2>2, Steps DEF Borrow, BorrowOtel, Return, ReturnOtel, GoesOn, GoesDownTo, CellsDone, NextRun
  <2>4. Mine(dataset) # None /\ <<run, dataset>> \in Borrowers /\ ~OnOtel(<<run, dataset>>)
    BY <1>0, <1>1, <2>2, RoleFacts DEF Borrowed
  <2>5. Mine(dataset) = registry.client
    BY <2>4 DEF Registered, Holders, OnOtel, Mine
  <2>6. Nests
    BY <2>1, Older DEF ClientsTypeOK
  <2> QED BY <2>1, <2>3, <2>5, <2>6 DEF Searches, SearchPhoenix, SearchArize, SearchHelicone, SearchLangfuse,
        SearchBraintrust, Usable, Nests
<1>2. ASSUME dataset \notin remote, Releases, phase' \in Planning \cup {"enter", "cells"}, registry'.client \in closed'
      PROVE  Abandoned'
  <2>1. registry.client \in closed
    BY <1>2, ClosedStep DEF Planning
  <2>2. CASE phase \in Planning \cup {"enter", "cells"}
    BY <1>2, <2>1, <2>2, AbandonedStays DEF Closings
  <2>3. CASE phase \notin Planning \cup {"enter", "cells"}
    <3>1. NextRun /\ holds' = holds
      BY <1>2, <2>3, Steps DEF Borrow, BorrowOtel, Return, ReturnOtel, GoesOn, GoesDownTo, CellsDone, Planning, NextRun
    <3>2. run' = run + 1 /\ Nests /\ registry.client # None
      BY <2>1, <3>1, Older, Numbered DEF NextRun, ClientsTypeOK
    <3>3. Holders # {}
      <4>1. Cardinality(Holders) # 0
        BY <1>2, <3>2 DEF Registered, CountsHolders, Stands
      <4> QED BY <4>1, FiniteHolders, FS_EmptySet
    <3>4. PICK a \in Borrowers : holds[a] # None /\ ~OnOtel(a)
      BY <3>3 DEF Holders, OnOtel
    <3>5. PICK r \in 1..Runs, x \in Roles : a = <<r, x>>
      BY DEF Borrowers
    <3>6. r <= run /\ x \in remote /\ x # store
      BY <3>2, <3>4, <3>5 DEF Borrowed, OnOtel, StoreOnOtel
    <3>7. x \in Variants /\ r < run'
      BY <1>0, <1>2, <3>2, <3>5, <3>6, RoleFacts
    <3> QED BY <3>1, <3>4, <3>5, <3>7 DEF Abandoned
  <2> QED BY <2>2, <2>3
<1>3. ASSUME Releases, NEW v \in Variants, fate'[v] = "dead" PROVE Abandoned'
  <2>1. CASE fate[v] = "dead"
    BY <1>3, <2>1, AbandonedStays DEF Closings
  <2>2. CASE phase = "cells" /\ registry.client \in closed
    BY <1>3, <2>2, AbandonedStays DEF Closings
  <2> QED BY <1>3, <2>1, <2>2, DeathFacts
<1> QED BY <1>0, <1>1, <1>2, <1>3 DEF Closings

-----------------------------------------------------------------------------
(* The invariant.                                                            *)

LEMMA ClientsStart == ClientsInit => ClientsIInv
<1> SUFFICES ASSUME ClientsInit PROVE ClientsIInv
  OBVIOUS
<1>1. /\ run = 1 /\ phase = "plan" /\ nth = 1 /\ 1 \in 1..Runs /\ 1 \in 0..(E + 1) /\ 1 \in 1..(E + 1)
  BY RunsAssumption, EAssumption DEF ClientsInit
<1>2. /\ \A a \in Borrowers : holds[a] = None
      /\ registry.client = None /\ registry.refs = 0 /\ registry.made = 0
      /\ otel.client = None /\ otel.refs = 0 /\ otel.made = 0
      /\ closed = {} /\ down = {} /\ saved = {}
      /\ \A p \in Pipes : queue[p] = {}
      /\ \A v \in Variants : cell[v] = "ready" /\ tries[v] = 0 /\ fate[v] = "none"
  BY DEF ClientsInit, NoEntry
<1>3. VendorFits
  BY DEF ClientsInit, VendorFits, Roles, dataset, store, Variants
<1>4. ClientsTypeOK
  <2>1. vendor \in Vendors /\ keyed \in BOOLEAN /\ row \in Rows \cup {{}}
    BY DEF ClientsInit
  <2>2. remote \subseteq Roles
    BY VendorsAssumption DEF ClientsInit, Roles
  <2>3. /\ holds \in [Borrowers -> Clients \cup {None}] /\ registry \in Entry /\ otel \in Entry
        /\ nested \in [Clients -> Clients \cup {None}] /\ closed \subseteq Clients /\ down \subseteq Pipes
    BY DEF ClientsInit, NoEntry, Entry
  <2>4. /\ queue \in [Pipes -> SUBSET ((1..Runs) \X Variants)]
        /\ arrived \subseteq (1..Runs) \X Variants /\ saved \subseteq (1..Runs) \X Variants
    BY DEF ClientsInit
  <2>5. /\ cell \in [Variants -> {"ready", "asked", "asleep", "enriched", "saved"}]
        /\ there \subseteq Variants /\ overdue \subseteq Variants
        /\ tries \in [Variants -> 0..Attempts]
        /\ fate \in [Variants -> {"none", "merged", "missed", "noTraceId", "dead"}]
    BY AttemptsAssumption DEF ClientsInit
  <2> QED BY <1>1, <2>1, <2>2, <2>3, <2>4, <2>5 DEF ClientsTypeOK, Phases
<1>5. Registered
  <2>1. Holders = {} /\ OtelHolders = {}
    BY <1>2 DEF Holders, OtelHolders
  <2>2. Cardinality(Holders) = 0 /\ Cardinality(OtelHolders) = 0
    BY <2>1, FS_EmptySet
  <2> QED BY <1>2, <2>1, <2>2 DEF Registered, Stands, CountsHolders, None
<1>6. Borrowed
  <2>1. \A r \in 1..Runs, x \in Roles : holds[<<r, x>>] = None
    BY <1>2, RoleFacts
  <2>2. \A v \in Variants : ~(v < 1)
    BY DEF Variants
  <2> QED BY <1>1, <2>1, <2>2, RoleFacts DEF Borrowed, Mine, Planning, Storing
<1>7. Created
  BY <1>1, <1>2 DEF Created, Untouched, StoreToCome, Planning
<1>8. CellsFit /\ Piped /\ Closings
  BY <1>1, <1>2, PipeNames DEF CellsFit, Piped, Closings
<1> QED BY <1>3, <1>4, <1>5, <1>6, <1>7, <1>8 DEF ClientsIInv

LEMMA ClientsStep == ClientsIInv /\ [ClientsNext]_clientVars => ClientsIInv'
<1> SUFFICES ASSUME ClientsIInv, [ClientsNext]_clientVars PROVE ClientsIInv'
  OBVIOUS
<1> USE DEF ClientsIInv
<1>1. UNCHANGED config
  BY Steps DEF Borrow, BorrowOtel, Return, ReturnOtel, GoesOn
<1>2. VendorFits'
  BY <1>1, SameVendor
<1>3. ClientsTypeOK'
  <2>1. vendor' \in Vendors /\ keyed' \in BOOLEAN /\ remote' \subseteq Roles /\ row' \in Rows \cup {{}}
    BY <1>1 DEF ClientsTypeOK
  <2> QED BY <2>1, TypeOfPlace, TypeOfClients, CellsStep, PipedStep DEF CellsTyped, PipesTyped, Traces, ClientsTypeOK
<1>4. Registered' /\ Borrowed' /\ Created' /\ CellsFit' /\ Piped' /\ Closings'
  BY RegisteredStep, BorrowedStep, CreatedStep, CellsStep, PipedStep, ClosingsStep
<1> QED BY <1>2, <1>3, <1>4

\* What holds in every state of a process: its conjuncts are explained above.
THEOREM ClientsInvariant == ClientsSpec => []ClientsIInv
BY ClientsStart, ClientsStep, PTL DEF ClientsSpec

\* Nobody's client is shut down by the release of somebody else, and the counts of
\* the registries are those of the holders (otel.py:198-246, phoenix.py:265-317).
THEOREM RegistryInvariant == ClientsSpec => []RegistryServesHolders
<1>1. ClientsIInv => RegistryServesHolders
  <2> SUFFICES ASSUME ClientsIInv PROVE RegistryServesHolders
    OBVIOUS
  <2>1. ClientsTypeOK /\ Registered
    BY DEF ClientsIInv
  <2>2. \A a \in Holders : holds[a] = registry.client /\ holds[a] # None /\ registry.client \in Clients
    BY <2>1, Counts DEF Registered, Holders
  <2>3. <<"otel", otel.client>> \notin down
    <3>1. CASE otel.client \in Clients
      BY <2>1, <3>1, Older
    <3>2. CASE otel.client \notin Clients
      BY <2>1, <3>2 DEF ClientsTypeOK, Pipes
    <3> QED BY <3>1, <3>2
  <2> QED BY <2>1, <2>2, <2>3, Older DEF RegistryServesHolders, HoldersAreServed, Registered
<1> QED BY <1>1, ClientsInvariant, PTL

\* No enrichment dies of a closed client, unless an earlier run still holds a
\* reference to it (phoenix_enricher.py:83-85).
THEOREM EnrichmentsInvariant == ClientsSpec => []NoEnrichmentDies
<1>1. ClientsIInv => NoEnrichmentDies
  <2> SUFFICES ASSUME ClientsIInv, NEW v \in Variants, fate[v] = "dead", Releases
               PROVE  \E a \in Borrowers : a[1] < run /\ holds[a] # None
    BY DEF NoEnrichmentDies
  <2>1. PICK r \in 1..Runs, w \in Variants : r < run /\ holds[<<r, w>>] # None
    BY DEF ClientsIInv, Closings, Abandoned
  <2> QED BY <2>1, RoleFacts
<1> QED BY <1>1, ClientsInvariant, PTL

\* When the last reference is gone every trace that was saved has arrived
\* (otel.py:184-195, langfuse.py:142-162).
THEOREM SpansInvariant == ClientsSpec => []SpansArrive
<1>1. ClientsIInv => SpansArrive
  <2> SUFFICES ASSUME ClientsIInv, AllOver, Releases, \A a \in Borrowers : holds[a] = None
               PROVE  saved \subseteq arrived
    BY DEF SpansArrive
  <2> USE DEF ClientsIInv
  <2>1. Holders = {} /\ OtelHolders = {}
    BY DEF Holders, OtelHolders
  <2>2. Cardinality(Holders) = 0 /\ Cardinality(OtelHolders) = 0
    BY <2>1, FS_EmptySet
  <2>3. registry.client = None /\ otel.client = None
    BY <2>2 DEF Registered, CountsHolders, Stands
  <2>4. \A c \in Clients : queue[<<"client", c>>] = {} /\ queue[<<"otel", c>>] = {}
    <3>1. phase \notin Storing
      BY DEF AllOver, Storing
    <3> QED BY <2>3, <3>1, Numbered DEF Piped
  <2>5. \A p \in Pipes : queue[p] = {}
    <3>1. \A p \in Pipes : \E c \in Clients : p = <<"client", c>> \/ p = <<"otel", c>>
      BY DEF Pipes
    <3> QED BY <2>4, <3>1
  <2> QED BY <2>5 DEF Piped
<1> QED BY <1>1, ClientsInvariant, PTL
=============================================================================
