------------------------ MODULE TraceDatabasesProofs ------------------------
(***************************************************************************)
(* What TraceDatabases promises for any number of cells, processes and     *)
(* coroutines: a save that has answered stays, and an idempotent save      *)
(* replaces a success only in a race.                                      *)
(*                                                                         *)
(* The argument: only one process of SQLite has rows in an open            *)
(* transaction, and they are newer than the committed ones; a coroutine    *)
(* that awaits its commit finds its row, or a newer one, in the            *)
(* transaction of its process or already in the database.  A call that is  *)
(* about to write does not see the success it has known since it began,    *)
(* and the row it leaves in a transaction still does not when another      *)
(* coroutine, or its cancellation, commits it.                             *)
(***************************************************************************)
EXTENDS TraceDatabases, TLAPS

\* One writer at a time, and none at all in Postgres, where statements commit.
OneWriter ==
    /\ \A p, q \in Procs : pending[p] # NoRows /\ pending[q] # NoRows => p = q
    /\ backend = "postgres" => \A p \in Procs : pending[p] = NoRows

\* Stamps follow the clock, and an open transaction is newer than what it replaces.
Newer ==
    /\ \A k \in Keys : db[k].stamp <= clock
    /\ \A p \in Procs, k \in Keys :
          /\ pending[p][k].stamp <= clock
          /\ pending[p][k] # NoRow => db[k].stamp <= pending[p][k].stamp

\* Who awaits a commit has written, and nobody has taken the row away.
AwaitedIsWritten ==
    \A w \in Writers :
        call[w].at = "commit" => call[w].stamp <= View(ProcOf[w], call[w].key).stamp

Inv == TypeOK /\ OneWriter /\ Newer /\ AwaitedIsWritten /\ AnsweredIsDurable

-----------------------------------------------------------------------------
(* Types.                                                                   *)

LEMMA RowTypes == NoRow \in Rows /\ NoRows \in [Keys -> Rows]
  BY DEF NoRow, Rows, NoRows, Endings

LEMMA IdleIsNoCall == \A w \in Writers : TypeOK /\ call[w].at # "idle" => call[w] \in Calls
  BY DEF TypeOK, NoCall

LEMMA ViewType == ASSUME TypeOK, NEW p \in Procs, NEW k \in Keys PROVE View(p, k) \in Rows
  BY DEF TypeOK, View

LEMMA InitType == Init => TypeOK
<1> SUFFICES ASSUME Init PROVE TypeOK
  OBVIOUS
<1> QED BY RowTypes DEF Init, TypeOK

LEMMA FinishType ==
    ASSUME TypeOK, NEW w \in Writers, Finish(w)
    PROVE  call' \in [Writers -> Calls \cup {NoCall}]
  BY DEF TypeOK, Finish

LEMMA GotoType ==
    ASSUME TypeOK, NEW w \in Writers, NEW place \in Places, call[w].at # "idle", Goto(w, place)
    PROVE  call' \in [Writers -> Calls \cup {NoCall}]
<1>1. call[w] \in Calls
  BY IdleIsNoCall
<1>2. [call[w] EXCEPT !.at = place] \in Calls
  BY <1>1 DEF Calls
<1> QED BY <1>2 DEF Goto, TypeOK

LEMMA NewRowType ==
    ASSUME TypeOK, NEW w \in Writers, call[w].at = "write" PROVE NewRow(w) \in Rows
<1>1. call[w] \in Calls
  BY IdleIsNoCall
<1>2. call[w].ending \in Endings /\ call[w].known \in Nat
  BY <1>1 DEF Calls
<1>3. clock + 1 \in Nat
  BY DEF TypeOK
<1>4. (call[w].op = "save_trace_idempotent") \in BOOLEAN
  OBVIOUS
<1> QED BY <1>2, <1>3, <1>4 DEF NewRow, Rows

LEMMA OvertakenType ==
    ASSUME TypeOK, NEW w \in Writers
    PROVE  Overtaken(w) \in [Writers -> Calls \cup {NoCall}]
<1> SUFFICES ASSUME NEW v \in Writers PROVE Overtaken(w)[v] \in Calls \cup {NoCall}
  BY DEF Overtaken
<1>1. CASE call[v] = NoCall
  BY <1>1 DEF Overtaken
<1>2. CASE call[v] # NoCall
  <2>1. call[v] \in Calls
    BY <1>2 DEF TypeOK
  <2>2. [call[v] EXCEPT !.known = 0] \in Calls
    BY <2>1 DEF Calls
  <2> QED BY <2>1, <2>2 DEF Overtaken
<1> QED BY <1>1, <1>2

(* Each action keeps the types.                                             *)

LEMMA BeginType == ASSUME TypeOK, NEW w \in Writers, Begin(w) PROVE TypeOK'
<1> DEFINE p == ProcOf[w]
<1>1. PICK op \in Ops, c \in Cells, e \in Endings :
        LET before == View(p, KeyOf(op, c)) IN
        call' = [call EXCEPT ![w] =
            [at |-> IF backend = "postgres" THEN "acquire" ELSE FirstOf(op),
             op |-> op, key |-> KeyOf(op, c), ending |-> e,
             known |-> IF Keeps(before) THEN before.stamp ELSE 0, stamp |-> 0]]
  BY DEF Begin
<1> DEFINE before == View(p, KeyOf(op, c))
           at == IF backend = "postgres" THEN "acquire" ELSE FirstOf(op)
           known == IF Keeps(before) THEN before.stamp ELSE 0
<1>2. p \in Procs /\ KeyOf(op, c) \in Keys
  BY ProcessAssumption DEF Keys
<1>3. before \in Rows
  BY <1>2, ViewType
<1>4. known \in Nat
  BY <1>3 DEF Rows
<1>5. at \in Places
  BY DEF FirstOf, Places
<1>6. op \in AllOps
  BY OpsAssumption
<1> HIDE DEF before, at, known
<1>7. [at |-> at, op |-> op, key |-> KeyOf(op, c), ending |-> e, known |-> known, stamp |-> 0]
        \in Calls
  BY <1>2, <1>4, <1>5, <1>6 DEF Calls
<1>8. call' = [call EXCEPT ![w] =
        [at |-> at, op |-> op, key |-> KeyOf(op, c), ending |-> e, known |-> known, stamp |-> 0]]
  BY <1>1 DEF before, at, known
<1>9. call' \in [Writers -> Calls \cup {NoCall}]
  BY <1>7, <1>8 DEF TypeOK
<1> QED BY <1>9 DEF Begin, TypeOK

LEMMA AwaitType ==
    ASSUME TypeOK, NEW w \in Writers,
           Acquire(w) \/ Look(w) \/ LookAgain(w) \/ Locked(w)
    PROVE  TypeOK'
<1>1. call' \in [Writers -> Calls \cup {NoCall}]
  <2>1. CASE Acquire(w)
    <3>1. FirstOf(call[w].op) \in Places /\ call[w].at # "idle"
      BY <2>1 DEF Acquire, FirstOf, Places
    <3> QED BY <2>1, <3>1, GotoType DEF Acquire
  <2>2. CASE Look(w)
    <3>1. call[w].at # "idle" /\ "lookAgain" \in Places /\ "write" \in Places
      BY <2>2 DEF Look, Places
    <3>2. Goto(w, "lookAgain") \/ Finish(w) \/ Goto(w, "write")
      BY <2>2 DEF Look
    <3> QED BY <3>1, <3>2, GotoType, FinishType
  <2>3. CASE LookAgain(w)
    <3>1. call[w].at # "idle" /\ "write" \in Places
      BY <2>3 DEF LookAgain, Places
    <3>2. Finish(w) \/ Goto(w, "write")
      BY <2>3 DEF LookAgain
    <3> QED BY <3>1, <3>2, GotoType, FinishType
  <2>4. CASE Locked(w)
    BY <2>4, FinishType DEF Locked
  <2> QED BY <2>1, <2>2, <2>3, <2>4
<1>2. UNCHANGED <<backend, db, pending, opened, reading, clock, bounds, acked>>
  BY DEF Acquire, Look, LookAgain, Locked
<1> QED BY <1>1, <1>2 DEF TypeOK, bounds

LEMMA AnsweredType ==
    ASSUME TypeOK, NEW w \in Writers, NEW stamp \in Nat, Answered(w, stamp)
    PROVE  acked' \in [Keys -> Nat]
  BY DEF TypeOK, Answered

LEMMA CommitAllType ==
    ASSUME TypeOK, NEW p \in Procs, CommitAll(p)
    PROVE  db' \in [Keys -> Rows] /\ pending' \in [Procs -> [Keys -> Rows]]
<1>1. db' \in [Keys -> Rows]
  BY ViewType DEF CommitAll
<1>2. pending' \in [Procs -> [Keys -> Rows]]
  BY RowTypes DEF CommitAll, TypeOK
<1> QED BY <1>1, <1>2

\* The mutant of a save that does not commit is not the code.
LEMMA WriteSqliteStep ==
    ASSUME NEW w \in Writers, WriteSqlite(w)
    PROVE  /\ call' = [Overtaken(w) EXCEPT ![w].at = "commit", ![w].stamp = clock + 1]
           /\ UNCHANGED acked
  BY DEF WriteSqlite, Commits

LEMMA OvertakenWriter ==
    ASSUME TypeOK, NEW w \in Writers, call[w].at = "write" PROVE Overtaken(w)[w] \in Calls
<1>1. call[w] \in Calls
  BY IdleIsNoCall
<1>2. [call[w] EXCEPT !.known = 0] \in Calls
  BY <1>1 DEF Calls
<1> QED BY <1>1, <1>2 DEF Overtaken

LEMMA WriteSqliteType == ASSUME TypeOK, NEW w \in Writers, WriteSqlite(w) PROVE TypeOK'
<1> DEFINE mine == [Overtaken(w)[w] EXCEPT !.at = "commit", !.stamp = clock + 1]
<1>1. Overtaken(w)[w] \in Calls
  BY OvertakenWriter DEF WriteSqlite
<1>2. mine \in Calls
  <2>1. \A r \in Calls, n \in Nat : [r EXCEPT !.at = "commit", !.stamp = n] \in Calls
    BY DEF Calls, Places
  <2>2. clock + 1 \in Nat
    BY DEF TypeOK
  <2> QED BY <1>1, <2>1, <2>2
<1>3. call' = [Overtaken(w) EXCEPT ![w] = mine]
  BY WriteSqliteStep, OvertakenType
<1> HIDE DEF mine
<1>4. call' \in [Writers -> Calls \cup {NoCall}]
  BY <1>2, <1>3, OvertakenType
<1>5. ProcOf[w] \in Procs /\ call[w].key \in Keys
  BY ProcessAssumption, IdleIsNoCall DEF WriteSqlite, Calls
<1>6. pending' \in [Procs -> [Keys -> Rows]]
  BY <1>5, NewRowType DEF WriteSqlite, TypeOK
<1>7. clock' \in Nat
  BY DEF WriteSqlite, TypeOK
<1>9. acked' = acked
  BY WriteSqliteStep
<1>8. UNCHANGED <<backend, db, opened, reading, bounds>>
  BY DEF WriteSqlite
<1> QED BY <1>4, <1>6, <1>7, <1>8, <1>9 DEF TypeOK, bounds

LEMMA WritePostgresType == ASSUME TypeOK, NEW w \in Writers, WritePostgres(w) PROVE TypeOK'
<1>1. call' \in [Writers -> Calls \cup {NoCall}]
  BY OvertakenType DEF WritePostgres
<1>2. db' \in [Keys -> Rows]
  BY NewRowType DEF WritePostgres, TypeOK
<1>3. clock + 1 \in Nat
  BY DEF TypeOK
<1>4. acked' \in [Keys -> Nat]
  BY <1>3, AnsweredType DEF WritePostgres
<1> QED BY <1>1, <1>2, <1>3, <1>4 DEF WritePostgres, TypeOK, bounds

LEMMA CommitType == ASSUME TypeOK, NEW w \in Writers, Commit(w) PROVE TypeOK'
<1>1. call[w] \in Calls
  BY IdleIsNoCall DEF Commit
<1>2. call[w].stamp \in Nat
  BY <1>1 DEF Calls
<1>3. acked' \in [Keys -> Nat]
  BY <1>2, AnsweredType DEF Commit
<1>4. ProcOf[w] \in Procs
  BY ProcessAssumption
<1> QED BY <1>3, <1>4, CommitAllType, FinishType DEF Commit, TypeOK, bounds

LEMMA CancelledType == ASSUME TypeOK, NEW w \in Writers, Cancelled(w) PROVE TypeOK'
<1>1. ProcOf[w] \in Procs
  BY ProcessAssumption
<1>2. db' \in [Keys -> Rows] /\ pending' \in [Procs -> [Keys -> Rows]]
  BY <1>1, CommitAllType DEF Cancelled, TypeOK
<1>3. reading' \subseteq Procs
  BY <1>1 DEF Cancelled, TypeOK
<1> QED BY <1>2, <1>3, FinishType DEF Cancelled, TypeOK, bounds

LEMMA ProcessType ==
    ASSUME TypeOK, NEW p \in Procs, Open(p) \/ StartStream(p) \/ EndStream(p) \/ Gone(p)
    PROVE  TypeOK'
<1>1. CASE Open(p)
  BY <1>1 DEF Open, TypeOK
<1>2. CASE StartStream(p)
  BY <1>2 DEF StartStream, TypeOK, bounds
<1>3. CASE EndStream(p)
  BY <1>3 DEF EndStream, TypeOK, bounds
<1>4. CASE Gone(p)
  BY <1>4, RowTypes DEF Gone, TypeOK, bounds
<1> QED BY <1>1, <1>2, <1>3, <1>4

LEMMA TypeStep == TypeOK /\ [Next]_vars => TypeOK'
<1> SUFFICES ASSUME TypeOK, [Next]_vars PROVE TypeOK'
  OBVIOUS
<1>1. CASE \E w \in Writers : Begin(w) \/ Step(w) \/ Cancelled(w)
  BY <1>1, BeginType, AwaitType, WriteSqliteType, WritePostgresType, CommitType, CancelledType
     DEF Step
<1>2. CASE \E p \in Procs : Open(p) \/ StartStream(p) \/ EndStream(p) \/ Close(p) \/ Die(p)
  BY <1>2, ProcessType DEF Close, Die
<1>3. CASE UNCHANGED vars
  BY <1>3 DEF vars, bounds, TypeOK
<1> QED BY <1>1, <1>2, <1>3 DEF Next

\* Every variable has its type, whatever the calls, failures and processes.
THEOREM TypeInvariant == Spec => []TypeOK
<1> QED BY InitType, TypeStep, PTL DEF Spec

-----------------------------------------------------------------------------
(* The invariant: what a commit does, and what every other step leaves.     *)

LEMMA InitInv == Init => Inv
<1> SUFFICES ASSUME Init PROVE Inv
  OBVIOUS
<1>1. \A p \in Procs : pending[p] = NoRows
  BY DEF Init
<1>2. OneWriter
  BY <1>1 DEF OneWriter
<1>3. Newer
  BY <1>1 DEF Init, Newer, NoRows, NoRow
<1>4. AwaitedIsWritten
  BY DEF Init, AwaitedIsWritten, NoCall
<1>5. AnsweredIsDurable
  BY DEF Init, AnsweredIsDurable, NoRows, NoRow
<1> QED BY InitType, <1>2, <1>3, <1>4, <1>5 DEF Inv

\* A process sees at least what is committed.
LEMMA ViewIsNewer ==
    ASSUME Inv, NEW p \in Procs, NEW k \in Keys
    PROVE  db[k].stamp <= View(p, k).stamp /\ View(p, k).stamp <= clock
<1>1. db[k] \in Rows /\ db[k].stamp \in Nat
  BY DEF Inv, TypeOK, Rows
<1> QED BY <1>1 DEF Inv, Newer, View

LEMMA NoRowsSees == \A p \in Procs, k \in Keys : pending[p] = NoRows => View(p, k) = db[k]
  BY DEF View, NoRows

\* A commit of one process: the rows of the database and what each process sees
\* of it only become newer.
LEMMA CommitAllKeeps ==
    ASSUME Inv, NEW p \in Procs, CommitAll(p), backend' = backend, clock' = clock
    PROVE  /\ OneWriter' /\ Newer'
           /\ \A k \in Keys : db'[k] = View(p, k) /\ db[k].stamp <= db'[k].stamp
           /\ \A q \in Procs, k \in Keys : View(q, k).stamp <= View(q, k)'.stamp
<1>1. \A k \in Keys : db'[k] = View(p, k) /\ db[k].stamp <= db'[k].stamp
  BY ViewIsNewer DEF CommitAll
<1>2. pending'[p] = NoRows /\ \A q \in Procs \ {p} : pending'[q] = pending[q]
  BY DEF CommitAll, Inv, TypeOK
<1>3. OneWriter'
  BY <1>2 DEF Inv, OneWriter
<1>4. ASSUME NEW q \in Procs \ {p}, NEW k \in Keys
      PROVE  View(q, k).stamp <= View(q, k)'.stamp
  <2>1. CASE pending[q] = NoRows
    <3>1. View(q, k) = db[k] /\ View(q, k)' = db'[k]
      BY <2>1, <1>2 DEF View, NoRows
    <3> QED BY <3>1, <1>1
  <2>2. CASE pending[q] # NoRows
    <3>1. db'[k] = db[k]
      BY <2>2, <1>1, NoRowsSees DEF Inv, OneWriter
    <3>2. View(q, k)' = View(q, k)
      BY <3>1, <1>2 DEF View
    <3>3. View(q, k).stamp \in Nat
      BY ViewType DEF Inv, Rows
    <3> QED BY <3>2, <3>3
  <2> QED BY <2>1, <2>2
<1>5. ASSUME NEW k \in Keys PROVE View(p, k).stamp <= View(p, k)'.stamp
  <2>1. View(p, k)' = db'[k]
    BY <1>2 DEF View, NoRows
  <2>2. View(p, k).stamp \in Nat
    BY ViewType DEF Inv, Rows
  <2> QED BY <2>1, <2>2, <1>1
<1>6. Newer'
  <2>1. \A k \in Keys : db'[k].stamp <= clock'
    BY <1>1, ViewIsNewer
  <2>2. ASSUME NEW q \in Procs, NEW k \in Keys
        PROVE  /\ pending'[q][k].stamp <= clock'
               /\ pending'[q][k] # NoRow => db'[k].stamp <= pending'[q][k].stamp
    <3>1. CASE q = p
      BY <3>1, <1>2 DEF NoRows, NoRow, Inv, TypeOK
    <3>2. CASE q # p /\ pending[q] = NoRows
      <4>1. pending'[q][k] = NoRow
        BY <3>2, <1>2 DEF NoRows
      <4> QED BY <4>1 DEF NoRow, Inv, TypeOK
    <3>3. CASE q # p /\ pending[q] # NoRows
      <4>1. db'[k] = db[k]
        BY <3>3, <1>1, NoRowsSees DEF Inv, OneWriter
      <4> QED BY <3>3, <4>1, <1>2 DEF Inv, Newer
    <3> QED BY <3>1, <3>2, <3>3
  <2> QED BY <2>1, <2>2 DEF Newer
<1> QED BY <1>1, <1>3, <1>4, <1>5, <1>6

\* Who still awaits a commit has awaited it before, and sees no less.
LEMMA AwaitedStep ==
    ASSUME Inv, TypeOK',
           \A v \in Writers : call'[v].at = "commit" => call'[v] = call[v],
           \A v \in Writers, k \in Keys :
               call'[v].at = "commit" => View(ProcOf[v], k).stamp <= View(ProcOf[v], k)'.stamp
    PROVE  AwaitedIsWritten'
<1> SUFFICES ASSUME NEW v \in Writers, call'[v].at = "commit"
             PROVE  call'[v].stamp <= View(ProcOf[v], call[v].key)'.stamp
  BY DEF AwaitedIsWritten
<1>1. call'[v] = call[v] /\ call[v].at = "commit"
  OBVIOUS
<1>2. call[v] \in Calls
  BY <1>1, IdleIsNoCall DEF Inv
<1>3. call[v].key \in Keys /\ call[v].stamp \in Nat /\ ProcOf[v] \in Procs
  BY <1>2, ProcessAssumption DEF Calls
<1> DEFINE seen == View(ProcOf[v], call[v].key)
<1>4. call[v].stamp <= seen.stamp
  BY <1>1 DEF Inv, AwaitedIsWritten
<1>5. seen.stamp \in Nat
  BY <1>3, ViewType DEF Inv, Rows
<1>6. seen.stamp <= seen'.stamp
  BY <1>1, <1>3
<1>7. seen'.stamp \in Nat
  BY <1>3 DEF TypeOK, View, Rows
<1> QED BY <1>1, <1>3, <1>4, <1>5, <1>6, <1>7

\* Steps that write nothing and answer nobody.
LEMMA QuietStep ==
    ASSUME Inv, TypeOK', UNCHANGED <<backend, db, pending, clock, acked>>,
           \A v \in Writers : call'[v].at = "commit" => call'[v] = call[v]
    PROVE  Inv'
<1>1. OneWriter' /\ Newer' /\ AnsweredIsDurable'
  BY DEF Inv, OneWriter, Newer, AnsweredIsDurable
<1>2. ASSUME NEW v \in Writers, NEW k \in Keys
      PROVE  View(ProcOf[v], k).stamp <= View(ProcOf[v], k)'.stamp
  <2>1. ProcOf[v] \in Procs
    BY ProcessAssumption
  <2>2. View(ProcOf[v], k).stamp \in Nat
    BY <2>1, ViewType DEF Inv, Rows
  <2>3. View(ProcOf[v], k)' = View(ProcOf[v], k)
    BY DEF View
  <2> QED BY <2>2, <2>3
<1>3. AwaitedIsWritten'
  BY <1>2, AwaitedStep
<1> QED BY <1>1, <1>3 DEF Inv

LEMMA WriteSqliteInv == ASSUME Inv, TypeOK', NEW w \in Writers, WriteSqlite(w) PROVE Inv'
<1> DEFINE p == ProcOf[w]
<1>0. PICK key \in Keys : call[w].key = key
  BY IdleIsNoCall DEF WriteSqlite, Inv, Calls
<1>1. call[w] \in Calls /\ p \in Procs
  BY IdleIsNoCall, ProcessAssumption DEF WriteSqlite, Inv
<1>2. backend = "sqlite" /\ \A q \in Procs \ {p} : pending[q] = NoRows
  BY DEF WriteSqlite, WriteLocked
<1>3. pending' = [pending EXCEPT ![p][key] = NewRow(w)] /\ clock' = clock + 1
  BY <1>0 DEF WriteSqlite
<1>4. UNCHANGED <<backend, db, acked>>
  BY WriteSqliteStep DEF WriteSqlite
<1>5. pending'[p][key] = NewRow(w) /\ \A k \in Keys \ {key} : pending'[p][k] = pending[p][k]
  BY <1>1, <1>3 DEF Inv, TypeOK
<1>6. \A q \in Procs \ {p} : pending'[q] = pending[q]
  BY <1>1, <1>3 DEF Inv, TypeOK
<1>7. NewRow(w).stamp = clock + 1 /\ clock \in Nat
  BY DEF NewRow, Inv, TypeOK
<1>8. NewRow(w) # NoRow
  BY <1>7 DEF NoRow
<1>9. OneWriter'
  BY <1>2, <1>4, <1>6 DEF OneWriter
<1>10. ASSUME NEW q \in Procs, NEW k \in Keys
       PROVE  pending[q][k].stamp \in Nat /\ db[k].stamp \in Nat
  BY DEF Inv, TypeOK, Rows
<1>11. Newer'
  <2>1. \A k \in Keys : db'[k].stamp <= clock'
    BY <1>1, <1>3, <1>4, <1>7, <1>10 DEF Inv, Newer
  <2>2. ASSUME NEW q \in Procs, NEW k \in Keys
        PROVE  /\ pending'[q][k].stamp <= clock'
               /\ pending'[q][k] # NoRow => db'[k].stamp <= pending'[q][k].stamp
    <3>1. CASE q = p /\ k = key
      <4>1. pending'[q][k].stamp = clock + 1
        BY <3>1, <1>5, <1>7
      <4>2. db'[k].stamp <= clock
        BY <1>4 DEF Inv, Newer
      <4> QED BY <4>1, <4>2, <1>3, <1>4, <1>7, <1>10
    <3>2. CASE q # p \/ k # key
      <4>1. pending'[q][k] = pending[q][k]
        BY <3>2, <1>5, <1>6
      <4> QED BY <4>1, <1>3, <1>4, <1>7, <1>10 DEF Inv, Newer
    <3> QED BY <3>1, <3>2
  <2> QED BY <2>1, <2>2 DEF Newer
<1>12. AwaitedIsWritten'
  <2> SUFFICES ASSUME NEW v \in Writers, call'[v].at = "commit"
               PROVE  \E k \in Keys : /\ call'[v].key = k
                                      /\ call'[v].stamp <= View(ProcOf[v], k)'.stamp
    BY DEF AwaitedIsWritten
  <2>1. CASE v = w
    <3>1. call'[v].stamp = clock + 1 /\ call'[v].key = key
      <4>1. Overtaken(w)[w].key = key /\ Overtaken(w)[w] \in Calls \cup {NoCall}
        BY <1>0, OvertakenType DEF Overtaken, Inv
      <4>2. Overtaken(w)[w] # NoCall
        <5>1. [call[w] EXCEPT !.known = 0] \in Calls
          BY <1>1 DEF Calls
        <5>2. NoCall \notin Calls
          BY DEF NoCall, Calls, Places
        <5> QED BY <1>1, <5>1, <5>2 DEF Overtaken
      <4>3. Overtaken(w)[w] \in Calls
        BY <4>1, <4>2
      <4> DEFINE was == Overtaken(w)[w]
      <4>4. was = [at |-> was.at, op |-> was.op, key |-> was.key, ending |-> was.ending,
                   known |-> was.known, stamp |-> was.stamp]
        BY <4>3 DEF Calls
      <4>5. call'[w] = [was EXCEPT !.at = "commit", !.stamp = clock + 1]
        BY WriteSqliteStep, OvertakenType DEF Inv
      <4> HIDE DEF was
      <4>6. call'[w].stamp = clock + 1 /\ call'[w].key = was.key
        BY <4>4, <4>5
      <4> QED BY <2>1, <4>1, <4>6 DEF was
    <3>2. View(p, key)' = NewRow(w)
      BY <1>5, <1>8 DEF View
    <3> QED BY <2>1, <3>1, <3>2, <1>7
  <2>2. CASE v # w
    <3>1. call'[v] = Overtaken(w)[v]
      BY <2>2, WriteSqliteStep, OvertakenType DEF Inv
    <3>2. call[v] # NoCall
      BY <3>1 DEF Overtaken, NoCall
    <3>3. call[v] \in Calls
      BY <3>2 DEF Inv, TypeOK
    <3>4. [call[v] EXCEPT !.known = 0].at = call[v].at
          /\ [call[v] EXCEPT !.known = 0].key = call[v].key
          /\ [call[v] EXCEPT !.known = 0].stamp = call[v].stamp
      BY <3>3 DEF Calls
    <3>5. call'[v].at = call[v].at /\ call'[v].key = call[v].key /\ call'[v].stamp = call[v].stamp
      BY <3>1, <3>4 DEF Overtaken
    <3>6. call[v].stamp \in Nat /\ call[v].key \in Keys /\ ProcOf[v] \in Procs
      BY <3>3, ProcessAssumption DEF Calls
    <3>7. PICK k \in Keys : call[v].key = k
      BY <3>6
    <3>8. call[v].stamp <= View(ProcOf[v], k).stamp /\ View(ProcOf[v], k).stamp \in Nat
      BY <3>5, <3>6, <3>7, ViewType DEF Inv, AwaitedIsWritten, Rows
    <3>9. CASE ProcOf[v] = p /\ k = key
      <4>1. View(p, key)' = NewRow(w)
        BY <1>5, <1>8 DEF View
      <4>2. View(p, key).stamp <= clock
        BY <1>1, ViewIsNewer
      <4> QED BY <3>5, <3>6, <3>7, <3>8, <3>9, <4>1, <4>2, <1>7
    <3>10. CASE ~(ProcOf[v] = p /\ k = key)
      <4>1. pending'[ProcOf[v]][k] = pending[ProcOf[v]][k]
        BY <3>6, <3>10, <1>5, <1>6
      <4>2. View(ProcOf[v], k)' = View(ProcOf[v], k)
        BY <4>1, <1>4 DEF View
      <4> QED BY <3>5, <3>7, <3>8, <4>2
    <3> QED BY <3>9, <3>10
  <2> QED BY <2>1, <2>2
<1>13. AnsweredIsDurable'
  BY <1>4 DEF Inv, AnsweredIsDurable
<1> QED BY <1>9, <1>11, <1>12, <1>13 DEF Inv

LEMMA WritePostgresInv == ASSUME Inv, TypeOK', NEW w \in Writers, WritePostgres(w) PROVE Inv'
<1>0. PICK key \in Keys : call[w].key = key
  BY IdleIsNoCall DEF WritePostgres, Inv, Calls
<1>1. call[w] \in Calls
  BY IdleIsNoCall DEF WritePostgres, Inv
<1>2. backend = "postgres" /\ (\A q \in Procs : pending[q] = NoRows) /\ UNCHANGED <<backend, pending>>
  BY DEF WritePostgres, Inv, OneWriter
<1>3. clock' = clock + 1 /\ clock \in Nat /\ NewRow(w).stamp = clock + 1
  BY DEF WritePostgres, Inv, TypeOK, NewRow
<1>4. db'[key] = NewRow(w) /\ \A k \in Keys \ {key} : db'[k] = db[k]
  BY <1>0 DEF WritePostgres, Inv, TypeOK
<1>5. \A k \in Keys : /\ db[k].stamp \in Nat /\ db[k].stamp <= clock
                       /\ db'[k].stamp \in Nat /\ db'[k].stamp <= clock'
                       /\ db[k].stamp <= db'[k].stamp
  <2>1. \A k \in Keys : db[k].stamp \in Nat /\ db[k].stamp <= clock
    BY DEF Inv, TypeOK, Rows, Newer
  <2>2. \A k \in Keys : db'[k] = db[k] \/ db'[k] = NewRow(w)
    BY <1>4
  <2> QED BY <1>3, <2>1, <2>2
<1>6. OneWriter'
  BY <1>2 DEF OneWriter
<1>7. Newer'
  <2>1. \A q \in Procs, k \in Keys : pending'[q][k] = NoRow
    BY <1>2 DEF NoRows
  <2>2. NoRow.stamp <= clock'
    BY <1>3 DEF NoRow
  <2> QED BY <1>5, <2>1, <2>2 DEF Newer
<1>8. ASSUME NEW v \in Writers, call'[v].at = "commit"
      PROVE  \E k \in Keys : /\ call'[v].key = k
                             /\ call'[v].stamp <= View(ProcOf[v], k)'.stamp
  <2>1. call' = [Overtaken(w) EXCEPT ![w] = NoCall]
    BY DEF WritePostgres
  <2>2. v # w
    BY <2>1, <1>8, OvertakenType DEF Inv, NoCall
  <2>9. call'[v] = Overtaken(w)[v]
    BY <2>1, <2>2, OvertakenType DEF Inv
  <2>10. call[v] # NoCall
    BY <2>9, <1>8 DEF Overtaken, NoCall
  <2>3. call[v] \in Calls
    BY <2>10 DEF Inv, TypeOK
  <2>4. [call[v] EXCEPT !.known = 0].at = call[v].at
        /\ [call[v] EXCEPT !.known = 0].key = call[v].key
        /\ [call[v] EXCEPT !.known = 0].stamp = call[v].stamp
    BY <2>3 DEF Calls
  <2>5. call'[v].at = call[v].at /\ call'[v].key = call[v].key /\ call'[v].stamp = call[v].stamp
    BY <2>9, <2>4 DEF Overtaken
  <2>6. call[v].stamp \in Nat /\ call[v].key \in Keys /\ ProcOf[v] \in Procs
    BY <2>3, ProcessAssumption DEF Calls
  <2>7. PICK k \in Keys : call[v].key = k
    BY <2>6
  <2>8. View(ProcOf[v], k) = db[k] /\ View(ProcOf[v], k)' = db'[k]
    BY <1>2, <2>6 DEF View, NoRows
  <2>11. call[v].stamp <= View(ProcOf[v], k).stamp
    BY <1>8, <2>5, <2>7 DEF Inv, AwaitedIsWritten
  <2> QED BY <1>5, <2>5, <2>6, <2>7, <2>8, <2>11
<1>9. AwaitedIsWritten'
  BY <1>8 DEF AwaitedIsWritten
<1>10. AnsweredIsDurable'
  <2>1. Answered(w, clock + 1)
    BY DEF WritePostgres
  <2>2. \A k \in Keys : acked'[k] = acked[k] \/ (k = key /\ acked'[k] = clock + 1)
    <3>1. acked' = [acked EXCEPT ![key] = IF @ < clock + 1 THEN clock + 1 ELSE @]
      BY <1>0, <2>1 DEF Answered
    <3>2. acked \in [Keys -> Nat]
      BY DEF Inv, TypeOK
    <3> QED BY <3>1, <3>2
  <2>3. \A k \in Keys : acked[k] \in Nat /\ acked[k] <= db[k].stamp
    BY DEF Inv, TypeOK, AnsweredIsDurable
  <2> QED BY <1>3, <1>4, <1>5, <2>2, <2>3 DEF AnsweredIsDurable
<1> QED BY <1>6, <1>7, <1>9, <1>10 DEF Inv

\* The connection commits at the request of a call, which then answers or is cancelled.
LEMMA CommitAllInv ==
    ASSUME Inv, TypeOK', NEW w \in Writers, CommitAll(ProcOf[w]), Finish(w),
           backend' = backend, clock' = clock,
           acked' = acked \/ (call[w].at = "commit" /\ Answered(w, call[w].stamp))
    PROVE  Inv'
<1> DEFINE p == ProcOf[w]
<1>1. p \in Procs
  BY ProcessAssumption
<1>2. /\ OneWriter' /\ Newer'
      /\ \A k \in Keys : db'[k] = View(p, k) /\ db[k].stamp <= db'[k].stamp
      /\ \A q \in Procs, k \in Keys : View(q, k).stamp <= View(q, k)'.stamp
  BY <1>1, CommitAllKeeps
<1>3. AwaitedIsWritten'
  <2>1. \A v \in Writers : call'[v].at = "commit" => call'[v] = call[v]
    BY DEF Finish, Inv, TypeOK, NoCall
  <2>2. \A v \in Writers : ProcOf[v] \in Procs
    BY ProcessAssumption
  <2> QED BY <1>2, <2>1, <2>2, AwaitedStep
<1>4. ASSUME NEW k \in Keys PROVE acked'[k] <= db'[k].stamp
  <2>1. acked[k] \in Nat /\ db[k].stamp \in Nat /\ db'[k].stamp \in Nat
    BY DEF Inv, TypeOK, Rows
  <2>2. acked[k] <= db'[k].stamp
    BY <1>2, <2>1 DEF Inv, AnsweredIsDurable
  <2>3. CASE acked' = acked
    BY <2>2, <2>3
  <2>4. CASE call[w].at = "commit" /\ Answered(w, call[w].stamp)
    <3>1. call[w].stamp <= View(p, call[w].key).stamp
      BY <2>4 DEF Inv, AwaitedIsWritten
    <3>2. acked'[k] = acked[k] \/ (k = call[w].key /\ acked'[k] = call[w].stamp)
      <4>1. acked' = [acked EXCEPT ![call[w].key] =
                        IF @ < call[w].stamp THEN call[w].stamp ELSE @]
        BY <2>4 DEF Answered
      <4>2. acked \in [Keys -> Nat]
        BY DEF Inv, TypeOK
      <4> QED BY <4>1, <4>2
    <3> QED BY <1>2, <2>2, <3>1, <3>2
  <2> QED BY <2>3, <2>4
<1> QED BY <1>2, <1>3, <1>4 DEF Inv, AnsweredIsDurable

\* What a process leaves uncommitted is nobody's answer.
LEMMA GoneInv == ASSUME Inv, TypeOK', NEW p \in Procs, Gone(p) PROVE Inv'
<1>1. UNCHANGED <<backend, db, clock, acked>>
  BY DEF Gone
<1>2. pending'[p] = NoRows /\ \A q \in Procs \ {p} : pending'[q] = pending[q]
  BY DEF Gone, Inv, TypeOK
<1>3. OneWriter'
  BY <1>1, <1>2 DEF Inv, OneWriter
<1>4. Newer'
  <2>1. \A k \in Keys : pending'[p][k] = NoRow
    BY <1>2 DEF NoRows
  <2>2. NoRow.stamp <= clock
    BY DEF NoRow, Inv, TypeOK
  <2> QED BY <1>1, <1>2, <2>1, <2>2 DEF Inv, Newer
<1>5. \A v \in Writers : call'[v].at = "commit" => ProcOf[v] # p /\ call'[v] = call[v]
  BY DEF Gone, NoCall
<1>6. ASSUME NEW v \in Writers, NEW k \in Keys, call'[v].at = "commit"
      PROVE  View(ProcOf[v], k).stamp <= View(ProcOf[v], k)'.stamp
  <2>1. ProcOf[v] \in Procs \ {p}
    BY <1>5, <1>6, ProcessAssumption
  <2>2. View(ProcOf[v], k)' = View(ProcOf[v], k)
    BY <1>1, <1>2, <2>1 DEF View
  <2>3. View(ProcOf[v], k).stamp \in Nat
    BY <2>1, ViewType DEF Inv, Rows
  <2> QED BY <2>2, <2>3
<1>7. AwaitedIsWritten'
  BY <1>5, <1>6, AwaitedStep
<1> QED BY <1>1, <1>3, <1>4, <1>7 DEF Inv, AnsweredIsDurable

LEMMA CallInv ==
    ASSUME Inv, TypeOK', NEW w \in Writers, Begin(w) \/ Step(w) \/ Cancelled(w)
    PROVE  Inv'
<1>1. CASE Begin(w)
  <2>1. \A v \in Writers : call'[v].at = "commit" => call'[v] = call[v]
    BY <1>1 DEF Begin, FirstOf, Inv, TypeOK
  <2> QED BY <1>1, <2>1, QuietStep DEF Begin
<1>2. CASE Acquire(w) \/ Look(w) \/ LookAgain(w) \/ Locked(w)
  <2>1. PICK place \in {"look", "write", "lookAgain"} : Goto(w, place) \/ Finish(w)
    BY <1>2 DEF Acquire, Look, LookAgain, Locked, FirstOf
  <2>2. \A v \in Writers : call'[v].at = "commit" => call'[v] = call[v]
    <3>1. CASE Finish(w)
      BY <3>1 DEF Finish, Inv, TypeOK, NoCall
    <3>2. CASE Goto(w, place)
      <4>1. call[w] \in Calls
        BY <1>2, IdleIsNoCall DEF Acquire, Look, LookAgain, Locked, Inv
      <4>2. [call[w] EXCEPT !.at = place].at = place
        BY <4>1 DEF Calls
      <4> QED BY <3>2, <4>2 DEF Goto, Inv, TypeOK
    <3> QED BY <2>1, <3>1, <3>2
  <2> QED BY <1>2, <2>2, QuietStep DEF Acquire, Look, LookAgain, Locked
<1>3. CASE WriteSqlite(w)
  BY <1>3, WriteSqliteInv
<1>4. CASE WritePostgres(w)
  BY <1>4, WritePostgresInv
<1>5. CASE Commit(w)
  BY <1>5, CommitAllInv DEF Commit
<1>6. CASE Cancelled(w)
  <2>1. CASE UNCHANGED <<db, pending>>
    <3>1. \A v \in Writers : call'[v].at = "commit" => call'[v] = call[v]
      BY <1>6 DEF Cancelled, Finish, Inv, TypeOK, NoCall
    <3> QED BY <1>6, <2>1, <3>1, QuietStep DEF Cancelled
  <2>2. CASE CommitAll(ProcOf[w])
    <3>1. Finish(w) /\ backend' = backend /\ clock' = clock
      BY <1>6 DEF Cancelled
    <3>2. acked' = acked \/ (call[w].at = "commit" /\ Answered(w, call[w].stamp))
      BY <1>6 DEF Cancelled
    <3> QED BY <2>2, <3>1, <3>2, CommitAllInv
  <2> QED BY <1>6, <2>1, <2>2 DEF Cancelled
<1> QED BY <1>1, <1>2, <1>3, <1>4, <1>5, <1>6 DEF Step

LEMMA InvStep == Inv /\ [Next]_vars => Inv'
<1> SUFFICES ASSUME Inv, [Next]_vars PROVE Inv'
  OBVIOUS
<1>0. TypeOK'
  BY TypeStep DEF Inv
<1>1. CASE \E w \in Writers : Begin(w) \/ Step(w) \/ Cancelled(w)
  BY <1>0, <1>1, CallInv
<1>2. CASE \E p \in Procs : Open(p) \/ StartStream(p) \/ EndStream(p)
  BY <1>0, <1>2, QuietStep DEF Open, StartStream, EndStream
<1>3. CASE \E p \in Procs : Close(p) \/ Die(p)
  BY <1>0, <1>3, GoneInv DEF Close, Die
<1>4. CASE UNCHANGED vars
  BY <1>0, <1>4, QuietStep DEF vars
<1> QED BY <1>1, <1>2, <1>3, <1>4 DEF Next

\* A save that has answered is stored for good, for any number of processes and
\* coroutines and whatever fails, is cancelled or dies (sqlite_store.py:152-263,
\* postgres_store.py:155-287).
THEOREM DurableInvariant == Spec => []AnsweredIsDurable
<1>1. Inv => AnsweredIsDurable
  BY DEF Inv
<1> QED BY InitInv, InvStep, <1>1, PTL DEF Spec

-----------------------------------------------------------------------------
(* What a call knows of the success it may replace.                         *)

\* A stored row was written at some time, and an open transaction is strictly
\* newer than what it replaces.
StrictlyNewer ==
    /\ \A k \in Keys : db[k].tagged => db[k].stamp > 0
    /\ \A p \in Procs, k \in Keys : pending[p][k] # NoRow => db[k].stamp < pending[p][k].stamp

\* A call that sees the row `seen`, where its process's transaction holds `mine`:
\* the success it has known since it began is no newer than what it sees; of an
\* open transaction it has known that very row, or nothing; and when it is about
\* to write, the success it sees is not the one it has known.
Informed(held, seen, mine) ==
    /\ held.known <= seen.stamp
    /\ mine # NoRow => held.known \in {0, mine.stamp}
    /\ held.at = "write" /\ held.op = "save_trace_idempotent" =>
          ~(Keeps(seen) /\ held.known = seen.stamp)

CallsInformed ==
    \A w \in Writers :
        call[w] # NoCall =>
            Informed(call[w], View(ProcOf[w], call[w].key), pending[ProcOf[w]][call[w].key])

\* When `new` replaces the success `old`, its call has not known `old` all along.
Races(new, old) == Keeps(old) /\ new.tagged => new.known # old.stamp

PendingRaces ==
    \A p \in Procs, k \in Keys : pending[p][k] # NoRow => Races(pending[p][k], db[k])

\* Only PostgresStore asks a second time.
AsksAgain == \A w \in Writers : call[w].at = "lookAgain" => backend = "postgres"

Knowing == StrictlyNewer /\ CallsInformed /\ PendingRaces

LEMMA InitAsks == Init => AsksAgain
  BY DEF Init, AsksAgain, NoCall

LEMMA AsksStep == Inv /\ AsksAgain /\ [Next]_vars => AsksAgain'
<1> SUFFICES ASSUME Inv, AsksAgain, [Next]_vars, NEW v \in Writers, call'[v].at = "lookAgain"
             PROVE  backend' = "postgres"
  BY DEF AsksAgain
<1>1. backend' = backend
  BY DEF Next, Step, Begin, Acquire, Look, LookAgain, WriteSqlite, WritePostgres, Commit, Locked,
         Cancelled, Open, StartStream, EndStream, Close, Die, Gone, vars
<1>2. CASE call'[v] = call[v]
  BY <1>1, <1>2 DEF AsksAgain
<1>3. CASE call'[v] # call[v]
  <2>0. call'[v] # NoCall
    BY DEF NoCall
  <2>1. ASSUME NEW w \in Writers, Begin(w) \/ Acquire(w) \/ LookAgain(w) \/ Locked(w)
                                   \/ Commit(w) \/ Cancelled(w)
        PROVE  FALSE
    <3>1. CASE Begin(w)
      BY <1>3, <3>1 DEF Begin, FirstOf, Inv, TypeOK
    <3>2. CASE Acquire(w) \/ LookAgain(w)
      <4>1. Finish(w) \/ \E place \in {"look", "write"} : Goto(w, place)
        BY <3>2 DEF Acquire, LookAgain, FirstOf
      <4>2. call[w] # NoCall
        BY <3>2 DEF Acquire, LookAgain, NoCall
      <4>3. PICK held \in Calls : call[w] = held
        BY <4>2 DEF Inv, TypeOK
      <4>4. \A place \in {"look", "write"} : [held EXCEPT !.at = place].at # "lookAgain"
        BY DEF Calls
      <4> QED BY <1>3, <2>0, <4>1, <4>3, <4>4 DEF Goto, Finish, Inv, TypeOK
    <3>3. CASE Locked(w) \/ Commit(w) \/ Cancelled(w)
      BY <1>3, <2>0, <3>3 DEF Locked, Commit, Cancelled, Finish, Inv, TypeOK
    <3> QED BY <2>1, <3>1, <3>2, <3>3
  <2>2. ASSUME NEW w \in Writers, Look(w) PROVE backend = "postgres"
    <3>1. backend = "postgres" \/ Finish(w) \/ Goto(w, "write")
      BY <2>2 DEF Look
    <3>2. call[w] # NoCall
      BY <2>2 DEF Look, NoCall
    <3>3. PICK held \in Calls : call[w] = held
      BY <3>2 DEF Inv, TypeOK
    <3>4. [held EXCEPT !.at = "write"].at # "lookAgain"
      BY DEF Calls
    <3> QED BY <1>3, <2>0, <3>1, <3>3, <3>4 DEF Goto, Finish, Inv, TypeOK
  <2>3. ASSUME NEW w \in Writers, WriteSqlite(w) \/ WritePostgres(w) PROVE backend = "postgres"
    <3>1. v # w
      <4>1. CASE WriteSqlite(w)
        <5>1. Overtaken(w)[w] \in Calls
          BY <4>1, OvertakenWriter DEF WriteSqlite, Inv
        <5>2. [Overtaken(w)[w] EXCEPT !.at = "commit", !.stamp = clock + 1].at = "commit"
          BY <5>1 DEF Calls
        <5> QED BY <4>1, <5>2, WriteSqliteStep, OvertakenType DEF Inv
      <4>2. CASE WritePostgres(w)
        BY <2>0, <4>2, OvertakenType DEF WritePostgres, Inv
      <4> QED BY <2>3, <4>1, <4>2
    <3>2. call'[v] = Overtaken(w)[v]
      BY <2>3, <3>1, WriteSqliteStep, OvertakenType DEF WritePostgres, Inv
    <3>3. call[v] # NoCall
      BY <2>0, <3>2 DEF Overtaken
    <3>4. PICK held \in Calls : call[v] = held
      BY <3>3 DEF Inv, TypeOK
    <3>5. [held EXCEPT !.known = 0].at = held.at
      BY DEF Calls
    <3> QED BY <3>2, <3>4, <3>5 DEF Overtaken, AsksAgain
  <2>4. ASSUME NEW p \in Procs, Open(p) \/ StartStream(p) \/ EndStream(p) \/ Close(p) \/ Die(p)
        PROVE  FALSE
    BY <1>3, <2>0, <2>4 DEF Open, StartStream, EndStream, Close, Die, Gone
  <2> QED BY <1>1, <1>3, <2>1, <2>2, <2>3, <2>4 DEF Next, Step, vars
<1> QED BY <1>2, <1>3

LEMMA InitKnowing == Init => Knowing
<1> SUFFICES ASSUME Init PROVE Knowing
  OBVIOUS
<1>1. \A k \in Keys : db[k] = NoRow /\ \A p \in Procs : pending[p][k] = NoRow
  BY DEF Init, NoRows
<1>2. \A w \in Writers : call[w] = NoCall
  BY DEF Init
<1>3. NoRow.tagged = FALSE
  BY DEF NoRow
<1>4. StrictlyNewer
  BY <1>1, <1>3 DEF StrictlyNewer
<1>5. CallsInformed
  BY <1>2 DEF CallsInformed
<1>6. PendingRaces
  BY <1>1 DEF PendingRaces
<1> QED BY <1>4, <1>5, <1>6 DEF Knowing

LEMMA CallFacts ==
    ASSUME TypeOK, NEW v \in Writers, call[v] # NoCall
    PROVE  /\ call[v] \in Calls /\ call[v].key \in Keys /\ call[v].known \in Nat
           /\ ProcOf[v] \in Procs
<1>1. call[v] \in Calls
  BY DEF TypeOK
<1> QED BY <1>1, ProcessAssumption DEF Calls

LEMMA RowFacts ==
    ASSUME TypeOK, NEW p \in Procs, NEW k \in Keys
    PROVE  /\ db[k] \in Rows /\ db[k].stamp \in Nat /\ pending[p][k].stamp \in Nat
           /\ View(p, k) \in Rows /\ View(p, k).stamp \in Nat
  BY ViewType DEF TypeOK, Rows

\* A tagged row that a process sees has been written.
SeenIsWritten ==
    \A p \in Procs, k \in Keys :
        View(p, k).stamp \in Nat /\ (View(p, k).tagged => View(p, k).stamp > 0)

LEMMA Seen == TypeOK /\ StrictlyNewer => SeenIsWritten
<1> SUFFICES ASSUME TypeOK, StrictlyNewer, NEW p \in Procs, NEW k \in Keys
             PROVE  View(p, k).stamp \in Nat /\ (View(p, k).tagged => View(p, k).stamp > 0)
  BY DEF SeenIsWritten
<1>1. db[k].stamp \in Nat /\ pending[p][k].stamp \in Nat
  BY RowFacts
<1> QED BY <1>1 DEF StrictlyNewer, View

\* Who has known no success is informed, whatever there is.
LEMMA KnewNothing ==
    ASSUME NEW held, held.known = 0, NEW seen, NEW mine,
           seen.stamp \in Nat, seen.tagged => seen.stamp > 0
    PROVE  Informed(held, seen, mine)
  BY DEF Informed, Keeps

\* The row of a call that is about to write does not replace, unraced, a success.
LEMMA NewRowRaces ==
    ASSUME Inv, Knowing, NEW w \in Writers, call[w].at = "write",
           NEW k \in Keys, call[w].key = k
    PROVE  Races(NewRow(w), db[k])
<1>1. call[w] # NoCall
  BY DEF NoCall
<1>2. /\ call[w].known \in Nat /\ ProcOf[w] \in Procs
      /\ Informed(call[w], View(ProcOf[w], k), pending[ProcOf[w]][k])
  BY <1>1, CallFacts DEF Inv, Knowing, CallsInformed
<1>3. db[k].stamp \in Nat /\ pending[ProcOf[w]][k].stamp \in Nat
  BY <1>2, RowFacts DEF Inv
<1> SUFFICES ASSUME Keeps(db[k]), NewRow(w).tagged PROVE NewRow(w).known # db[k].stamp
  BY DEF Races
<1>4. call[w].op = "save_trace_idempotent" /\ NewRow(w).known = call[w].known
  BY DEF NewRow
<1>5. db[k].stamp > 0
  BY DEF Knowing, StrictlyNewer, Keeps
<1>6. CASE pending[ProcOf[w]][k] = NoRow
  <2>1. View(ProcOf[w], k) = db[k]
    BY <1>6 DEF View
  <2> QED BY <1>2, <1>4, <2>1 DEF Informed
<1>7. CASE pending[ProcOf[w]][k] # NoRow
  <2>1. call[w].known \in {0, pending[ProcOf[w]][k].stamp}
    BY <1>2, <1>7 DEF Informed
  <2>2. db[k].stamp < pending[ProcOf[w]][k].stamp
    BY <1>2, <1>7 DEF Knowing, StrictlyNewer
  <2> QED BY <1>3, <1>4, <1>5, <2>1, <2>2
<1> QED BY <1>6, <1>7

\* A step that writes nothing needs to answer only for the calls it moves.
LEMMA QuietKnowing ==
    ASSUME Inv, Knowing, UNCHANGED <<db, pending>>,
           \A v \in Writers :
               \/ call'[v] = call[v] \/ call'[v] = NoCall
               \/ \E k \in Keys : /\ call'[v].key = k
                                  /\ Informed(call'[v], View(ProcOf[v], k), pending[ProcOf[v]][k])
    PROVE  Knowing'
<1>1. StrictlyNewer' /\ PendingRaces'
  BY DEF Knowing, StrictlyNewer, PendingRaces, Races, Keeps
<1>2. \A p \in Procs, k \in Keys : View(p, k)' = View(p, k)
  BY DEF View
<1>3. ASSUME NEW v \in Writers, call'[v] # NoCall
      PROVE  \E k \in Keys : /\ call'[v].key = k
                             /\ Informed(call'[v], View(ProcOf[v], k)', pending'[ProcOf[v]][k])
  <2>1. ProcOf[v] \in Procs
    BY ProcessAssumption
  <2>2. CASE \E k \in Keys : /\ call'[v].key = k
                            /\ Informed(call'[v], View(ProcOf[v], k), pending[ProcOf[v]][k])
    BY <1>2, <2>1, <2>2
  <2>3. CASE call'[v] = call[v]
    <3>1. call'[v] = call[v]
      BY <2>3
    <3>2. PICK k \in Keys : call[v].key = k
      BY <1>3, <3>1, CallFacts DEF Inv
    <3>3. Informed(call[v], View(ProcOf[v], k), pending[ProcOf[v]][k])
      BY <1>3, <3>1, <3>2 DEF Knowing, CallsInformed
    <3> QED BY <1>2, <2>1, <3>1, <3>2, <3>3
  <2> QED BY <1>3, <2>2, <2>3
<1>4. CallsInformed'
  BY <1>3 DEF CallsInformed
<1> QED BY <1>1, <1>4 DEF Knowing

\* The calls of a step that writes a row of key `key`: whoever is in a call on it
\* has been overtaken, and the others see and know what they did.
LEMMA WriteInformed ==
    ASSUME Inv, Knowing, TypeOK', StrictlyNewer', NEW w \in Writers, NEW key \in Keys,
           call[w].key = key,
           \A v \in Writers \ {w} : call'[v] = Overtaken(w)[v],
           call'[w] # NoCall => call'[w].key = key /\ call'[w].known = 0,
           \A k \in Keys \ {key} : db'[k] = db[k] /\ \A p \in Procs : pending'[p][k] = pending[p][k]
    PROVE  CallsInformed'
<1>1. SeenIsWritten'
  BY Seen, PTL
<1>2. ASSUME NEW v \in Writers, NEW k \in Keys, call'[v].known = 0
      PROVE  Informed(call'[v], View(ProcOf[v], k)', pending'[ProcOf[v]][k])
  <2>1. ProcOf[v] \in Procs
    BY ProcessAssumption
  <2>2. View(ProcOf[v], k)'.stamp \in Nat
        /\ (View(ProcOf[v], k)'.tagged => View(ProcOf[v], k)'.stamp > 0)
    BY <1>1, <2>1 DEF SeenIsWritten
  <2> QED BY <1>2, <2>2, KnewNothing
<1>3. ASSUME NEW v \in Writers, call'[v] # NoCall
      PROVE  \E k \in Keys :
                 call'[v].key = k /\ Informed(call'[v], View(ProcOf[v], k)', pending'[ProcOf[v]][k])
  <2>1. CASE v = w
    BY <1>2, <1>3, <2>1
  <2>2. CASE v # w
    <3>1. call[v] # NoCall
      BY <1>3, <2>2 DEF Overtaken
    <3>2. PICK held \in Calls : call[v] = held
      BY <3>1, CallFacts DEF Inv
    <3>3. PICK k \in Keys : held.key = k
      BY <3>2 DEF Calls
    <3>4. CASE k = key
      <4>1. call'[v] = [held EXCEPT !.known = 0]
        BY <2>2, <3>1, <3>2, <3>3, <3>4 DEF Overtaken
      <4>2. call'[v].known = 0 /\ call'[v].key = k
        BY <3>3, <4>1 DEF Calls
      <4> QED BY <1>2, <4>2
    <3>5. CASE k # key
      <4>1. call'[v] = call[v]
        BY <2>2, <3>2, <3>3, <3>5 DEF Overtaken
      <4>2. ProcOf[v] \in Procs
        BY ProcessAssumption
      <4>3. View(ProcOf[v], k)' = View(ProcOf[v], k) /\ pending'[ProcOf[v]][k] = pending[ProcOf[v]][k]
        BY <3>5, <4>2 DEF View
      <4>4. Informed(call[v], View(ProcOf[v], k), pending[ProcOf[v]][k])
        BY <3>1, <3>2, <3>3 DEF Knowing, CallsInformed
      <4> QED BY <3>2, <3>3, <4>1, <4>3, <4>4
    <3> QED BY <3>4, <3>5
  <2> QED BY <2>1, <2>2
<1> QED BY <1>3 DEF CallsInformed

LEMMA WriteSqliteKnowing ==
    ASSUME Inv, Knowing, TypeOK', NEW w \in Writers, WriteSqlite(w) PROVE Knowing'
<1> DEFINE p == ProcOf[w]
<1>1. call[w] # NoCall /\ call[w].at = "write"
  BY DEF WriteSqlite, NoCall
<1>2. PICK held \in Calls : call[w] = held
  BY <1>1, CallFacts DEF Inv
<1>3. PICK key \in Keys : held.key = key
  BY <1>2 DEF Calls
<1>4. p \in Procs /\ db' = db
  BY ProcessAssumption DEF WriteSqlite
<1>5. pending' = [pending EXCEPT ![p][key] = NewRow(w)]
  BY <1>2, <1>3 DEF WriteSqlite
<1>6. /\ pending'[p][key] = NewRow(w)
      /\ \A q \in Procs, k \in Keys : q # p \/ k # key => pending'[q][k] = pending[q][k]
  BY <1>4, <1>5 DEF Inv, TypeOK
<1>7. StrictlyNewer'
  <2>1. db[key].stamp < NewRow(w).stamp
    BY RowFacts, <1>4 DEF Inv, TypeOK, Newer, NewRow
  <2> QED BY <1>4, <1>6, <2>1 DEF Knowing, StrictlyNewer
<1>8. PendingRaces'
  <2>1. Races(NewRow(w), db[key])
    BY <1>1, <1>2, <1>3, NewRowRaces
  <2>2. ASSUME NEW q \in Procs, NEW k \in Keys, pending'[q][k] # NoRow
        PROVE  Races(pending'[q][k], db[k])
    <3>1. CASE q = p /\ k = key
      BY <1>6, <2>1, <3>1
    <3>2. CASE q # p \/ k # key
      BY <1>6, <2>2, <3>2 DEF Knowing, PendingRaces
    <3> QED BY <3>1, <3>2
  <2> QED BY <1>4, <2>2 DEF PendingRaces, Races, Keeps
<1>9. call' = [Overtaken(w) EXCEPT ![w].at = "commit", ![w].stamp = clock + 1]
  BY WriteSqliteStep
<1>10. \A v \in Writers \ {w} : call'[v] = Overtaken(w)[v]
  BY <1>9, OvertakenType DEF Inv
<1>11. call'[w].key = key /\ call'[w].known = 0
  <2>1. PICK was \in Calls : was = [held EXCEPT !.known = 0]
    BY DEF Calls
  <2>2. was.key = key /\ was.known = 0
    BY <1>3, <2>1 DEF Calls
  <2>3. Overtaken(w)[w] = was
    BY <1>1, <1>2, <2>1 DEF Overtaken
  <2>4. call'[w] = [was EXCEPT !.at = "commit", !.stamp = clock + 1]
    BY <1>9, <2>3, OvertakenType DEF Inv
  <2> QED BY <2>2, <2>4 DEF Calls
<1>12. \A k \in Keys \ {key} : db'[k] = db[k] /\ \A q \in Procs : pending'[q][k] = pending[q][k]
  BY <1>4, <1>6
<1>13. CallsInformed'
  BY <1>2, <1>3, <1>7, <1>10, <1>11, <1>12, WriteInformed
<1> QED BY <1>7, <1>8, <1>13 DEF Knowing

LEMMA WritePostgresKnowing ==
    ASSUME Inv, Knowing, TypeOK', NEW w \in Writers, WritePostgres(w) PROVE Knowing'
<1>1. call[w] # NoCall /\ call[w].at = "write"
  BY DEF WritePostgres, NoCall
<1>2. PICK key \in Keys : call[w].key = key
  BY <1>1, CallFacts DEF Inv
<1>3. (\A p \in Procs : pending[p] = NoRows) /\ pending' = pending
  BY DEF WritePostgres, Inv, OneWriter
<1>4. db'[key] = NewRow(w) /\ \A k \in Keys \ {key} : db'[k] = db[k]
  BY <1>2 DEF WritePostgres, Inv, TypeOK
<1>5. \A p \in Procs, k \in Keys : pending'[p][k] = NoRow
  BY <1>3 DEF NoRows
<1>6. StrictlyNewer'
  <2>1. NewRow(w).stamp > 0
    BY DEF NewRow, Inv, TypeOK
  <2> QED BY <1>4, <1>5, <2>1 DEF Knowing, StrictlyNewer
<1>7. PendingRaces'
  BY <1>5 DEF PendingRaces
<1>8. call' = [Overtaken(w) EXCEPT ![w] = NoCall]
  BY DEF WritePostgres
<1>9. call'[w] = NoCall /\ \A v \in Writers \ {w} : call'[v] = Overtaken(w)[v]
  BY <1>8, OvertakenType DEF Inv
<1>10. \A k \in Keys \ {key} : db'[k] = db[k] /\ \A p \in Procs : pending'[p][k] = pending[p][k]
  BY <1>3, <1>4
<1>11. CallsInformed'
  BY <1>2, <1>6, <1>9, <1>10, WriteInformed
<1> QED BY <1>6, <1>7, <1>11 DEF Knowing

\* A commit shows the rows of one process to the others, for whom they are news.
LEMMA CommitAllKnowing ==
    ASSUME Inv, Knowing, TypeOK', NEW w \in Writers, CommitAll(ProcOf[w]), Finish(w)
    PROVE  Knowing'
<1> DEFINE p == ProcOf[w]
<1>1. p \in Procs
  BY ProcessAssumption
<1>2. pending'[p] = NoRows /\ \A q \in Procs \ {p} : pending'[q] = pending[q]
  BY <1>1 DEF CommitAll, Inv, TypeOK
<1>3. \A k \in Keys : db'[k] = View(p, k)
  BY DEF CommitAll
<1>4. \A k \in Keys : pending'[p][k] = NoRow
  BY <1>2 DEF NoRows
<1>5. \A q \in Procs \ {p}, k \in Keys :
          pending[q][k] # NoRow => pending[p][k] = NoRow /\ db'[k] = db[k]
  <2> SUFFICES ASSUME NEW q \in Procs \ {p}, NEW k \in Keys, pending[q][k] # NoRow
               PROVE  pending[p][k] = NoRow /\ db'[k] = db[k]
    OBVIOUS
  <2>1. pending[q] # NoRows
    BY DEF NoRows
  <2>2. pending[p] = NoRows
    BY <1>1, <2>1 DEF Inv, OneWriter
  <2> QED BY <1>1, <1>3, <2>2, NoRowsSees DEF NoRows
<1>6. StrictlyNewer'
  <2>1. \A k \in Keys : db'[k].tagged => db'[k].stamp > 0
    BY <1>1, <1>3, Seen DEF SeenIsWritten, Inv, Knowing
  <2> QED BY <1>2, <1>4, <1>5, <2>1 DEF Knowing, StrictlyNewer
<1>7. PendingRaces'
  <2> SUFFICES ASSUME NEW q \in Procs, NEW k \in Keys, pending'[q][k] # NoRow
               PROVE  Races(pending'[q][k], db'[k])
    BY DEF PendingRaces, Races, Keeps
  <2>1. q # p /\ pending'[q] = pending[q]
    BY <1>2, <1>4
  <2>2. db'[k] = db[k]
    BY <1>5, <2>1
  <2> QED BY <2>1, <2>2 DEF Knowing, PendingRaces
<1>8. ASSUME NEW v \in Writers, call'[v] # NoCall
      PROVE  \E k \in Keys :
                 call'[v].key = k /\ Informed(call'[v], View(ProcOf[v], k)', pending'[ProcOf[v]][k])
  <2> DEFINE q == ProcOf[v]
  <2>1. call'[v] = call[v]
    BY <1>8 DEF Finish, Inv, TypeOK
  <2>2. PICK k \in Keys : call[v].key = k
    BY <1>8, <2>1, CallFacts DEF Inv
  <2>3. q \in Procs /\ call[v].known \in Nat
    BY <1>8, <2>1, CallFacts DEF Inv
  <2>4. Informed(call[v], View(q, k), pending[q][k])
    BY <1>8, <2>1, <2>2 DEF Knowing, CallsInformed
  <2>5. CASE q = p
    <3>1. View(q, k)' = View(q, k) /\ pending'[q][k] = NoRow
      BY <1>3, <1>4, <2>5 DEF View
    <3>2. Informed(call[v], View(q, k), NoRow)
      BY <2>4 DEF Informed
    <3> QED BY <2>1, <2>2, <3>1, <3>2
  <2>6. CASE q # p /\ (pending[q][k] # NoRow \/ pending[p][k] = NoRow)
    <3>1. db'[k] = db[k]
      BY <1>3, <1>5, <2>3, <2>6 DEF View
    <3>2. View(q, k)' = View(q, k) /\ pending'[q][k] = pending[q][k]
      BY <1>2, <2>3, <2>6, <3>1 DEF View
    <3> QED BY <2>1, <2>2, <2>4, <3>2
  <2>7. CASE q # p /\ pending[q][k] = NoRow /\ pending[p][k] # NoRow
    <3>1. View(q, k)' = pending[p][k] /\ pending'[q][k] = NoRow /\ View(q, k) = db[k]
      BY <1>2, <1>3, <2>3, <2>7 DEF View
    <3>2. db[k].stamp < pending[p][k].stamp
      BY <1>1, <2>7 DEF Knowing, StrictlyNewer
    <3>3. call[v].known < pending[p][k].stamp
      BY <1>1, <2>3, <2>4, <3>1, <3>2, RowFacts DEF Informed, Inv
    <3>4. pending[p][k].stamp \in Nat
      BY <1>1, RowFacts DEF Inv
    <3>5. Informed(call[v], pending[p][k], NoRow)
      BY <2>3, <3>3, <3>4 DEF Informed
    <3> QED BY <2>1, <2>2, <3>1, <3>5
  <2> QED BY <2>5, <2>6, <2>7
<1>9. CallsInformed'
  BY <1>8 DEF CallsInformed
<1> QED BY <1>6, <1>7, <1>9 DEF Knowing

\* A process that is gone takes its calls with it, and its rows, which nobody saw.
LEMMA GoneKnowing == ASSUME Inv, Knowing, NEW p \in Procs, Gone(p) PROVE Knowing'
<1>1. db' = db
  BY DEF Gone
<1>2. pending'[p] = NoRows /\ \A q \in Procs \ {p} : pending'[q] = pending[q]
  BY DEF Gone, Inv, TypeOK
<1>3. \A k \in Keys : pending'[p][k] = NoRow
  BY <1>2 DEF NoRows
<1>4. StrictlyNewer'
  BY <1>1, <1>2, <1>3 DEF Knowing, StrictlyNewer
<1>5. PendingRaces'
  <2> SUFFICES ASSUME NEW q \in Procs, NEW k \in Keys, pending'[q][k] # NoRow
               PROVE  Races(pending'[q][k], db[k])
    BY <1>1 DEF PendingRaces, Races, Keeps
  <2> QED BY <1>2, <1>3 DEF Knowing, PendingRaces
<1>6. ASSUME NEW v \in Writers, call'[v] # NoCall
      PROVE  \E k \in Keys :
                 call'[v].key = k /\ Informed(call'[v], View(ProcOf[v], k)', pending'[ProcOf[v]][k])
  <2>1. ProcOf[v] # p /\ call'[v] = call[v]
    BY <1>6 DEF Gone
  <2>2. ProcOf[v] \in Procs
    BY ProcessAssumption
  <2>3. PICK k \in Keys : call[v].key = k
    BY <1>6, <2>1, CallFacts DEF Inv
  <2>4. View(ProcOf[v], k)' = View(ProcOf[v], k) /\ pending'[ProcOf[v]][k] = pending[ProcOf[v]][k]
    BY <1>1, <1>2, <2>1, <2>2 DEF View
  <2>5. Informed(call[v], View(ProcOf[v], k), pending[ProcOf[v]][k])
    BY <1>6, <2>1, <2>3 DEF Knowing, CallsInformed
  <2> QED BY <2>1, <2>3, <2>4, <2>5
<1>7. CallsInformed'
  BY <1>6 DEF CallsInformed
<1> QED BY <1>4, <1>5, <1>7 DEF Knowing

\* A call begins with what it sees.
LEMMA BeginKnowing == ASSUME Inv, Knowing, NEW w \in Writers, Begin(w) PROVE Knowing'
<1> DEFINE p == ProcOf[w]
<1>1. PICK op \in Ops, c \in Cells, e \in Endings :
        LET before == View(p, KeyOf(op, c)) IN
        call' = [call EXCEPT ![w] =
            [at |-> IF backend = "postgres" THEN "acquire" ELSE FirstOf(op),
             op |-> op, key |-> KeyOf(op, c), ending |-> e,
             known |-> IF Keeps(before) THEN before.stamp ELSE 0, stamp |-> 0]]
  BY DEF Begin
<1>2. PICK key \in Keys : key = KeyOf(op, c)
  BY DEF Keys
<1> DEFINE seen == View(p, key)
           at == IF backend = "postgres" THEN "acquire" ELSE FirstOf(op)
           known == IF Keeps(seen) THEN seen.stamp ELSE 0
           held == [at |-> at, op |-> op, key |-> key, ending |-> e, known |-> known, stamp |-> 0]
<1>3. call' = [call EXCEPT ![w] = held]
  BY <1>1, <1>2
<1>4. seen.stamp \in Nat /\ p \in Procs
  BY ProcessAssumption, RowFacts DEF Inv
<1>5. held.at = at /\ held.op = op /\ held.key = key /\ held.known = known
  OBVIOUS
<1>6. ~(at = "write" /\ op = "save_trace_idempotent")
  BY DEF FirstOf
<1>7. known \in Nat /\ known <= seen.stamp /\ known \in {0, seen.stamp}
  BY <1>4
<1>8. pending[p][key] # NoRow => seen = pending[p][key]
  BY DEF View
<1> HIDE DEF seen, at, known, held
<1>9. Informed(held, seen, pending[p][key])
  BY <1>5, <1>6, <1>7, <1>8 DEF Informed
<1>10. \A v \in Writers \ {w} : call'[v] = call[v]
  BY <1>3 DEF Inv, TypeOK
<1>11. call'[w] = held
  BY <1>3 DEF Inv, TypeOK
<1>12. Informed(call'[w], View(ProcOf[w], key), pending[ProcOf[w]][key]) /\ call'[w].key = key
  BY <1>5, <1>9, <1>11 DEF seen
<1> QED BY <1>10, <1>12, QuietKnowing DEF Begin

\* A call goes to write when it sees no success to keep.
LEMMA AwaitKnowing ==
    ASSUME Inv, AsksAgain, Knowing, NEW w \in Writers, Acquire(w) \/ Look(w) \/ LookAgain(w) \/ Locked(w)
    PROVE  Knowing'
<1> DEFINE p == ProcOf[w]
<1>1. call[w] # NoCall /\ UNCHANGED <<db, pending>>
  BY DEF Acquire, Look, LookAgain, Locked, NoCall
<1>2. PICK held \in Calls : call[w] = held
  BY <1>1, CallFacts DEF Inv
<1>3. PICK key \in Keys : held.key = key
  BY <1>2 DEF Calls
<1>4. p \in Procs
  BY ProcessAssumption
<1>5. Informed(held, View(p, key), pending[p][key])
  BY <1>1, <1>2, <1>3 DEF Knowing, CallsInformed
<1>6. \/ Finish(w)
      \/ \E place \in {"look", "write", "lookAgain"} :
            /\ Goto(w, place)
            /\ place = "write" /\ held.op = "save_trace_idempotent" => ~Keeps(View(p, key))
  <2>1. CASE Acquire(w)
    BY <1>2, <2>1 DEF Acquire, FirstOf
  <2>2. CASE Look(w)
    BY <1>2, <1>3, <2>2 DEF Look, Skips, Keeps
  <2>3. CASE LookAgain(w)
    <3> DEFINE row == db[key]
    <3>1. IF Skips([row EXCEPT !.ending = "ok"]) THEN Finish(w) ELSE Goto(w, "write")
      BY <1>2, <1>3, <2>3 DEF LookAgain
    <3>2. row \in Rows
      BY DEF Inv, TypeOK
    <3>3. Skips([row EXCEPT !.ending = "ok"]) <=> row.tagged
      BY <3>2 DEF Skips, Rows
    <3>4. View(p, key) = row
      <4>1. call[w].at = "lookAgain"
        BY <2>3 DEF LookAgain
      <4>2. pending[p] = NoRows
        BY <1>4, <4>1 DEF AsksAgain, Inv, OneWriter
      <4> QED BY <1>4, <4>2, NoRowsSees
    <3> QED BY <3>1, <3>3, <3>4 DEF Keeps
  <2>4. CASE Locked(w)
    BY <2>4 DEF Locked
  <2> QED BY <2>1, <2>2, <2>3, <2>4
<1>7. CASE Finish(w)
  <2>1. \A v \in Writers : call'[v] = call[v] \/ call'[v] = NoCall
    BY <1>7 DEF Finish, Inv, TypeOK
  <2> QED BY <1>1, <2>1, QuietKnowing
<1>8. CASE ~Finish(w)
  <2>1. PICK place \in {"look", "write", "lookAgain"} :
            /\ Goto(w, place)
            /\ place = "write" /\ held.op = "save_trace_idempotent" => ~Keeps(View(p, key))
    BY <1>6, <1>8
  <2>2. PICK moved \in Calls : moved = [held EXCEPT !.at = place]
    BY DEF Calls, Places
  <2>3. moved.at = place /\ moved.op = held.op /\ moved.key = key /\ moved.known = held.known
    BY <1>3, <2>2 DEF Calls
  <2>4. call'[w] = moved /\ \A v \in Writers \ {w} : call'[v] = call[v]
    BY <1>2, <2>1, <2>2 DEF Goto, Inv, TypeOK
  <2>5. Informed(moved, View(p, key), pending[p][key])
    BY <1>5, <2>1, <2>3 DEF Informed
  <2> QED BY <1>1, <2>3, <2>4, <2>5, QuietKnowing
<1> QED BY <1>7, <1>8

LEMMA KnowingStep == Inv /\ AsksAgain /\ Knowing /\ [Next]_vars => Knowing'
<1> SUFFICES ASSUME Inv, AsksAgain, Knowing, [Next]_vars PROVE Knowing'
  OBVIOUS
<1>0. TypeOK'
  BY TypeStep DEF Inv
<1>1. ASSUME NEW w \in Writers, Step(w) PROVE Knowing'
  <2>1. CASE Commit(w)
    BY <1>0, <2>1, CommitAllKnowing DEF Commit
  <2> QED BY <1>0, <1>1, <2>1, AwaitKnowing, WriteSqliteKnowing, WritePostgresKnowing DEF Step
<1>2. ASSUME NEW w \in Writers, Cancelled(w) PROVE Knowing'
  <2>1. Finish(w)
    BY <1>2 DEF Cancelled
  <2>2. CASE UNCHANGED <<db, pending>>
    <3>1. \A v \in Writers : call'[v] = call[v] \/ call'[v] = NoCall
      BY <2>1 DEF Finish, Inv, TypeOK
    <3> QED BY <2>2, <3>1, QuietKnowing
  <2>3. CASE CommitAll(ProcOf[w])
    BY <1>0, <2>1, <2>3, CommitAllKnowing
  <2> QED BY <1>2, <2>2, <2>3 DEF Cancelled
<1>3. CASE \E p \in Procs : Open(p) \/ StartStream(p) \/ EndStream(p)
  BY <1>3, QuietKnowing DEF Open, StartStream, EndStream
<1>4. CASE \E p \in Procs : Close(p) \/ Die(p)
  BY <1>4, GoneKnowing DEF Close, Die
<1>5. CASE UNCHANGED vars
  BY <1>5, QuietKnowing DEF vars
<1> QED BY <1>1, <1>2, <1>3, <1>4, <1>5, BeginKnowing DEF Next

-----------------------------------------------------------------------------
(* What a step of the database puts in the place of a success.              *)

ReplacedInRace ==
    \A k \in Keys :
        LET old == db[k]
            new == db'[k]
        IN  Keeps(old) /\ new # old /\ new.tagged => new.known # old.stamp

LEMMA CommitRaces ==
    ASSUME Knowing, NEW p \in Procs, CommitAll(p) PROVE ReplacedInRace
<1> SUFFICES ASSUME NEW k \in Keys, Keeps(db[k]), db'[k] # db[k], db'[k].tagged
             PROVE  db'[k].known # db[k].stamp
  BY DEF ReplacedInRace
<1>1. db'[k] = View(p, k)
  BY DEF CommitAll
<1>2. pending[p][k] # NoRow /\ db'[k] = pending[p][k]
  BY <1>1 DEF View
<1> QED BY <1>2 DEF Knowing, PendingRaces, Races

LEMMA StepRaces == Inv /\ Knowing /\ [Next]_vars => ReplacedInRace
<1> SUFFICES ASSUME Inv, Knowing, [Next]_vars PROVE ReplacedInRace
  OBVIOUS
<1>1. CASE db' = db
  BY <1>1 DEF ReplacedInRace
<1>2. ASSUME NEW w \in Writers, WritePostgres(w) PROVE ReplacedInRace
  <2>1. call[w] # NoCall /\ call[w].at = "write"
    BY <1>2 DEF WritePostgres, NoCall
  <2>2. PICK key \in Keys : call[w].key = key
    BY <2>1, CallFacts DEF Inv
  <2>3. db'[key] = NewRow(w) /\ \A k \in Keys \ {key} : db'[k] = db[k]
    BY <1>2, <2>2 DEF WritePostgres, Inv, TypeOK
  <2>4. Races(NewRow(w), db[key])
    BY <2>1, <2>2, NewRowRaces
  <2> QED BY <2>3, <2>4 DEF ReplacedInRace, Races
<1>3. CASE \E p \in Procs : CommitAll(p)
  BY <1>3, CommitRaces
<1>4. \/ db' = db \/ (\E w \in Writers : WritePostgres(w)) \/ (\E p \in Procs : CommitAll(p))
  <2>1. \A w \in Writers : Begin(w) \/ Acquire(w) \/ Look(w) \/ LookAgain(w) \/ WriteSqlite(w)
                            \/ Locked(w) => db' = db
    BY DEF Begin, Acquire, Look, LookAgain, WriteSqlite, Locked
  <2>2. \A w \in Writers : Commit(w) => CommitAll(ProcOf[w])
    BY DEF Commit
  <2>3. \A w \in Writers : Cancelled(w) => db' = db \/ CommitAll(ProcOf[w])
    BY DEF Cancelled
  <2>4. \A p \in Procs : Open(p) \/ StartStream(p) \/ EndStream(p) \/ Close(p) \/ Die(p) => db' = db
    BY DEF Open, StartStream, EndStream, Close, Die, Gone
  <2>5. \A w \in Writers : ProcOf[w] \in Procs
    BY ProcessAssumption
  <2>6. CASE UNCHANGED vars
    BY <2>6 DEF vars
  <2> QED BY <2>1, <2>2, <2>3, <2>4, <2>5, <2>6 DEF Next, Step
<1> QED BY <1>1, <1>2, <1>3, <1>4

\* A stored success gives way to an idempotent save only when somebody wrote the
\* cell in the middle of that save, for any number of processes and coroutines,
\* on either database (sqlite_store.py:172-202, postgres_store.py:179-217).
THEOREM RacesInvariant == Spec => OnlyRacesReplaceSuccess
<1>1. Inv /\ Knowing /\ [Next]_vars =>
        [\A k \in Keys :
            LET old == db[k]
                new == db'[k]
            IN  Keeps(old) /\ new # old /\ new.tagged => new.known # old.stamp]_vars
  BY StepRaces DEF ReplacedInRace
<1> QED BY InitInv, InvStep, InitAsks, AsksStep, InitKnowing, KnowingStep, <1>1, PTL DEF Spec, OnlyRacesReplaceSuccess
=============================================================================
