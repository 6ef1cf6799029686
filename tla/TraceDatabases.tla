--------------------------- MODULE TraceDatabases ---------------------------
(***************************************************************************)
(* One run in a database: adapters/trace/sqlite_store.py and               *)
(* adapters/trace/postgres_store.py.  Several processes have the store     *)
(* open (the run, a retry or worker on the same host, a reader), several   *)
(* coroutines of a process call it at once, and a call is overtaken or     *)
(* cancelled at each of its awaits.                                        *)
(*                                                                         *)
(* SqliteStore has one connection for all coroutines of a process: a save  *)
(* is a statement and then a commit, the statement opens a transaction     *)
(* that is everybody's, and whoever commits commits all of it.             *)
(* PostgresStore takes a connection of a pool for each call, and each of   *)
(* its statements commits by itself.                                       *)
(***************************************************************************)
EXTENDS Integers, FiniteSets

CONSTANTS
    Cells,      \* the (case, variant) pairs of the run
    Procs,      \* processes that open the store
    Writers,    \* coroutines that call save_*
    ProcOf,     \* the process of each of them
    Ops,        \* the operations they call in this instance
    PoolSize,   \* postgres: pool_size
    MaxCalls,   \* bound: calls of save_* in all
    MaxOpens    \* bound: times a store is opened

ASSUME ProcessAssumption == ProcOf \in [Writers -> Procs]
ASSUME BoundAssumption == PoolSize \in Nat \ {0} /\ MaxCalls \in Nat /\ MaxOpens \in Nat

TraceOps == {"save_trace", "save_trace_idempotent"}
AllOps == TraceOps \cup {"save_evaluation", "save_artifact", "save_summary"}
ASSUME OpsAssumption == Ops \subseteq AllOps

Backends == {"sqlite", "postgres"}
Endings == {"ok", "error"}

\* Primary keys: a row per cell in each of three tables, and one summary of the run.
TableOf(op) ==
    CASE op \in TraceOps -> "traces"
      [] op = "save_evaluation" -> "results"
      [] op = "save_artifact" -> "artifacts"
KeyOf(op, c) == IF op = "save_summary" THEN <<"summary">> ELSE <<TableOf(op), c>>
Keys == {KeyOf(op, c) : op \in Ops, c \in Cells}

VARIABLES
    backend,  \* the store of this run
    db,       \* the committed rows
    pending,  \* sqlite: the rows of each process's open transaction
    opened,   \* processes whose store is open
    reading,  \* processes with an open cursor: a stream, or a SELECT cut short
    call,     \* the call that each coroutine is in
    clock,    \* statements that have written, for the history below
    begun,    \* calls begun
    opens,    \* times a store was opened
    acked     \* history: the latest answered write of each key

bounds == <<begun, opens>>
vars == <<backend, db, pending, opened, reading, call, clock, begun, opens, acked>>

\* A row: when it was written, error_type, whether cell_id is set, and the
\* success that was there from before its call until it was written (history).
NoRow == [stamp |-> 0, ending |-> "ok", tagged |-> FALSE, known |-> 0]
Rows == [stamp : Nat, ending : Endings, tagged : BOOLEAN, known : Nat]
NoRows == [k \in Keys |-> NoRow]

NoCall == [at |-> "idle"]
Places == {"acquire", "look", "lookAgain", "write", "commit"}
Calls == [at : Places, op : AllOps, key : Keys, ending : Endings, known : Nat, stamp : Nat]

Init ==
    /\ backend \in Backends
    /\ db = NoRows /\ pending = [p \in Procs |-> NoRows]
    /\ opened = {} /\ reading = {}
    /\ call = [w \in Writers |-> NoCall]
    /\ clock = 0 /\ begun = 0 /\ opens = 0
    /\ acked = [k \in Keys |-> 0]

-----------------------------------------------------------------------------
(* What a connection sees, and what keeps it waiting.                       *)

\* The connection of a process reads its own transaction over the database.
View(p, k) == IF pending[p][k] # NoRow THEN pending[p][k] ELSE db[k]

\* A success that save_trace_idempotent must keep.
Keeps(row) == row.tagged /\ row.ending = "ok"

\* sqlite: one transaction may write at a time; another process waits for it,
\* five seconds at most.
WriteLocked(p) == \E q \in Procs \ {p} : pending[q] # NoRows

\* sqlite, without WAL: no commit while another process has a cursor open.
CommitLocked(p) == \E q \in reading : q # p

\* Mutant: the connection waits for the lock without a limit.
GivesUpNever == FALSE
GivesUp == backend = "sqlite"

\* postgres: connections of the pool that calls and cursors hold.
Lent(p) ==
    Cardinality({w \in Writers : ProcOf[w] = p /\ call[w].at \notin {"idle", "acquire"}})
    + IF p \in reading THEN 1 ELSE 0
HasConnection(p) == backend = "postgres" => Lent(p) < PoolSize

-----------------------------------------------------------------------------
(* A call of save_*, from one await to the next.                            *)

Finish(w) == call' = [call EXCEPT ![w] = NoCall]
Goto(w, place) == call' = [call EXCEPT ![w].at = place]

FirstOf(op) == IF op = "save_trace_idempotent" THEN "look" ELSE "write"

\* A call on a store that is not open raises at once, and so does nothing.
Begin(w) ==
    LET p == ProcOf[w] IN
    /\ call[w] = NoCall /\ p \in opened /\ begun < MaxCalls
    /\ begun' = begun + 1
    /\ \E op \in Ops, c \in Cells, e \in Endings :
          /\ op \notin TraceOps => e = "ok"
          /\ LET before == View(p, KeyOf(op, c)) IN
             call' = [call EXCEPT ![w] =
                 [at |-> IF backend = "postgres" THEN "acquire" ELSE FirstOf(op),
                  op |-> op, key |-> KeyOf(op, c), ending |-> e,
                  known |-> IF Keeps(before) THEN before.stamp ELSE 0, stamp |-> 0]]
    /\ UNCHANGED <<backend, db, pending, opened, reading, clock, opens, acked>>

\* pool.acquire()
Acquire(w) ==
    /\ call[w].at = "acquire" /\ HasConnection(ProcOf[w])
    /\ Goto(w, FirstOf(call[w].op))
    /\ UNCHANGED <<backend, db, pending, opened, reading, clock, bounds, acked>>

\* Mutant: NULL in error_type is taken for "no row", as fetchval returns it for both.
SkipsNever(row) == FALSE

\* A successful record of the cell is there: the call is a no-op.
Skips(row) == row.tagged /\ row.ending = "ok"

\* SELECT error_type WHERE cell_id = ?.  fetchval of postgres answers None for
\* a success and for no row, so it asks again whether there is one.
Look(w) ==
    LET row == View(ProcOf[w], call[w].key) IN
    /\ call[w].at = "look"
    /\ IF backend = "postgres" /\ ~(row.tagged /\ row.ending = "error")
       THEN Goto(w, "lookAgain")
       ELSE IF Skips(row) THEN Finish(w) ELSE Goto(w, "write")
    /\ UNCHANGED <<backend, db, pending, opened, reading, clock, bounds, acked>>

\* Any row will do by now, also an error that another worker just stored.
LookAgain(w) ==
    LET row == db[call[w].key] IN
    /\ call[w].at = "lookAgain"
    /\ IF Skips([row EXCEPT !.ending = "ok"]) THEN Finish(w) ELSE Goto(w, "write")
    /\ UNCHANGED <<backend, db, pending, opened, reading, clock, bounds, acked>>

\* The row of INSERT OR REPLACE, or of the upsert; a plain save has no cell_id.
NewRow(w) ==
    [stamp |-> clock + 1, ending |-> call[w].ending,
     tagged |-> call[w].op = "save_trace_idempotent",
     known |-> IF call[w].op = "save_trace_idempotent" THEN call[w].known ELSE 0]

\* History: a write in the middle of somebody's call is a race with that call.
Overtaken(w) ==
    [v \in Writers |->
        IF call[v] # NoCall /\ call[v].key = call[w].key
        THEN [call[v] EXCEPT !.known = 0] ELSE call[v]]

\* The caller has its answer.
Answered(w, stamp) == acked' = [acked EXCEPT ![call[w].key] = IF @ < stamp THEN stamp ELSE @]

\* Mutant: save_trace_idempotent has no commit.
CommitsPlainSaves(w) == call[w].op # "save_trace_idempotent"

\* `await conn.commit()` follows every statement of SqliteStore.
Commits(w) == TRUE

WriteSqlite(w) ==
    LET p == ProcOf[w] IN
    /\ call[w].at = "write" /\ backend = "sqlite" /\ ~WriteLocked(p)
    /\ pending' = [pending EXCEPT ![p][call[w].key] = NewRow(w)]
    /\ clock' = clock + 1
    /\ IF Commits(w)
       THEN /\ call' = [Overtaken(w) EXCEPT ![w].at = "commit", ![w].stamp = clock + 1]
            /\ UNCHANGED acked
       ELSE /\ call' = [Overtaken(w) EXCEPT ![w] = NoCall]
            /\ Answered(w, clock + 1)
    /\ UNCHANGED <<backend, db, opened, reading, bounds>>

\* The commit is of the connection: all that its coroutines have written.
CommitAll(p) ==
    /\ ~CommitLocked(p)
    /\ db' = [k \in Keys |-> View(p, k)]
    /\ pending' = [pending EXCEPT ![p] = NoRows]

Commit(w) ==
    /\ call[w].at = "commit"
    /\ CommitAll(ProcOf[w])
    /\ Answered(w, call[w].stamp)
    /\ Finish(w)
    /\ UNCHANGED <<backend, opened, reading, clock, bounds>>

WritePostgres(w) ==
    /\ call[w].at = "write" /\ backend = "postgres"
    /\ db' = [db EXCEPT ![call[w].key] = NewRow(w)]
    /\ clock' = clock + 1
    /\ Answered(w, clock + 1)
    /\ call' = [Overtaken(w) EXCEPT ![w] = NoCall]
    /\ UNCHANGED <<backend, pending, opened, reading, bounds>>

\* "database is locked": the call raises.  What it wrote stays in the open
\* transaction, for the next commit of the connection.  A writer that is about to
\* commit keeps new readers out too, the SELECT of a look among them.
Locked(w) ==
    /\ GivesUp
    /\ \/ call[w].at \in {"look", "write"} /\ WriteLocked(ProcOf[w])
       \/ call[w].at = "commit" /\ CommitLocked(ProcOf[w])
    /\ Finish(w)
    /\ UNCHANGED <<backend, db, pending, opened, reading, clock, bounds, acked>>

\* CancelledError at any await: a cell is cancelled by the failure of another.
\* What the connection's thread has in hand is executed all the same: a commit, or
\* a SELECT whose cursor then stays open until it is collected.
Cancelled(w) ==
    /\ call[w] # NoCall
    /\ Finish(w)
    /\ \/ UNCHANGED <<db, pending, reading>>
       \/ call[w].at = "commit" /\ CommitAll(ProcOf[w]) /\ UNCHANGED reading
       \/ /\ call[w].at = "look" /\ backend = "sqlite"
          /\ reading' = reading \cup {ProcOf[w]} /\ UNCHANGED <<db, pending>>
    /\ UNCHANGED <<backend, opened, clock, bounds, acked>>

-----------------------------------------------------------------------------
(* A process.                                                               *)

\* connect or create_pool, and the schema, which a database that has it keeps.
Open(p) ==
    /\ p \notin opened /\ opens < MaxOpens
    /\ opened' = opened \cup {p} /\ opens' = opens + 1
    /\ UNCHANGED <<backend, db, pending, reading, call, clock, begun, acked>>

\* iter_traces or iter_results: the cursor stays open while its consumer works.
\* The pool serves those who wait for a connection in turn.
StartStream(p) ==
    /\ p \in opened \ reading /\ HasConnection(p)
    /\ \A w \in Writers : ProcOf[w] = p => call[w].at # "acquire"
    /\ reading' = reading \cup {p}
    /\ UNCHANGED <<backend, db, pending, opened, call, clock, bounds, acked>>

\* The consumer is done, or an abandoned cursor is collected.
EndStream(p) ==
    /\ p \in reading
    /\ reading' = reading \ {p}
    /\ UNCHANGED <<backend, db, pending, opened, call, clock, bounds, acked>>

Idle(p) == \A w \in Writers : ProcOf[w] = p => call[w] = NoCall

\* The connection is gone, by close() or with its process: a transaction that
\* nobody committed is rolled back.
Gone(p) ==
    /\ p \in opened
    /\ opened' = opened \ {p} /\ reading' = reading \ {p}
    /\ pending' = [pending EXCEPT ![p] = NoRows]
    /\ call' = [w \in Writers |-> IF ProcOf[w] = p THEN NoCall ELSE call[w]]
    /\ UNCHANGED <<backend, db, clock, bounds, acked>>

\* close() at the end of a run: the coroutines are done or were cancelled.
Close(p) == Idle(p) /\ p \notin reading /\ Gone(p)

Die(p) == ~(Idle(p) /\ p \notin reading) /\ Gone(p)

-----------------------------------------------------------------------------
Step(w) ==
    Acquire(w) \/ Look(w) \/ LookAgain(w) \/ WriteSqlite(w) \/ WritePostgres(w)
    \/ Commit(w) \/ Locked(w)

Next ==
    \/ \E w \in Writers : Begin(w) \/ Step(w) \/ Cancelled(w)
    \/ \E p \in Procs : Open(p) \/ StartStream(p) \/ EndStream(p) \/ Close(p) \/ Die(p)

\* The database answers, and a consumer finishes its stream; nobody has to open,
\* to call, to cancel or to close.
Fairness ==
    /\ \A w \in Writers : WF_vars(Step(w))
    /\ \A p \in Procs : WF_vars(EndStream(p))

Spec == Init /\ [][Next]_vars /\ Fairness

-----------------------------------------------------------------------------
(* Properties.                                                              *)

TypeOK ==
    /\ backend \in Backends
    /\ db \in [Keys -> Rows] /\ pending \in [Procs -> [Keys -> Rows]]
    /\ opened \subseteq Procs /\ reading \subseteq Procs
    /\ call \in [Writers -> Calls \cup {NoCall}]
    /\ clock \in Nat /\ begun \in Nat /\ opens \in Nat
    /\ acked \in [Keys -> Nat]

\* A save that has answered is stored: no crash, close, cancelled or failed
\* call of anybody afterwards takes the row away or puts an older one in its
\* place, although coroutines share a transaction they do not know of
\* (sqlite_store.py:152-263, postgres_store.py:155-287).
AnsweredIsDurable == \A k \in Keys : acked[k] <= db[k].stamp

\* save_trace_idempotent replaces a stored success only in a race, when somebody
\* else wrote the cell in the middle of the call.  A success that is there when a
\* call begins stays, whatever failed, crashed or was rolled back before and
\* since (sqlite_store.py:172-202, postgres_store.py:179-217).
OnlyRacesReplaceSuccess ==
    [][\A k \in Keys :
          LET old == db[k]
              new == db'[k]
          IN  Keeps(old) /\ new # old /\ new.tagged => new.known # old.stamp]_vars

\* Every call comes to its end: neither the transaction of another process,
\* even one that nobody is left to commit, nor an open cursor, nor a pool that
\* is used up keeps it for ever.
CallsEnd == \A w \in Writers : call[w] # NoCall ~> call[w] = NoCall
=============================================================================
