--------------------------- MODULE SharedClients ---------------------------
(* The clients of the observability platforms and the adapters that share     *)
(* them: a dataset adapter, a trace store and the enrichers of a run that are *)
(* configured for one target of one vendor get one client from a registry     *)
(* with reference counts.  A client of Phoenix or Arize holds, in its turn, a *)
(* reference to an OTel client of a second registry, which is where the trace *)
(* store of these vendors pushes its spans.  Vendor "otel" is any platform    *)
(* that takes spans and answers for a trace: a trace store on the same OTel   *)
(* clients, and enrichers with an HTTP client each.  One process executes one *)
(* run after another.                                                         *)
EXTENDS Naturals, FiniteSets, Sequences

CONSTANTS
    Runs,       \* how many runs the process executes
    E,          \* how many variants, each one cell of the only case
    Vendors,    \* the vendors a process may be configured for
    Attempts,   \* max_attempts of an enricher of "otel"
    Rows,       \* the fields that the platform may return for the case
    ClientFaults    \* which failures may happen

ASSUME RunsAssumption == Runs \in Nat \ {0}
ASSUME EAssumption == E \in Nat \ {0}
ASSUME VendorsAssumption ==
    Vendors \subseteq {"phoenix", "arize", "langfuse", "braintrust", "helicone", "otel"}
ASSUME AttemptsAssumption == Attempts \in Nat \ {0}
ASSUME ClientFaultsAssumption == ClientFaults \subseteq {"search", "build", "open"}

Variants == 1..E

\* Those who hold a reference: the adapters of each run.
dataset == 0
store == E + 1
Roles == {dataset, store} \cup Variants
Borrowers == (1..Runs) \X Roles

\* A bound on the clients that a registry creates: at most two in each run.
Clients == 1..(2 * Runs)
None == 0

VARIABLES
    vendor,     \* the vendor that all the adapters are configured for
    keyed,      \* an api_key (of Arize: or a space_id) is configured
    remote,     \* which of dataset and store, and which variants' enrichers, are the vendor's
    row,        \* the fields of the case on the platform
    run,        \* the run that the process is at
    phase,      \* how far it is
    nth,        \* the next enricher to build, or to exit
    holds,      \* the client each adapter acquired and did not release
    registry,   \* the registry of the vendor's clients: one entry, as there is one target
    otel,       \* the registry of the OTel clients
    nested,     \* the OTel client inside a client
    closed,     \* the clients whose HTTP client is closed
    down,       \* the clients and OTel clients that were shut down
    queue,      \* what a client or an OTel client has still to send
    arrived,    \* what the platform received
    saved,      \* the traces given to the trace store
    cell,       \* where each cell of the run is
    there,      \* the cells whose trace the platform has ingested
    overdue,    \* the cells whose wait for ingestion is over
    tries,      \* how often an enricher of "otel" asked for the trace of a cell
    fate        \* what became of the enrichment of a cell

config == <<vendor, keyed, remote, row>>
place == <<run, phase, nth>>
clients == <<holds, registry, otel, nested, closed, down>>
pipes == <<queue, arrived>>
cells == <<cell, there, overdue, tries, fate, saved>>
clientVars == <<config, place, clients, pipes, cells>>

Nests == vendor \in {"phoenix", "arize"}
StoreOnOtel == Nests \/ vendor = "otel"
Pipes == {"client", "otel"} \X Clients
Entry == [client : Clients \cup {None}, refs : Nat, made : Nat]

Phases == {"plan", "load", "build", "enter", "cells", "exit", "exitStore", "over"}

ClientsTypeOK ==
    /\ vendor \in Vendors /\ keyed \in BOOLEAN /\ remote \subseteq Roles /\ row \in Rows \cup {{}}
    /\ run \in 1..Runs /\ phase \in Phases /\ nth \in 0..(E + 1)
    /\ holds \in [Borrowers -> Clients \cup {None}]
    /\ registry \in Entry /\ otel \in Entry
    /\ nested \in [Clients -> Clients \cup {None}]
    /\ closed \subseteq Clients /\ down \subseteq Pipes
    /\ queue \in [Pipes -> SUBSET ((1..Runs) \X Variants)]
    /\ arrived \subseteq (1..Runs) \X Variants /\ saved \subseteq (1..Runs) \X Variants
    /\ cell \in [Variants -> {"ready", "asked", "asleep", "enriched", "saved"}]
    /\ there \subseteq Variants /\ overdue \subseteq Variants
    /\ tries \in [Variants -> 0..Attempts]
    /\ fate \in [Variants -> {"none", "merged", "missed", "noTraceId", "dead"}]

NoEntry == [client |-> None, refs |-> 0, made |-> 0]

\* Helicone has a dataset adapter and nothing else, "otel" has none; a key makes a
\* difference to the clients that nest another.
ClientsInit ==
    /\ vendor \in Vendors
    /\ row \in IF vendor = "otel" THEN {{}} ELSE Rows
    /\ keyed \in IF Nests THEN BOOLEAN ELSE {TRUE}
    /\ remote \in CASE vendor = "helicone" -> {{dataset}}
                   [] vendor = "otel" -> SUBSET (Roles \ {dataset})
                   [] OTHER -> SUBSET Roles
    /\ run = 1 /\ phase = "plan" /\ nth = 1
    /\ holds = [a \in Borrowers |-> None]
    /\ registry = NoEntry /\ otel = NoEntry
    /\ nested = [c \in Clients |-> None]
    /\ closed = {} /\ down = {}
    /\ queue = [p \in Pipes |-> {}] /\ arrived = {} /\ saved = {}
    /\ cell = [v \in Variants |-> "ready"] /\ there = {} /\ overdue = {}
    /\ tries = [v \in Variants |-> 0] /\ fate = [v \in Variants |-> "none"]

-----------------------------------------------------------------------------
(* The registries                                                            *)

\* get_or_create: the entry, or a new client in a new entry, and one reference.
Bumped(reg) ==
    IF reg.client = None
    THEN [client |-> reg.made + 1, refs |-> 1, made |-> reg.made + 1]
    ELSE [reg EXCEPT !.refs = @ + 1]

DroppedAtTwo(reg, c) ==
    IF reg.client # c THEN reg
    ELSE IF reg.refs <= 2 THEN [reg EXCEPT !.client = None, !.refs = 0]
    ELSE [reg EXCEPT !.refs = @ - 1]

\* release: the last reference takes the entry with it; a client that is not the
\* one of the entry is ignored.
Dropped(reg, c) ==
    IF reg.client # c THEN reg
    ELSE IF reg.refs <= 1 THEN [reg EXCEPT !.client = None, !.refs = 0]
    ELSE [reg EXCEPT !.refs = @ - 1]

GoesDown(reg, c) == reg.client = c /\ Dropped(reg, c).client # c

\* Everything that a pipe still holds is sent.
Sent(p) ==
    /\ arrived' = arrived \cup queue[p]
    /\ queue' = [queue EXCEPT ![p] = {}]

OtelShutdownUnflushed(o) == queue' = [queue EXCEPT ![<<"otel", o>>] = {}] /\ UNCHANGED arrived

\* OtelClient.shutdown: the provider flushes its spans.
OtelShutdown(o) == Sent(<<"otel", o>>)

AcquireOtel(a) ==
    /\ otel' = Bumped(otel)
    /\ holds' = [holds EXCEPT ![a] = otel'.client]
    /\ UNCHANGED <<registry, nested, closed, down>>

\* What a release of o does, the downs being those of its caller.
ReleaseOtel(o, downs) ==
    /\ otel' = Dropped(otel, o)
    /\ IF GoesDown(otel, o)
       THEN OtelShutdown(o) /\ down' = downs \cup {<<"otel", o>>}
       ELSE down' = downs /\ UNCHANGED pipes

\* A client that is created takes a reference of the OTel registry.
AcquireNesting(a) ==
    /\ registry' = Bumped(registry)
    /\ holds' = [holds EXCEPT ![a] = registry'.client]
    /\ IF registry.client = None
       THEN otel' = Bumped(otel) /\ nested' = [nested EXCEPT ![registry'.client] = otel'.client]
       ELSE UNCHANGED <<otel, nested>>
    /\ UNCHANGED <<closed, down>>

AcquirePlain(a) ==
    /\ registry' = Bumped(registry)
    /\ holds' = [holds EXCEPT ![a] = registry'.client]
    /\ UNCHANGED <<otel, nested, closed, down>>

\* shutdown of a Phoenix or Arize client releases the OTel client.
ReleaseNesting(a, found) ==
    /\ holds' = [holds EXCEPT ![a] = None]
    /\ UNCHANGED nested
    /\ IF found THEN registry' = Dropped(registry, holds[a]) ELSE UNCHANGED registry
    /\ IF found /\ GoesDown(registry, holds[a])
       THEN ReleaseOtel(nested[holds[a]], down \cup {<<"client", holds[a]>>})
       ELSE UNCHANGED <<otel, down, pipes>>

\* Neither the shim of a vendor's SDK nor the Helicone client has anything to
\* shut down.
ReleasePlain(a) ==
    /\ holds' = [holds EXCEPT ![a] = None]
    /\ registry' = Dropped(registry, holds[a])
    /\ down' = IF GoesDown(registry, holds[a]) THEN down \cup {<<"client", holds[a]>>} ELSE down
    /\ UNCHANGED <<otel, nested>>

FindsNever == FALSE

\* release_phoenix_client looks the entry up under the headers of the client, to
\* which an api_key was added; the entry is under the headers of the caller.
PhoenixReleaseFinds == ~keyed

\* release_arize_client does the same with api_key and space_id.
ArizeReleaseFinds == ~keyed

AcquirePhoenix(a) == vendor = "phoenix" /\ AcquireNesting(a)
AcquireArize(a) == vendor = "arize" /\ AcquireNesting(a)
AcquireLangfuse(a) == vendor = "langfuse" /\ AcquirePlain(a)
AcquireBraintrust(a) == vendor = "braintrust" /\ AcquirePlain(a)
AcquireHelicone(a) == vendor = "helicone" /\ AcquirePlain(a)
AcquireNothing == vendor = "otel" /\ UNCHANGED clients

Acquire(a) ==
    \/ AcquirePhoenix(a) \/ AcquireArize(a)
    \/ AcquireLangfuse(a) \/ AcquireBraintrust(a) \/ AcquireHelicone(a)
    \/ AcquireNothing

ReleasePhoenix(a) == vendor = "phoenix" /\ ReleaseNesting(a, PhoenixReleaseFinds)
ReleaseArize(a) == vendor = "arize" /\ ReleaseNesting(a, ArizeReleaseFinds)
ReleaseLangfuse(a) == vendor = "langfuse" /\ ReleasePlain(a)
ReleaseBraintrust(a) == vendor = "braintrust" /\ ReleasePlain(a)
ReleaseHelicone(a) == vendor = "helicone" /\ ReleasePlain(a)

-----------------------------------------------------------------------------
(* The dataset adapter: a case from what the platform has                    *)

\* The first of the fields, in the order the adapter asks for them.
FirstOf(fields) ==
    IF \E i \in DOMAIN fields : fields[i] \in row
    THEN fields[CHOOSE i \in DOMAIN fields :
                   fields[i] \in row /\ \A j \in 1..(i - 1) : fields[j] \notin row]
    ELSE "nothing"

PhoenixCaseId == FirstOf(<<"id", "trace_id", "span_id", "name">>)
ArizeCaseId == FirstOf(<<"id", "trace_id", "span_id", "name">>)
LangfuseCaseId == FirstOf(<<"id", "trace_id", "name">>)
BraintrustCaseId == FirstOf(<<"id", "span_id", "trace_id", "name">>)
HeliconeCaseId == FirstOf(<<"request_id", "id", "helicone_id">>)

CaseId ==
    CASE vendor = "phoenix" -> PhoenixCaseId
      [] vendor = "arize" -> ArizeCaseId
      [] vendor = "langfuse" -> LangfuseCaseId
      [] vendor = "braintrust" -> BraintrustCaseId
      [] vendor = "helicone" -> HeliconeCaseId

\* extra.trace_id of the trace embedded in a case, by which an enricher finds it
\* again: two fields of the row, whichever the case id came from.
PhoenixTraceId == FirstOf(<<"id", "trace_id">>)
ArizeTraceId == FirstOf(<<"id", "trace_id">>)
LangfuseTraceId == FirstOf(<<"id", "trace_id">>)
BraintrustTraceId == FirstOf(<<"id", "trace_id">>)
HeliconeTraceId == HeliconeCaseId

TraceId ==
    CASE vendor = "phoenix" -> PhoenixTraceId
      [] vendor = "arize" -> ArizeTraceId
      [] vendor = "langfuse" -> LangfuseTraceId
      [] vendor = "braintrust" -> BraintrustTraceId
      [] vendor = "helicone" -> HeliconeTraceId

Dataset == <<run, dataset>>

\* Without a remote dataset the case is in a file.
BuildDataset ==
    /\ phase = "plan"
    /\ IF dataset \in remote
       THEN Acquire(Dataset) /\ phase' = "load"
       ELSE phase' = "build" /\ UNCHANGED clients
    /\ UNCHANGED <<config, run, nth, pipes, cells>>

\* An SDK talks to its platform by itself; an HTTP client must be open.
Usable(c) == <<"client", c>> \notin down /\ c \notin closed
IsUp(c) == <<"client", c>> \notin down

SearchPhoenix(c) == vendor = "phoenix" /\ Usable(c)
SearchArize(c) == vendor = "arize" /\ Usable(c)
SearchHelicone(c) == vendor = "helicone" /\ Usable(c)
SearchLangfuse(c) == vendor = "langfuse" /\ IsUp(c)
SearchBraintrust(c) == vendor = "braintrust" /\ IsUp(c)

Searches(c) ==
    \/ SearchPhoenix(c) \/ SearchArize(c) \/ SearchHelicone(c)
    \/ SearchLangfuse(c) \/ SearchBraintrust(c)

\* Every exception of a search is an AdapterError, and so is a row without an id:
\* the run is not planned.
LoadCases ==
    /\ phase = "load"
    /\ \/ Searches(holds[Dataset]) /\ CaseId # "nothing" /\ phase' = "build"
       \/ /\ ~Usable(holds[Dataset]) \/ CaseId = "nothing" \/ "search" \in ClientFaults
          /\ phase' = "over"
    /\ UNCHANGED <<config, run, nth, clients, pipes, cells>>

\* __del__ of a dataset adapter, some time after nobody refers to it.
CollectDataset(r) ==
    /\ holds[<<r, dataset>>] # None
    /\ r < run \/ phase \notin {"plan", "load", "build"}
    /\ \/ ReleasePhoenix(<<r, dataset>>) /\ UNCHANGED closed
       \/ ReleaseArize(<<r, dataset>>) /\ UNCHANGED closed
       \/ ReleaseLangfuse(<<r, dataset>>) /\ UNCHANGED <<closed, pipes>>
       \/ ReleaseBraintrust(<<r, dataset>>) /\ UNCHANGED <<closed, pipes>>
       \/ ReleaseHelicone(<<r, dataset>>) /\ UNCHANGED <<closed, pipes>>
    /\ UNCHANGED <<config, place, cells>>

-----------------------------------------------------------------------------
(* The rest of the plan, and the opening of the run                          *)

Store == <<run, store>>

\* An enricher takes its reference when it is built.
BuildEnricher(v) ==
    /\ phase = "build" /\ nth = v
    /\ nth' = v + 1
    /\ IF v \in remote THEN Acquire(<<run, v>>) ELSE UNCHANGED clients
    /\ UNCHANGED <<config, run, phase, pipes, cells>>

\* So does a trace store on an SDK; one on OTel only when it is entered.
BuildStore ==
    /\ phase = "build" /\ nth = E + 1
    /\ phase' = "enter"
    /\ IF store \in remote /\ ~StoreOnOtel THEN Acquire(Store) ELSE UNCHANGED clients
    /\ UNCHANGED <<config, run, nth, pipes, cells>>

\* Another part of the plan is refused, before or after the stores are built (the
\* workspace, an evaluator, the baseline, the prices): nothing that was built is
\* exited, and a trace store on an SDK keeps its reference as the enrichers do.
Planned == phase = "enter" /\ StoreOnOtel /\ holds[Store] # None

BuildFails ==
    /\ "build" \in ClientFaults
    /\ phase \in {"build", "enter"} /\ ~Planned
    /\ phase' = "over"
    /\ UNCHANGED <<config, run, nth, clients, pipes, cells>>

EnterOtelStore ==
    /\ phase = "enter" /\ store \in remote /\ StoreOnOtel /\ holds[Store] = None
    /\ AcquireOtel(Store)
    /\ UNCHANGED <<config, place, pipes, cells>>

StoreEntered == store \in remote => holds[Store] # None

Opened ==
    /\ phase = "enter" /\ StoreEntered
    /\ phase' = "cells"
    /\ UNCHANGED <<config, run, nth, clients, pipes, cells>>

\* A system adapter does not start: the stack holds the trace store by then,
\* and not yet the enrichers.
OpenFails ==
    /\ "open" \in ClientFaults
    /\ phase = "enter" /\ StoreEntered
    /\ phase' = "exitStore"
    /\ UNCHANGED <<config, run, nth, clients, pipes, cells>>

-----------------------------------------------------------------------------
(* The cells: enrich, then save                                              *)

Step(v, from, to) == cell[v] = from /\ cell' = [cell EXCEPT ![v] = to]

EndsAs(v, as) == cell' = [cell EXCEPT ![v] = "enriched"] /\ fate' = [fate EXCEPT ![v] = as]

\* A trace of a remote case names the upstream trace or does not; for a case of
\* a file the system under test names it.
HasTraceId == dataset \in remote => TraceId # "nothing"

Enrich(v) ==
    /\ phase = "cells" /\ cell[v] = "ready"
    /\ IF v \notin remote THEN EndsAs(v, "none")
       ELSE IF HasTraceId THEN Step(v, "ready", "asked") /\ UNCHANGED fate
       ELSE EndsAs(v, "noTraceId")
    /\ UNCHANGED <<config, place, clients, pipes, there, overdue, tries, saved>>

Found(v) == cell[v] = "asked" /\ v \in there /\ EndsAs(v, "merged")

MissedNoClock(v) == Step(v, "asked", "asleep") /\ UNCHANGED fate

\* A miss is a 404, a server error or no connection: the clock decides whether
\* there is another attempt.
Missed(v) ==
    /\ cell[v] = "asked"
    /\ IF v \in overdue THEN EndsAs(v, "missed")
       ELSE Step(v, "asked", "asleep") /\ UNCHANGED fate

\* Only an httpx.HTTPError is a miss: a closed client raises a RuntimeError.
PollHttp(v) ==
    IF Usable(holds[<<run, v>>]) THEN Found(v) \/ Missed(v)
    ELSE cell[v] = "asked" /\ EndsAs(v, "dead")

\* The shim of the SDK turns every exception into a miss.
PollSdk(v) ==
    IF IsUp(holds[<<run, v>>]) THEN Found(v) \/ Missed(v)
    ELSE cell[v] = "asked" /\ EndsAs(v, "dead")

FetchPhoenix(v) == vendor = "phoenix" /\ PollHttp(v)
FetchArize(v) == vendor = "arize" /\ PollHttp(v)
FetchLangfuse(v) == vendor = "langfuse" /\ PollSdk(v)
FetchBraintrust(v) == vendor = "braintrust" /\ PollSdk(v)

FetchFromPlatform(v) ==
    (FetchPhoenix(v) \/ FetchArize(v) \/ FetchLangfuse(v) \/ FetchBraintrust(v))
        /\ UNCHANGED tries

\* It counts its attempts; an answer that is no JSON ends them.
FetchOtel(v) ==
    /\ vendor = "otel" /\ cell[v] = "asked"
    /\ tries' = [tries EXCEPT ![v] = @ + 1]
    /\ \/ Found(v)
       \/ v \in there /\ EndsAs(v, "missed")
       \/ tries'[v] < Attempts /\ Step(v, "asked", "asleep") /\ UNCHANGED fate
       \/ tries'[v] = Attempts /\ EndsAs(v, "missed")

Fetch(v) ==
    /\ FetchFromPlatform(v) \/ FetchOtel(v)
    /\ UNCHANGED <<config, place, clients, pipes, there, overdue, saved>>

Wake(v) ==
    /\ Step(v, "asleep", "asked")
    /\ UNCHANGED <<config, place, clients, pipes, there, overdue, tries, fate, saved>>

Queued(p, v) == queue' = [queue EXCEPT ![p] = @ \cup {<<run, v>>}]

\* A span of the OTel client that the store holds.
TracerIsUp(o) == <<"otel", o>> \notin down
SaveSpans(v) == StoreOnOtel /\ TracerIsUp(holds[Store]) /\ Queued(<<"otel", holds[Store]>>, v)

\* A payload handed to the SDK, which sends it when it likes.
PushLangfuse(v) ==
    vendor = "langfuse" /\ IsUp(holds[Store]) /\ Queued(<<"client", holds[Store]>>, v)
PushBraintrust(v) ==
    vendor = "braintrust" /\ IsUp(holds[Store]) /\ Queued(<<"client", holds[Store]>>, v)

\* Whatever became of the enrichment, the trace is saved.
SaveTrace(v) ==
    /\ Step(v, "enriched", "saved")
    /\ IF store \in remote
       THEN /\ saved' = saved \cup {<<run, v>>}
            /\ SaveSpans(v) \/ PushLangfuse(v) \/ PushBraintrust(v)
       ELSE UNCHANGED <<saved, queue>>
    /\ UNCHANGED <<config, place, clients, arrived, there, overdue, tries, fate>>

CellsDone ==
    /\ phase = "cells" /\ \A v \in Variants : cell[v] = "saved"
    /\ phase' = "exit" /\ nth' = E
    /\ UNCHANGED <<config, run, clients, pipes, cells>>

-----------------------------------------------------------------------------
(* The exit stack of the run, and the next run                               *)

\* An enricher of Phoenix or Arize closes the HTTP client, shared or not, before
\* it releases the client.
CloseHttp(c) == closed' = closed \cup {c}

ExitPhoenixEnricher(a) == CloseHttp(holds[a]) /\ ReleasePhoenix(a)
ExitArizeEnricher(a) == CloseHttp(holds[a]) /\ ReleaseArize(a)
ExitLangfuseEnricher(a) == ReleaseLangfuse(a) /\ UNCHANGED <<closed, pipes>>
ExitBraintrustEnricher(a) == ReleaseBraintrust(a) /\ UNCHANGED <<closed, pipes>>

\* It closes a client of its own.
ExitOtelEnricher == vendor = "otel" /\ UNCHANGED <<clients, pipes>>

ExitOfVendor(a) ==
    \/ ExitPhoenixEnricher(a) \/ ExitArizeEnricher(a)
    \/ ExitLangfuseEnricher(a) \/ ExitBraintrustEnricher(a) \/ ExitOtelEnricher

ExitEnricher(v) ==
    /\ phase = "exit" /\ nth = v
    /\ IF v = 1 THEN phase' = "exitStore" /\ UNCHANGED nth
       ELSE nth' = v - 1 /\ UNCHANGED phase
    /\ IF v \in remote THEN ExitOfVendor(<<run, v>>)
       ELSE UNCHANGED <<clients, pipes>>
    /\ UNCHANGED <<config, run, cells>>

ExitOtelStore ==
    /\ StoreOnOtel
    /\ ReleaseOtel(holds[Store], down)
    /\ holds' = [holds EXCEPT ![Store] = None]
    /\ UNCHANGED <<registry, nested, closed>>

\* flush, then release.
ExitLangfuseStore ==
    Sent(<<"client", holds[Store]>>) /\ ReleaseLangfuse(Store) /\ UNCHANGED closed
ExitBraintrustStore ==
    Sent(<<"client", holds[Store]>>) /\ ReleaseBraintrust(Store) /\ UNCHANGED closed

ExitStore ==
    /\ phase = "exitStore" /\ phase' = "over"
    /\ IF store \in remote THEN ExitOtelStore \/ ExitLangfuseStore \/ ExitBraintrustStore
       ELSE UNCHANGED <<clients, pipes>>
    /\ UNCHANGED <<config, run, nth, cells>>

NextRun ==
    /\ phase = "over" /\ run < Runs
    /\ run' = run + 1 /\ phase' = "plan" /\ nth' = 1
    /\ cell' = [v \in Variants |-> "ready"] /\ fate' = [v \in Variants |-> "none"]
    /\ there' = {} /\ overdue' = {} /\ tries' = [v \in Variants |-> 0]
    /\ UNCHANGED <<config, clients, pipes, saved>>

-----------------------------------------------------------------------------
(* The platform                                                              *)

Ingest(v) ==
    /\ phase = "cells" /\ v \in remote /\ v \notin there
    /\ there' = there \cup {v}
    /\ UNCHANGED <<config, place, clients, pipes, cell, overdue, tries, fate, saved>>

WaitIsOver(v) ==
    /\ cell[v] \in {"asked", "asleep"} /\ v \notin overdue /\ vendor # "otel"
    /\ overdue' = overdue \cup {v}
    /\ UNCHANGED <<config, place, clients, pipes, cell, there, tries, fate, saved>>

\* The span processor, or the SDK, sends what it has in the background.
SendInBackground(p) ==
    /\ queue[p] # {} /\ p \notin down
    /\ Sent(p)
    /\ UNCHANGED <<config, place, clients, cells>>

Plan ==
    \/ BuildDataset \/ LoadCases \/ BuildStore \/ BuildFails
    \/ \E v \in Variants : BuildEnricher(v)
Open == EnterOtelStore \/ Opened \/ OpenFails
Cell(v) == Enrich(v) \/ Fetch(v) \/ Wake(v) \/ SaveTrace(v)
ExitRun == CellsDone \/ ExitStore \/ NextRun \/ \E v \in Variants : ExitEnricher(v)
Platform(v) == Ingest(v) \/ WaitIsOver(v)

AllOver == phase = "over" /\ run = Runs
ClientsTerminated ==
    /\ AllOver /\ \A r \in 1..Runs : holds[<<r, dataset>>] = None
    /\ UNCHANGED clientVars

ClientsNext ==
    \/ Plan \/ Open \/ ExitRun
    \/ \E v \in Variants : Cell(v) \/ Platform(v)
    \/ \E r \in 1..Runs : CollectDataset(r)
    \/ \E p \in Pipes : SendInBackground(p)
    \/ ClientsTerminated

\* The event loop goes on and the clock reaches the end of a wait.  Nothing is
\* ever ingested, and nothing sent before it is flushed, for certain.
ClientsFairness ==
    /\ WF_clientVars(Plan) /\ WF_clientVars(Open) /\ WF_clientVars(ExitRun)
    /\ \A v \in Variants : WF_clientVars(Cell(v)) /\ WF_clientVars(WaitIsOver(v))

ClientsSpec == ClientsInit /\ [][ClientsNext]_clientVars /\ ClientsFairness

-----------------------------------------------------------------------------
(* Properties                                                                *)

\* The vendors and configurations whose release finds what was acquired.
Releases == ~(Nests /\ keyed)

Holders == {a \in Borrowers : holds[a] # None /\ ~(StoreOnOtel /\ a[2] = store)}
OtelHolders == {a \in Borrowers : holds[a] # None /\ StoreOnOtel /\ a[2] = store}

\* Nobody's client is shut down by the release of somebody else: who holds a
\* client holds the one of the registry, and it is up, with its OTel client
\* (otel.py:228-246, phoenix.py:303-317).
HoldersAreServed ==
    /\ \A a \in Holders :
          /\ holds[a] = registry.client /\ <<"client", holds[a]>> \notin down
          /\ Nests => nested[holds[a]] = otel.client
    /\ \A a \in OtelHolders : holds[a] = otel.client
    /\ <<"otel", otel.client>> \notin down

\* The counts are those of the holders: a run that failed while it was planned or
\* opened keeps the references of the enrichers, and of the trace store, that it
\* never exited, and a release that does not find its entry keeps one more.
CountsHolders ==
    /\ registry.refs >= Cardinality(Holders)
    /\ Releases => registry.refs = Cardinality(Holders)
    /\ otel.refs = Cardinality(OtelHolders) + IF Nests /\ registry.client # None THEN 1 ELSE 0

\* Both together: what the registries promise to whoever acquired from them.
RegistryServesHolders == HoldersAreServed /\ CountsHolders

\* The HTTP client that an enricher closes on its way out is nobody else's, as
\* long as releases find their entry: no enrichment dies of it, in this run or
\* the next, unless an earlier run still holds a reference: it was cut short, or
\* its dataset adapter is not collected yet (phoenix_enricher.py:83-85).
NoEnrichmentDies ==
    (\E v \in Variants : fate[v] = "dead") =>
        ~Releases \/ \E a \in Borrowers : a[1] < run /\ holds[a] # None

\* When the last reference is gone every trace that was saved has arrived.
SpansArrive ==
    AllOver /\ Releases /\ (\A a \in Borrowers : holds[a] = None) => saved \subseteq arrived

\* Every run comes to its end, however slow the platform ingests.
RunsEnd == <>AllOver
=============================================================================
