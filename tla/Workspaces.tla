----------------------------- MODULE Workspaces -----------------------------
(* The workspace of a cell, from prepare to cleanup, for the three adapters of *)
(* adapters/workspace: tempdir_snapshot, git and docker_volume.  What is on    *)
(* disk is a tree: a function from paths to what they hold, where a content    *)
(* names the cell whose system wrote it.  Every asyncio.to_thread is an await  *)
(* of the cell: a cancellation abandons the await, and the thread goes on.     *)
EXTENDS Naturals, FiniteSets

CONSTANTS
    Cells,          \* the cells of the run matrix
    Files,          \* paths below the root of a workspace
    Ignored,        \* the paths that the .gitignore of the fixture names
    Kinds,          \* the workspace types a run may be configured with
    Sources,        \* the trees copy_from may hold, NoTree if it is not set
    Heads,          \* what HEAD of the fixture's own repository may hold, NoTree if it has none
    InitGit,        \* init_git of the git adapter
    HasStorage,     \* an object storage is wired
    SharedVolume,   \* volume_name is set, so all cells name the same volume
    Stubborn,       \* the cells whose system goes on when its await is cancelled
    Faults,         \* which failures may happen
    NoTree          \* "this directory, volume or repository does not exist"

Contents == {"absent", "seed"} \cup Cells
Trees == [Files -> Contents]
EmptyTree == [f \in Files |-> "absent"]
AllFaults == {"docker", "disk", "git", "store", "storage", "cancel"}

ASSUME SourcesAssumption ==
    /\ Ignored \subseteq Files /\ Stubborn \subseteq Cells
    /\ Sources \subseteq Trees \cup {NoTree}
    /\ Heads \subseteq Trees \cup {NoTree}
    /\ NoTree \notin Trees
ASSUME KindsAssumption == Kinds \subseteq {"tempdir", "git", "docker"}
ASSUME FlagsAssumption ==
    {InitGit, HasStorage, SharedVolume} \subseteq BOOLEAN /\ Faults \subseteq AllFaults

\* The awaits of a cell inside prepare, collect_artifacts and cleanup.  Those of
\* docker_volume that use a helper container are the steps of one thread.
Populating == {"populateStart", "populateCopy", "populateStop"}
Extracting == {"extractStart", "extractCopy", "extractStop"}
Preparing == {"create", "seed", "openRepo", "snapshot"} \cup Populating
Collecting == {"walk", "compare", "publish"} \cup Extracting
Cleaning == {"removeVolume", "removeTree"}
Threads == Preparing \cup Collecting \cup Cleaning
Places == Threads \cup {"waiting", "run", "record", "evaluate", "ended"}

Artifacts == [before : Trees, after : Trees, diff : SUBSET Files]

VARIABLES
    kind, source, head, \* the configuration of the run: type, fixture, its HEAD
    at,         \* where the coroutine of each cell awaits
    abandoned,  \* threads and the cell that no longer awaits them
    dir,        \* the directory of a cell on the host
    repo,       \* the tree of the commit prepare recorded as git_before
    vol,        \* the docker volumes
    helpers,    \* the cells whose helper container runs
    extracted,  \* the directory a docker_volume artifact was extracted to
    before,     \* before_manifest
    artifact,   \* the FilesystemArtifact: collected, then handed to the evaluators
    system,     \* the system under test of a cell
    fate,       \* how the cell came to its cleanup
    trouble     \* the cells one of whose docker commands failed

plan == <<kind, source, head>>
disk == <<dir, repo, vol, helpers, extracted>>
snapshots == <<before, artifact>>
vars == <<plan, at, abandoned, disk, snapshots, system, fate, trouble>>

VolumeOfVariant(c) == CHOOSE d \in Cells : TRUE

\* volume_name, or a name made of the case, the variant and a uuid.
VolumeOf(c) == IF SharedVolume THEN "named" ELSE c

Volumes == {VolumeOf(c) : c \in Cells}

\* Where the system of a cell works, and where its work is looked for.
Work(c) == IF kind = "docker" THEN vol[VolumeOf(c)] ELSE dir[c]
Looked(c) == IF kind = "docker" THEN extracted[c] ELSE dir[c]

TypeOK ==
    /\ kind \in Kinds /\ source \in Sources /\ head \in Heads
    /\ at \in [Cells -> Places]
    /\ abandoned \subseteq Cells \X Threads
    /\ dir \in [Cells -> Trees \cup {NoTree}]
    /\ repo \in [Cells -> Trees \cup {NoTree}]
    /\ vol \in [Volumes -> Trees \cup {NoTree}]
    /\ helpers \subseteq Cells
    /\ extracted \in [Cells -> Trees \cup {NoTree}]
    /\ before \in [Cells -> Trees]
    /\ artifact \in [Cells -> Artifacts \cup {NoTree}]
    /\ system \in [Cells -> {"none", "running", "over", "late", "gone"}]
    /\ fate \in [Cells -> {"ok", "raised", "cancelled"}]
    /\ trouble \subseteq Cells

\* Only the git adapter looks for a repository in the fixture.
Init ==
    /\ kind \in Kinds /\ source \in Sources
    /\ head \in {h \in Heads : kind # "git" \/ source = NoTree => h = NoTree}
    /\ at = [c \in Cells |-> "waiting"]
    /\ abandoned = {}
    /\ dir = [c \in Cells |-> NoTree]
    /\ repo = [c \in Cells |-> NoTree]
    /\ vol = [v \in Volumes |-> NoTree]
    /\ helpers = {}
    /\ extracted = [c \in Cells |-> NoTree]
    /\ before = [c \in Cells |-> EmptyTree]
    /\ artifact = [c \in Cells |-> NoTree]
    /\ system = [c \in Cells |-> "none"]
    /\ fate = [c \in Cells |-> "ok"]
    /\ trouble = {}

-----------------------------------------------------------------------------
(* The order of the awaits.                                                  *)

AfterSeed ==
    CASE kind = "docker" -> "populateStart"
      [] kind = "git" -> "openRepo"
      [] OTHER -> "snapshot"

AfterCreate == IF source # NoTree THEN "seed" ELSE "snapshot"

FirstOfPrepare ==
    IF kind = "docker" THEN "create"
    ELSE IF source # NoTree THEN "seed"
    ELSE IF kind = "git" THEN "openRepo"
    ELSE "snapshot"

FirstOfCollect == IF kind = "docker" THEN "extractStart" ELSE "walk"

FirstOfCleanupAnyKind == "removeTree"

FirstOfCleanup == IF kind = "docker" THEN "removeVolume" ELSE "removeTree"

Goto(c, place) == at' = [at EXCEPT ![c] = place]

\* An exception of prepare: _run_one has no workspace to clean up yet.
PrepareRaises(c) ==
    /\ Goto(c, "ended")
    /\ fate' = [fate EXCEPT ![c] = "raised"]

\* An exception after prepare: the `finally` of _run_one cleans up.
CellRaises(c) ==
    /\ Goto(c, FirstOfCleanup)
    /\ fate' = [fate EXCEPT ![c] = "raised"]

\* collect_artifacts of docker_volume removes what it had extracted.
CollectRaises(c) ==
    /\ CellRaises(c)
    /\ extracted' = [extracted EXCEPT ![c] = NoTree]

-----------------------------------------------------------------------------
(* prepare                                                                   *)

\* The directory of a tempdir or git workspace is made before the first await.
Begin(c) ==
    /\ at[c] = "waiting"
    /\ Goto(c, FirstOfPrepare)
    /\ dir' = IF kind = "docker" THEN dir ELSE [dir EXCEPT ![c] = EmptyTree]
    /\ UNCHANGED <<plan, abandoned, repo, vol, helpers, extracted, snapshots, system, fate, trouble>>

\* A volume that exists is left as it is.
WithVolume(c) ==
    IF vol[VolumeOf(c)] = NoTree THEN [vol EXCEPT ![VolumeOf(c)] = EmptyTree] ELSE vol

Create(c) ==
    /\ at[c] = "create"
    /\ vol' = WithVolume(c)
    /\ dir' = [dir EXCEPT ![c] = EmptyTree]
    /\ Goto(c, AfterCreate)
    /\ UNCHANGED <<plan, abandoned, repo, helpers, extracted, snapshots, system, fate, trouble>>

\* A docker command that failed did nothing; one that timed out may have.
CreateFails(c) ==
    /\ at[c] = "create" /\ "docker" \in Faults
    /\ vol' \in {vol, WithVolume(c)}
    /\ PrepareRaises(c)
    /\ trouble' = trouble \cup {c}
    /\ UNCHANGED <<plan, abandoned, dir, repo, helpers, extracted, snapshots, system>>

Seed(c) ==
    /\ at[c] = "seed"
    /\ dir' = [dir EXCEPT ![c] = source]
    /\ Goto(c, AfterSeed)
    /\ UNCHANGED <<plan, abandoned, repo, vol, helpers, extracted, snapshots, system, fate, trouble>>

\* An OSError of the copy or of the walk.
PrepareFails(c) ==
    /\ at[c] \in {"seed", "snapshot"} /\ "disk" \in Faults
    /\ PrepareRaises(c)
    /\ UNCHANGED <<plan, abandoned, disk, snapshots, system, trouble>>

\* What `git add -A` of the initial commit takes of a tree.
Committed(t) == [f \in Files |-> IF f \in Ignored THEN "absent" ELSE t[f]]

OpenRepo(c) ==
    /\ at[c] = "openRepo"
    /\ head # NoTree \/ InitGit
    /\ repo' = [repo EXCEPT ![c] = IF head # NoTree THEN head ELSE Committed(dir[c])]
    /\ Goto(c, "snapshot")
    /\ UNCHANGED <<plan, abandoned, dir, vol, helpers, extracted, snapshots, system, fate, trouble>>

OpenRepoFails(c) ==
    /\ at[c] = "openRepo"
    /\ (head = NoTree /\ ~InitGit) \/ "git" \in Faults
    /\ PrepareRaises(c)
    /\ UNCHANGED <<plan, abandoned, disk, snapshots, system, trouble>>

\* The manifest is of the host directory: for docker_volume, of what the volume
\* was seeded from.
Snapshot(c) ==
    /\ at[c] = "snapshot"
    /\ before' = [before EXCEPT ![c] = dir[c]]
    /\ system' = [system EXCEPT ![c] = "running"]
    /\ Goto(c, "run")
    /\ UNCHANGED <<plan, abandoned, disk, artifact, fate, trouble>>

-----------------------------------------------------------------------------
(* The helper container of docker_volume: started, copied through, removed by *)
(* one thread, whether or not the cell still awaits it.                       *)

\* The thread of cell c is at step s, awaited or abandoned, and goes on to t;
\* next is where the cell goes on if it awaits the thread and this was the end.
ThreadMoves(c, s, t, next) ==
    \/ /\ at[c] = s
       /\ Goto(c, IF t = "end" THEN next ELSE t)
       /\ UNCHANGED abandoned
    \/ /\ <<c, s>> \in abandoned
       /\ abandoned' = (abandoned \ {<<c, s>>}) \cup (IF t = "end" THEN {} ELSE {<<c, t>>})
       /\ UNCHANGED at

StartHelper(c, s, t) ==
    /\ ThreadMoves(c, s, t, t)
    /\ vol' = WithVolume(c)
    /\ helpers' = helpers \cup {c}
    /\ UNCHANGED <<plan, dir, repo, extracted, snapshots, system, fate, trouble>>

\* `docker run` fails, or times out with a container whose id nobody knows.
StartHelperFails(c, s) ==
    /\ "docker" \in Faults
    /\ \/ at[c] = s /\ UNCHANGED abandoned
          /\ IF s \in Preparing THEN PrepareRaises(c) /\ UNCHANGED extracted ELSE CollectRaises(c)
       \/ <<c, s>> \in abandoned /\ abandoned' = abandoned \ {<<c, s>>}
          /\ UNCHANGED <<at, fate, extracted>>
    /\ \/ UNCHANGED <<vol, helpers>>
       \/ vol' = WithVolume(c) /\ helpers' = helpers \cup {c}
    /\ trouble' = trouble \cup {c}
    /\ UNCHANGED <<plan, dir, repo, snapshots, system>>

\* `docker cp` of the directory into the volume adds to what is there.
CopiedIn(c) ==
    LET v == VolumeOf(c) IN
    [vol EXCEPT ![v] = [f \in Files |-> IF dir[c][f] = "absent" THEN vol[v][f] ELSE dir[c][f]]]

PopulateCopy(c) ==
    /\ ThreadMoves(c, "populateCopy", "populateStop", "populateStop")
    /\ vol' = CopiedIn(c)
    /\ UNCHANGED <<plan, dir, repo, helpers, extracted, snapshots, system, fate, trouble>>

ExtractCopy(c) ==
    /\ ThreadMoves(c, "extractCopy", "extractStop", "extractStop")
    /\ extracted' = [extracted EXCEPT ![c] = vol[VolumeOf(c)]]
    /\ UNCHANGED <<plan, dir, repo, vol, helpers, snapshots, system, fate, trouble>>

\* The exception of `docker cp` passes through the `finally` that removes the
\* helper, which may fail too, and is swallowed there.
CopyFails(c, s) ==
    /\ "docker" \in Faults
    /\ \/ at[c] = s /\ UNCHANGED abandoned
          /\ IF s \in Preparing THEN PrepareRaises(c) /\ UNCHANGED extracted ELSE CollectRaises(c)
       \/ <<c, s>> \in abandoned /\ abandoned' = abandoned \ {<<c, s>>}
          /\ UNCHANGED <<at, fate, extracted>>
    /\ helpers' \in {helpers, helpers \ {c}}
    /\ trouble' = trouble \cup {c}
    /\ UNCHANGED <<plan, dir, repo, vol, snapshots, system>>

StopHelper(c, s, next) ==
    /\ ThreadMoves(c, s, "end", next)
    /\ \/ helpers' = helpers \ {c} /\ UNCHANGED trouble
       \/ "docker" \in Faults /\ trouble' = trouble \cup {c} /\ UNCHANGED helpers
    /\ UNCHANGED <<plan, dir, repo, vol, extracted, snapshots, system, fate>>

Helper(c) ==
    \/ StartHelper(c, "populateStart", "populateCopy")
    \/ StartHelper(c, "extractStart", "extractCopy")
    \/ StartHelperFails(c, "populateStart")
    \/ StartHelperFails(c, "extractStart")
    \/ PopulateCopy(c)
    \/ ExtractCopy(c)
    \/ CopyFails(c, "populateCopy")
    \/ CopyFails(c, "extractCopy")
    \/ StopHelper(c, "populateStop", "snapshot")
    \/ StopHelper(c, "extractStop", "walk")

-----------------------------------------------------------------------------
(* The system under test.  It works below the root it was handed, or in the  *)
(* volume; a synchronous python_function or a cli process is stubborn: the    *)
(* adapter gives up awaiting it, and it works on.                             *)

\* A bound: only to the git adapter is an ignored path unlike any other path.
Touched == IF kind = "git" THEN Files ELSE Files \ Ignored

Write(c) ==
    /\ system[c] \in {"running", "late"} /\ Work(c) # NoTree
    /\ \E f \in Touched, x \in {c, "absent"} :
          /\ Work(c)[f] # x
          /\ IF kind = "docker"
             THEN vol' = [vol EXCEPT ![VolumeOf(c)][f] = x] /\ UNCHANGED dir
             ELSE dir' = [dir EXCEPT ![c][f] = x] /\ UNCHANGED vol
    /\ UNCHANGED <<plan, at, abandoned, repo, helpers, extracted, snapshots, system, fate, trouble>>

\* With a trace or an exception, which becomes the error of a trace.
SystemReturns(c) ==
    /\ at[c] = "run" /\ system[c] = "running"
    /\ system' = [system EXCEPT ![c] = "over"]
    /\ Goto(c, "record")
    /\ UNCHANGED <<plan, abandoned, disk, snapshots, fate, trouble>>

Stopped(c) == IF c \in Stubborn THEN "late" ELSE "over"

TimedOut(c) ==
    /\ at[c] = "run" /\ system[c] = "running"
    /\ system' = [system EXCEPT ![c] = Stopped(c)]
    /\ Goto(c, "record")
    /\ UNCHANGED <<plan, abandoned, disk, snapshots, fate, trouble>>

\* The enrichers and save_trace, then collect_artifacts as far as its first await.
Record(c) ==
    /\ at[c] = "record"
    /\ Goto(c, FirstOfCollect)
    /\ extracted' = IF kind = "docker" THEN [extracted EXCEPT ![c] = EmptyTree] ELSE extracted
    /\ UNCHANGED <<plan, abandoned, dir, repo, vol, helpers, snapshots, system, fate, trouble>>

\* The canonical sink raises, before collect_artifacts or after the evaluators.
StoreFails(c) ==
    /\ at[c] \in {"record", "evaluate"} /\ "store" \in Faults
    /\ CellRaises(c)
    /\ UNCHANGED <<plan, abandoned, disk, snapshots, system, trouble>>

LateSystemEnds(c) ==
    /\ system[c] = "late"
    /\ system' = [system EXCEPT ![c] = "gone"]
    /\ UNCHANGED <<plan, at, abandoned, disk, snapshots, fate, trouble>>

-----------------------------------------------------------------------------
(* collect_artifacts and the evaluators                                      *)

Walk(c) ==
    /\ at[c] = "walk"
    /\ artifact' = [artifact EXCEPT ![c] = [before |-> before[c], after |-> Looked(c), diff |-> {}]]
    /\ Goto(c, "compare")
    /\ UNCHANGED <<plan, abandoned, disk, before, system, fate, trouble>>

\* A file the system made unreadable, or removed under the walk.
WalkFails(c) ==
    /\ at[c] = "walk" /\ "disk" \in Faults
    /\ CollectRaises(c)
    /\ UNCHANGED <<plan, abandoned, dir, repo, vol, helpers, snapshots, system, trouble>>

\* By the hash of each file.
ManifestDiff(old, new) == {f \in Files : old[f] # new[f]}

\* Of a commit against the working tree: untracked files count unless ignored.
GitDiff(tree, new) ==
    {f \in Files : IF tree[f] = "absent" THEN new[f] # "absent" /\ f \notin Ignored
                                         ELSE new[f] # tree[f]}

AfterCompare == IF HasStorage THEN "publish" ELSE "evaluate"

Compare(c) ==
    /\ at[c] = "compare"
    /\ artifact' = [artifact EXCEPT ![c].diff =
          IF kind = "git" THEN GitDiff(repo[c], dir[c]) ELSE ManifestDiff(before[c], artifact[c].after)]
    /\ Goto(c, AfterCompare)
    /\ UNCHANGED <<plan, abandoned, disk, before, system, fate, trouble>>

\* The system may have removed the repository or its history.
CompareFails(c) ==
    /\ at[c] = "compare" /\ kind = "git" /\ "git" \in Faults
    /\ CellRaises(c)
    /\ UNCHANGED <<plan, abandoned, disk, snapshots, system, trouble>>

Publish(c) ==
    /\ at[c] = "publish"
    /\ Goto(c, "evaluate")
    /\ UNCHANGED <<plan, abandoned, disk, snapshots, system, fate, trouble>>

PublishFails(c) ==
    /\ at[c] = "publish" /\ "storage" \in Faults
    /\ CollectRaises(c)
    /\ UNCHANGED <<plan, abandoned, dir, repo, vol, helpers, snapshots, system, trouble>>

\* The artifact has no other reader.
Evaluate(c) ==
    /\ at[c] = "evaluate"
    /\ artifact' = [artifact EXCEPT ![c] = NoTree]
    /\ Goto(c, FirstOfCleanup)
    /\ UNCHANGED <<plan, abandoned, disk, before, system, fate, trouble>>

-----------------------------------------------------------------------------
(* cleanup, and the cancellation of the cells                                *)

Held(c) == \E h \in helpers : VolumeOf(h) = VolumeOf(c)

RemoveVolumeUntilGone(c) ==
    /\ at[c] = "removeVolume" \/ <<c, "removeVolume">> \in abandoned
    /\ IF Held(c) THEN UNCHANGED <<vol, at, abandoned>>
       ELSE /\ ThreadMoves(c, "removeVolume", "end", "removeTree")
            /\ vol' = [vol EXCEPT ![VolumeOf(c)] = NoTree]
    /\ UNCHANGED <<plan, dir, repo, helpers, extracted, snapshots, system, fate, trouble>>

\* A volume that a container still holds is not removed, and the error is
\* swallowed, so that the directory on the host is removed all the same.
RemoveVolume(c) ==
    /\ ThreadMoves(c, "removeVolume", "end", "removeTree")
    /\ IF Held(c)
       THEN UNCHANGED <<vol, trouble>>
       ELSE \/ vol' = [vol EXCEPT ![VolumeOf(c)] = NoTree] /\ UNCHANGED trouble
            \/ "docker" \in Faults /\ trouble' = trouble \cup {c} /\ UNCHANGED vol
    /\ UNCHANGED <<plan, dir, repo, helpers, extracted, snapshots, system, fate>>

\* rmtree ignores errors: a system that works on may keep the directory alive.
RemoveTree(c) ==
    /\ ThreadMoves(c, "removeTree", "end", "ended")
    /\ \/ dir' = [dir EXCEPT ![c] = NoTree]
       \/ system[c] = "late" /\ UNCHANGED dir
    /\ UNCHANGED <<plan, repo, vol, helpers, extracted, snapshots, system, fate, trouble>>

\* Where the coroutine of a cell goes when it is cancelled at its await.
AfterCancel(c) ==
    IF at[c] \in {"run", "record", "evaluate"} \cup Collecting THEN FirstOfCleanup ELSE "ended"

Live == {c \in Cells : at[c] # "ended"}

\* Ctrl-C, or the end of the event loop after a cell that raised: every cell is
\* cancelled at its await, once, and the threads they awaited go on.
CancelCells ==
    /\ "cancel" \in Faults \/ \E c \in Cells : at[c] = "ended" /\ fate[c] = "raised"
    /\ Live # {} /\ \A c \in Cells : fate[c] # "cancelled"
    /\ at' = [c \in Cells |-> IF c \in Live THEN AfterCancel(c) ELSE at[c]]
    /\ fate' = [c \in Cells |-> IF c \in Live THEN "cancelled" ELSE fate[c]]
    /\ abandoned' = abandoned \cup {<<c, at[c]>> : c \in {d \in Live : at[d] \in Threads}}
    /\ system' = [c \in Cells |-> IF at[c] = "run" THEN Stopped(c) ELSE system[c]]
    /\ UNCHANGED <<plan, disk, snapshots, trouble>>

\* A thread that its cell abandoned finishes; helpers and cleanup have their own.
Finish(c) ==
    /\ \E s \in {"create", "seed", "openRepo", "snapshot", "walk", "compare", "publish"} :
          /\ <<c, s>> \in abandoned
          /\ abandoned' = abandoned \ {<<c, s>>}
          /\ vol' = IF s = "create" THEN WithVolume(c) ELSE vol
          /\ dir' = IF s = "seed" THEN [dir EXCEPT ![c] = source] ELSE dir
    /\ UNCHANGED <<plan, at, repo, helpers, extracted, snapshots, system, fate, trouble>>

\* The steps a cell and its threads take by themselves.
Progress(c) ==
    \/ Begin(c) \/ Create(c) \/ CreateFails(c) \/ Seed(c) \/ PrepareFails(c)
    \/ OpenRepo(c) \/ OpenRepoFails(c) \/ Snapshot(c)
    \/ Helper(c)
    \/ TimedOut(c) \/ Record(c) \/ StoreFails(c)
    \/ Walk(c) \/ WalkFails(c) \/ Compare(c) \/ CompareFails(c)
    \/ Publish(c) \/ PublishFails(c) \/ Evaluate(c)
    \/ RemoveVolume(c) \/ RemoveTree(c) \/ Finish(c)

Over == Live = {} /\ abandoned = {} /\ UNCHANGED vars

Next ==
    \/ \E c \in Cells : Progress(c) \/ Write(c) \/ SystemReturns(c) \/ LateSystemEnds(c)
    \/ CancelCells
    \/ Over

\* Threads end, docker commands have a timeout of their own, and the runner
\* bounds the system with wait_for; nothing makes a late system end.
Fairness == \A c \in Cells : WF_vars(Progress(c))

Spec == Init /\ [][Next]_vars /\ Fairness

-----------------------------------------------------------------------------
(* Properties                                                                *)

\* The paths of which an artifact can tell whether they changed.
Visible(c) == IF kind = "git" THEN {f \in Files : f \notin Ignored \/ repo[c][f] # "absent"} ELSE Files

\* What the adapter compares the directory with: the commit git_before, or the manifest.
Compared(c) == IF kind = "git" THEN repo[c] ELSE before[c]

\* The cells that a configured volume_name makes work in one volume.
Sharers(c) == IF kind = "docker" /\ SharedVolume THEN Cells ELSE {c}

\* No cross-case bleed, whatever the workspace, the fixture and its repository are: if
\* the system of a cell is over, the artifact names exactly the visible paths that
\* differ from what the adapter compares with, and what it holds for each of them was
\* written or removed by a cell with this very volume, which is the cell itself unless
\* volume_name is set, or it is uncommitted work that the fixture came with.
DiffIsOwnWork ==
    \A c \in Cells : at[c] = "evaluate" /\ system[c] = "over" /\ artifact[c] # NoTree =>
        /\ artifact[c].diff = {f \in Visible(c) : artifact[c].after[f] # Compared(c)[f]}
        /\ \A f \in artifact[c].diff :
               \/ artifact[c].after[f] \in Sharers(c) \cup {"absent"}
               \/ kind = "git" /\ artifact[c].after[f] = artifact[c].before[f]

\* A cell that was not cancelled, whose prepare came to its end and whose system
\* did not outlive its await leaves no directory, whatever else failed.
Prepared(c) == system[c] # "none"
DirectoryIsRemoved ==
    \A c \in Cells :
        at[c] = "ended" /\ fate[c] # "cancelled" /\ Prepared(c) /\ dir[c] # NoTree
            => system[c] \in {"late", "gone"}

\* Such a cell leaves no volume either, unless a docker command failed.
VolumeIsRemoved ==
    \A c \in Cells \ trouble :
        kind = "docker" /\ at[c] = "ended" /\ fate[c] # "cancelled" /\ Prepared(c)
            => vol[VolumeOf(c)] = NoTree

\* No helper container outlives the thread that started it, not even when the
\* cell is cancelled while it awaits the thread, unless a docker command failed.
HelpersAreRemoved ==
    \A c \in helpers \ trouble :
        \E s \in (Populating \cup Extracting) \ {"populateStart", "extractStart"} :
            at[c] = s \/ <<c, s>> \in abandoned

\* Nothing of a cell is left behind: no directory, no volume, no helper container.
NothingIsLeft == DirectoryIsRemoved /\ VolumeIsRemoved /\ HelpersAreRemoved

\* Whatever fails, every cell ends and so does every thread it left behind.
CellsEnd == <>(Live = {} /\ abandoned = {})
=============================================================================
