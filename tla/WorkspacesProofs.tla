-------------------------- MODULE WorkspacesProofs --------------------------
(***************************************************************************)
(* Theorems about Workspaces for any number of cells, any fixture, any     *)
(* workspace type and any failure, cancellation and late system included:  *)
(* what is on disk is there as long as it is needed and is removed then    *)
(* (Inv), and what a cell's artifact shows is the cell's own work          *)
(* (OwnWorks), as nobody but its prepare and its system writes its tree.   *)
(***************************************************************************)
EXTENDS Workspaces, TLAPS

\* Tuples of variables are always taken apart.
USE DEF plan, disk, snapshots

\* A cell still needs its directory, and its work is still to be looked at.
NeedsDirectory == (Preparing \ {"create"}) \cup Collecting \cup {"run", "record", "evaluate"}
Copying == {"populateCopy", "extractCopy"}

\* Where cells and threads are.  A cell is cancelled at most once, so it leaves
\* at most one thread behind, and it waits for nothing but its own cleanup then.
Order ==
    \A c \in Cells :
        /\ at[c] \notin Cleaning \cup {"ended"} => fate[c] = "ok"
        /\ \A s \in Threads : <<c, s>> \in abandoned =>
               /\ fate[c] = "cancelled" /\ at[c] \in Cleaning \cup {"ended"}
               /\ s \notin Collecting => at[c] = "ended"
        /\ \A s, t \in Threads : <<c, s>> \in abandoned /\ <<c, t>> \in abandoned => s = t
        /\ at[c] \in Preparing \cup {"waiting"} => system[c] = "none"
        /\ system[c] = "running" => at[c] = "run"

\* What is on disk is there as long as a cell, or a thread it left, needs it.
Storage ==
    \A c \in Cells :
        /\ at[c] \in NeedsDirectory => dir[c] # NoTree
        /\ \A s \in Populating : <<c, s>> \in abandoned => dir[c] # NoTree
        /\ \A s \in Copying : at[c] = s \/ <<c, s>> \in abandoned =>
               c \in helpers /\ vol[VolumeOf(c)] # NoTree
        /\ at[c] = "seed" \/ <<c, "seed">> \in abandoned => source # NoTree
        /\ kind = "docker" /\ at[c] \in Extracting \cup {"walk"} => extracted[c] # NoTree
        /\ at[c] = "compare" => artifact[c] \in Artifacts

\* Between the removal of its volume and its end a cell makes no other.
VolumeIsGone ==
    /\ VolumeIsRemoved
    /\ \A c \in Cells \ trouble :
           kind = "docker" /\ at[c] = "removeTree" /\ fate[c] # "cancelled" => vol[VolumeOf(c)] = NoTree

Removed == DirectoryIsRemoved /\ (~SharedVolume => VolumeIsGone)

\* HelpersAreRemoved, place by place.
HelpersAwaited ==
    \A c \in helpers \ trouble :
        \/ at[c] \in {"populateCopy", "populateStop", "extractCopy", "extractStop"}
        \/ <<c, "populateCopy">> \in abandoned \/ <<c, "populateStop">> \in abandoned
        \/ <<c, "extractCopy">> \in abandoned \/ <<c, "extractStop">> \in abandoned

Inv == TypeOK /\ Order /\ Storage /\ HelpersAwaited /\ Removed

\* The sets of places, always taken apart.
USE DEF Places, Threads, Preparing, Collecting, Cleaning, Populating, Extracting, NeedsDirectory, Copying

LEMMA VolumeType ==
    ASSUME NEW c \in Cells
    PROVE  VolumeOf(c) \in Volumes
  BY DEF Volumes

LEMMA OwnVolume ==
    ASSUME ~SharedVolume, NEW c \in Cells, NEW d \in Cells, VolumeOf(c) = VolumeOf(d)
    PROVE  c = d
  BY DEF VolumeOf

LEMMA OtherVolumes ==
    ASSUME ~SharedVolume, TypeOK, NEW c \in Cells,
           \/ vol' = vol
           \/ \E t \in Trees \cup {NoTree} : vol' = [vol EXCEPT ![VolumeOf(c)] = t]
    PROVE  \A d \in Cells \ {c} : vol'[VolumeOf(d)] = vol[VolumeOf(d)]
  BY OwnVolume, VolumeType DEF TypeOK

LEMMA TreeFacts ==
    /\ EmptyTree \in Trees /\ NoTree \notin Trees
    /\ Sources \subseteq Trees \cup {NoTree} /\ Heads \subseteq Trees \cup {NoTree}
  BY SourcesAssumption DEF EmptyTree, Trees, Contents

LEMMA CommittedType == ASSUME NEW t \in Trees PROVE Committed(t) \in Trees
  BY DEF Committed, Trees, Contents

LEMMA ChangedType ==
    ASSUME NEW t \in Trees, NEW f \in Files, NEW x \in Contents
    PROVE  [t EXCEPT ![f] = x] \in Trees
  BY DEF Trees

LEMMA StartInv == Init => Inv
<1> SUFFICES ASSUME Init PROVE Inv
  OBVIOUS
<1> USE DEF Init
<1>1. TypeOK
  BY TreeFacts DEF TypeOK
<1>2. Order /\ Storage
  BY DEF Order, Storage
<1>3. HelpersAwaited /\ Removed
  BY DEF HelpersAwaited, Removed, DirectoryIsRemoved, VolumeIsGone, VolumeIsRemoved
<1> QED BY <1>1, <1>2, <1>3 DEF Inv

LEMMA BeginInv == ASSUME Inv, NEW c \in Cells, Begin(c) PROVE Inv'
<1> USE DEF Inv, Begin, Goto, FirstOfPrepare
<1>1. TypeOK'
  BY TreeFacts, VolumeType DEF TypeOK
<1>2. Order'
  BY DEF TypeOK, Order
<1>3. Storage'
  <2>1. \A d \in Cells \ {c} : at'[d] = at[d] /\ dir'[d] = dir[d]
    BY DEF TypeOK
  <2>2. CASE kind = "docker"
    <3>1. at'[c] = "create" /\ dir' = dir
      BY <2>2 DEF TypeOK
    <3> QED BY <2>1, <3>1, ZenonT(60) DEF Storage
  <2>3. CASE kind # "docker"
    <3>1. at'[c] \in {"seed", "openRepo", "snapshot"} /\ (at'[c] = "seed" => source # NoTree) /\ dir'[c] # NoTree
      BY <2>3, TreeFacts DEF TypeOK
    <3> QED BY <2>1, <2>3, <3>1, ZenonT(60) DEF Storage
  <2> QED BY <2>2, <2>3
<1>4. HelpersAwaited'
  BY DEF TypeOK, HelpersAwaited
<1>5. Removed'
  BY TreeFacts, VolumeType, OwnVolume DEF TypeOK, Order, Removed, DirectoryIsRemoved, VolumeIsGone, VolumeIsRemoved, Prepared
<1> QED BY <1>1, <1>2, <1>3, <1>4, <1>5

LEMMA CreateInv == ASSUME Inv, NEW c \in Cells, Create(c) PROVE Inv'
<1> USE DEF Inv, Create, Goto, AfterCreate, WithVolume
<1>1. TypeOK'
  BY TreeFacts, VolumeType DEF TypeOK
<1>2. Order'
  BY DEF TypeOK, Order
<1>3. Storage'
  BY TreeFacts, VolumeType, ZenonT(60) DEF TypeOK, Order, Storage
<1>4. HelpersAwaited'
  BY DEF TypeOK, HelpersAwaited
<1>5. Removed'
  <2>1. DirectoryIsRemoved'
    BY DEF TypeOK, Order, Removed, DirectoryIsRemoved, Prepared
  <2>2. ASSUME ~SharedVolume PROVE VolumeIsGone'
    <3>1. \A d \in Cells \ {c} : vol'[VolumeOf(d)] = vol[VolumeOf(d)]
      BY <2>2, OtherVolumes, TreeFacts
    <3> QED BY <2>2, <3>1, ZenonT(60) DEF TypeOK, Order, Removed, VolumeIsGone, VolumeIsRemoved, Prepared
  <2> QED BY <2>1, <2>2 DEF Removed
<1> QED BY <1>1, <1>2, <1>3, <1>4, <1>5

LEMMA CreateFailsInv == ASSUME Inv, NEW c \in Cells, CreateFails(c) PROVE Inv'
<1> USE DEF Inv, CreateFails, Goto, PrepareRaises, WithVolume
<1>1. TypeOK'
  BY TreeFacts, VolumeType DEF TypeOK
<1>2. Order'
  BY DEF TypeOK, Order
<1>3. Storage'
  BY TreeFacts, VolumeType, ZenonT(60) DEF TypeOK, Order, Storage
<1>4. HelpersAwaited'
  BY DEF TypeOK, HelpersAwaited
<1>5. Removed'
  <2>1. DirectoryIsRemoved'
    BY DEF TypeOK, Order, Removed, DirectoryIsRemoved, Prepared
  <2>2. ASSUME ~SharedVolume PROVE VolumeIsGone'
    <3>1. \A d \in Cells \ {c} : vol'[VolumeOf(d)] = vol[VolumeOf(d)]
      BY <2>2, OtherVolumes, TreeFacts
    <3> QED BY <2>2, <3>1, ZenonT(60) DEF TypeOK, Order, Removed, VolumeIsGone, VolumeIsRemoved, Prepared
  <2> QED BY <2>1, <2>2 DEF Removed
<1> QED BY <1>1, <1>2, <1>3, <1>4, <1>5

LEMMA SeedInv == ASSUME Inv, NEW c \in Cells, Seed(c) PROVE Inv'
<1> USE DEF Inv, Seed, Goto, AfterSeed
<1>1. TypeOK'
  BY TreeFacts, VolumeType DEF TypeOK
<1>2. Order'
  BY DEF TypeOK, Order
<1>3. Storage'
  BY TreeFacts, VolumeType, ZenonT(60) DEF TypeOK, Order, Storage
<1>4. HelpersAwaited'
  BY DEF TypeOK, HelpersAwaited
<1>5. Removed'
  BY TreeFacts, VolumeType, OwnVolume, ZenonT(60) DEF TypeOK, Order, Removed, DirectoryIsRemoved, VolumeIsGone, VolumeIsRemoved, Prepared
<1> QED BY <1>1, <1>2, <1>3, <1>4, <1>5

LEMMA PrepareFailsInv == ASSUME Inv, NEW c \in Cells, PrepareFails(c) PROVE Inv'
<1> USE DEF Inv, PrepareFails, Goto, PrepareRaises
<1>1. TypeOK'
  BY TreeFacts, VolumeType DEF TypeOK
<1>2. Order'
  BY DEF TypeOK, Order
<1>3. Storage'
  BY TreeFacts, VolumeType, ZenonT(60) DEF TypeOK, Order, Storage
<1>4. HelpersAwaited'
  BY DEF TypeOK, HelpersAwaited
<1>5. Removed'
  BY TreeFacts, VolumeType, OwnVolume, ZenonT(60) DEF TypeOK, Order, Removed, DirectoryIsRemoved, VolumeIsGone, VolumeIsRemoved, Prepared
<1> QED BY <1>1, <1>2, <1>3, <1>4, <1>5

LEMMA OpenRepoInv == ASSUME Inv, NEW c \in Cells, OpenRepo(c) PROVE Inv'
<1> USE DEF Inv, OpenRepo, Goto
<1>1. TypeOK'
  <2>1. dir[c] \in Trees /\ head \in Trees \cup {NoTree}
    BY TreeFacts DEF TypeOK, Storage
  <2>2. repo' \in [Cells -> Trees \cup {NoTree}]
    BY <2>1, CommittedType DEF TypeOK
  <2> QED BY <2>2 DEF TypeOK
<1>2. Order'
  BY DEF TypeOK, Order
<1>3. Storage'
  BY TreeFacts, VolumeType, ZenonT(60) DEF TypeOK, Order, Storage
<1>4. HelpersAwaited'
  BY DEF TypeOK, HelpersAwaited
<1>5. Removed'
  BY TreeFacts, VolumeType, OwnVolume DEF TypeOK, Order, Removed, DirectoryIsRemoved, VolumeIsGone, VolumeIsRemoved, Prepared
<1> QED BY <1>1, <1>2, <1>3, <1>4, <1>5

LEMMA OpenRepoFailsInv == ASSUME Inv, NEW c \in Cells, OpenRepoFails(c) PROVE Inv'
<1> USE DEF Inv, OpenRepoFails, Goto, PrepareRaises
<1>1. TypeOK'
  BY TreeFacts, VolumeType DEF TypeOK
<1>2. Order'
  BY DEF TypeOK, Order
<1>3. Storage'
  BY TreeFacts, VolumeType, ZenonT(60) DEF TypeOK, Order, Storage
<1>4. HelpersAwaited'
  BY DEF TypeOK, HelpersAwaited
<1>5. Removed'
  BY TreeFacts, VolumeType, OwnVolume, ZenonT(60) DEF TypeOK, Order, Removed, DirectoryIsRemoved, VolumeIsGone, VolumeIsRemoved, Prepared
<1> QED BY <1>1, <1>2, <1>3, <1>4, <1>5

LEMMA SnapshotInv == ASSUME Inv, NEW c \in Cells, Snapshot(c) PROVE Inv'
<1> USE DEF Inv, Snapshot, Goto
<1>1. TypeOK'
  <2>1. dir[c] \in Trees
    BY DEF TypeOK, Storage
  <2> QED BY <2>1 DEF TypeOK
<1>2. Order'
  BY DEF TypeOK, Order
<1>3. Storage'
  BY TreeFacts, VolumeType DEF TypeOK, Order, Storage
<1>4. HelpersAwaited'
  BY DEF TypeOK, HelpersAwaited
<1>5. Removed'
  BY TreeFacts, VolumeType, OwnVolume, ZenonT(60) DEF TypeOK, Order, Removed, DirectoryIsRemoved, VolumeIsGone, VolumeIsRemoved, Prepared
<1> QED BY <1>1, <1>2, <1>3, <1>4, <1>5

LEMMA TimedOutInv == ASSUME Inv, NEW c \in Cells, TimedOut(c) PROVE Inv'
<1> USE DEF Inv, TimedOut, Goto, Stopped
<1>1. TypeOK'
  BY TreeFacts, VolumeType DEF TypeOK
<1>2. Order'
  BY DEF TypeOK, Order
<1>3. Storage'
  BY TreeFacts, VolumeType, ZenonT(60) DEF TypeOK, Order, Storage
<1>4. HelpersAwaited'
  BY DEF TypeOK, HelpersAwaited
<1>5. Removed'
  BY TreeFacts, VolumeType, OwnVolume DEF TypeOK, Order, Removed, DirectoryIsRemoved, VolumeIsGone, VolumeIsRemoved, Prepared
<1> QED BY <1>1, <1>2, <1>3, <1>4, <1>5

LEMMA SystemReturnsInv == ASSUME Inv, NEW c \in Cells, SystemReturns(c) PROVE Inv'
<1> USE DEF Inv, SystemReturns, Goto
<1>1. TypeOK'
  BY TreeFacts, VolumeType DEF TypeOK
<1>2. Order'
  BY DEF TypeOK, Order
<1>3. Storage'
  BY TreeFacts, VolumeType, ZenonT(60) DEF TypeOK, Order, Storage
<1>4. HelpersAwaited'
  BY DEF TypeOK, HelpersAwaited
<1>5. Removed'
  BY TreeFacts, VolumeType, OwnVolume, ZenonT(60) DEF TypeOK, Order, Removed, DirectoryIsRemoved, VolumeIsGone, VolumeIsRemoved, Prepared
<1> QED BY <1>1, <1>2, <1>3, <1>4, <1>5

LEMMA RecordInv == ASSUME Inv, NEW c \in Cells, Record(c) PROVE Inv'
<1> USE DEF Inv, Record, Goto, FirstOfCollect
<1>1. TypeOK'
  BY TreeFacts, VolumeType DEF TypeOK
<1>2. Order'
  BY DEF TypeOK, Order
<1>3. Storage'
  BY TreeFacts, VolumeType, ZenonT(60) DEF TypeOK, Order, Storage
<1>4. HelpersAwaited'
  BY DEF TypeOK, HelpersAwaited
<1>5. Removed'
  BY TreeFacts, VolumeType, OwnVolume DEF TypeOK, Order, Removed, DirectoryIsRemoved, VolumeIsGone, VolumeIsRemoved, Prepared
<1> QED BY <1>1, <1>2, <1>3, <1>4, <1>5

LEMMA StoreFailsInv == ASSUME Inv, NEW c \in Cells, StoreFails(c) PROVE Inv'
<1> USE DEF Inv, StoreFails, Goto, CellRaises, FirstOfCleanup
<1>1. TypeOK'
  BY TreeFacts, VolumeType DEF TypeOK
<1>2. Order'
  BY DEF TypeOK, Order
<1>3. Storage'
  BY TreeFacts, VolumeType DEF TypeOK, Order, Storage
<1>4. HelpersAwaited'
  BY DEF TypeOK, HelpersAwaited
<1>5. Removed'
  BY TreeFacts, VolumeType, OwnVolume, ZenonT(60) DEF TypeOK, Order, Removed, DirectoryIsRemoved, VolumeIsGone, VolumeIsRemoved, Prepared
<1> QED BY <1>1, <1>2, <1>3, <1>4, <1>5

LEMMA LateSystemEndsInv == ASSUME Inv, NEW c \in Cells, LateSystemEnds(c) PROVE Inv'
<1> USE DEF Inv, LateSystemEnds
<1>1. TypeOK'
  BY TreeFacts, VolumeType DEF TypeOK
<1>2. Order'
  BY DEF TypeOK, Order
<1>3. Storage'
  BY TreeFacts, VolumeType DEF TypeOK, Order, Storage
<1>4. HelpersAwaited'
  BY DEF TypeOK, HelpersAwaited
<1>5. Removed'
  BY TreeFacts, VolumeType, OwnVolume DEF TypeOK, Order, Removed, DirectoryIsRemoved, VolumeIsGone, VolumeIsRemoved, Prepared
<1> QED BY <1>1, <1>2, <1>3, <1>4, <1>5

LEMMA WalkInv == ASSUME Inv, NEW c \in Cells, Walk(c) PROVE Inv'
<1> USE DEF Inv, Walk, Goto
<1>1. TypeOK' /\ artifact'[c] \in Artifacts
  <2>1. [before |-> before[c], after |-> Looked(c), diff |-> {}] \in Artifacts
    BY DEF TypeOK, Storage, Looked, Artifacts
  <2> QED BY <2>1 DEF TypeOK
<1>2. Order'
  BY DEF TypeOK, Order
<1>3. Storage'
  <2>1. \A d \in Cells \ {c} : at'[d] = at[d] /\ artifact'[d] = artifact[d]
    BY DEF TypeOK
  <2>2. at'[c] = "compare" /\ dir[c] # NoTree
    BY DEF TypeOK, Storage
  <2> QED BY <1>1, <2>1, <2>2 DEF Storage
<1>4. HelpersAwaited'
  BY DEF TypeOK, HelpersAwaited
<1>5. Removed'
  BY TreeFacts, VolumeType, OwnVolume DEF TypeOK, Order, Removed, DirectoryIsRemoved, VolumeIsGone, VolumeIsRemoved, Prepared
<1> QED BY <1>1, <1>2, <1>3, <1>4, <1>5

LEMMA WalkFailsInv == ASSUME Inv, NEW c \in Cells, WalkFails(c) PROVE Inv'
<1> USE DEF Inv, WalkFails, Goto, CollectRaises, CellRaises, FirstOfCleanup
<1>1. TypeOK'
  BY TreeFacts, VolumeType DEF TypeOK
<1>2. Order'
  BY DEF TypeOK, Order
<1>3. Storage'
  BY TreeFacts, VolumeType, ZenonT(60) DEF TypeOK, Order, Storage
<1>4. HelpersAwaited'
  BY DEF TypeOK, HelpersAwaited
<1>5. Removed'
  BY TreeFacts, VolumeType, OwnVolume, ZenonT(60) DEF TypeOK, Order, Removed, DirectoryIsRemoved, VolumeIsGone, VolumeIsRemoved, Prepared
<1> QED BY <1>1, <1>2, <1>3, <1>4, <1>5

LEMMA CompareInv == ASSUME Inv, NEW c \in Cells, Compare(c) PROVE Inv'
<1> USE DEF Inv, Compare, Goto, AfterCompare
<1>1. TypeOK'
  <2>1. artifact[c] \in Artifacts
    BY DEF Storage
  <2>2. GitDiff(repo[c], dir[c]) \subseteq Files /\ ManifestDiff(before[c], artifact[c].after) \subseteq Files
    BY DEF GitDiff, ManifestDiff
  <2>3. artifact' \in [Cells -> Artifacts \cup {NoTree}]
    BY <2>1, <2>2 DEF TypeOK, Artifacts
  <2> QED BY <2>3 DEF TypeOK
<1>2. Order'
  BY DEF TypeOK, Order
<1>3. Storage'
  BY TreeFacts, VolumeType, ZenonT(60) DEF TypeOK, Order, Storage
<1>4. HelpersAwaited'
  BY DEF TypeOK, HelpersAwaited
<1>5. Removed'
  BY TreeFacts, VolumeType, OwnVolume DEF TypeOK, Order, Removed, DirectoryIsRemoved, VolumeIsGone, VolumeIsRemoved, Prepared
<1> QED BY <1>1, <1>2, <1>3, <1>4, <1>5

LEMMA CompareFailsInv == ASSUME Inv, NEW c \in Cells, CompareFails(c) PROVE Inv'
<1> USE DEF Inv, CompareFails, Goto, CellRaises, FirstOfCleanup
<1>1. TypeOK'
  BY TreeFacts, VolumeType DEF TypeOK
<1>2. Order'
  BY DEF TypeOK, Order
<1>3. Storage'
  BY TreeFacts, VolumeType DEF TypeOK, Order, Storage
<1>4. HelpersAwaited'
  BY DEF TypeOK, HelpersAwaited
<1>5. Removed'
  BY TreeFacts, VolumeType, OwnVolume DEF TypeOK, Order, Removed, DirectoryIsRemoved, VolumeIsGone, VolumeIsRemoved, Prepared
<1> QED BY <1>1, <1>2, <1>3, <1>4, <1>5

LEMMA PublishInv == ASSUME Inv, NEW c \in Cells, Publish(c) PROVE Inv'
<1> USE DEF Inv, Publish, Goto
<1>1. TypeOK'
  BY TreeFacts, VolumeType DEF TypeOK
<1>2. Order'
  BY DEF TypeOK, Order
<1>3. Storage'
  BY TreeFacts, VolumeType, ZenonT(60) DEF TypeOK, Order, Storage
<1>4. HelpersAwaited'
  BY DEF TypeOK, HelpersAwaited
<1>5. Removed'
  BY TreeFacts, VolumeType, OwnVolume DEF TypeOK, Order, Removed, DirectoryIsRemoved, VolumeIsGone, VolumeIsRemoved, Prepared
<1> QED BY <1>1, <1>2, <1>3, <1>4, <1>5

LEMMA PublishFailsInv == ASSUME Inv, NEW c \in Cells, PublishFails(c) PROVE Inv'
<1> USE DEF Inv, PublishFails, Goto, CollectRaises, CellRaises, FirstOfCleanup
<1>1. TypeOK'
  BY TreeFacts, VolumeType DEF TypeOK
<1>2. Order'
  BY DEF TypeOK, Order
<1>3. Storage'
  BY TreeFacts, VolumeType DEF TypeOK, Order, Storage
<1>4. HelpersAwaited'
  BY DEF TypeOK, HelpersAwaited
<1>5. Removed'
  BY TreeFacts, VolumeType, OwnVolume, ZenonT(60) DEF TypeOK, Order, Removed, DirectoryIsRemoved, VolumeIsGone, VolumeIsRemoved, Prepared
<1> QED BY <1>1, <1>2, <1>3, <1>4, <1>5

LEMMA EvaluateInv == ASSUME Inv, NEW c \in Cells, Evaluate(c) PROVE Inv'
<1> USE DEF Inv, Evaluate, Goto, FirstOfCleanup
<1>1. TypeOK'
  BY TreeFacts, VolumeType DEF TypeOK
<1>2. Order'
  BY DEF TypeOK, Order
<1>3. Storage'
  BY TreeFacts, VolumeType DEF TypeOK, Order, Storage
<1>4. HelpersAwaited'
  BY DEF TypeOK, HelpersAwaited
<1>5. Removed'
  BY TreeFacts, VolumeType, OwnVolume DEF TypeOK, Order, Removed, DirectoryIsRemoved, VolumeIsGone, VolumeIsRemoved, Prepared
<1> QED BY <1>1, <1>2, <1>3, <1>4, <1>5

LEMMA WriteInv == ASSUME Inv, NEW c \in Cells, Write(c) PROVE Inv'
<1> USE DEF Inv, Write, Work, Touched
<1>1. /\ TypeOK'
      /\ \A d \in Cells : dir'[d] = NoTree <=> dir[d] = NoTree
      /\ \A v \in Volumes : vol'[v] = NoTree <=> vol[v] = NoTree
  <2>1. PICK f \in Files, x \in Contents :
            IF kind = "docker"
            THEN vol' = [vol EXCEPT ![VolumeOf(c)][f] = x] /\ dir' = dir
            ELSE dir' = [dir EXCEPT ![c][f] = x] /\ vol' = vol
    BY DEF Contents
  <2>2. CASE kind = "docker"
    <3>1. [vol[VolumeOf(c)] EXCEPT ![f] = x] \in Trees
      BY <2>2, VolumeType, ChangedType DEF TypeOK
    <3> QED BY <2>1, <2>2, <3>1, TreeFacts, VolumeType DEF TypeOK
  <2>3. CASE kind # "docker"
    <3>1. [dir[c] EXCEPT ![f] = x] \in Trees
      BY <2>3, ChangedType DEF TypeOK
    <3>2. dir' = [dir EXCEPT ![c] = [dir[c] EXCEPT ![f] = x]] /\ vol' = vol /\ dir[c] # NoTree
      BY <2>1, <2>3
    <3> QED BY <3>1, <3>2, TreeFacts DEF TypeOK
  <2> QED BY <2>2, <2>3
<1>2. Order'
  BY DEF TypeOK, Order
<1>3. Storage'
  BY <1>1, VolumeType DEF Storage
<1>4. HelpersAwaited'
  BY DEF TypeOK, HelpersAwaited
<1>5. Removed'
  BY <1>1, VolumeType DEF TypeOK, Removed, DirectoryIsRemoved, VolumeIsGone, VolumeIsRemoved, Prepared
<1> QED BY <1>1, <1>2, <1>3, <1>4, <1>5

LEMMA FinishInv == ASSUME Inv, NEW c \in Cells, Finish(c) PROVE Inv'
<1> USE DEF Inv, Finish, WithVolume
<1>1. TypeOK'
  BY TreeFacts, VolumeType DEF TypeOK
<1>2. Order'
  BY DEF TypeOK, Order
<1>3. Storage'
  BY TreeFacts, VolumeType, ZenonT(60) DEF TypeOK, Order, Storage
<1>4. HelpersAwaited'
  BY DEF TypeOK, HelpersAwaited
<1>5. Removed'
  <2>1. fate[c] = "cancelled"
    BY DEF TypeOK, Order
  <2>2. DirectoryIsRemoved'
    BY <2>1 DEF TypeOK, Removed, DirectoryIsRemoved, Prepared
  <2>3. ASSUME ~SharedVolume PROVE VolumeIsGone'
    <3>1. \A d \in Cells \ {c} : vol'[VolumeOf(d)] = vol[VolumeOf(d)]
      BY <2>3, OtherVolumes, TreeFacts
    <3> QED BY <2>1, <2>3, <3>1 DEF TypeOK, Removed, VolumeIsGone, VolumeIsRemoved, Prepared
  <2> QED BY <2>2, <2>3 DEF Removed
<1> QED BY <1>1, <1>2, <1>3, <1>4, <1>5

LEMMA RemoveVolumeInv == ASSUME Inv, NEW c \in Cells, RemoveVolume(c) PROVE Inv'
<1> USE DEF Inv, RemoveVolume, Goto, ThreadMoves, Held
<1>1. TypeOK'
  BY TreeFacts, VolumeType DEF TypeOK
<1>2. Order'
  BY ZenonT(60) DEF TypeOK, Order
<1>3. Storage'
  <2>1. \A d \in Cells, s \in Copying : at'[d] = s \/ <<d, s>> \in abandoned' =>
            /\ at[d] = s \/ <<d, s>> \in abandoned
            /\ d \in helpers /\ vol[VolumeOf(d)] # NoTree
    BY DEF TypeOK, Storage
  <2>2. \A d \in helpers : vol'[VolumeOf(d)] = vol[VolumeOf(d)]
    BY VolumeType DEF TypeOK
  <2>3. \A d \in Cells : at'[d] \in NeedsDirectory \cup {"seed", "compare", "walk"} \cup Extracting => at'[d] = at[d]
    BY DEF TypeOK
  <2>4. \A d \in Cells, s \in Populating \cup {"seed"} : <<d, s>> \in abandoned' => <<d, s>> \in abandoned
    BY DEF TypeOK
  <2> QED BY <2>1, <2>2, <2>3, <2>4 DEF Storage
<1>4. HelpersAwaited'
  BY DEF TypeOK, HelpersAwaited
<1>5. Removed'
  <2>1. DirectoryIsRemoved'
    BY DEF TypeOK, Order, Removed, DirectoryIsRemoved, Prepared
  <2>2. ASSUME ~SharedVolume PROVE VolumeIsGone'
    <3>1. \A d \in Cells \ {c} : vol'[VolumeOf(d)] = vol[VolumeOf(d)]
      BY <2>2, OtherVolumes, TreeFacts
    <3>2. fate[c] # "cancelled" /\ c \notin trouble => ~Held(c)
      BY <2>2, OwnVolume DEF TypeOK, Order, HelpersAwaited
    <3>3. fate[c] # "cancelled" /\ c \notin trouble' => vol'[VolumeOf(c)] = NoTree
      BY <3>2, VolumeType DEF TypeOK
    <3> QED BY <2>2, <3>1, <3>3 DEF TypeOK, Removed, VolumeIsGone, VolumeIsRemoved, Prepared
  <2> QED BY <2>1, <2>2 DEF Removed
<1> QED BY <1>1, <1>2, <1>3, <1>4, <1>5

LEMMA RemoveTreeInv == ASSUME Inv, NEW c \in Cells, RemoveTree(c) PROVE Inv'
<1> USE DEF Inv, RemoveTree, Goto, ThreadMoves
<1>1. TypeOK'
  BY TreeFacts, VolumeType DEF TypeOK
<1>2. Order'
  BY ZenonT(60) DEF TypeOK, Order
<1>3. Storage'
  <2>1. at'[c] \notin NeedsDirectory \cup {"compare"} /\ (\A s \in Populating : <<c, s>> \notin abandoned')
    BY ZenonT(60) DEF TypeOK, Order
  <2>2. \A d \in Cells \ {c} : dir'[d] = dir[d] /\ at'[d] = at[d] /\ \A s \in Threads : <<d, s>> \in abandoned' => <<d, s>> \in abandoned
    BY DEF TypeOK
  <2>3. at'[c] # "seed" /\ \A s \in Threads : <<c, s>> \in abandoned' /\ s # "removeTree" => <<c, s>> \in abandoned
    BY DEF TypeOK, Order
  <2> QED BY <2>1, <2>2, <2>3, ZenonT(60) DEF Storage
<1>4. HelpersAwaited'
  BY DEF TypeOK, HelpersAwaited
<1>5. Removed'
  BY TreeFacts, VolumeType, OwnVolume, ZenonT(60) DEF TypeOK, Order, Removed, DirectoryIsRemoved, VolumeIsGone, VolumeIsRemoved, Prepared
<1> QED BY <1>1, <1>2, <1>3, <1>4, <1>5

-----------------------------------------------------------------------------
(* The helper container, its thread awaited or abandoned.                    *)

HelperSteps ==
    {<<"populateStart", "populateCopy", "populateCopy">>, <<"populateCopy", "populateStop", "populateStop">>,
     <<"populateStop", "end", "snapshot">>,
     <<"extractStart", "extractCopy", "extractCopy">>, <<"extractCopy", "extractStop", "extractStop">>,
     <<"extractStop", "end", "walk">>}

\* The cell goes on with its thread and has no other, or the thread that a
\* cancelled cell left goes on and the cell stays where it is.
LEMMA ThreadStep ==
    ASSUME TypeOK, Order, NEW c \in Cells, NEW s, NEW t, NEW next, <<s, t, next>> \in HelperSteps,
           ThreadMoves(c, s, t, next)
    PROVE  \/ /\ at[c] = s /\ at' = [at EXCEPT ![c] = next] /\ abandoned' = abandoned
              /\ \A u \in Threads : <<c, u>> \notin abandoned
           \/ /\ <<c, s>> \in abandoned /\ at' = at
              /\ fate[c] = "cancelled" /\ at[c] \in Cleaning \cup {"ended"}
              /\ s \notin Collecting => at[c] = "ended"
              /\ \A d \in Cells \ {c}, u \in Threads : <<d, u>> \in abandoned' <=> <<d, u>> \in abandoned
              /\ \A u \in Threads : <<c, u>> \in abandoned' <=> u = t
<1>1. s \in Threads /\ s \notin Cleaning /\ (t # "end" => t = next) /\ s # t
  BY DEF HelperSteps
<1>2. CASE at[c] = s /\ abandoned' = abandoned
  BY <1>1, <1>2 DEF ThreadMoves, Goto, Order
<1>3. CASE <<c, s>> \in abandoned /\ at' = at
  <2>1. \A u \in Threads : <<c, u>> \in abandoned => u = s
    BY <1>1, <1>3 DEF Order
  <2>2. abandoned' = (abandoned \ {<<c, s>>}) \cup (IF t = "end" THEN {} ELSE {<<c, t>>})
    BY <1>3, <1>1 DEF ThreadMoves, Goto, TypeOK, Order
  <2> QED BY <1>1, <1>3, <2>1, <2>2 DEF Order
<1> QED BY <1>2, <1>3 DEF ThreadMoves

LEMMA ThreadOrder ==
    ASSUME TypeOK, Order, NEW c \in Cells, NEW s, NEW t, NEW next, <<s, t, next>> \in HelperSteps,
           ThreadMoves(c, s, t, next), fate' = fate, system' = system
    PROVE  Order'
<1>1. /\ s \in Populating \cup Extracting
      /\ next \in Populating \cup Extracting \cup {"snapshot", "walk"}
      /\ s \in Populating <=> next \in Populating \cup {"snapshot"}
      /\ t \in Threads => (t \in Populating <=> s \in Populating) /\ t \in Populating \cup Extracting
  BY DEF HelperSteps
<1>2. CASE /\ at[c] = s /\ at' = [at EXCEPT ![c] = next] /\ abandoned' = abandoned
           /\ \A u \in Threads : <<c, u>> \notin abandoned
  <2>1. \A d \in Cells \ {c} : at'[d] = at[d]
    BY <1>2 DEF TypeOK
  <2>2. at'[c] = next
    BY <1>2 DEF TypeOK
  <2> QED BY <1>1, <1>2, <2>1, <2>2, ZenonT(60) DEF Order
<1>3. CASE /\ <<c, s>> \in abandoned /\ at' = at
           /\ fate[c] = "cancelled" /\ at[c] \in Cleaning \cup {"ended"}
           /\ s \notin Collecting => at[c] = "ended"
           /\ \A d \in Cells \ {c}, u \in Threads : <<d, u>> \in abandoned' <=> <<d, u>> \in abandoned
           /\ \A u \in Threads : <<c, u>> \in abandoned' <=> u = t
  <2>1. \A u \in Threads : <<c, u>> \in abandoned' => (u \notin Collecting => s \notin Collecting)
    BY <1>1, <1>3
  <2> QED BY <1>3, <2>1, ZenonT(60) DEF Order
<1> QED BY <1>2, <1>3, ThreadStep

LEMMA ThreadStorage ==
    ASSUME TypeOK, Order, Storage, NEW c \in Cells, NEW s, NEW t, NEW next, <<s, t, next>> \in HelperSteps,
           ThreadMoves(c, s, t, next), kind' = kind, source' = source, dir' = dir, artifact' = artifact,
           \A d \in Cells : extracted[d] # NoTree => extracted'[d] # NoTree,
           t \in Copying => c \in helpers' /\ vol'[VolumeOf(c)] # NoTree,
           \A d \in Cells \ {c} : /\ d \in helpers => d \in helpers'
                                  /\ vol[VolumeOf(d)] # NoTree => vol'[VolumeOf(d)] # NoTree
    PROVE  Storage'
<1>1. /\ s \in Populating \cup Extracting /\ s \in Threads
      /\ next \in Populating \cup Extracting \cup {"snapshot", "walk"}
      /\ next \in Extracting \cup {"walk"} => s \in Extracting
      /\ t \in Threads => t \in Populating \cup Extracting /\ (t \in Populating <=> s \in Populating)
      /\ next \in Copying => t = next
  BY DEF HelperSteps
<1>2. CASE /\ at[c] = s /\ at' = [at EXCEPT ![c] = next] /\ abandoned' = abandoned
           /\ \A u \in Threads : <<c, u>> \notin abandoned
  <2>1. (\A d \in Cells \ {c} : at'[d] = at[d]) /\ at'[c] = next
    BY <1>2 DEF TypeOK
  <2>2. dir[c] # NoTree /\ (kind = "docker" /\ s \in Extracting => extracted[c] # NoTree)
    BY <1>1, <1>2 DEF Storage
  <2> QED BY <1>1, <1>2, <2>1, <2>2, ZenonT(60) DEF Storage
<1>3. CASE /\ <<c, s>> \in abandoned /\ at' = at
           /\ at[c] \in Cleaning \cup {"ended"}
           /\ \A d \in Cells \ {c}, u \in Threads : <<d, u>> \in abandoned' <=> <<d, u>> \in abandoned
           /\ \A u \in Threads : <<c, u>> \in abandoned' <=> u = t
  <2>1. s \in Populating => dir[c] # NoTree
    BY <1>3 DEF Storage
  <2>2. \A u \in Threads : <<c, u>> \in abandoned' => u = t /\ u # "seed" /\ (u \in Populating => dir[c] # NoTree)
    BY <1>1, <1>3, <2>1
  <2>3. \A d \in Cells : at'[d] = at[d] /\ dir'[d] = dir[d]
    BY <1>3
  <2>4. at'[c] \notin NeedsDirectory \cup Copying \cup Extracting \cup {"seed", "walk", "compare"}
    BY <1>3
  <2> QED BY <1>3, <2>2, <2>3, <2>4, ZenonT(60) DEF Storage
<1> QED BY <1>2, <1>3, ThreadStep

LEMMA CopiedType ==
    ASSUME TypeOK, NEW c \in Cells, dir[c] \in Trees, vol[VolumeOf(c)] \in Trees
    PROVE  CopiedIn(c)[VolumeOf(c)] \in Trees /\ \E t \in Trees : CopiedIn(c) = [vol EXCEPT ![VolumeOf(c)] = t]
<1> DEFINE t == [f \in Files |-> IF dir[c][f] = "absent" THEN vol[VolumeOf(c)][f] ELSE dir[c][f]]
<1>1. t \in Trees
  BY DEF Trees
<1>2. CopiedIn(c) = [vol EXCEPT ![VolumeOf(c)] = t]
  BY DEF CopiedIn
<1> QED BY <1>1, <1>2, VolumeType DEF TypeOK

LEMMA StartHelperInv ==
    ASSUME Inv, NEW c \in Cells, NEW s, NEW t,
           <<s, t>> \in {<<"populateStart", "populateCopy">>, <<"extractStart", "extractCopy">>},
           StartHelper(c, s, t)
    PROVE  Inv'
<1> USE DEF Inv, StartHelper, ThreadMoves, Goto, WithVolume
<1>1. TypeOK'
  BY TreeFacts, VolumeType DEF TypeOK
<1>2. Order'
  BY ThreadOrder DEF HelperSteps
<1>3. Storage'
  <2>1. \A d \in Cells : /\ d # c /\ d \in helpers => d \in helpers'
                         /\ vol[VolumeOf(d)] # NoTree => vol'[VolumeOf(d)] # NoTree
    BY VolumeType, TreeFacts DEF TypeOK
  <2>2. \A d \in Cells : extracted[d] # NoTree => extracted'[d] # NoTree
    BY VolumeType DEF TypeOK, Storage
  <2>3. c \in helpers' /\ vol'[VolumeOf(c)] # NoTree
    BY VolumeType, TreeFacts DEF TypeOK, Storage
  <2> QED BY <2>1, <2>2, <2>3, ThreadStorage DEF HelperSteps
<1>4. HelpersAwaited'
  BY ZenonT(60) DEF TypeOK, HelpersAwaited
<1>5. Removed'
  <2>1. DirectoryIsRemoved'
    BY ZenonT(60) DEF TypeOK, Order, Removed, DirectoryIsRemoved, Prepared
  <2>2. ASSUME ~SharedVolume PROVE VolumeIsGone'
    <3>1. \A d \in Cells \ {c} : vol'[VolumeOf(d)] = vol[VolumeOf(d)]
      BY <2>2, OtherVolumes, TreeFacts
    <3>2. \A d \in Cells \ {c} : at'[d] = at[d]
      BY DEF TypeOK
    <3>3. fate'[c] # "cancelled" => at'[c] \notin {"removeTree", "ended"}
      BY DEF TypeOK, Order
    <3>4. VolumeIsGone
      BY <2>2 DEF Removed
    <3> QED BY <3>1, <3>2, <3>3, <3>4 DEF VolumeIsGone, VolumeIsRemoved, Prepared
  <2> QED BY <2>1, <2>2 DEF Removed
<1> QED BY <1>1, <1>2, <1>3, <1>4, <1>5

LEMMA StartHelperFailsInv ==
    ASSUME Inv, NEW c \in Cells, NEW s \in {"populateStart", "extractStart"},
           StartHelperFails(c, s)
    PROVE  Inv'
<1> USE DEF Inv, StartHelperFails, PrepareRaises, CollectRaises, CellRaises, FirstOfCleanup, Goto, WithVolume
<1>1. TypeOK'
  BY TreeFacts, VolumeType DEF TypeOK
<1>2. Order'
  <2>1. CASE at[c] = s
    <3>1. at'[c] \in Cleaning \cup {"ended"} /\ fate'[c] = "raised" /\ \A u \in Threads : <<c, u>> \notin abandoned'
      BY <2>1, ZenonT(60) DEF TypeOK, Order
    <3>2. \A d \in Cells \ {c} : at'[d] = at[d] /\ fate'[d] = fate[d] /\ \A u \in Threads : <<d, u>> \in abandoned' <=> <<d, u>> \in abandoned
      BY <2>1, ZenonT(60) DEF TypeOK, Order
    <3> QED BY <2>1, <3>1, <3>2, ZenonT(60) DEF Order
  <2>2. CASE at[c] # s
    BY <2>2, ZenonT(60) DEF TypeOK, Order
  <2> QED BY <2>1, <2>2
<1>3. Storage'
  <2>1. /\ \A d \in Cells \ {c} : at'[d] = at[d] /\ extracted'[d] = extracted[d]
        /\ at'[c] \in Cleaning \cup {"ended"}
        /\ \A u \in Threads : <<c, u>> \notin abandoned'
        /\ \A d \in Cells \ {c}, u \in Threads : <<d, u>> \in abandoned' <=> <<d, u>> \in abandoned
    BY ZenonT(60) DEF TypeOK, Order
  <2>2. \A d \in Cells \ {c} : /\ d \in helpers => d \in helpers'
                               /\ vol[VolumeOf(d)] # NoTree => vol'[VolumeOf(d)] # NoTree
    BY VolumeType, TreeFacts DEF TypeOK
  <2> QED BY <2>1, <2>2, ZenonT(60) DEF Storage
<1>4. HelpersAwaited'
  BY DEF TypeOK, HelpersAwaited
<1>5. Removed'
  <2>1. DirectoryIsRemoved'
    BY ZenonT(60) DEF TypeOK, Order, Removed, DirectoryIsRemoved, Prepared
  <2>2. ASSUME ~SharedVolume PROVE VolumeIsGone'
    <3>1. \A d \in Cells \ {c} : vol'[VolumeOf(d)] = vol[VolumeOf(d)]
      BY <2>2, OtherVolumes, TreeFacts
    <3>2. \A d \in Cells \ {c} : at'[d] = at[d]
      BY DEF TypeOK
    <3>3. c \in trouble' /\ \A d \in Cells \ {c} : fate'[d] = fate[d]
      BY DEF TypeOK
    <3>4. VolumeIsGone
      BY <2>2 DEF Removed
    <3> QED BY <3>1, <3>2, <3>3, <3>4 DEF VolumeIsGone, VolumeIsRemoved, Prepared
  <2> QED BY <2>1, <2>2 DEF Removed
<1> QED BY <1>1, <1>2, <1>3, <1>4, <1>5

LEMMA PopulateCopyInv ==
    ASSUME Inv, NEW c \in Cells,
           PopulateCopy(c)
    PROVE  Inv'
<1> USE DEF Inv, PopulateCopy, ThreadMoves, Goto
<1>0. /\ dir[c] \in Trees /\ vol[VolumeOf(c)] \in Trees /\ vol'[VolumeOf(c)] \in Trees
      /\ \E t \in Trees : vol' = [vol EXCEPT ![VolumeOf(c)] = t]
  <2>1. dir[c] \in Trees /\ vol[VolumeOf(c)] \in Trees
    BY VolumeType DEF TypeOK, Storage
  <2> QED BY <2>1, CopiedType
<1>1. TypeOK'
  BY <1>0, VolumeType DEF TypeOK
<1>2. Order'
  BY ThreadOrder DEF HelperSteps
<1>3. Storage'
  <2>1. \A d \in Cells : /\ d # c /\ d \in helpers => d \in helpers'
                         /\ vol[VolumeOf(d)] # NoTree => vol'[VolumeOf(d)] # NoTree
    BY VolumeType, TreeFacts, <1>0 DEF TypeOK
  <2>2. \A d \in Cells : extracted[d] # NoTree => extracted'[d] # NoTree
    BY VolumeType DEF TypeOK, Storage
  <2> QED BY <2>1, <2>2, ThreadStorage DEF HelperSteps
<1>4. HelpersAwaited'
  BY DEF TypeOK, HelpersAwaited
<1>5. Removed'
  <2>1. DirectoryIsRemoved'
    BY DEF TypeOK, Order, Removed, DirectoryIsRemoved, Prepared
  <2>2. ASSUME ~SharedVolume PROVE VolumeIsGone'
    <3>1. \A d \in Cells \ {c} : vol'[VolumeOf(d)] = vol[VolumeOf(d)]
      BY <2>2, OtherVolumes, TreeFacts, <1>0
    <3>2. \A d \in Cells \ {c} : at'[d] = at[d]
      BY DEF TypeOK
    <3>3. fate'[c] # "cancelled" => at'[c] \notin {"removeTree", "ended"}
      BY DEF TypeOK, Order
    <3>4. VolumeIsGone
      BY <2>2 DEF Removed
    <3> QED BY <3>1, <3>2, <3>3, <3>4 DEF VolumeIsGone, VolumeIsRemoved, Prepared
  <2> QED BY <2>1, <2>2 DEF Removed
<1> QED BY <1>1, <1>2, <1>3, <1>4, <1>5

LEMMA ExtractCopyInv ==
    ASSUME Inv, NEW c \in Cells,
           ExtractCopy(c)
    PROVE  Inv'
<1> USE DEF Inv, ExtractCopy, ThreadMoves, Goto
<1>1. TypeOK'
  BY TreeFacts, VolumeType DEF TypeOK
<1>2. Order'
  BY ThreadOrder DEF HelperSteps
<1>3. Storage'
  <2>1. \A d \in Cells : /\ d # c /\ d \in helpers => d \in helpers'
                         /\ vol[VolumeOf(d)] # NoTree => vol'[VolumeOf(d)] # NoTree
    BY VolumeType, TreeFacts DEF TypeOK
  <2>2. \A d \in Cells : extracted[d] # NoTree => extracted'[d] # NoTree
    BY VolumeType DEF TypeOK, Storage
  <2> QED BY <2>1, <2>2, ThreadStorage DEF HelperSteps
<1>4. HelpersAwaited'
  BY DEF TypeOK, HelpersAwaited
<1>5. Removed'
  <2>1. DirectoryIsRemoved'
    BY DEF TypeOK, Order, Removed, DirectoryIsRemoved, Prepared
  <2>2. ASSUME ~SharedVolume PROVE VolumeIsGone'
    <3>1. \A d \in Cells \ {c} : vol'[VolumeOf(d)] = vol[VolumeOf(d)]
      BY <2>2, OtherVolumes, TreeFacts
    <3> QED BY <2>2, <3>1, ZenonT(60) DEF TypeOK, Order, Removed, VolumeIsGone, VolumeIsRemoved, Prepared
  <2> QED BY <2>1, <2>2 DEF Removed
<1> QED BY <1>1, <1>2, <1>3, <1>4, <1>5

LEMMA CopyFailsInv ==
    ASSUME Inv, NEW c \in Cells, NEW s \in Copying,
           CopyFails(c, s)
    PROVE  Inv'
<1> USE DEF Inv, CopyFails, PrepareRaises, CollectRaises, CellRaises, FirstOfCleanup, Goto
<1>1. TypeOK'
  BY TreeFacts, VolumeType DEF TypeOK
<1>2. Order'
  <2>1. CASE at[c] = s
    <3>1. at'[c] \in Cleaning \cup {"ended"} /\ fate'[c] = "raised" /\ \A u \in Threads : <<c, u>> \notin abandoned'
      BY <2>1, ZenonT(60) DEF TypeOK, Order
    <3>2. \A d \in Cells \ {c} : at'[d] = at[d] /\ fate'[d] = fate[d] /\ \A u \in Threads : <<d, u>> \in abandoned' <=> <<d, u>> \in abandoned
      BY <2>1, ZenonT(60) DEF TypeOK, Order
    <3> QED BY <2>1, <3>1, <3>2, ZenonT(60) DEF Order
  <2>2. CASE at[c] # s
    BY <2>2, ZenonT(60) DEF TypeOK, Order
  <2> QED BY <2>1, <2>2
<1>3. Storage'
  <2>1. /\ \A d \in Cells \ {c} : at'[d] = at[d] /\ extracted'[d] = extracted[d]
        /\ at'[c] \in Cleaning \cup {"ended"}
        /\ \A u \in Threads : <<c, u>> \notin abandoned'
        /\ \A d \in Cells \ {c}, u \in Threads : <<d, u>> \in abandoned' <=> <<d, u>> \in abandoned
    BY ZenonT(60) DEF TypeOK, Order
  <2>2. \A d \in Cells \ {c} : /\ d \in helpers => d \in helpers'
                               /\ vol[VolumeOf(d)] # NoTree => vol'[VolumeOf(d)] # NoTree
    BY VolumeType, TreeFacts DEF TypeOK
  <2> QED BY <2>1, <2>2, ZenonT(60) DEF Storage
<1>4. HelpersAwaited'
  BY DEF TypeOK, HelpersAwaited
<1>5. Removed'
  <2>1. DirectoryIsRemoved'
    BY ZenonT(60) DEF TypeOK, Order, Removed, DirectoryIsRemoved, Prepared
  <2>2. ASSUME ~SharedVolume PROVE VolumeIsGone'
    <3>1. \A d \in Cells \ {c} : vol'[VolumeOf(d)] = vol[VolumeOf(d)]
      BY <2>2, OtherVolumes, TreeFacts
    <3>2. \A d \in Cells \ {c} : at'[d] = at[d]
      BY DEF TypeOK
    <3>3. c \in trouble' /\ \A d \in Cells \ {c} : fate'[d] = fate[d]
      BY DEF TypeOK
    <3>4. VolumeIsGone
      BY <2>2 DEF Removed
    <3> QED BY <3>1, <3>2, <3>3, <3>4 DEF VolumeIsGone, VolumeIsRemoved, Prepared
  <2> QED BY <2>1, <2>2 DEF Removed
<1> QED BY <1>1, <1>2, <1>3, <1>4, <1>5

LEMMA StopHelperInv ==
    ASSUME Inv, NEW c \in Cells, NEW s, NEW next,
           <<s, next>> \in {<<"populateStop", "snapshot">>, <<"extractStop", "walk">>},
           StopHelper(c, s, next)
    PROVE  Inv'
<1> USE DEF Inv, StopHelper, ThreadMoves, Goto
<1>1. TypeOK'
  BY TreeFacts, VolumeType DEF TypeOK
<1>2. Order'
  BY ThreadOrder DEF HelperSteps
<1>3. Storage'
  <2>1. \A d \in Cells : /\ d # c /\ d \in helpers => d \in helpers'
                         /\ vol[VolumeOf(d)] # NoTree => vol'[VolumeOf(d)] # NoTree
    BY VolumeType, TreeFacts DEF TypeOK
  <2>2. \A d \in Cells : extracted[d] # NoTree => extracted'[d] # NoTree
    BY VolumeType DEF TypeOK, Storage
  <2> QED BY <2>1, <2>2, ThreadStorage DEF HelperSteps
<1>4. HelpersAwaited'
  BY DEF TypeOK, HelpersAwaited
<1>5. Removed'
  <2>1. DirectoryIsRemoved'
    BY ZenonT(60) DEF TypeOK, Order, Removed, DirectoryIsRemoved, Prepared
  <2>2. ASSUME ~SharedVolume PROVE VolumeIsGone'
    <3>1. \A d \in Cells \ {c} : vol'[VolumeOf(d)] = vol[VolumeOf(d)]
      BY <2>2, OtherVolumes, TreeFacts
    <3> QED BY <2>2, <3>1, ZenonT(60) DEF TypeOK, Order, Removed, VolumeIsGone, VolumeIsRemoved, Prepared
  <2> QED BY <2>1, <2>2 DEF Removed
<1> QED BY <1>1, <1>2, <1>3, <1>4, <1>5

LEMMA CancelCellsInv == Inv /\ CancelCells => Inv'
<1> SUFFICES ASSUME Inv, CancelCells PROVE Inv'
  OBVIOUS
<1> USE DEF Inv, CancelCells, Live, AfterCancel, FirstOfCleanup, Stopped
<1>0. abandoned = {}
  <2>1. \A c \in Cells, u \in Threads : <<c, u>> \notin abandoned
    BY DEF Order
  <2>2. abandoned \subseteq Cells \X Threads
    BY DEF TypeOK
  <2>3. ASSUME NEW x \in abandoned PROVE FALSE
    <3>1. \E c \in Cells, u \in Threads : x = <<c, u>>
      BY <2>2
    <3> QED BY <2>1, <3>1
  <2> QED BY <2>3
<1>1. TypeOK'
  BY DEF TypeOK
<1>2. Order'
  <2>1. \A c \in Cells, s \in Threads : <<c, s>> \in abandoned' => c \in Live /\ s = at[c]
    BY <1>0
  <2>2. ASSUME NEW c \in Live
        PROVE  /\ at'[c] \in Cleaning \cup {"ended"} /\ fate'[c] = "cancelled"
               /\ at[c] \in Threads \ Collecting => at'[c] = "ended"
               /\ system'[c] # "running"
    BY DEF TypeOK, Order
  <2>3. ASSUME NEW c \in Cells \ Live
        PROVE  at'[c] = at[c] /\ fate'[c] = fate[c] /\ system'[c] = system[c]
    BY DEF TypeOK
  <2>4. \A c \in Live : at'[c] \notin Preparing \cup {"waiting"}
    BY <2>2
  <2>5. \A c \in Cells, s, t \in Threads :
            <<c, s>> \in abandoned' /\ <<c, t>> \in abandoned' => s = t
    <3>1. ASSUME NEW c \in Cells, NEW s \in Threads, <<c, s>> \in abandoned' PROVE s = at[c]
      BY <2>1, <3>1
    <3> QED BY <3>1
  <2>6. \A c \in Cells \ Live : at'[c] = "ended" /\ system'[c] # "running"
    BY <2>3 DEF Order
  <2> HIDE DEF CancelCells, AfterCancel, FirstOfCleanup, Stopped, Live
  <2>7. ASSUME NEW c \in Live, c \in Cells
        PROVE  /\ at'[c] \notin Cleaning \cup {"ended"} => fate'[c] = "ok"
               /\ \A s \in Threads : <<c, s>> \in abandoned' =>
                      /\ fate'[c] = "cancelled" /\ at'[c] \in Cleaning \cup {"ended"}
                      /\ s \notin Collecting => at'[c] = "ended"
               /\ at'[c] \in Preparing \cup {"waiting"} => system'[c] = "none"
               /\ system'[c] = "running" => at'[c] = "run"
    BY <2>1, <2>2, <2>4, <2>7
  <2>8. ASSUME NEW c \in Cells \ Live
        PROVE  /\ at'[c] \notin Cleaning \cup {"ended"} => fate'[c] = "ok"
               /\ \A s \in Threads : <<c, s>> \notin abandoned'
               /\ at'[c] \in Preparing \cup {"waiting"} => system'[c] = "none"
               /\ system'[c] = "running" => at'[c] = "run"
    BY <2>1, <2>6 DEF Preparing, Populating
  <2> QED BY <2>5, <2>7, <2>8 DEF Order
<1>3. Storage'
  BY <1>0 DEF TypeOK, Storage
<1>4. HelpersAwaited'
  BY <1>0 DEF TypeOK, HelpersAwaited
<1>5. Removed'
  BY DEF TypeOK, Order, Removed, DirectoryIsRemoved, VolumeIsGone, VolumeIsRemoved, Prepared
<1> QED BY <1>1, <1>2, <1>3, <1>4, <1>5

LEMMA StepInv == Inv /\ [Next]_vars => Inv'
<1> SUFFICES ASSUME Inv, [Next]_vars PROVE Inv'
  OBVIOUS
<1>1. ASSUME NEW c \in Cells, Progress(c) PROVE Inv'
  <2>1. CASE Helper(c)
    <3>1. CASE \E st \in {<<"populateStart", "populateCopy">>, <<"extractStart", "extractCopy">>} : StartHelper(c, st[1], st[2])
      BY <3>1, StartHelperInv
    <3>2. CASE \E s \in {"populateStart", "extractStart"} : StartHelperFails(c, s)
      BY <3>2, StartHelperFailsInv
    <3>3. CASE \E s \in Copying : CopyFails(c, s)
      BY <3>3, CopyFailsInv
    <3>4. CASE \E sn \in {<<"populateStop", "snapshot">>, <<"extractStop", "walk">>} : StopHelper(c, sn[1], sn[2])
      BY <3>4, StopHelperInv
    <3> QED BY <2>1, <3>1, <3>2, <3>3, <3>4, PopulateCopyInv, ExtractCopyInv DEF Helper
  <2>2. CASE ~Helper(c)
    BY <1>1, <2>2, BeginInv, CreateInv, CreateFailsInv, SeedInv, PrepareFailsInv, OpenRepoInv,
       OpenRepoFailsInv, SnapshotInv, TimedOutInv, RecordInv, StoreFailsInv, WalkInv, WalkFailsInv,
       CompareInv, CompareFailsInv, PublishInv, PublishFailsInv, EvaluateInv, RemoveVolumeInv,
       RemoveTreeInv, FinishInv DEF Progress
  <2> QED BY <2>1, <2>2
<1>2. CASE UNCHANGED vars
  BY <1>2, ZenonT(60) DEF vars, Inv, TypeOK, Order, Storage, HelpersAwaited, Removed, DirectoryIsRemoved,
              VolumeIsGone, VolumeIsRemoved, Prepared
<1> QED BY <1>1, <1>2, WriteInv, SystemReturnsInv, LateSystemEndsInv, CancelCellsInv DEF Next, Over

-----------------------------------------------------------------------------

\* What the theorems below rest on: every reachable state satisfies Inv.
THEOREM InvInvariant == Spec => []Inv
<1> QED BY StartInv, StepInv, PTL DEF Spec

\* Type correctness of the workspaces: what is on disk, and in a manifest or an
\* artifact, is always a tree when it is read.
THEOREM TypeInvariant == Spec => []TypeOK
<1>1. Inv => TypeOK
  BY DEF Inv
<1> QED BY <1>1, InvInvariant, PTL

\* A cell that was not cancelled leaves no directory: the `finally` of _run_one
\* and cleanup of the three adapters, whatever fails in between.
THEOREM DirectoryInvariant == Spec => []DirectoryIsRemoved
<1>1. Inv => DirectoryIsRemoved
  BY DEF Inv, Removed
<1> QED BY <1>1, InvInvariant, PTL

\* Nor a volume, if the cells name volumes of their own and its docker commands
\* succeeded: no helper holds the volume when cleanup of docker_volume runs.
THEOREM VolumeInvariant == ASSUME ~SharedVolume PROVE Spec => []VolumeIsRemoved
<1>1. Inv => VolumeIsRemoved
  BY DEF Inv, Removed, VolumeIsGone
<1> QED BY <1>1, InvInvariant, PTL

\* No helper container of _start_helper outlives the thread that started it,
\* also when the cell stopped awaiting that thread.
THEOREM HelpersInvariant == Spec => []HelpersAreRemoved
<1>1. Inv => HelpersAreRemoved
  BY DEF Inv, HelpersAwaited, HelpersAreRemoved
<1> QED BY <1>1, InvInvariant, PTL

\* The three together: with volumes of their own, cells leave nothing behind.
THEOREM NothingInvariant == ASSUME ~SharedVolume PROVE Spec => []NothingIsLeft
<1>1. Inv => NothingIsLeft
  BY DEF Inv, Removed, VolumeIsGone, HelpersAwaited, NothingIsLeft, HelpersAreRemoved
<1> QED BY <1>1, InvInvariant, PTL

-----------------------------------------------------------------------------
(* Whose work an artifact shows.                                             *)

\* What the fixture puts into the directory or the volume of a cell.
Fix == IF source = NoTree THEN EmptyTree ELSE source

\* The cells that may have written the volume a cell names.
Mates(c) == IF SharedVolume THEN Cells ELSE {c}

VolumesOwn ==
    \A c \in Cells : vol[VolumeOf(c)] # NoTree =>
        \A f \in Files : vol[VolumeOf(c)][f] \in {Fix[f], "absent"} \cup Mates(c)

OnHost(c) == dir[c] # NoTree => \A f \in Files : dir[c][f] \in {Fix[f], "absent", c}

Extracted(c) ==
    extracted[c] # NoTree => \A f \in Files : extracted[c][f] \in {Fix[f], "absent"} \cup Mates(c)

\* What prepare saw is the fixture: no system works before the manifest is made.
Seen(c) ==
    /\ at[c] \in Populating \cup {"openRepo", "snapshot"} => dir[c] = Fix
    /\ at[c] \in {"run", "record", "evaluate"} \cup Collecting => before[c] = Fix

\* A system that is over writes no more between the walk and `git diff`.
Collected(c) ==
    /\ at[c] \in {"compare", "publish", "evaluate"} =>
          /\ artifact[c].before = before[c]
          /\ \A f \in Files : artifact[c].after[f] \in {Fix[f], "absent"} \cup Sharers(c)
    /\ at[c] = "compare" /\ kind = "git" /\ system[c] = "over" => artifact[c].after = dir[c]
    /\ at[c] \in {"publish", "evaluate"} /\ system[c] = "over" =>
          artifact[c].diff = {f \in Visible(c) : artifact[c].after[f] # Compared(c)[f]}

OwnWork(c) == OnHost(c) /\ Extracted(c) /\ Seen(c) /\ Collected(c)
OwnWorks == VolumesOwn /\ \A c \in Cells : OwnWork(c)

\* A cell of which nothing that matters here changes.
Apart(c) ==
    /\ at'[c] = at[c] /\ dir'[c] = dir[c] /\ repo'[c] = repo[c] /\ extracted'[c] = extracted[c]
    /\ before'[c] = before[c] /\ artifact'[c] = artifact[c] /\ system'[c] = system[c]

LEMMA SameVolume ==
    ASSUME UNCHANGED plan PROVE Fix' = Fix /\ \A c \in Cells : Sharers(c)' = Sharers(c)
  BY DEF Fix, Sharers

LEMMA ApartKeeps ==
    ASSUME NEW c \in Cells, OwnWork(c), Apart(c), UNCHANGED plan PROVE OwnWork(c)'
<1>1. Visible(c)' = Visible(c) /\ Compared(c)' = Compared(c)
  BY DEF Visible, Compared, Apart
<1>2. OnHost(c)' /\ Extracted(c)' /\ Seen(c)'
  BY SameVolume DEF OwnWork, OnHost, Extracted, Seen, Apart, Mates
<1>3. Collected(c)'
  BY <1>1, SameVolume DEF OwnWork, Collected, Apart
<1> QED BY <1>2, <1>3 DEF OwnWork

\* The steps of another cell change nothing that matters here, but for the volume.
LEMMA OthersApart ==
    ASSUME Inv, NEW c \in Cells, NEW d \in Cells \ {c},
           Progress(c) \/ Write(c) \/ SystemReturns(c) \/ LateSystemEnds(c)
    PROVE  Apart(d)
<1> USE DEF Inv, TypeOK, Apart, Goto
<1>1. CASE Begin(c) \/ Create(c) \/ CreateFails(c) \/ Seed(c) \/ PrepareFails(c) \/ OpenRepo(c) \/ OpenRepoFails(c)
  BY <1>1 DEF Begin, Create, CreateFails, Seed, PrepareFails, OpenRepo, OpenRepoFails, PrepareRaises
<1>2. CASE Snapshot(c) \/ TimedOut(c) \/ Record(c) \/ StoreFails(c) \/ SystemReturns(c) \/ LateSystemEnds(c)
  BY <1>2 DEF Snapshot, TimedOut, Record, StoreFails, SystemReturns, LateSystemEnds, CellRaises
<1>3. CASE Walk(c) \/ WalkFails(c) \/ Compare(c) \/ CompareFails(c) \/ Publish(c) \/ PublishFails(c) \/ Evaluate(c)
  BY <1>3 DEF Walk, WalkFails, Compare, CompareFails, Publish, PublishFails, Evaluate, CellRaises, CollectRaises
<1>4. CASE Write(c) \/ RemoveVolume(c) \/ RemoveTree(c) \/ Finish(c)
  BY <1>4 DEF Write, RemoveVolume, RemoveTree, Finish, ThreadMoves
<1>5. CASE Helper(c)
  <2>1. ASSUME NEW s, NEW t, StartHelper(c, s, t) PROVE Apart(d)
    BY <2>1 DEF StartHelper, ThreadMoves
  <2>2. ASSUME NEW s, StartHelperFails(c, s) \/ CopyFails(c, s) PROVE Apart(d)
    BY <2>2 DEF StartHelperFails, CopyFails, PrepareRaises, CollectRaises, CellRaises
  <2>3. CASE PopulateCopy(c) \/ ExtractCopy(c)
    BY <2>3 DEF PopulateCopy, ExtractCopy, ThreadMoves
  <2>4. ASSUME NEW s, NEW next, StopHelper(c, s, next) PROVE Apart(d)
    BY <2>4 DEF StopHelper, ThreadMoves
  <2> QED BY <1>5, <2>1, <2>2, <2>3, <2>4 DEF Helper
<1> QED BY <1>1, <1>2, <1>3, <1>4, <1>5 DEF Progress

LEMMA PlanIsKept ==
    ASSUME NEW c \in Cells, Progress(c) \/ Write(c) \/ SystemReturns(c) \/ LateSystemEnds(c)
    PROVE  UNCHANGED plan
  BY DEF Progress, Begin, Create, CreateFails, Seed, PrepareFails, OpenRepo, OpenRepoFails, Snapshot,
     TimedOut, Record, StoreFails, SystemReturns, LateSystemEnds, Walk, WalkFails, Compare, CompareFails,
     Publish, PublishFails, Evaluate, Write, RemoveVolume, RemoveTree, Finish, Helper, StartHelper,
     StartHelperFails, PopulateCopy, ExtractCopy, CopyFails, StopHelper

-----------------------------------------------------------------------------
(* The volumes.                                                              *)

\* Cells that name the same volume are those that may have written it.
LEMMA MatesShare ==
    ASSUME NEW c \in Cells, NEW d \in Cells, VolumeOf(d) = VolumeOf(c) PROVE Mates(d) = Mates(c)
  BY DEF VolumeOf, Mates

\* It is enough to look at the volume of the cell that takes the step.
LEMMA OneVolume ==
    ASSUME TypeOK, VolumesOwn, UNCHANGED plan, NEW c \in Cells, NEW t \in Trees \cup {NoTree},
           vol' = [vol EXCEPT ![VolumeOf(c)] = t],
           t # NoTree => \A f \in Files : t[f] \in {Fix[f], "absent"} \cup Mates(c)
    PROVE  VolumesOwn'
<1> SUFFICES ASSUME NEW d \in Cells, vol'[VolumeOf(d)] # NoTree, NEW f \in Files
             PROVE  vol'[VolumeOf(d)][f] \in {Fix[f], "absent"} \cup Mates(d)
  BY SameVolume DEF VolumesOwn, VolumeOf, Mates
<1>1. CASE VolumeOf(d) = VolumeOf(c)
  <2>1. vol'[VolumeOf(d)] = t
    BY <1>1, VolumeType DEF TypeOK
  <2> QED BY <1>1, <2>1, MatesShare
<1>2. CASE VolumeOf(d) # VolumeOf(c)
  <2>1. vol'[VolumeOf(d)] = vol[VolumeOf(d)]
    BY <1>2, VolumeType DEF TypeOK
  <2> QED BY <2>1 DEF VolumesOwn
<1> QED BY <1>1, <1>2

LEMMA VolumesKept ==
    ASSUME VolumesOwn, UNCHANGED <<plan, vol>> PROVE VolumesOwn'
  BY SameVolume DEF VolumesOwn, VolumeOf, Mates

LEMMA MadeVolume ==
    ASSUME TypeOK, VolumesOwn, UNCHANGED plan, NEW c \in Cells, vol' = WithVolume(c) PROVE VolumesOwn'
<1>1. \A f \in Files : EmptyTree[f] = "absent"
  BY DEF EmptyTree
<1> QED BY <1>1, OneVolume, VolumesKept, TreeFacts DEF WithVolume

LEMMA VolumesStep ==
    ASSUME Inv, OwnWorks, NEW c \in Cells,
           Progress(c) \/ Write(c) \/ SystemReturns(c) \/ LateSystemEnds(c)
    PROVE  VolumesOwn'
<1>1. TypeOK /\ VolumesOwn /\ UNCHANGED plan
  BY PlanIsKept DEF Inv, OwnWorks
<1>2. CASE UNCHANGED vol
  BY <1>1, <1>2, VolumesKept
<1>3. CASE vol' = WithVolume(c)
  BY <1>1, <1>3, MadeVolume
<1>4. CASE vol' = [vol EXCEPT ![VolumeOf(c)] = NoTree]
  BY <1>1, <1>4, OneVolume
<1>5. CASE PopulateCopy(c)
  <2> DEFINE old == vol[VolumeOf(c)]
             copied == [f \in Files |-> IF dir[c][f] = "absent" THEN old[f] ELSE dir[c][f]]
  <2>1. vol' = [vol EXCEPT ![VolumeOf(c)] = copied]
    BY <1>5 DEF PopulateCopy, CopiedIn
  <2>2. dir[c] \in Trees /\ old \in Trees
    BY <1>5, VolumeType DEF PopulateCopy, ThreadMoves, Inv, TypeOK, Storage
  <2>3. copied \in Trees
    BY <2>2 DEF Trees
  <2>4. dir[c] # NoTree /\ old # NoTree
    BY <2>2, TreeFacts
  <2>5. ASSUME NEW f \in Files PROVE copied[f] \in {Fix[f], "absent"} \cup Mates(c)
    <3>1. old[f] \in {Fix[f], "absent"} \cup Mates(c)
      BY <2>4 DEF OwnWorks, VolumesOwn
    <3>2. dir[c][f] \in {Fix[f], "absent", c} /\ c \in Mates(c)
      BY <2>4 DEF OwnWorks, OwnWork, OnHost, Mates
    <3> QED BY <3>1, <3>2
  <2> HIDE DEF old, copied
  <2> QED BY <1>1, <2>1, <2>3, <2>5, OneVolume
<1>6. CASE Write(c) /\ kind = "docker"
  <2>1. PICK f \in Files, x \in {c, "absent"} : vol' = [vol EXCEPT ![VolumeOf(c)][f] = x]
    BY <1>6 DEF Write, Touched
  <2> DEFINE old == vol[VolumeOf(c)]
             written == [old EXCEPT ![f] = x]
  <2>2. old \in Trees /\ old # NoTree
    BY <1>6, VolumeType, TreeFacts DEF Write, Work, Inv, TypeOK
  <2>3. vol' = [vol EXCEPT ![VolumeOf(c)] = written] /\ written \in Trees
    BY <2>1, <2>2, ChangedType DEF Contents
  <2>4. ASSUME NEW g \in Files PROVE written[g] \in {Fix[g], "absent"} \cup Mates(c)
    <3>1. old[g] \in {Fix[g], "absent"} \cup Mates(c)
      BY <2>2 DEF OwnWorks, VolumesOwn
    <3>2. written[g] = (IF g = f THEN x ELSE old[g]) /\ c \in Mates(c)
      BY <2>2 DEF Trees, Mates
    <3> QED BY <3>1, <3>2
  <2> HIDE DEF old, written
  <2> QED BY <1>1, <2>3, <2>4, OneVolume
<1>7. CASE Write(c) /\ kind # "docker"
  BY <1>2, <1>7 DEF Write
<1>8. ASSUME Helper(c), ~PopulateCopy(c) PROVE VolumesOwn'
  <2>1. UNCHANGED vol \/ vol' = WithVolume(c)
    BY <1>8 DEF Helper, StartHelper, StartHelperFails, ExtractCopy, CopyFails, StopHelper
  <2> QED BY <1>2, <1>3, <2>1
<1>9. CASE RemoveVolume(c)
  BY <1>2, <1>4, <1>9 DEF RemoveVolume
<1>10. CASE Create(c) \/ CreateFails(c) \/ Finish(c)
  BY <1>2, <1>3, <1>10 DEF Create, CreateFails, Finish
<1>11. CASE Begin(c) \/ Seed(c) \/ PrepareFails(c) \/ OpenRepo(c) \/ OpenRepoFails(c) \/ Snapshot(c)
            \/ TimedOut(c) \/ Record(c) \/ StoreFails(c) \/ SystemReturns(c) \/ LateSystemEnds(c)
            \/ Walk(c) \/ WalkFails(c) \/ Compare(c) \/ CompareFails(c)
            \/ Publish(c) \/ PublishFails(c) \/ Evaluate(c) \/ RemoveTree(c)
  <2>1. UNCHANGED vol
    BY <1>11 DEF Begin, Seed, PrepareFails, OpenRepo, OpenRepoFails, Snapshot, TimedOut, Record, StoreFails,
       SystemReturns, LateSystemEnds, Walk, WalkFails, Compare, CompareFails, Publish, PublishFails,
       Evaluate, RemoveTree
  <2> QED BY <1>2, <2>1
<1> QED BY <1>5, <1>6, <1>7, <1>8, <1>9, <1>10, <1>11 DEF Progress

-----------------------------------------------------------------------------
(* Each step of a cell by which it comes nearer to its artifact.             *)

\* What is made, seeded or written below the directory of a cell.
LEMMA HostOwn ==
    ASSUME Inv, NEW c \in Cells, OwnWork(c),
           Progress(c) \/ Write(c) \/ SystemReturns(c) \/ LateSystemEnds(c)
    PROVE  OnHost(c)'
<1>1. UNCHANGED plan /\ OnHost(c) /\ Fix' = Fix
  BY PlanIsKept, SameVolume DEF OwnWork
<1>2. CASE dir'[c] = dir[c] \/ dir'[c] = NoTree
  BY <1>1, <1>2 DEF OnHost
<1>3. CASE dir'[c] = EmptyTree
  BY <1>1, <1>3 DEF OnHost, EmptyTree
<1>4. CASE dir'[c] = source /\ source # NoTree
  BY <1>1, <1>4 DEF OnHost, Fix
<1>5. CASE Begin(c) \/ Create(c) \/ RemoveTree(c)
  <2>1. dir'[c] \in {dir[c], EmptyTree, NoTree}
    BY <1>5 DEF Begin, Create, RemoveTree, Inv, TypeOK
  <2> QED BY <1>2, <1>3, <2>1
<1>6. CASE Seed(c) \/ Finish(c)
  <2>1. dir'[c] = dir[c] \/ (dir'[c] = source /\ source # NoTree)
    BY <1>6 DEF Seed, Finish, Inv, TypeOK, Storage
  <2> QED BY <1>2, <1>4, <2>1
<1>7. CASE Write(c)
  <2>1. PICK f \in Files, x \in {c, "absent"} : dir' = dir \/ dir' = [dir EXCEPT ![c][f] = x]
    BY <1>7 DEF Write, Touched
  <2>2. CASE dir[c] = NoTree
    BY <1>2, <1>7, <2>2 DEF Write, Work
  <2>3. CASE dir' = [dir EXCEPT ![c][f] = x] /\ dir[c] # NoTree
    <3>1. dir[c] \in Trees /\ dir'[c] = [dir[c] EXCEPT ![f] = x]
      BY <2>3 DEF Inv, TypeOK
    <3>2. \A g \in Files : dir'[c][g] = IF g = f THEN x ELSE dir[c][g]
      BY <3>1 DEF Trees
    <3>3. \A g \in Files : dir[c][g] \in {Fix[g], "absent", c}
      BY <1>1, <2>3 DEF OnHost
    <3> QED BY <1>1, <3>2, <3>3 DEF OnHost
  <2> QED BY <1>2, <2>1, <2>2, <2>3
<1>8. CASE CreateFails(c) \/ PrepareFails(c) \/ OpenRepo(c) \/ OpenRepoFails(c) \/ Snapshot(c)
           \/ TimedOut(c) \/ Record(c) \/ StoreFails(c) \/ SystemReturns(c) \/ LateSystemEnds(c)
           \/ Walk(c) \/ WalkFails(c) \/ Compare(c) \/ CompareFails(c)
           \/ Publish(c) \/ PublishFails(c) \/ Evaluate(c) \/ RemoveVolume(c) \/ Helper(c)
  <2>1. dir' = dir
    BY <1>8 DEF CreateFails, PrepareFails, OpenRepo, OpenRepoFails, Snapshot, TimedOut, Record, StoreFails,
       SystemReturns, LateSystemEnds, Walk, WalkFails, Compare, CompareFails, Publish, PublishFails,
       Evaluate, RemoveVolume, Helper, StartHelper, StartHelperFails, PopulateCopy, ExtractCopy,
       CopyFails, StopHelper
  <2> QED BY <1>2, <2>1
<1> QED BY <1>5, <1>6, <1>7, <1>8 DEF Progress

\* What a helper container copies out is what the volume holds.
LEMMA ExtractedOwn ==
    ASSUME Inv, OwnWorks, NEW c \in Cells,
           Progress(c) \/ Write(c) \/ SystemReturns(c) \/ LateSystemEnds(c)
    PROVE  Extracted(c)'
<1>1. Extracted(c) /\ Fix' = Fix /\ VolumesOwn
  BY PlanIsKept, SameVolume DEF OwnWorks, OwnWork
<1>2. CASE extracted'[c] = extracted[c] \/ extracted'[c] = NoTree
  BY <1>1, <1>2 DEF Extracted, Mates
<1>3. CASE Record(c)
  <2>1. extracted'[c] = extracted[c] \/ extracted'[c] = EmptyTree
    BY <1>3 DEF Record, Inv, TypeOK
  <2> QED BY <1>1, <1>2, <2>1 DEF Extracted, EmptyTree
<1>4. CASE ExtractCopy(c)
  <2>1. extracted'[c] = vol[VolumeOf(c)]
    BY <1>4 DEF ExtractCopy, Inv, TypeOK
  <2> QED BY <1>1, <2>1 DEF Extracted, VolumesOwn, Mates
<1>5. CASE WalkFails(c) \/ PublishFails(c)
  <2>1. extracted'[c] = NoTree
    BY <1>5 DEF WalkFails, PublishFails, CollectRaises, Inv, TypeOK
  <2> QED BY <1>2, <2>1
<1>6. ASSUME Helper(c), ~ExtractCopy(c) PROVE Extracted(c)'
  <2>1. extracted' = extracted \/ extracted' = [extracted EXCEPT ![c] = NoTree]
    BY <1>6 DEF Helper, StartHelper, StartHelperFails, PopulateCopy, CopyFails, StopHelper, CollectRaises
  <2>2. extracted'[c] = extracted[c] \/ extracted'[c] = NoTree
    BY <2>1 DEF Inv, TypeOK
  <2> QED BY <1>2, <2>2
<1>7. CASE Begin(c) \/ Create(c) \/ CreateFails(c) \/ Seed(c) \/ PrepareFails(c) \/ OpenRepo(c)
           \/ OpenRepoFails(c) \/ Snapshot(c) \/ TimedOut(c) \/ StoreFails(c) \/ SystemReturns(c)
           \/ LateSystemEnds(c) \/ Walk(c) \/ Compare(c) \/ CompareFails(c) \/ Publish(c) \/ Evaluate(c)
           \/ Write(c) \/ RemoveVolume(c) \/ RemoveTree(c) \/ Finish(c)
  <2>1. extracted' = extracted
    BY <1>7 DEF Begin, Create, CreateFails, Seed, PrepareFails, OpenRepo, OpenRepoFails, Snapshot, TimedOut,
       StoreFails, SystemReturns, LateSystemEnds, Walk, Compare, CompareFails, Publish, Evaluate, Write,
       RemoveVolume, RemoveTree, Finish
  <2> QED BY <1>2, <2>1
<1> QED BY <1>3, <1>4, <1>5, <1>6, <1>7 DEF Progress

\* At its cleanup a cell has nothing to show any more.
LEMMA CleaningShowsNothing ==
    ASSUME NEW c \in Cells, at'[c] \in Cleaning \cup {"ended", "waiting", "create", "seed"}
    PROVE  Seen(c)' /\ Collected(c)'
  BY DEF Seen, Collected

\* Steps that end in an exception, in the cleanup or in a thread that nobody awaits,
\* and those before the directory is filled.
LEMMA ShowsNothing ==
    ASSUME Inv, NEW c \in Cells,
           CreateFails(c) \/ PrepareFails(c) \/ OpenRepoFails(c) \/ StoreFails(c) \/ WalkFails(c)
           \/ CompareFails(c) \/ PublishFails(c) \/ Evaluate(c)
           \/ RemoveVolume(c) \/ RemoveTree(c) \/ Finish(c)
    PROVE  Seen(c)' /\ Collected(c)'
<1>1. CASE CreateFails(c) \/ PrepareFails(c) \/ OpenRepoFails(c) \/ StoreFails(c) \/ WalkFails(c)
           \/ CompareFails(c) \/ PublishFails(c) \/ Evaluate(c)
  <2>1. at'[c] \in Cleaning \cup {"ended"}
    BY <1>1 DEF Inv, TypeOK, CreateFails, PrepareFails, OpenRepoFails, StoreFails, WalkFails, CompareFails,
           PublishFails, Evaluate, PrepareRaises, CellRaises, CollectRaises, FirstOfCleanup, Goto
  <2> QED BY <2>1, CleaningShowsNothing
<1>2. CASE RemoveVolume(c) \/ RemoveTree(c)
  <2>1. at'[c] \in Cleaning \cup {"ended"}
    BY <1>2 DEF RemoveVolume, RemoveTree, ThreadMoves, Goto, Inv, TypeOK, Order
  <2> QED BY <2>1, CleaningShowsNothing
<1>3. CASE Finish(c)
  <2>1. at'[c] \in Cleaning \cup {"ended"}
    BY <1>3 DEF Finish, Inv, Order
  <2> QED BY <2>1, CleaningShowsNothing
<1> QED BY <1>1, <1>2, <1>3

\* From its first await to the system a cell sees nothing but the fixture.
LEMMA PrepareOwn ==
    ASSUME Inv, NEW c \in Cells, OwnWork(c),
           Begin(c) \/ Create(c) \/ Seed(c) \/ OpenRepo(c) \/ Snapshot(c)
    PROVE  Seen(c)' /\ Collected(c)'
<1>1. Fix' = Fix /\ UNCHANGED plan
  BY PlanIsKept, SameVolume DEF Progress
<1>2. CASE Begin(c)
  <2>1. \/ at'[c] \in {"create", "seed"}
        \/ at'[c] \in {"openRepo", "snapshot"} /\ source = NoTree /\ dir'[c] = EmptyTree
    BY <1>2 DEF Begin, Goto, FirstOfPrepare, Inv, TypeOK
  <2> QED BY <1>1, <2>1, CleaningShowsNothing DEF Seen, Collected, Fix
<1>3. CASE Create(c)
  <2>1. at'[c] = "seed" \/ (at'[c] = "snapshot" /\ source = NoTree /\ dir'[c] = EmptyTree)
    BY <1>3 DEF Create, Goto, AfterCreate, Inv, TypeOK
  <2> QED BY <1>1, <2>1, CleaningShowsNothing DEF Seen, Collected, Fix
<1>4. CASE Seed(c)
  <2>1. at'[c] \in {"populateStart", "openRepo", "snapshot"} /\ source # NoTree /\ dir'[c] = source
    BY <1>4 DEF Seed, Goto, AfterSeed, Inv, TypeOK, Storage
  <2> QED BY <1>1, <2>1 DEF Seen, Collected, Fix
<1>5. CASE OpenRepo(c)
  <2>1. at[c] = "openRepo" /\ at'[c] = "snapshot" /\ dir' = dir
    BY <1>5 DEF OpenRepo, Goto, Inv, TypeOK
  <2> QED BY <1>1, <2>1 DEF OwnWork, Seen, Collected
<1>6. CASE Snapshot(c)
  <2>1. at[c] = "snapshot" /\ at'[c] = "run" /\ before'[c] = dir[c]
    BY <1>6 DEF Snapshot, Goto, Inv, TypeOK
  <2> QED BY <1>1, <2>1 DEF OwnWork, Seen, Collected
<1> QED BY <1>2, <1>3, <1>4, <1>5, <1>6

\* The system works, ends or is given up, and the trace is recorded.
LEMMA RunOwn ==
    ASSUME Inv, NEW c \in Cells, OwnWork(c),
           TimedOut(c) \/ SystemReturns(c) \/ Record(c) \/ Write(c) \/ LateSystemEnds(c)
    PROVE  Seen(c)' /\ Collected(c)'
<1>1. Fix' = Fix /\ UNCHANGED <<plan, repo, before, artifact>> /\ Seen(c) /\ Collected(c)
  <2>1. Fix' = Fix /\ UNCHANGED plan
    BY PlanIsKept, SameVolume DEF Progress
  <2> QED BY <2>1 DEF TimedOut, SystemReturns, Record, Write, LateSystemEnds, OwnWork
<1>2. CASE TimedOut(c) \/ SystemReturns(c) \/ Record(c)
  <2>1. at[c] \in {"run", "record"} /\ at'[c] \in {"record", "walk", "extractStart"}
    BY <1>2 DEF TimedOut, SystemReturns, Record, FirstOfCollect, Goto, Inv, TypeOK
  <2> QED BY <1>1, <2>1 DEF Seen, Collected
<1>3. CASE Write(c) \/ LateSystemEnds(c)
  <2>1. at' = at /\ system[c] # "over" /\ system'[c] # "over" /\ at[c] \notin Preparing
    BY <1>3 DEF Write, LateSystemEnds, Inv, TypeOK, Order
  <2> QED BY <1>1, <2>1 DEF Seen, Collected, Sharers
<1> QED BY <1>2, <1>3

LEMMA CompareType ==
    ASSUME Inv, NEW c \in Cells, at[c] = "compare"
    PROVE  artifact[c] \in Artifacts
  BY DEF Inv, Storage

\* `git diff` against a commit is what differs from it, of what it looks at.
LEMMA GitDiffIsVisible ==
    ASSUME NEW c \in Cells, NEW new, kind = "git"
    PROVE  GitDiff(repo[c], new) = {f \in Visible(c) : new[f] # repo[c][f]}
  BY DEF GitDiff, Visible

\* What is walked is the directory, or what was extracted of the volume; the diff is
\* of that tree, as a system that is over wrote nothing after the walk.
LEMMA CollectOwn ==
    ASSUME Inv, NEW c \in Cells, OwnWork(c), Walk(c) \/ Compare(c) \/ Publish(c)
    PROVE  Seen(c)' /\ Collected(c)'
<1>1. /\ Fix' = Fix /\ Sharers(c)' = Sharers(c) /\ UNCHANGED <<plan, dir, repo, extracted, before, system>>
      /\ Seen(c) /\ Collected(c)
  <2>1. Fix' = Fix /\ Sharers(c)' = Sharers(c) /\ UNCHANGED plan
    BY PlanIsKept, SameVolume DEF Progress
  <2> QED BY <2>1 DEF Walk, Compare, Publish, OwnWork
<1>2. Visible(c)' = Visible(c) /\ Compared(c)' = Compared(c)
  BY <1>1 DEF Visible, Compared
<1>3. at[c] \in Collecting /\ at'[c] \in Collecting \cup {"evaluate"}
  BY DEF Walk, Compare, Publish, AfterCompare, Goto, Inv, TypeOK
<1>4. Seen(c)'
  BY <1>1, <1>3 DEF Seen
<1>5. CASE Walk(c)
  <2>1. /\ at[c] = "walk" /\ at'[c] = "compare"
        /\ artifact'[c] = [before |-> before[c], after |-> Looked(c), diff |-> {}]
    BY <1>5 DEF Walk, Goto, Inv, TypeOK
  <2>2. artifact'[c].before = before[c] /\ artifact'[c].after = Looked(c)
    BY <2>1
  <2>3. \A f \in Files : Looked(c)[f] \in {Fix[f], "absent"} \cup Sharers(c)
    <3>1. CASE kind = "docker"
      <4>1. extracted[c] # NoTree /\ Mates(c) = Sharers(c)
        BY <2>1, <3>1 DEF Inv, Storage, Mates, Sharers
      <4> QED BY <3>1, <4>1 DEF OwnWork, Extracted, Looked
    <3>2. CASE kind # "docker"
      <4>1. dir[c] # NoTree /\ c \in Sharers(c)
        BY <2>1 DEF Inv, Storage, Sharers
      <4> QED BY <3>2, <4>1 DEF OwnWork, OnHost, Looked
    <3> QED BY <3>1, <3>2
  <2>4. kind = "git" => Looked(c) = dir[c]
    BY DEF Looked
  <2> QED BY <1>1, <1>4, <2>1, <2>2, <2>3, <2>4 DEF Collected
<1>6. CASE Compare(c)
  <2> DEFINE new == artifact[c].after
             found == IF kind = "git" THEN GitDiff(repo[c], dir[c]) ELSE ManifestDiff(before[c], new)
  <2>1. /\ at[c] = "compare" /\ at'[c] \in {"publish", "evaluate"}
        /\ artifact' = [artifact EXCEPT ![c].diff = found]
    BY <1>6 DEF Compare, AfterCompare, Goto, Inv, TypeOK
  <2>2. artifact[c] \in Artifacts
    BY <2>1, CompareType
  <2> HIDE DEF found
  <2>3. artifact'[c].before = artifact[c].before /\ artifact'[c].after = new /\ artifact'[c].diff = found
    BY <2>1, <2>2 DEF Artifacts, Inv, TypeOK
  <2>4. system[c] = "over" => found = {f \in Visible(c) : new[f] # Compared(c)[f]}
    <3>1. CASE kind = "git"
      BY <1>1, <2>1, <3>1, GitDiffIsVisible DEF found, Collected, Compared
    <3>2. CASE kind # "git"
      BY <3>2 DEF found, ManifestDiff, Visible, Compared
    <3> QED BY <3>1, <3>2
  <2> QED BY <1>1, <1>2, <1>4, <2>1, <2>3, <2>4 DEF Collected
<1>7. CASE Publish(c)
  <2>1. at[c] = "publish" /\ at'[c] = "evaluate" /\ artifact' = artifact
    BY <1>7 DEF Publish, Goto, Inv, TypeOK
  <2> QED BY <1>1, <1>2, <1>4, <2>1 DEF Collected
<1> QED BY <1>5, <1>6, <1>7

\* A thread moves from one docker command to the next, or its command fails.
LEMMA HelperOwn ==
    ASSUME Inv, NEW c \in Cells, OwnWork(c), Helper(c) PROVE Seen(c)' /\ Collected(c)'
<1>1. Fix' = Fix /\ UNCHANGED <<plan, dir, before>> /\ Seen(c)
  <2>1. Fix' = Fix /\ UNCHANGED plan
    BY PlanIsKept, SameVolume DEF Progress
  <2> QED BY <2>1 DEF Helper, StartHelper, StartHelperFails, PopulateCopy, ExtractCopy, CopyFails, StopHelper,
                      OwnWork
<1>2. CASE at'[c] \in Cleaning \cup {"ended"}
  BY <1>2, CleaningShowsNothing
<1>3. CASE \/ at[c] \in Populating /\ at'[c] \in Populating \cup {"snapshot"}
           \/ at[c] \in Extracting /\ at'[c] \in Extracting \cup {"walk"}
  BY <1>1, <1>3 DEF Seen, Collected
<1>4. ASSUME NEW s, <<c, s>> \in abandoned, s \in Threads, at' = at PROVE Seen(c)' /\ Collected(c)'
  BY <1>2, <1>4 DEF Inv, Order
<1>5. ASSUME NEW s \in Populating, NEW t \in Populating \cup {"end"}, ThreadMoves(c, s, t, IF t = "end" THEN "snapshot" ELSE t)
      PROVE  Seen(c)' /\ Collected(c)'
  BY <1>3, <1>4, <1>5 DEF ThreadMoves, Goto, Inv, TypeOK
<1>6. ASSUME NEW s \in Extracting, NEW t \in Extracting \cup {"end"}, ThreadMoves(c, s, t, IF t = "end" THEN "walk" ELSE t)
      PROVE  Seen(c)' /\ Collected(c)'
  BY <1>3, <1>4, <1>6 DEF ThreadMoves, Goto, Inv, TypeOK
<1>7. CASE StartHelper(c, "populateStart", "populateCopy") \/ PopulateCopy(c) \/ StopHelper(c, "populateStop", "snapshot")
  BY <1>5, <1>7 DEF StartHelper, PopulateCopy, StopHelper
<1>8. CASE StartHelper(c, "extractStart", "extractCopy") \/ ExtractCopy(c) \/ StopHelper(c, "extractStop", "walk")
  BY <1>6, <1>8 DEF StartHelper, ExtractCopy, StopHelper
<1>9. ASSUME NEW s \in Threads, StartHelperFails(c, s) \/ CopyFails(c, s) PROVE Seen(c)' /\ Collected(c)'
  <2>1. (<<c, s>> \in abandoned /\ at' = at) \/ at'[c] \in Cleaning \cup {"ended"}
    BY <1>9 DEF StartHelperFails, CopyFails, PrepareRaises, CollectRaises, CellRaises, FirstOfCleanup, Goto,
           Inv, TypeOK
  <2> QED BY <1>2, <1>4, <2>1
<1> QED BY <1>7, <1>8, <1>9 DEF Helper

-----------------------------------------------------------------------------
(* No cross-case bleed.                                                      *)

LEMMA StartOwn == Init => OwnWorks
<1> SUFFICES ASSUME Init PROVE OwnWorks
  OBVIOUS
<1>1. VolumesOwn
  BY VolumeType DEF Init, VolumesOwn
<1>2. \A c \in Cells : at[c] = "waiting" /\ dir[c] = NoTree /\ extracted[c] = NoTree
  BY DEF Init
<1> QED BY <1>1, <1>2 DEF OwnWorks, OwnWork, OnHost, Extracted, Seen, Collected

LEMMA CancelCellsOwn == Inv /\ OwnWorks /\ CancelCells => OwnWorks'
<1> SUFFICES ASSUME Inv, OwnWorks, CancelCells PROVE OwnWorks'
  OBVIOUS
<1>1. UNCHANGED <<plan, dir, vol, extracted>>
  BY DEF CancelCells
<1>2. VolumesOwn'
  BY <1>1, VolumesKept DEF OwnWorks
<1>3. ASSUME NEW c \in Cells PROVE OwnWork(c)'
  <2>1. at'[c] \in Cleaning \cup {"ended"}
    BY DEF CancelCells, Live, AfterCancel, FirstOfCleanup, Inv, TypeOK
  <2>2. OnHost(c)' /\ Extracted(c)'
    BY <1>1, SameVolume DEF OwnWorks, OwnWork, OnHost, Extracted, Mates
  <2> QED BY <2>1, <2>2, CleaningShowsNothing DEF OwnWork
<1> QED BY <1>2, <1>3 DEF OwnWorks

LEMMA StepOwn == Inv /\ OwnWorks /\ [Next]_vars => OwnWorks'
<1> SUFFICES ASSUME Inv, OwnWorks, [Next]_vars PROVE OwnWorks'
  OBVIOUS
<1>1. ASSUME NEW c \in Cells, Progress(c) \/ Write(c) \/ SystemReturns(c) \/ LateSystemEnds(c)
      PROVE  OwnWorks'
  <2>1. OwnWork(c) /\ UNCHANGED plan
    BY <1>1, PlanIsKept DEF OwnWorks
  <2>2. Seen(c)' /\ Collected(c)'
    BY <1>1, <2>1, ShowsNothing, PrepareOwn, RunOwn, CollectOwn, HelperOwn DEF Progress
  <2>3. OwnWork(c)'
    BY <1>1, <2>1, <2>2, HostOwn, ExtractedOwn DEF OwnWork
  <2>4. ASSUME NEW d \in Cells \ {c} PROVE OwnWork(d)'
    BY <1>1, <2>1, <2>4, OthersApart, ApartKeeps DEF OwnWorks
  <2> QED BY <1>1, <2>3, <2>4, VolumesStep DEF OwnWorks
<1>2. CASE UNCHANGED vars
  <2>1. \A c \in Cells : Apart(c)
    BY <1>2 DEF vars, Apart
  <2> QED BY <1>2, <2>1, ApartKeeps, VolumesKept DEF OwnWorks, vars
<1>3. CASE CancelCells
  BY <1>3, CancelCellsOwn
<1> QED BY <1>1, <1>2, <1>3 DEF Next, Over

LEMMA OwnIsDiff == OwnWorks => DiffIsOwnWork
<1> SUFFICES ASSUME OwnWorks, NEW c \in Cells, at[c] = "evaluate", system[c] = "over"
             PROVE  /\ artifact[c].diff = {f \in Visible(c) : artifact[c].after[f] # Compared(c)[f]}
                    /\ \A f \in artifact[c].diff :
                           \/ artifact[c].after[f] \in Sharers(c) \cup {"absent"}
                           \/ kind = "git" /\ artifact[c].after[f] = artifact[c].before[f]
  BY DEF DiffIsOwnWork
<1>1. /\ artifact[c].before = Fix /\ before[c] = Fix
      /\ artifact[c].diff = {f \in Visible(c) : artifact[c].after[f] # Compared(c)[f]}
      /\ \A f \in Files : artifact[c].after[f] \in {Fix[f], "absent"} \cup Sharers(c)
  BY DEF OwnWorks, OwnWork, Seen, Collected
<1>2. Visible(c) \subseteq Files
  BY DEF Visible
<1>3. kind # "git" => Compared(c) = Fix
  BY <1>1 DEF Compared
<1> QED BY <1>1, <1>2, <1>3

\* No cross-case bleed, for any number of cells, fixture, repository and .gitignore,
\* shared volumes or not, whatever fails, is cancelled or works on: when the system of
\* a cell is over, its artifact names exactly the visible paths that differ from what
\* the adapter compares with, and what it shows there comes from a cell with this very
\* volume or is uncommitted work of the fixture, from nobody else
\* (tempdir_snapshot_adapter.py, git_workspace_adapter.py, docker_volume_adapter.py).
THEOREM DiffInvariant == Spec => []DiffIsOwnWork
<1> QED BY StartInv, StepInv, StartOwn, StepOwn, OwnIsDiff, PTL DEF Spec
=============================================================================
