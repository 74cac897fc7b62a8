------------------------------ MODULE DepProofs ------------------------------
(***************************************************************************)
(* Proofs about how dep begins and ends: the reach map of a tree of        *)
(* packages, whatever the tree and the order it is explored in; and the    *)
(* transaction of SafeWriter with the tree that it exports (DepTree), for  *)
(* any finite set of projects, any number of writers and of failures.      *)
(***************************************************************************)
EXTENDS SafeWriter, ReachMap, FiniteSetTheorems, SequenceTheorems, TLAPS

-----------------------------------------------------------------------------
(* SafeWriter and DepTree.                                                 *)

USE DEF NoProject

TreeRecord == [count : Nat, lp : LockedProjects, failure : BOOLEAN]

LEMMA TreeInvInit == TreeInit => TreeInv
<1> SUFFICES ASSUME TreeInit
             PROVE  TreeInv
  OBVIOUS
<1>1. TreeTypeOK
  BY DEF TreeInit, TreeTypeOK
<1>2. ToldOnce
  <2>1. Told = {}
    BY DEF TreeInit, Told
  <2>2. progress = <<>> /\ Len(progress) = 0 /\ DOMAIN progress = {}
    BY DEF TreeInit
  <2> QED
    BY <2>1, <2>2, FS_EmptySet DEF ToldOnce
<1>3. ErrorsHaveCauses /\ Settled
  BY DEF TreeInit, ErrorsHaveCauses, Settled, Cancelled
<1> QED
  BY <1>1, <1>2, <1>3 DEF TreeInv

\* A step that tells nothing leaves what was told as it was.
LEMMA ToldAlone ==
    ASSUME TreeInv, progress' = progress, Told' = Told,
           \A p \in Told : (err'[p] # "nil") = (err[p] # "nil")
    PROVE  ToldOnce'
<1>1. ASSUME NEW i \in DOMAIN progress
      PROVE  progress[i].lp \in Told
  BY DEF TreeInv, ToldOnce
<1> QED
  BY <1>1 DEF TreeInv, ToldOnce

\* One goroutine goes on by itself: it takes its place, is turned away, exports or
\* prunes.
LEMMA WorkStep ==
    ASSUME TreeInv, NEW p \in LockedProjects,
           Acquire(p) \/ TurnAway(p) \/ Export(p) \/ ExportFails(p) \/ Prune(p) \/ PruneFails(p)
    PROVE  TreeInv'
<1>1. /\ writing = "writing" /\ writing' = writing
      /\ UNCHANGED <<groupErr, progress, Cancelled>>
      /\ worker[p] \in {"waiting", "exporting", "pruning"}
      /\ worker' = [worker EXCEPT ![p] = worker'[p]]
      /\ tree' = [tree EXCEPT ![p] = tree'[p]]
      /\ err' = [err EXCEPT ![p] = err'[p]]
  BY DEF TreeInv, TreeTypeOK, Settled, Acquire, TurnAway, Export, ExportFails, Prune, PruneFails, Cancelled
<1>2. /\ worker'[p] \in {"exporting", "pruning", "reporting"}
      /\ tree'[p] \in {"absent", "partial", "exported", "pruned"}
      /\ err'[p] \in {"nil", "own", "wrapped", "canceled"}
      /\ worker'[p] \in {"exporting", "pruning"} => err'[p] = "nil"
      /\ worker'[p] = "reporting" /\ err'[p] = "nil" => tree'[p] = "pruned"
      /\ err'[p] \in {"canceled", "wrapped"} => Cancelled
  BY <1>1 DEF TreeInv, TreeTypeOK, ErrorsHaveCauses, Acquire, TurnAway, Export, ExportFails, Prune, PruneFails
<1>3. TreeTypeOK'
  <2>1. ASSUME NEW S, NEW f \in [LockedProjects -> S], NEW v \in S
        PROVE  [f EXCEPT ![p] = v] \in [LockedProjects -> S]
    OBVIOUS
  <2>2. tree' \in [LockedProjects -> {"absent", "partial", "exported", "pruned"}]
    BY <1>1, <1>2, <2>1 DEF TreeInv, TreeTypeOK
  <2>3. worker' \in [LockedProjects ->
                       {"waiting", "exporting", "pruning", "reporting", "returning", "done"}]
    BY <1>1, <1>2, <2>1 DEF TreeInv, TreeTypeOK
  <2>4. err' \in [LockedProjects -> {"nil", "own", "wrapped", "canceled"}]
    BY <1>1, <1>2, <2>1 DEF TreeInv, TreeTypeOK
  <2> QED
    BY <1>1, <2>2, <2>3, <2>4 DEF TreeInv, TreeTypeOK
<1>4. p \notin Told /\ p \notin Told'
  BY <1>1, <1>2 DEF Told, TreeInv, TreeTypeOK
<1>5. \A q \in LockedProjects \ {p} : worker'[q] = worker[q] /\ tree'[q] = tree[q] /\ err'[q] = err[q]
  BY <1>1 DEF TreeInv, TreeTypeOK
<1>6. Told' = Told
  BY <1>4, <1>5 DEF Told
<1>7. ToldOnce'
  BY <1>1, <1>4, <1>5, <1>6, ToldAlone DEF Told
<1>8. ErrorsHaveCauses'
  <2>1. Cancelled => groupErr \in LockedProjects \ {p}
    BY <1>1 DEF TreeInv, TreeTypeOK, ErrorsHaveCauses, Cancelled
  <2>2. (Cancelled => err[groupErr] = "own" /\ worker[groupErr] = "done")'
    BY <1>1, <1>5, <2>1 DEF TreeInv, ErrorsHaveCauses
  <2>3. ASSUME NEW q \in LockedProjects
        PROVE  /\ worker'[q] \in {"waiting", "exporting", "pruning"} => err'[q] = "nil"
               /\ worker'[q] \in {"reporting", "returning", "done"} /\ err'[q] = "nil" => tree'[q] = "pruned"
               /\ err'[q] \in {"canceled", "wrapped"} => Cancelled
               /\ worker'[q] = "done" /\ err'[q] # "nil" => Cancelled
    <3>1. CASE q = p
      BY <1>2, <3>1
    <3>2. CASE q # p
      BY <1>1, <1>5, <3>2 DEF TreeInv, ErrorsHaveCauses
    <3> QED
      BY <3>1, <3>2
  <2> QED
    BY <1>1, <2>2, <2>3 DEF ErrorsHaveCauses
<1>9. Settled'
  BY <1>1 DEF Settled
<1> QED
  BY <1>3, <1>7, <1>8, <1>9 DEF TreeInv

\* onWrite is told of a project that it has not been told of.
LEMMA ReportStep ==
    ASSUME TreeInv, NEW p \in LockedProjects, Report(p)
    PROVE  TreeInv'
<1>1. /\ worker[p] = "reporting" /\ writing = "writing"
      /\ worker' = [worker EXCEPT ![p] = "returning"]
      /\ UNCHANGED <<tree, err, groupErr, writing, Cancelled>>
  BY DEF Report, TreeInv, Settled, Cancelled
<1>2. Told' = IF err[p] = "canceled" THEN Told ELSE Told \cup {p}
  BY <1>1 DEF Told, TreeInv, TreeTypeOK
<1>3. p \notin Told
  BY <1>1 DEF Told
<1>4. ErrorsHaveCauses' /\ Settled'
  BY <1>1 DEF TreeInv, TreeTypeOK, ErrorsHaveCauses, Settled, Cancelled
<1>5. CASE err[p] = "canceled"
  <2>1. progress' = progress /\ Told' = Told
    BY <1>2, <1>5 DEF Report
  <2>2. TreeTypeOK' /\ ToldOnce'
    BY <1>1, <2>1, ToldAlone DEF TreeInv, TreeTypeOK
  <2> QED
    BY <1>4, <2>2 DEF TreeInv
<1>6. CASE err[p] # "canceled"
  <2> DEFINE new == [count |-> Len(progress) + 1, lp |-> p, failure |-> err[p] # "nil"]
  <2>1. /\ progress \in Seq(TreeRecord) /\ new \in TreeRecord
        /\ Len(progress) \in Nat /\ DOMAIN progress = 1 .. Len(progress)
    BY DEF TreeInv, TreeTypeOK, TreeRecord
  <2>2. new.lp = p /\ (new.failure <=> err[p] # "nil")
    OBVIOUS
  <2>3. progress' = Append(progress, new)
    BY <1>6 DEF Report
  <2> HIDE DEF new
  <2>4. /\ progress' \in Seq(TreeRecord) /\ Len(progress') = Len(progress) + 1
        /\ DOMAIN progress' = 1 .. (Len(progress) + 1)
        /\ \A i \in DOMAIN progress : progress'[i] = progress[i]
        /\ progress'[Len(progress) + 1] = new
    BY <2>1, <2>3
  <2>5. \A i \in DOMAIN progress' : i \in DOMAIN progress \/ i = Len(progress) + 1
    BY <2>1, <2>4
  <2>6. TreeTypeOK'
    BY <1>1, <2>4 DEF TreeInv, TreeTypeOK, TreeRecord
  <2>7. Len(progress') = Cardinality(Told')
    <3>1. IsFiniteSet(Told)
      BY ProjectsAssumption, FS_Subset DEF Told
    <3>2. Cardinality(Told \cup {p}) = Cardinality(Told) + 1
      BY <1>3, <3>1, FS_AddElement
    <3> QED
      BY <1>2, <1>6, <2>4, <3>2 DEF TreeInv, ToldOnce
  <2>8. {progress'[i].lp : i \in DOMAIN progress'} = Told \cup {p}
    <3>1. {progress[i].lp : i \in DOMAIN progress} = Told
      BY DEF TreeInv, ToldOnce
    <3>2. \A i \in DOMAIN progress' : progress'[i].lp \in Told \cup {p}
      BY <2>2, <2>4, <2>5, <3>1
    <3>3. p \in {progress'[i].lp : i \in DOMAIN progress'}
      BY <2>1, <2>2, <2>4
    <3>4. ASSUME NEW q \in Told
          PROVE  q \in {progress'[i].lp : i \in DOMAIN progress'}
      <4>1. PICK i \in DOMAIN progress : q = progress[i].lp
        BY <3>1
      <4>2. i \in DOMAIN progress' /\ progress'[i] = progress[i]
        BY <2>1, <2>4
      <4> QED
        BY <4>1, <4>2
    <3> QED
      BY <3>2, <3>3, <3>4
  <2>9. \A i \in DOMAIN progress' : progress'[i].failure <=> err'[progress'[i].lp] # "nil"
    BY <1>1, <2>2, <2>4, <2>5 DEF TreeInv, ToldOnce
  <2> QED
    BY <1>2, <1>4, <1>6, <2>6, <2>7, <2>8, <2>9 DEF TreeInv, ToldOnce
<1> QED
  BY <1>5, <1>6

\* The first error becomes the group's: it is no error that another has caused.
LEMMA ReturnStep ==
    ASSUME TreeInv, NEW p \in LockedProjects, ReturnFirst(p)
    PROVE  TreeInv'
<1>1. /\ worker[p] = "returning" /\ writing = "writing"
      /\ worker' = [worker EXCEPT ![p] = "done"]
      /\ groupErr' = IF err[p] # "nil" /\ ~Cancelled THEN p ELSE groupErr
      /\ UNCHANGED <<tree, err, progress, writing>>
  BY DEF ReturnFirst, TreeInv, Settled
<1>2. TreeTypeOK' /\ Settled'
  BY <1>1 DEF TreeInv, TreeTypeOK, Settled
<1>3. Told' = Told
  BY <1>1 DEF Told, TreeInv, TreeTypeOK
<1>4. ToldOnce'
  BY <1>1, <1>3, ToldAlone
<1>5. p # "none"
  BY ProjectsAssumption
<1>6. ErrorsHaveCauses'
  <2>1. CASE err[p] # "nil" /\ ~Cancelled
    <3>1. err[p] = "own"
      BY <2>1 DEF TreeInv, TreeTypeOK, ErrorsHaveCauses
    <3>2. groupErr' = p /\ Cancelled'
      BY <1>1, <1>5, <2>1 DEF Cancelled
    <3> QED
      BY <1>1, <3>1, <3>2 DEF TreeInv, TreeTypeOK, ErrorsHaveCauses
  <2>2. CASE ~(err[p] # "nil" /\ ~Cancelled)
    <3>1. groupErr' = groupErr /\ Cancelled' = Cancelled
      BY <1>1, <2>2 DEF Cancelled
    <3> QED
      BY <1>1, <2>2, <3>1 DEF TreeInv, TreeTypeOK, ErrorsHaveCauses, Cancelled
  <2> QED
    BY <2>1, <2>2
<1> QED
  BY <1>2, <1>4, <1>6 DEF TreeInv

\* WriteDepTree itself begins, and waits for all of the goroutines.
LEMMA CallerStep == TreeInv /\ (MakeTree \/ Wait) => TreeInv'
<1> SUFFICES ASSUME TreeInv, MakeTree \/ Wait
             PROVE  TreeInv'
  OBVIOUS
<1>1. UNCHANGED <<worker, err, groupErr, progress, Told, Cancelled>>
  BY DEF MakeTree, Wait, Told, Cancelled
<1>2. ToldOnce'
  BY <1>1, ToldAlone
<1>3. TreeTypeOK' /\ ErrorsHaveCauses' /\ Settled'
  <2>1. CASE MakeTree
    BY <1>1, <2>1 DEF MakeTree, TreeInv, TreeTypeOK, ErrorsHaveCauses, Settled
  <2>2. CASE Wait
    BY <1>1, <2>2 DEF Wait, TreeInv, TreeTypeOK, ErrorsHaveCauses, Settled
  <2> QED
    BY <2>1, <2>2
<1> QED
  BY <1>2, <1>3 DEF TreeInv

LEMMA TreeInvStep == TreeInv /\ [MakeTree \/ WriteTree]_treeVars => TreeInv'
<1> SUFFICES ASSUME TreeInv, [MakeTree \/ WriteTree]_treeVars
             PROVE  TreeInv'
  OBVIOUS
<1>1. CASE UNCHANGED treeVars
  BY <1>1 DEF treeVars, TreeInv, TreeTypeOK, ToldOnce, Told, ErrorsHaveCauses, Cancelled, Settled
<1>2. CASE MakeTree \/ Wait
  BY <1>2, CallerStep
<1>3. ASSUME NEW p \in LockedProjects, Work(p)
      PROVE  TreeInv'
  BY <1>3, WorkStep, ReportStep, ReturnStep DEF Work
<1> QED
  BY <1>1, <1>2, <1>3 DEF WriteTree

\* What TreeInv says of a tree that is written or given up.
LEMMA TreeFacts == TreeInv => TreeIsAllOrNothing /\ ErrorIsTheCause
<1> SUFFICES ASSUME TreeInv
             PROVE  TreeIsAllOrNothing /\ ErrorIsTheCause
  OBVIOUS
<1>1. ASSUME writing = "written"
      PROVE  /\ \A p \in LockedProjects : tree[p] = "pruned" /\ err[p] = "nil"
             /\ Told = LockedProjects
  <2>1. ASSUME NEW p \in LockedProjects
        PROVE  worker[p] = "done" /\ tree[p] = "pruned" /\ err[p] = "nil"
    BY <1>1 DEF TreeInv, TreeTypeOK, Settled, ErrorsHaveCauses
  <2> QED
    BY <2>1 DEF Told
<1>2. TreeIsAllOrNothing
  <2>1. writing = "failed" => \A p \in LockedProjects : tree[p] = "absent"
    BY DEF TreeInv, Settled
  <2>2. ASSUME writing = "written"
        PROVE  /\ Len(progress) = Cardinality(LockedProjects)
               /\ {progress[i].lp : i \in DOMAIN progress} = LockedProjects
               /\ \A i \in DOMAIN progress : ~progress[i].failure
    BY <1>1, <2>2 DEF TreeInv, ToldOnce
  <2> QED
    BY <1>1, <2>1, <2>2 DEF TreeIsAllOrNothing
<1>3. ErrorIsTheCause
  <2> SUFFICES ASSUME Cancelled
               PROVE  /\ err[groupErr] = "own"
                      /\ \E i \in DOMAIN progress : progress[i].lp = groupErr /\ progress[i].failure
    BY DEF ErrorIsTheCause
  <2>1. err[groupErr] = "own" /\ groupErr \in Told
    BY DEF TreeInv, TreeTypeOK, ErrorsHaveCauses, Told, Cancelled
  <2>2. PICK i \in DOMAIN progress : progress[i].lp = groupErr
    BY <2>1 DEF TreeInv, ToldOnce
  <2> QED
    BY <2>1, <2>2 DEF TreeInv, ToldOnce
<1> QED
  BY <1>2, <1>3

-----------------------------------------------------------------------------
(* Places and steps.                                                       *)

\* The places that x, its old copy and its new one may be in.
Own(x) == Copies(x) \cup {Temp(x)}

LEMMA PlaceFacts ==
    /\ Temp("manifest") = "td/manifest" /\ Temp("lock") = "td/lock" /\ Temp("vendor") = "td/vendor"
    /\ TempOrig("manifest") = "td/manifest.orig" /\ TempOrig("lock") = "td/lock.orig"
    /\ TempOrig("vendor") = "td/.vendor.orig"
    /\ TempPlaces = {"td/manifest", "td/lock", "td/vendor",
                     "td/manifest.orig", "td/lock.orig", "td/.vendor.orig"}
    /\ Places = {"manifest", "lock", "vendor", "vendor.orig"} \cup TempPlaces
    /\ Copies("manifest") = {"manifest", "td/manifest.orig"}
    /\ Copies("lock") = {"lock", "td/lock.orig"}
    /\ Copies("vendor") = {"vendor", "td/.vendor.orig", "vendor.orig"}
<1>1. /\ Temp("manifest") = "td/manifest" /\ Temp("lock") = "td/lock" /\ Temp("vendor") = "td/vendor"
      /\ TempOrig("manifest") = "td/manifest.orig" /\ TempOrig("lock") = "td/lock.orig"
      /\ TempOrig("vendor") = "td/.vendor.orig"
  BY DEF Temp, TempOrig
<1>2. TempPlaces = {"td/manifest", "td/lock", "td/vendor",
                    "td/manifest.orig", "td/lock.orig", "td/.vendor.orig"}
  BY <1>1 DEF TempPlaces, Targets
<1> QED
  BY <1>1, <1>2 DEF Places, Targets, Copies

LEMMA OwnFacts ==
    /\ \A x \in Targets : Own(x) \subseteq Places /\ x \in Own(x) /\ Temp(x) \in Own(x) /\ TempOrig(x) \in Own(x)
    /\ \A x \in Targets : /\ Copies(x) \subseteq Own(x) /\ Temp(x) \notin Copies(x) /\ x \in Copies(x)
                          /\ Temp(x) # x /\ Temp(x) \in TempPlaces /\ x \notin TempPlaces
    /\ \A x, y \in Targets : x # y => Own(x) \cap Own(y) = {}
    /\ \A x \in Targets : /\ Kept(x) \in Copies(x) /\ Kept(x) # x /\ Kept(x) \in Own(x)
                          /\ Kept(x) \in Places \ Targets /\ Kept(x) # Temp(x)
    /\ "vendor.orig" \in Own("vendor") /\ "vendor.orig" \in Backups("vendor")
    /\ \A x \in Targets : (x \in Directories <=> x = "vendor") /\ (Kept(x) \in Directories <=> x = "vendor")
    /\ \A x \in Targets : Temp(x) \in Directories <=> x = "vendor"
    /\ Directories \subseteq Places
  BY PlaceFacts DEF Own, Targets, Kept, Backups, Directories

\* The order of the steps.
LEMMA PcFacts ==
    /\ \A x \in Targets : /\ Out(x) \in AheadOf(x) /\ Out(x) \notin Behind(x)
                          /\ In(x) \notin AheadOf(x) /\ In(x) \notin Behind(x)
                          /\ After(x) \in Behind(x) /\ After(x) \notin AheadOf(x)
                          /\ Out(x) \in Moving /\ In(x) \in Moving /\ After(x) \in Moving
                          /\ \A q \in Moving : q \in Behind(x) <=> q # In(x) /\ q \notin AheadOf(x)
    /\ \A x, y \in Targets : x # y => /\ Out(x) \in AheadOf(y) <=> In(x) \in AheadOf(y)
                                      /\ In(x) \in AheadOf(y) <=> After(x) \in AheadOf(y)
                                      /\ Out(x) \in Behind(y) <=> In(x) \in Behind(y)
                                      /\ In(x) \in Behind(y) <=> After(x) \in Behind(y)
                                      /\ In(x) # In(y)
    /\ \A x, y \in Targets : Out(x) # In(y) /\ After(x) # In(y)
    /\ \A x \in Targets : "out manifest" # In(x) /\ "out manifest" \in AheadOf(x)
    /\ \A x \in Targets : "clean" # In(x) /\ "clean" \in Behind(x) /\ "clean" # Out(x)
    /\ \A x \in Targets : Out(x) # "clean" /\ In(x) # "clean" /\ (After(x) = "clean" <=> x = "vendor")
    /\ \A x \in Targets : (Out(x) = "out vendor" <=> x = "vendor") /\ (In(x) = "in vendor" <=> x = "vendor")
    /\ \A x \in Targets : Out(x) # "in vendor" /\ After(x) # "in vendor"
<1>1. /\ Out("manifest") = "out manifest" /\ Out("lock") = "out lock" /\ Out("vendor") = "out vendor"
      /\ In("manifest") = "in manifest" /\ In("lock") = "in lock" /\ In("vendor") = "in vendor"
      /\ After("manifest") = "out lock" /\ After("lock") = "out vendor" /\ After("vendor") = "clean"
  BY DEF Out, In, After
<1>2. /\ AheadOf("manifest") = {"out manifest"}
      /\ AheadOf("lock") = {"out manifest", "in manifest", "out lock"}
      /\ AheadOf("vendor") = {"out manifest", "in manifest", "out lock", "in lock", "out vendor"}
      /\ Behind("manifest") = {"out lock", "in lock", "out vendor", "in vendor", "clean"}
      /\ Behind("lock") = {"out vendor", "in vendor", "clean"}
      /\ Behind("vendor") = {"clean"}
  BY DEF AheadOf, Behind, Moving
<1>3. \A x \in Targets : /\ Out(x) \in AheadOf(x) /\ Out(x) \notin Behind(x)
                         /\ In(x) \notin AheadOf(x) /\ In(x) \notin Behind(x)
                         /\ After(x) \in Behind(x) /\ After(x) \notin AheadOf(x)
                         /\ Out(x) \in Moving /\ In(x) \in Moving /\ After(x) \in Moving
                         /\ \A q \in Moving : q \in Behind(x) <=> q # In(x) /\ q \notin AheadOf(x)
  BY <1>1, <1>2 DEF Targets, Moving
<1>4. \A x, y \in Targets : x # y => /\ Out(x) \in AheadOf(y) <=> In(x) \in AheadOf(y)
                                     /\ In(x) \in AheadOf(y) <=> After(x) \in AheadOf(y)
                                     /\ Out(x) \in Behind(y) <=> In(x) \in Behind(y)
                                     /\ In(x) \in Behind(y) <=> After(x) \in Behind(y)
                                     /\ In(x) # In(y)
  BY <1>1, <1>2 DEF Targets, Moving
<1>5. \A x, y \in Targets : Out(x) # In(y) /\ After(x) # In(y)
  BY <1>1, <1>2 DEF Targets, Moving
<1>6. \A x \in Targets : "out manifest" # In(x) /\ "out manifest" \in AheadOf(x)
  BY <1>1, <1>2 DEF Targets, Moving
<1>7. \A x \in Targets : "clean" # In(x) /\ "clean" \in Behind(x) /\ "clean" # Out(x)
  BY <1>1, <1>2 DEF Targets, Moving
<1>8. \A x \in Targets : Out(x) # "clean" /\ In(x) # "clean" /\ (After(x) = "clean" <=> x = "vendor")
  BY <1>1, <1>2 DEF Targets, Moving
<1>9. \A x \in Targets : (Out(x) = "out vendor" <=> x = "vendor") /\ (In(x) = "in vendor" <=> x = "vendor")
  BY <1>1, <1>2 DEF Targets, Moving
<1>10. \A x \in Targets : Out(x) # "in vendor" /\ After(x) # "in vendor"
  BY <1>1, <1>2 DEF Targets, Moving
<1> QED
  BY <1>3, <1>4, <1>5, <1>6, <1>7, <1>8, <1>9, <1>10

LEMMA MovedFacts ==
    ASSUME disk \in [Places -> Content], NEW src \in Places, NEW dst \in Places, src # dst
    PROVE  /\ Moved(src, dst) \in [Places -> Content]
           /\ Moved(src, dst)[src] = "none" /\ Moved(src, dst)[dst] = disk[src]
           /\ \A p \in Places \ {src, dst} : Moved(src, dst)[p] = disk[p]
  BY DEF Moved, Content

\* What a move that fails may have done.
LEMMA MisplacedFacts ==
    ASSUME disk \in [Places -> Content], NEW src \in Places, NEW dst \in Places, src # dst,
           NEW d \in Misplaced(src, dst)
    PROVE  /\ d \in [Places -> Content]
           /\ ~IsCopy(src, dst) => d = disk
           /\ src \notin Directories => d[src] = disk[src]
           /\ d[src] # disk[src] => d[dst] = disk[src]
           /\ \A p \in Places \ {src, dst} : d[p] = disk[p]
<1>1. CASE d = disk
  BY <1>1
<1>2. CASE IsCopy(src, dst) /\ d = [disk EXCEPT ![dst] = "partial"]
  BY <1>2 DEF Content
<1>3. CASE IsCopy(src, dst) /\ d = [disk EXCEPT ![dst] = disk[src],
                                                 ![src] = IF src \in Directories THEN "partial" ELSE @]
  BY <1>3 DEF Content
<1> QED
  BY <1>1, <1>2, <1>3 DEF Misplaced

\* What Standing(y) says is about y's own places and where pc is beside y.
LEMMA StandingAlone ==
    ASSUME NEW y \in Targets, Standing(y), pc \in Moving, pc' \in Moving,
           pc # In(y), pc' # In(y), pc \in AheadOf(y) <=> pc' \in AheadOf(y),
           UNCHANGED <<sw, first>>, \A p \in Own(y) : disk'[p] = disk[p]
    PROVE  Standing(y)'
<1>1. Copies(y) \subseteq Own(y) /\ Temp(y) \in Own(y) /\ y \in Own(y) /\ Backups(y) \subseteq Own(y)
  BY OwnFacts DEF Backups
<1>2. UNCHANGED <<Untouched(y), IsMade(y), IsKept(y), disk[y]>>
  BY <1>1 DEF Untouched, IsMade, IsKept, Kept
<1>3. pc \in Behind(y) <=> pc' \in Behind(y)
  <2>1. \A q \in Moving : q \in Behind(y) <=> q # In(y) /\ q \notin AheadOf(y)
    BY PcFacts
  <2> QED
    BY <2>1
<1> QED
  BY <1>2, <1>3 DEF Standing

-----------------------------------------------------------------------------
(* Write, step by step.                                                    *)

\* WriterInv while the process lives: OriginalsSurvive follows from the rest.
LivingInv ==
    /\ TypeOK /\ PcOK /\ FirstOK /\ DecisionOK
    /\ PreparingOK /\ MovingOK /\ VendorBakOK /\ RestoreOK
    /\ FailureOK /\ SuccessOK /\ GitOK

LEMMA Survival ==
    ASSUME LivingInv, pc # "killed"
    PROVE  OriginalsSurvive
<1> SUFFICES ASSUME result # "ok", faults <= 1, NEW x \in Targets, first.disk[x] = "old"
             PROVE  \/ \E p \in Copies(x) : disk[p] = "old"
                    \/ x = "vendor" /\ payload.crossDevice /\ first.disk["vendor.orig"] = "other"
  BY DEF OriginalsSurvive
<1>1. x \in Copies(x) /\ Kept(x) \in Backups(x) /\ Kept(x) \in Copies(x)
  BY OwnFacts DEF Backups
<1>2. CASE pc \in Preparing
  BY <1>1, <1>2 DEF LivingInv, PreparingOK, Untouched
<1>3. CASE pc \in Moving
  <2>1. Standing(x)
    BY <1>3 DEF LivingInv, MovingOK
  <2>2. Untouched(x) \/ IsKept(x)
    BY <1>3, <2>1, PcFacts DEF Standing
  <2> QED
    BY <1>1, <2>2 DEF Untouched, IsKept
<1>4. CASE pc \in {"restoring", "leaving", "returned"}
  <2>1. result = "failed"
    BY <1>4 DEF LivingInv, PcOK
  <2>2. disk[Kept(x)] = "old" \/ IsBack(x)
    BY <1>4, <2>1 DEF LivingInv, FailureOK, Recoverable
  <2>3. x = "vendor" => "vendor.orig" \in Copies(x)
    BY DEF Copies
  <2> QED
    BY <1>1, <2>2, <2>3 DEF IsBack
<1> QED
  BY <1>2, <1>3, <1>4 DEF LivingInv, PcOK

LEMMA DecisionType == \A i \in Payloads : NewSafeWriter(i) \in [Targets -> BOOLEAN]
<1> SUFFICES ASSUME NEW i \in Payloads
             PROVE  NewSafeWriter(i) \in [Targets -> BOOLEAN]
  OBVIOUS
<1>1. i.manifest \in BOOLEAN /\ WritesLock(i) \in BOOLEAN /\ WritesVendor(i) \in BOOLEAN
  BY DEF Payloads, WritesLock, WritesVendor, LockDiffers
<1> QED
  BY <1>1 DEF NewSafeWriter, Targets

\* Nothing has been moved yet: what is to be kept is in its place.
LEMMA NothingMoved ==
    ASSUME \A x \in Targets : Untouched(x)
    PROVE  /\ \A x \in Targets : disk[x] = first.disk[x]
           /\ \A x \in Targets : disk[TempOrig(x)] = first.disk[TempOrig(x)]
           /\ disk["vendor.orig"] = first.disk["vendor.orig"]
           /\ \A x \in Targets : first.disk[x] = "old" => IsBack(x)
<1>1. \A x \in Targets : x \in Copies(x) /\ TempOrig(x) \in Copies(x)
  BY DEF Copies
<1>2. "vendor.orig" \in Copies("vendor") /\ "vendor" \in Targets
  BY DEF Copies, Targets
<1> QED
  BY <1>1, <1>2 DEF Untouched, IsBack

LEMMA EmptyDomain == \A s : s = <<>> => DOMAIN s = {}
  OBVIOUS

LEMMA NothingToRestore ==
    ASSUME restore' = <<>>, pc' \in Moving => pc' = "out manifest"
    PROVE  RestoreOK'
<1>1. DOMAIN restore' = {}
  BY EmptyDomain, Zenon
<1>2. pc' \in Moving => \A x \in Targets : pc' \in AheadOf(x)
  <2>1. \A x \in Targets : "out manifest" \in AheadOf(x)
    BY PcFacts, Zenon
  <2> QED
    BY <2>1, Zenon
<1> QED
  BY <1>1, <1>2 DEF RestoreOK

LEMMA BeginStep == LivingInv /\ Begin => LivingInv'
<1> SUFFICES ASSUME LivingInv, Begin
             PROVE  LivingInv'
  OBVIOUS
<1>1. /\ pc = "new" /\ result = "none" /\ restore = <<>>
      /\ UNCHANGED <<payload, first, disk, git, restore, vendorbak, faults>>
      /\ \A x \in Targets : Untouched(x) /\ disk[Temp(x)] = "none"
  BY DEF Begin, LivingInv, PcOK, PreparingOK, Preparing
<1>2. \/ /\ pc' = "returned" /\ result' = "failed" /\ sw' = sw
      \/ /\ sw' = NewSafeWriter(payload) /\ pc' = "returned" /\ result' = "ok"
         /\ \A x \in Targets : ~sw'[x]
      \/ /\ sw' = NewSafeWriter(payload) /\ pc' = "writing" /\ result' = result
  BY DEF Begin
<1>3. (\A x \in Targets : Untouched(x))' /\ FirstOK'
  BY <1>1 DEF Untouched, LivingInv, FirstOK
<1>4. TypeOK'
  BY <1>1, <1>2, DecisionType DEF LivingInv, TypeOK
<1>5. /\ \A x \in Targets : disk[x] = first.disk[x] /\ disk[TempOrig(x)] = first.disk[TempOrig(x)]
      /\ disk["vendor.orig"] = first.disk["vendor.orig"]
  BY <1>1, NothingMoved
<1>6. \A p \in TempPlaces : disk[p] = "none"
  <2>1. \A x \in Targets : TempOrig(x) \in TempPlaces
    BY DEF TempPlaces
  <2>2. \A x \in Targets : disk[TempOrig(x)] = "none"
    BY <1>5, <2>1 DEF LivingInv, FirstOK
  <2> QED
    BY <1>1, <2>2 DEF TempPlaces
<1>7. PcOK' /\ DecisionOK' /\ PreparingOK' /\ SuccessOK'
  BY <1>1, <1>2, <1>3, <1>5, <1>6
  DEF LivingInv, PcOK, DecisionOK, PreparingOK, SuccessOK, Preparing, Moving
<1>8. FailureOK'
  BY <1>1, <1>2, <1>5 DEF FailureOK, Recoverable, IsBack
<1>9. MovingOK' /\ RestoreOK' /\ GitOK'
  BY <1>1, <1>2, NothingToRestore DEF LivingInv, MovingOK, GitOK, Moving
<1>10. VendorBakOK'
  BY <1>1, <1>2 DEF LivingInv, VendorBakOK, Preparing
<1> QED
  BY <1>3, <1>4, <1>7, <1>8, <1>9, <1>10 DEF LivingInv

\* Write gives up before anything was moved.
LEMMA AbandonStep ==
    ASSUME LivingInv, pc \in Preparing, Abandon, faults' \in 0 .. MaxFaults,
           UNCHANGED <<payload, sw, first, disk, git, restore, vendorbak>>
    PROVE  LivingInv'
<1>1. \A x \in Targets : first.disk[x] = "old" => IsBack(x)
  BY NothingMoved DEF LivingInv, PreparingOK
<1>2. TypeOK' /\ FirstOK' /\ PcOK' /\ DecisionOK'
  BY DEF LivingInv, TypeOK, FirstOK, PcOK, DecisionOK, Abandon, Preparing, Moving
<1>3. FailureOK'
  BY <1>1 DEF FailureOK, Recoverable, Abandon, IsBack
<1>4. PreparingOK' /\ MovingOK' /\ VendorBakOK' /\ RestoreOK' /\ SuccessOK' /\ GitOK'
  BY NothingToRestore
  DEF Abandon, LivingInv, PreparingOK, MovingOK, VendorBakOK, SuccessOK, GitOK, Preparing, Moving
<1> QED
  BY <1>2, <1>3, <1>4 DEF LivingInv

\* Something is written into the temporary directory.
LEMMA MadeStep ==
    ASSUME LivingInv, pc \in {"writing", "tree"}, pc' \in {"tree", "git"},
           disk' \in [Places -> Content],
           \A p \in Places : (\A x \in Targets : p # Temp(x)) => disk'[p] = disk[p],
           pc' = "tree" => IsMade("manifest")' /\ IsMade("lock")' /\ disk'["td/vendor"] = "none" /\ sw["vendor"],
           pc' = "git" => (\A x \in Targets : IsMade(x))',
           UNCHANGED <<payload, sw, first, git, restore, vendorbak, faults, result>>
    PROVE  LivingInv'
<1>1. ASSUME NEW x \in Targets
      PROVE  Untouched(x)'
  <2>1. Untouched(x)
    BY DEF LivingInv, PreparingOK, Preparing
  <2>2. ASSUME NEW p \in Copies(x)
        PROVE  disk'[p] = disk[p]
    <3>1. p \in Places /\ \A y \in Targets : p # Temp(y)
      BY PlaceFacts DEF Targets
    <3> QED
      BY <3>1
  <2> QED
    BY <2>1, <2>2 DEF Untouched
<1>2. TypeOK' /\ FirstOK' /\ PcOK' /\ DecisionOK' /\ RestoreOK'
  BY NothingToRestore
  DEF LivingInv, TypeOK, FirstOK, PcOK, DecisionOK, PreparingOK, Preparing, Moving
<1>3. PreparingOK'
  BY <1>1 DEF LivingInv, PreparingOK, Preparing
<1>4. MovingOK' /\ VendorBakOK' /\ FailureOK' /\ SuccessOK' /\ GitOK'
  BY DEF LivingInv, MovingOK, VendorBakOK, FailureOK, SuccessOK, GitOK, Preparing, Moving
<1> QED
  BY <1>1, <1>2, <1>3, <1>4 DEF LivingInv

LEMMA WriteStep == LivingInv /\ (WriteFiles \/ TreeIsWritten \/ TreeHasFailed) => LivingInv'
<1> SUFFICES ASSUME LivingInv, WriteFiles \/ TreeIsWritten \/ TreeHasFailed
             PROVE  LivingInv'
  OBVIOUS
<1> USE PlaceFacts
<1>1. /\ disk \in [Places -> Content] /\ sw \in [Targets -> BOOLEAN]
      /\ faults \in 0 .. MaxFaults /\ MaxFaults \in Nat
  BY FaultsAssumption DEF LivingInv, TypeOK
<1>2. CASE TreeHasFailed
  <2>1. faults' \in 0 .. MaxFaults
    BY <1>1, <1>2 DEF TreeHasFailed
  <2> QED
    BY <1>2, <2>1, AbandonStep DEF TreeHasFailed, Preparing
<1>3. CASE WriteFiles /\ pc' = "leaving"
  <2>1. faults' \in 0 .. MaxFaults
    BY <1>1, <1>3 DEF WriteFiles
  <2>2. Abandon /\ UNCHANGED disk
    BY <1>3 DEF WriteFiles
  <2> QED
    BY <1>3, <2>1, <2>2, AbandonStep DEF WriteFiles, Preparing
<1>4. CASE WriteFiles /\ pc' # "leaving"
  <2>1. /\ pc = "writing"
        /\ disk' = [disk EXCEPT !["td/manifest"] = IF sw["manifest"] THEN "new" ELSE @,
                                !["td/lock"] = IF sw["lock"] THEN "new" ELSE @]
        /\ pc' = IF sw["vendor"] THEN "tree" ELSE "git"
        /\ UNCHANGED <<payload, sw, first, git, restore, vendorbak, faults, result>>
    BY <1>4 DEF WriteFiles, Abandon
  <2>2. disk["td/manifest"] = "none" /\ disk["td/lock"] = "none" /\ disk["td/vendor"] = "none"
    BY <2>1 DEF LivingInv, PreparingOK, Preparing, Targets
  <2>3. /\ disk' \in [Places -> Content]
        /\ disk'["td/manifest"] = IF sw["manifest"] THEN "new" ELSE "none"
        /\ disk'["td/lock"] = IF sw["lock"] THEN "new" ELSE "none"
        /\ disk'["td/vendor"] = "none"
        /\ \A p \in Places \ {"td/manifest", "td/lock"} : disk'[p] = disk[p]
    BY <1>1, <2>1, <2>2 DEF Content
  <2>4. IsMade("manifest")' /\ IsMade("lock")' /\ (~sw["vendor"] => IsMade("vendor")')
    BY <2>1, <2>3 DEF IsMade
  <2>5. (pc' = "git" => (\A x \in Targets : IsMade(x))') /\ (pc' = "tree" => sw["vendor"])
    BY <2>1, <2>4 DEF Targets
  <2>6. \A p \in Places : (\A x \in Targets : p # Temp(x)) => disk'[p] = disk[p]
    BY <2>3 DEF Targets
  <2>7. pc \in {"writing", "tree"} /\ pc' \in {"tree", "git"}
    BY <2>1
  <2> QED
    BY <2>1, <2>3, <2>4, <2>5, <2>6, <2>7, MadeStep
<1>5. CASE TreeIsWritten
  <2>1. /\ pc = "tree" /\ pc' = "git" /\ disk' = [disk EXCEPT !["td/vendor"] = "new"]
        /\ UNCHANGED <<payload, sw, first, git, restore, vendorbak, faults, result>>
    BY <1>5 DEF TreeIsWritten
  <2>2. IsMade("manifest") /\ IsMade("lock") /\ sw["vendor"]
    BY <2>1 DEF LivingInv, PreparingOK, Preparing
  <2>3. /\ disk' \in [Places -> Content] /\ disk'["td/vendor"] = "new"
        /\ \A p \in Places \ {"td/vendor"} : disk'[p] = disk[p]
    BY <1>1, <2>1 DEF Content
  <2>4. (\A x \in Targets : IsMade(x))'
    BY <2>1, <2>2, <2>3 DEF IsMade, Targets
  <2>5. \A p \in Places : (\A x \in Targets : p # Temp(x)) => disk'[p] = disk[p]
    BY <2>3 DEF Targets
  <2> QED
    BY <2>1, <2>3, <2>4, <2>5, MadeStep
<1> QED
  BY <1>2, <1>3, <1>4, <1>5

\* .git goes to the new vendor directory, or stays; then the moves begin.
LEMMA MoveGitStep == LivingInv /\ MoveGit => LivingInv'
<1> SUFFICES ASSUME LivingInv, MoveGit
             PROVE  LivingInv'
  OBVIOUS
<1>1. /\ pc = "git" /\ pc' = "out manifest" /\ restore = <<>> /\ result = "none"
      /\ UNCHANGED <<payload, sw, first, disk, restore, vendorbak, result>>
  BY DEF MoveGit, LivingInv, PreparingOK, PcOK, Preparing
<1>2. \A x \in Targets : Untouched(x) /\ IsMade(x)
  BY <1>1 DEF LivingInv, PreparingOK, Preparing
<1>8. \/ faults' = faults /\ git = "vendor" /\ disk["td/vendor"] = "new" /\ git' = "td/vendor"
      \/ faults' = faults /\ git' = git /\ ~(git = "vendor" /\ disk["td/vendor"] = "new")
      \/ faults' = faults + 1 /\ git' = git /\ faults < MaxFaults
  BY Zenon DEF MoveGit
<1>9. faults \in Nat /\ MaxFaults \in Nat /\ faults <= MaxFaults
  BY FaultsAssumption DEF LivingInv, TypeOK
<1>3. TypeOK' /\ FirstOK' /\ PcOK' /\ DecisionOK'
  <2>2. faults' \in 0 .. MaxFaults
    BY <1>8, <1>9
  <2>3. git' \in Directories \cup {Nowhere}
    BY <1>8 DEF LivingInv, TypeOK, Directories
  <2> QED
    BY <1>1, <2>2, <2>3 DEF LivingInv, TypeOK, FirstOK, PcOK, DecisionOK, Moving, Preparing
<1>4. MovingOK'
  <2>1. ASSUME NEW x \in Targets
        PROVE  Standing(x)'
    <3>1. Untouched(x)' /\ IsMade(x)'
      BY <1>1, <1>2 DEF Untouched, IsMade
    <3>2. pc' # In(x) /\ pc' \notin Behind(x)
      BY <1>1, PcFacts DEF Moving
    <3> QED
      BY <3>1, <3>2 DEF Standing
  <2> QED
    BY <2>1 DEF MovingOK
<1>5. RestoreOK'
  BY <1>1, NothingToRestore
<1>6. GitOK'
  <2> SUFFICES ASSUME faults' = 0
               PROVE  git' = IF first.git = "vendor" /\ sw["vendor"] THEN "td/vendor" ELSE first.git
    BY <1>1 DEF GitOK, Moving
  <2>1. faults = 0 /\ faults' = faults
    BY <1>8, <1>9
  <2>4. git = first.git /\ first.git \in {"vendor", Nowhere}
    BY <1>1, <2>1 DEF LivingInv, GitOK, FirstOK, Moving
  <2>2. disk["td/vendor"] = "new" <=> sw["vendor"]
    BY <1>2, PlaceFacts DEF IsMade, Targets
  <2>3. Nowhere # "vendor"
    BY DEF Nowhere
  <2> QED
    BY <1>8, <1>9, <2>1, <2>2, <2>3, <2>4
<1>7. PreparingOK' /\ FailureOK' /\ SuccessOK'
  BY <1>1 DEF PreparingOK, FailureOK, SuccessOK, Preparing
<1>10. VendorBakOK'
  BY <1>1 DEF LivingInv, VendorBakOK, Preparing
<1> QED
  BY <1>3, <1>4, <1>5, <1>6, <1>7, <1>10 DEF LivingInv

-----------------------------------------------------------------------------
(* The moves.                                                              *)

LEMMA TypeFacts ==
    ASSUME TypeOK
    PROVE  /\ disk \in [Places -> Content] /\ sw \in [Targets -> BOOLEAN]
           /\ faults \in Nat /\ MaxFaults \in Nat /\ faults <= MaxFaults
           /\ restore \in Seq([from : Places \ Targets, to : Targets])
  BY FaultsAssumption DEF TypeOK

LEMMA ElementOf ==
    ASSUME NEW S, NEW s \in Seq(S), NEW i \in DOMAIN s
    PROVE  s[i] \in S
  OBVIOUS

\* The place an old thing is kept in was free.
LEMMA KeptFree == FirstOK => \A x \in Targets : first.disk[Kept(x)] = "none"
<1> SUFFICES ASSUME FirstOK, NEW x \in Targets
             PROVE  first.disk[Kept(x)] = "none"
  OBVIOUS
<1>1. TempOrig(x) \in TempPlaces
  BY DEF TempPlaces
<1> QED
  BY <1>1 DEF FirstOK, Kept

\* pc goes on past x: for the other targets nothing has changed.
LEMMA Passing ==
    ASSUME pc \in Moving, NEW x \in Targets,
           \/ pc = Out(x) /\ pc' \in {In(x), After(x)}
           \/ pc = In(x) /\ pc' = After(x)
    PROVE  /\ pc' \in Moving /\ pc' # Out(x) /\ pc' \notin AheadOf(x)
           /\ \A y \in Targets \ {x} : /\ pc # In(y) /\ pc' # In(y)
                                       /\ pc \in AheadOf(y) <=> pc' \in AheadOf(y)
           /\ pc # "clean" /\ (pc' = "clean" => x = "vendor")
           /\ pc' = "in vendor" => x = "vendor"
<1>1. pc' \in Moving /\ pc' \notin AheadOf(x)
  <2>1. In(x) \in Moving /\ After(x) \in Moving /\ In(x) \notin AheadOf(x) /\ After(x) \notin AheadOf(x)
    BY PcFacts, Zenon
  <2> QED
    BY <2>1
<1>2. pc' # Out(x)
  <2>1. Out(x) \in AheadOf(x)
    BY PcFacts, Zenon
  <2> QED
    BY <1>1, <2>1
<1>3. ASSUME NEW y \in Targets \ {x}
      PROVE  pc # In(y) /\ pc' # In(y) /\ (pc \in AheadOf(y) <=> pc' \in AheadOf(y))
  <2>1. y \in Targets /\ x # y
    OBVIOUS
  <2>2. pc # In(y) /\ pc' # In(y)
    BY <2>1, PcFacts
  <2>3. /\ Out(x) \in AheadOf(y) <=> In(x) \in AheadOf(y)
        /\ In(x) \in AheadOf(y) <=> After(x) \in AheadOf(y)
    BY <2>1, PcFacts
  <2>4. pc \in AheadOf(y) <=> pc' \in AheadOf(y)
    BY <2>3
  <2> QED
    BY <2>2, <2>4
<1>4. pc # "clean" /\ (pc' = "clean" => x = "vendor")
  BY PcFacts
<1>5. pc' = "in vendor" => x = "vendor"
  BY PcFacts
<1> QED
  BY <1>1, <1>2, <1>3, <1>4, <1>5

\* What is left to show of a move when pc goes on.
LEMMA Advance ==
    ASSUME LivingInv, NEW x \in Targets, pc \in Moving,
           \/ pc = Out(x) /\ pc' \in {In(x), After(x)}
           \/ pc = In(x) /\ pc' = After(x),
           UNCHANGED <<payload, sw, first, faults, result>>,
           TypeOK', Standing(x)', \A p \in Places \ Own(x) : disk'[p] = disk[p],
           VendorBakOK', RestoreOK',
           faults = 0 => git' = IF first.git = "vendor" /\ sw["vendor"] /\ pc' # "clean"
                                THEN "td/vendor" ELSE first.git
    PROVE  LivingInv'
<1>1. pc' \in Moving
  BY Passing
<1>2. PcOK' /\ FirstOK' /\ DecisionOK'
  BY <1>1 DEF LivingInv, PcOK, FirstOK, DecisionOK, Moving, Preparing
<1>3. MovingOK'
  <2>1. ASSUME NEW y \in Targets, y # x
        PROVE  Standing(y)'
    <3>1. Standing(y)
      BY DEF LivingInv, MovingOK
    <3>2. \A p \in Own(y) : disk'[p] = disk[p]
      <4>1. Own(y) \subseteq Places /\ Own(y) \cap Own(x) = {}
        BY <2>1, OwnFacts
      <4> QED
        BY <4>1
    <3>3. pc # In(y) /\ pc' # In(y) /\ (pc \in AheadOf(y) <=> pc' \in AheadOf(y))
      BY <2>1, Passing
    <3> QED
      BY <1>1, <3>1, <3>2, <3>3, StandingAlone
  <2> QED
    BY <2>1 DEF MovingOK
<1>4. GitOK'
  BY <1>1 DEF GitOK
<1>5. PreparingOK' /\ FailureOK' /\ SuccessOK'
  BY <1>1 DEF PreparingOK, FailureOK, SuccessOK, Moving, Preparing
<1> QED
  BY <1>2, <1>3, <1>4, <1>5 DEF LivingInv

\* What can be put back stays right when pc goes on without moving anything out.
LEMMA RestoreStays ==
    ASSUME RestoreOK, NEW x \in Targets, pc \in Moving,
           \/ pc = Out(x) /\ pc' \in {In(x), After(x)}
           \/ pc = In(x) /\ pc' = After(x),
           sw[x] /\ first.disk[x] = "old" => Listed(x),
           restore \in Seq([from : Places \ Targets, to : Targets]),
           UNCHANGED <<sw, first, restore>>
    PROVE  RestoreOK'
<1>1. pc' \in Moving /\ pc' \notin AheadOf(x)
  BY Passing
<1>2. \A y \in Targets : Kept(y)' = Kept(y) /\ Listed(y)' = Listed(y)
  BY DEF Kept, Listed
<1>3. ASSUME NEW i \in DOMAIN restore
      PROVE  /\ restore[i].to \in Targets /\ restore[i].from = Kept(restore[i].to)
             /\ first.disk[restore[i].to] = "old" /\ sw[restore[i].to]
             /\ pc' \notin AheadOf(restore[i].to)
  <2>3. restore[i] \in [from : Places \ Targets, to : Targets]
    BY ElementOf, Zenon
  <2>1. /\ restore[i].to \in Targets /\ restore[i].from = Kept(restore[i].to)
        /\ first.disk[restore[i].to] = "old" /\ sw[restore[i].to]
        /\ pc \notin AheadOf(restore[i].to)
    BY <2>3 DEF RestoreOK
  <2>2. pc' \notin AheadOf(restore[i].to)
    BY <1>1, <2>1, Passing
  <2> QED
    BY <2>1, <2>2
<1>4. ASSUME NEW y \in Targets, sw[y], first.disk[y] = "old", pc' \notin AheadOf(y)
      PROVE  Listed(y)
  <2>1. CASE y = x
    BY <1>4, <2>1
  <2>2. CASE y # x
    <3>1. pc \notin AheadOf(y)
      BY <1>4, <2>2, Passing
    <3> QED
      BY <1>4, <3>1 DEF RestoreOK
  <2> QED
    BY <2>1, <2>2
<1> QED
  BY <1>2, <1>3, <1>4 DEF RestoreOK

LEMMA SkipStep ==
    ASSUME LivingInv, NEW x \in Targets, Skip(x)
    PROVE  LivingInv'
<1>1. /\ pc = Out(x) /\ pc' = After(x) /\ ~sw[x]
      /\ UNCHANGED <<payload, sw, first, disk, git, restore, vendorbak, faults, result>>
  BY DEF Skip
<1>2. pc \in Moving /\ pc' \in Moving
  BY <1>1, PcFacts
<1>3. TypeOK'
  BY <1>1 DEF LivingInv, TypeOK
<1>4. Standing(x)'
  <2>1. Untouched(x) /\ IsMade(x)
    BY <1>1, <1>2 DEF LivingInv, MovingOK, Standing
  <2>2. Untouched(x)' /\ IsMade(x)'
    BY <1>1, <2>1 DEF Untouched, IsMade
  <2>3. pc' # In(x)
    BY <1>1, PcFacts
  <2> QED
    BY <1>1, <2>2, <2>3 DEF Standing
<1>5. VendorBakOK'
  <2>1. pc' # "in vendor" /\ (pc' = "clean" => x = "vendor")
    BY <1>1, PcFacts
  <2>2. pc' \in AheadOf("vendor") => pc \in AheadOf("vendor")
    BY <1>1, <1>2, Passing DEF Targets
  <2>3. pc' \notin Preparing
    BY <1>2 DEF Moving, Preparing
  <2> QED
    BY <1>1, <2>1, <2>2, <2>3 DEF LivingInv, VendorBakOK
<1>6. RestoreOK'
  BY <1>1, <1>2, RestoreStays, TypeFacts DEF LivingInv
<1>7. faults = 0 => git' = IF first.git = "vendor" /\ sw["vendor"] /\ pc' # "clean"
                           THEN "td/vendor" ELSE first.git
  <2>1. pc # "clean" /\ (pc' = "clean" => x = "vendor") /\ result = "none" /\ pc # "killed"
    BY <1>1, <1>2, PcFacts DEF LivingInv, PcOK, Moving
  <2> QED
    BY <1>1, <1>2, <2>1 DEF LivingInv, GitOK
<1> QED
  BY <1>1, <1>2, <1>3, <1>4, <1>5, <1>6, <1>7, Advance

LEMMA NothingStep ==
    ASSUME LivingInv, NEW x \in Targets, NothingToMoveOut(x)
    PROVE  LivingInv'
<1>1. /\ pc = Out(x) /\ pc' = In(x) /\ sw[x] /\ disk[x] = "none"
      /\ UNCHANGED <<payload, sw, first, disk, git, restore, vendorbak, faults, result>>
  BY DEF NothingToMoveOut
<1>2. pc \in Moving /\ pc' \in Moving /\ pc \in AheadOf(x)
  BY <1>1, PcFacts
<1>3. TypeOK'
  BY <1>1 DEF LivingInv, TypeOK
<1>4. Untouched(x) /\ IsMade(x)
  BY <1>2 DEF LivingInv, MovingOK, Standing
<1>5. first.disk[x] = "none" /\ disk[Kept(x)] = "none" /\ first.disk[Kept(x)] = "none"
  BY <1>1, <1>4, KeptFree, OwnFacts DEF LivingInv, Untouched
<1>6. Standing(x)'
  <2>1. IsKept(x)' /\ IsMade(x)'
    BY <1>1, <1>4, <1>5 DEF Untouched, IsMade, IsKept, Kept, Backups
  <2>2. pc' \notin AheadOf(x) /\ pc' \notin Behind(x)
    BY <1>1, PcFacts
  <2> QED
    BY <1>1, <2>1, <2>2 DEF Standing
<1>7. VendorBakOK'
  <2>1. pc' = "in vendor" => x = "vendor" /\ pc = "out vendor"
    BY <1>1, PcFacts
  <2>2. pc' # "clean" /\ "out vendor" \in AheadOf("vendor")
    BY <1>1, PcFacts DEF AheadOf, Moving
  <2>3. pc' \in AheadOf("vendor") => pc \in AheadOf("vendor")
    BY <1>1, <1>2, Passing DEF Targets
  <2>4. pc' \notin Preparing
    BY <1>2 DEF Moving, Preparing
  <2> QED
    BY <1>1, <1>5, <2>1, <2>2, <2>3, <2>4 DEF LivingInv, VendorBakOK
<1>8. RestoreOK'
  BY <1>1, <1>2, <1>5, RestoreStays, TypeFacts DEF LivingInv
<1>9. faults = 0 => git' = IF first.git = "vendor" /\ sw["vendor"] /\ pc' # "clean"
                           THEN "td/vendor" ELSE first.git
  <2>1. pc # "clean" /\ pc' # "clean" /\ result = "none" /\ pc # "killed"
    BY <1>1, <1>2, PcFacts DEF LivingInv, PcOK, Moving
  <2> QED
    BY <1>1, <1>2, <2>1 DEF LivingInv, GitOK
<1> QED
  BY <1>1, <1>2, <1>3, <1>6, <1>7, <1>8, <1>9, Advance

LEMMA AppendFacts ==
    ASSUME NEW S, NEW s \in Seq(S), NEW e \in S
    PROVE  /\ Append(s, e) \in Seq(S)
           /\ Len(s) + 1 \notin DOMAIN s
           /\ DOMAIN Append(s, e) = DOMAIN s \cup {Len(s) + 1}
           /\ Append(s, e)[Len(s) + 1] = e
           /\ \A i \in DOMAIN s : Append(s, e)[i] = s[i]
  OBVIOUS

\* What is known when x is about to be moved out.
LEMMA BeforeMoveOut ==
    ASSUME LivingInv, NEW x \in Targets, pc = Out(x), disk[x] # "none"
    PROVE  /\ Untouched(x) /\ IsMade(x) /\ ~Listed(x)
           /\ disk[x] = "old" /\ first.disk[x] = "old"
           /\ disk[Kept(x)] = "none" /\ first.disk[Kept(x)] = "none"
           /\ Backup(x) = Kept(x) /\ Movable(x, Backup(x))
<1>1. pc \in Moving /\ pc \in AheadOf(x)
  BY PcFacts
<1>2. Untouched(x) /\ IsMade(x)
  BY <1>1 DEF LivingInv, MovingOK, Standing
<1>3. disk[x] = first.disk[x] /\ disk[Kept(x)] = first.disk[Kept(x)]
  BY <1>2, OwnFacts DEF Untouched
<1>4. first.disk[Kept(x)] = "none" /\ first.disk[x] \in {"none", "old"}
  BY KeptFree DEF LivingInv, FirstOK
<1>5. Backup(x) = Kept(x)
  <2>1. x = "vendor" => disk["vendor.orig"] = first.disk["vendor.orig"]
    BY <1>2 DEF Untouched, Copies
  <2> QED
    BY <2>1 DEF Backup, Kept
<1>6. ~Listed(x)
  BY <1>1 DEF LivingInv, RestoreOK, Listed
<1> QED
  BY <1>2, <1>3, <1>4, <1>5, <1>6 DEF Movable

\* What is left to show of a move when it fails.
LEMMA BreakStep ==
    ASSUME LivingInv, NEW x \in Targets, pc \in {Out(x), In(x)}, pc' = "restoring", result' = "failed",
           UNCHANGED <<payload, sw, first, git, restore>>,
           disk' \in [Places -> Content], faults' = faults + 1, faults < MaxFaults,
           vendorbak' \in {"vendor.orig", "td/.vendor.orig", Nowhere},
           \A p \in Places \ Own(x) : disk'[p] = disk[p],
           first.disk[x] = "old" => Recoverable(x)'
    PROVE  LivingInv'
<1>1. pc \in Moving /\ pc # "clean"
  <2>1. Out(x) \in Moving /\ In(x) \in Moving /\ Out(x) # "clean" /\ In(x) # "clean"
    BY PcFacts, Zenon
  <2> QED
    BY <2>1
<1>2. faults' \in 0 .. MaxFaults /\ faults' >= 1
  BY TypeFacts DEF LivingInv
<1>3. TypeOK' /\ FirstOK' /\ PcOK' /\ DecisionOK'
  BY <1>2 DEF LivingInv, TypeOK, FirstOK, PcOK, DecisionOK, Moving, Preparing
<1>4. RestoreOK'
  <2>1. pc' \notin Moving
    BY DEF Moving
  <2> QED
    BY <2>1 DEF LivingInv, RestoreOK, Kept
<1>5. ASSUME NEW y \in Targets, y # x, first.disk[y] = "old"
      PROVE  Recoverable(y)'
  <2>1. Standing(y)
    BY <1>1 DEF LivingInv, MovingOK
  <2>2. \A p \in Own(y) : disk'[p] = disk[p]
    <3>1. Own(y) \subseteq Places /\ Own(y) \cap Own(x) = {}
      BY <1>5, OwnFacts
    <3> QED
      BY <3>1
  <2>3. Listed(y)' = Listed(y) /\ Kept(y)' = Kept(y)
    BY DEF Listed, Kept
  <2>4. CASE ~sw[y] \/ pc \in AheadOf(y)
    <3>1. disk'[y] = "old"
      BY <1>5, <2>1, <2>2, <2>4, OwnFacts DEF Standing, Untouched
    <3>2. ~Listed(y)
      BY <1>1, <2>4 DEF LivingInv, RestoreOK, Listed
    <3> QED
      BY <2>3, <3>1, <3>2 DEF Recoverable, IsBack
  <2>5. CASE sw[y] /\ pc \notin AheadOf(y)
    <3>1. pc \in Behind(y)
      <4>1. pc # In(y)
        BY <1>5, PcFacts
      <4> QED
        BY <1>1, <2>5, <4>1, PcFacts
    <3>2. y # "vendor"
      BY <1>1, <3>1 DEF Behind
    <3>3. disk'[Kept(y)] = "old"
      <4>1. Kept(y) \in Backups(y) /\ Kept(y) \in Own(y)
        BY OwnFacts DEF Backups
      <4> QED
        BY <1>5, <2>1, <2>2, <2>5, <3>1, <4>1 DEF Standing, IsKept
    <3>4. Listed(y)
      BY <1>1, <1>5, <2>5 DEF LivingInv, RestoreOK
    <3> QED
      BY <2>3, <3>2, <3>3, <3>4 DEF Recoverable
  <2> QED
    BY <2>4, <2>5
<1>6. FailureOK'
  BY <1>5 DEF FailureOK
<1>7. PreparingOK' /\ MovingOK' /\ VendorBakOK' /\ SuccessOK' /\ GitOK'
  <2>1. "restoring" \notin AheadOf("vendor")
    BY DEF AheadOf, Moving
  <2> QED
    BY <2>1 DEF PreparingOK, MovingOK, VendorBakOK, SuccessOK, GitOK, Preparing, Moving
<1> QED
  BY <1>3, <1>4, <1>6, <1>7 DEF LivingInv

\* Only a move of the vendor directory takes .git along.
LEMMA GitMoves ==
    ASSUME git \in Directories \cup {Nowhere}, NEW x \in Targets
    PROVE  /\ GitAfter(x, Kept(x)) \in Directories \cup {Nowhere}
           /\ GitAfter(Temp(x), x) \in Directories \cup {Nowhere}
           /\ GitAfter(Kept(x), x) \in Directories \cup {Nowhere}
<1>1. Nowhere \notin Places
  BY PlaceFacts DEF Nowhere
<1>2. x \in Places /\ Kept(x) \in Places /\ Temp(x) \in Places
  BY OwnFacts
<1>3. /\ x \in Directories <=> x = "vendor"
      /\ Kept(x) \in Directories <=> x = "vendor"
      /\ Temp(x) \in Directories <=> x = "vendor"
  BY OwnFacts, Zenon
<1> QED
  BY <1>1, <1>2, <1>3 DEF GitAfter

LEMMA MoveOutStep ==
    ASSUME LivingInv, NEW x \in Targets, MoveOut(x)
    PROVE  LivingInv'
<1>1. /\ pc = Out(x) /\ sw[x] /\ disk[x] # "none"
      /\ vendorbak' = IF x = "vendor" THEN Backup(x) ELSE vendorbak
      /\ UNCHANGED <<payload, sw, first>>
  BY DEF MoveOut
<1>2. /\ Untouched(x) /\ IsMade(x) /\ ~Listed(x)
      /\ disk[x] = "old" /\ first.disk[x] = "old"
      /\ disk[Kept(x)] = "none" /\ first.disk[Kept(x)] = "none"
      /\ Backup(x) = Kept(x) /\ Movable(x, Kept(x))
  BY <1>1, BeforeMoveOut
<1>3. /\ pc \in Moving /\ pc \in AheadOf(x) /\ In(x) \in Moving /\ In(x) \notin AheadOf(x)
      /\ In(x) \notin Behind(x) /\ In(x) # "clean" /\ pc # "clean"
  BY <1>1, PcFacts
<1>4. /\ x \in Places /\ Kept(x) \in Places \ Targets /\ x # Kept(x)
      /\ x \in Own(x) /\ Kept(x) \in Own(x)
      /\ Temp(x) \in Places /\ Temp(x) # x /\ Temp(x) # Kept(x)
      /\ x = "vendor" => Kept(x) \in {"vendor.orig", "td/.vendor.orig"}
  BY OwnFacts, PlaceFacts DEF Kept
<1>5. disk \in [Places -> Content] /\ vendorbak \in {"vendor.orig", "td/.vendor.orig", Nowhere}
  BY DEF LivingInv, TypeOK
<1>6. vendorbak' \in {"vendor.orig", "td/.vendor.orig", Nowhere}
  BY <1>1, <1>2, <1>4, <1>5
<1>7. CASE Succeeds(x, Kept(x)) /\ restore' = Append(restore, [from |-> Kept(x), to |-> x])
           /\ pc' = In(x) /\ UNCHANGED result
  <2>1. /\ disk' \in [Places -> Content] /\ disk'[x] = "none" /\ disk'[Kept(x)] = "old"
        /\ \A p \in Places \ {x, Kept(x)} : disk'[p] = disk[p]
        /\ git' = GitAfter(x, Kept(x)) /\ faults' = faults
    BY <1>2, <1>4, <1>5, <1>7, MovedFacts DEF Succeeds
  <2>2. git' \in Directories \cup {Nowhere}
    BY <2>1, GitMoves DEF LivingInv, TypeOK
  <2>3. /\ [from |-> Kept(x), to |-> x] \in [from : Places \ Targets, to : Targets]
        /\ restore \in Seq([from : Places \ Targets, to : Targets])
    BY <1>4, TypeFacts DEF LivingInv
  <2>4. /\ restore' \in Seq([from : Places \ Targets, to : Targets])
        /\ Len(restore) + 1 \notin DOMAIN restore
        /\ DOMAIN restore' = DOMAIN restore \cup {Len(restore) + 1}
        /\ restore'[Len(restore) + 1] = [from |-> Kept(x), to |-> x]
        /\ \A i \in DOMAIN restore : restore'[i] = restore[i]
    BY <1>7, <2>3, AppendFacts
  <2>5. TypeOK'
    BY <1>1, <1>6, <1>7, <2>1, <2>2, <2>4 DEF LivingInv, TypeOK
  <2>6. Standing(x)'
    <3>1. IsMade(x)'
      BY <1>1, <1>2, <1>4, <2>1 DEF IsMade
    <3>2. IsKept(x)'
      <4>1. Backups(x) \subseteq Places /\ Kept(x)' = Kept(x) /\ x \notin Backups(x)
        BY <1>1, OwnFacts DEF Backups, Kept
      <4>2. \A p \in Backups(x) : disk[p] = first.disk[p]
        BY <1>2 DEF Backups, Untouched
      <4> QED
        BY <1>1, <1>2, <2>1, <4>1, <4>2 DEF IsKept
    <3> QED
      BY <1>1, <1>3, <1>7, <2>1, <3>1, <3>2 DEF Standing
  <2>7. \A p \in Places \ Own(x) : disk'[p] = disk[p]
    BY <1>4, <2>1
  <2>8. VendorBakOK'
    <3>1. pc' \notin Preparing
      BY <1>3, <1>7 DEF Preparing, Moving
    <3>2. pc' \in AheadOf("vendor") => pc \in AheadOf("vendor") /\ x # "vendor"
      BY <1>1, <1>3, <1>7, Passing DEF Targets
    <3>3. pc' \in {"in vendor", "clean"} => x = "vendor"
      BY <1>1, <1>3, <1>7, PcFacts
    <3>4. Kept(x)' = Kept(x)
      BY <1>1 DEF Kept
    <3> QED
      BY <1>1, <1>2, <3>1, <3>2, <3>3, <3>4 DEF LivingInv, VendorBakOK
  <2>9. RestoreOK'
    <3>1. \A y \in Targets : Kept(y)' = Kept(y)
      BY <1>1 DEF Kept
    <3>2. ASSUME NEW i \in DOMAIN restore
          PROVE  /\ restore[i].to \in Targets /\ restore[i].from = Kept(restore[i].to)
                 /\ first.disk[restore[i].to] = "old" /\ sw[restore[i].to]
                 /\ restore[i].to # x /\ pc' \notin AheadOf(restore[i].to)
      <4>1. restore[i] \in [from : Places \ Targets, to : Targets]
        BY <2>3, ElementOf, Zenon
      <4>2. /\ restore[i].to \in Targets /\ restore[i].from = Kept(restore[i].to)
            /\ first.disk[restore[i].to] = "old" /\ sw[restore[i].to]
            /\ pc \notin AheadOf(restore[i].to)
        BY <1>3, <4>1 DEF LivingInv, RestoreOK
      <4>3. restore[i].to # x
        BY <1>3, <4>2
      <4> QED
        BY <1>1, <1>3, <1>7, <4>2, <4>3, Passing
    <3>3. ASSUME NEW i \in DOMAIN restore'
          PROVE  /\ restore'[i].to \in Targets /\ restore'[i].from = Kept(restore'[i].to)
                 /\ first.disk[restore'[i].to] = "old" /\ sw[restore'[i].to]
                 /\ pc' \notin AheadOf(restore'[i].to)
      BY <1>1, <1>2, <1>3, <1>7, <2>4, <3>2
    <3>4. ASSUME NEW i \in DOMAIN restore', NEW j \in DOMAIN restore', restore'[i].to = restore'[j].to
          PROVE  i = j
      <4>1. ASSUME NEW m \in DOMAIN restore, NEW n \in DOMAIN restore, restore[m].to = restore[n].to
            PROVE  m = n
        BY <4>1 DEF LivingInv, RestoreOK
      <4> QED
        BY <2>4, <3>2, <3>4, <4>1
    <3>5. ASSUME NEW y \in Targets, sw[y], first.disk[y] = "old", pc' \notin AheadOf(y)
          PROVE  Listed(y)'
      <4>1. CASE y = x
        BY <2>4, <4>1 DEF Listed
      <4>2. CASE y # x
        <5>1. pc \notin AheadOf(y)
          BY <1>1, <1>3, <1>7, <3>5, <4>2, Passing
        <5>2. PICK i \in DOMAIN restore : restore[i].to = y
          BY <1>3, <3>5, <5>1 DEF LivingInv, RestoreOK, Listed
        <5> QED
          BY <2>4, <5>2 DEF Listed
      <4> QED
        BY <4>1, <4>2
    <3> QED
      BY <1>1, <3>1, <3>3, <3>4, <3>5 DEF RestoreOK
  <2>10. faults = 0 => git' = IF first.git = "vendor" /\ sw["vendor"] /\ pc' # "clean"
                              THEN "td/vendor" ELSE first.git
    <3> SUFFICES ASSUME faults = 0
                 PROVE  git' = IF first.git = "vendor" /\ sw["vendor"] THEN "td/vendor" ELSE first.git
      BY <1>3, <1>7
    <3>1. git = IF first.git = "vendor" /\ sw["vendor"] THEN "td/vendor" ELSE first.git
      BY <1>3 DEF LivingInv, GitOK, PcOK, Moving
    <3>2. git # x
      BY <1>1, <3>1 DEF LivingInv, FirstOK, Targets, Nowhere
    <3> QED
      BY <2>1, <3>1, <3>2 DEF GitAfter
  <2> QED
    BY <1>1, <1>3, <1>7, <2>1, <2>5, <2>6, <2>7, <2>8, <2>9, <2>10, Advance
<1>8. CASE Fails(x, Kept(x)) /\ pc' = "restoring" /\ result' = "failed" /\ UNCHANGED restore
  <2>1. faults' = faults + 1 /\ faults < MaxFaults /\ git' = git /\ disk' \in Misplaced(x, Kept(x))
    BY <1>2, <1>8 DEF Fails
  <2>2. /\ disk' \in [Places -> Content]
        /\ ~IsCopy(x, Kept(x)) => disk' = disk
        /\ x \notin Directories => disk'[x] = disk[x]
        /\ \A p \in Places \ {x, Kept(x)} : disk'[p] = disk[p]
    BY <1>4, <1>5, <2>1, MisplacedFacts
  <2>3. IsBack(x)'
    <3>1. CASE x # "vendor" \/ ~IsCopy(x, Kept(x))
      <4>1. disk'[x] = "old"
        BY <1>2, <2>2, <3>1, OwnFacts
      <4> QED
        BY <4>1 DEF IsBack
    <3>2. CASE x = "vendor" /\ IsCopy(x, Kept(x))
      <4>1. payload.crossDevice /\ Kept(x) # "vendor.orig"
        BY <3>2, PlaceFacts DEF IsCopy
      <4>2. first.disk["vendor.orig"] = "other"
        BY <3>2, <4>1 DEF Kept, LivingInv, FirstOK
      <4> QED
        BY <1>1, <3>2, <4>1, <4>2 DEF IsBack
    <3> QED
      BY <3>1, <3>2
  <2>4. Recoverable(x)'
    BY <1>2, <1>8, <2>3 DEF Recoverable, Listed
  <2>5. \A p \in Places \ Own(x) : disk'[p] = disk[p]
    BY <1>4, <2>2
  <2> QED
    BY <1>1, <1>6, <1>8, <2>1, <2>2, <2>4, <2>5, BreakStep
<1> QED
  <2>1. \/ Succeeds(x, Backup(x)) /\ restore' = Append(restore, [from |-> Backup(x), to |-> x])
           /\ pc' = In(x) /\ UNCHANGED result
        \/ Fails(x, Backup(x)) /\ pc' = "restoring" /\ result' = "failed" /\ UNCHANGED restore
    BY Zenon DEF MoveOut, PathPair
  <2> QED
    BY <1>2, <1>7, <1>8, <2>1

LEMMA MoveInStep ==
    ASSUME LivingInv, NEW x \in Targets, MoveIn(x)
    PROVE  LivingInv'
<1>1. pc = In(x) /\ UNCHANGED <<payload, sw, first, restore, vendorbak>>
  BY DEF MoveIn
<1>2. /\ pc \in Moving /\ pc \notin AheadOf(x) /\ pc # "clean"
      /\ After(x) \in Moving /\ After(x) \in Behind(x) /\ After(x) \notin AheadOf(x) /\ After(x) # In(x)
      /\ After(x) = "clean" <=> x = "vendor"
      /\ After(x) # "in vendor"
  BY <1>1, PcFacts
<1>3. Standing(x) /\ sw[x]
  BY <1>1, <1>2 DEF LivingInv, MovingOK, Standing
<1>4. disk[x] = "none" /\ IsKept(x) /\ disk[Temp(x)] = "new"
  BY <1>1, <1>3 DEF Standing, IsMade
<1>5. /\ x \in Places /\ Temp(x) \in Places /\ Temp(x) # x
      /\ x \in Own(x) /\ Temp(x) \in Own(x)
      /\ Kept(x) \in Places /\ Kept(x) # x /\ Kept(x) # Temp(x) /\ Kept(x) \in Backups(x)
      /\ Backups(x) \subseteq Places /\ Temp(x) \notin Backups(x) /\ x \notin Backups(x)
  BY OwnFacts DEF Backups
<1>6. disk \in [Places -> Content] /\ vendorbak \in {"vendor.orig", "td/.vendor.orig", Nowhere}
  BY DEF LivingInv, TypeOK
<1>7. first.disk[x] = "old" => Listed(x)
  BY <1>2, <1>3 DEF LivingInv, RestoreOK
<1>8. CASE Succeeds(Temp(x), x) /\ pc' = After(x) /\ UNCHANGED result
  <2>1. /\ disk' \in [Places -> Content] /\ disk'[x] = "new"
        /\ \A p \in Places \ {x, Temp(x)} : disk'[p] = disk[p]
        /\ git' = GitAfter(Temp(x), x) /\ faults' = faults
    BY <1>4, <1>5, <1>6, <1>8, MovedFacts DEF Succeeds
  <2>2. git' \in Directories \cup {Nowhere}
    BY <2>1, GitMoves DEF LivingInv, TypeOK
  <2>3. TypeOK'
    BY <1>1, <1>8, <2>1, <2>2 DEF LivingInv, TypeOK
  <2>4. Standing(x)'
    <3>1. IsKept(x)'
      <4>1. Kept(x)' = Kept(x)
        BY <1>1 DEF Kept
      <4>2. \A p \in Backups(x) : disk'[p] = disk[p]
        BY <1>5, <2>1
      <4> QED
        BY <1>1, <1>4, <4>1, <4>2 DEF IsKept
    <3> QED
      BY <1>1, <1>2, <1>3, <1>8, <2>1, <3>1 DEF Standing
  <2>5. \A p \in Places \ Own(x) : disk'[p] = disk[p]
    BY <1>5, <2>1
  <2>6. VendorBakOK'
    <3>1. pc' \notin Preparing
      BY <1>2, <1>8 DEF Preparing, Moving
    <3>2. pc' \in AheadOf("vendor") => pc \in AheadOf("vendor")
      BY <1>1, <1>2, <1>8, Passing DEF Targets
    <3>3. pc' \in {"in vendor", "clean"} => pc = "in vendor"
      BY <1>1, <1>2, <1>8, PcFacts
    <3>4. Kept("vendor")' = Kept("vendor")
      BY <1>1 DEF Kept
    <3> QED
      BY <1>1, <3>1, <3>2, <3>3, <3>4 DEF LivingInv, VendorBakOK
  <2>7. RestoreOK'
    BY <1>1, <1>2, <1>7, <1>8, RestoreStays, TypeFacts DEF LivingInv
  <2>8. faults = 0 => git' = IF first.git = "vendor" /\ sw["vendor"] /\ pc' # "clean"
                             THEN "td/vendor" ELSE first.git
    <3> SUFFICES ASSUME faults = 0
                 PROVE  git' = IF first.git = "vendor" /\ sw["vendor"] /\ x # "vendor"
                               THEN "td/vendor" ELSE first.git
      BY <1>2, <1>8
    <3>1. git = IF first.git = "vendor" /\ sw["vendor"] THEN "td/vendor" ELSE first.git
      BY <1>2 DEF LivingInv, GitOK, PcOK, Moving
    <3>2. /\ Temp(x) = "td/vendor" <=> x = "vendor"
          /\ Temp(x) # first.git
      BY PlaceFacts DEF LivingInv, FirstOK, Targets, Nowhere
    <3> QED
      BY <1>3, <2>1, <3>1, <3>2 DEF GitAfter
  <2> QED
    BY <1>1, <1>2, <1>8, <2>1, <2>3, <2>4, <2>5, <2>6, <2>7, <2>8, Advance
<1>9. CASE Fails(Temp(x), x) /\ pc' = "restoring" /\ result' = "failed"
  <2>1. /\ faults' = faults + 1 /\ faults < MaxFaults /\ git' = git
        /\ disk' \in Misplaced(Temp(x), x)
    BY <1>4, <1>9 DEF Fails, Movable
  <2>2. /\ disk' \in [Places -> Content]
        /\ ~IsCopy(Temp(x), x) => disk' = disk
        /\ \A p \in Places \ {x, Temp(x)} : disk'[p] = disk[p]
    BY <1>5, <1>6, <2>1, MisplacedFacts
  <2>3. first.disk[x] = "old" => Recoverable(x)'
    <3> SUFFICES ASSUME first.disk[x] = "old"
                 PROVE  Recoverable(x)'
      OBVIOUS
    <3>1. Listed(x)' /\ Kept(x)' = Kept(x)
      BY <1>1, <1>7 DEF Listed, Kept
    <3>2. disk'[Kept(x)] = "old"
      BY <1>4, <1>5, <2>2 DEF IsKept
    <3>3. disk'[x] = "none" \/ payload.crossDevice
      BY <1>4, <2>2 DEF IsCopy
    <3> QED
      BY <1>1, <1>9, <3>1, <3>2, <3>3 DEF Recoverable
  <2>4. \A p \in Places \ Own(x) : disk'[p] = disk[p]
    BY <1>5, <2>2
  <2> QED
    BY <1>1, <1>6, <1>9, <2>1, <2>2, <2>3, <2>4, BreakStep
<1> QED
  <2>1. \/ Succeeds(Temp(x), x) /\ pc' = After(x) /\ UNCHANGED result
        \/ Fails(Temp(x), x) /\ pc' = "restoring" /\ result' = "failed"
    BY Zenon DEF MoveIn
  <2> QED
    BY <1>8, <1>9, <2>1

-----------------------------------------------------------------------------
(* The moves back, and the end.                                            *)

LEMMA TailFacts ==
    ASSUME NEW S, NEW s \in Seq(S), s # <<>>
    PROVE  /\ Tail(s) \in Seq(S) /\ Head(s) \in S /\ 1 \in DOMAIN s /\ Head(s) = s[1]
           /\ \A i \in DOMAIN Tail(s) : i \in Nat /\ i + 1 \in DOMAIN s /\ i + 1 # 1 /\ Tail(s)[i] = s[i + 1]
           /\ \A i \in DOMAIN s : i # 1 => i - 1 \in DOMAIN Tail(s) /\ Tail(s)[i - 1] = s[i]
  OBVIOUS

LEMMA RestoreStep == LivingInv /\ Restore => LivingInv'
<1> SUFFICES ASSUME LivingInv, Restore
             PROVE  LivingInv'
  OBVIOUS
<1>1. /\ pc = "restoring" /\ pc' = pc /\ restore # <<>> /\ restore' = Tail(restore)
      /\ UNCHANGED <<payload, sw, first, vendorbak, result>>
  BY DEF Restore
<1>2. pc \notin Moving /\ pc \notin Preparing /\ pc \notin AheadOf("vendor")
  BY <1>1 DEF Moving, Preparing, AheadOf
<1>3. /\ restore \in Seq([from : Places \ Targets, to : Targets]) /\ disk \in [Places -> Content]
      /\ faults \in Nat /\ MaxFaults \in Nat /\ faults <= MaxFaults /\ faults >= 1
  BY <1>1, TypeFacts DEF LivingInv, PcOK
<1>4. /\ restore' \in Seq([from : Places \ Targets, to : Targets]) /\ 1 \in DOMAIN restore
      /\ Head(restore) = restore[1]
      /\ \A i \in DOMAIN restore' : /\ i \in Nat /\ i + 1 \in DOMAIN restore /\ i + 1 # 1
                                     /\ restore'[i] = restore[i + 1]
      /\ \A i \in DOMAIN restore : i # 1 => i - 1 \in DOMAIN restore' /\ restore'[i - 1] = restore[i]
  BY <1>1, <1>3, TailFacts
<1>5. PICK y \in Targets : restore[1].to = y /\ restore[1].from = Kept(y) /\ first.disk[y] = "old"
  <2>1. restore[1] \in [from : Places \ Targets, to : Targets]
    BY <1>3, <1>4, ElementOf, Zenon
  <2> QED
    BY <1>4, <2>1 DEF LivingInv, RestoreOK
<1>6. Succeeds(Kept(y), y) \/ Fails(Kept(y), y)
  BY <1>4, <1>5 DEF Restore
<1>7. Kept(y) \in Places /\ y \in Places /\ Kept(y) # y /\ y \in Own(y) /\ Kept(y) \in Own(y)
  BY <1>5, OwnFacts
<1>8. /\ disk' \in [Places -> Content]
      /\ \A p \in Places \ {y, Kept(y)} : disk'[p] = disk[p]
      /\ faults' \in 0 .. MaxFaults /\ faults' >= faults
      /\ git' \in Directories \cup {Nowhere}
  <2>1. CASE Succeeds(Kept(y), y)
    <3>1. git' \in Directories \cup {Nowhere}
      BY <1>5, <2>1, GitMoves DEF Succeeds, LivingInv, TypeOK
    <3> QED
      BY <1>3, <1>7, <2>1, <3>1, MovedFacts DEF Succeeds
  <2>2. CASE Fails(Kept(y), y) /\ UNCHANGED <<disk, faults>>
    BY <1>3, <2>2 DEF Fails, LivingInv, TypeOK
  <2>3. CASE Fails(Kept(y), y) /\ disk' \in Misplaced(Kept(y), y) /\ faults' = faults + 1 /\ faults < MaxFaults
    <3>1. git' \in Directories \cup {Nowhere}
      BY <2>3 DEF Fails, LivingInv, TypeOK
    <3> QED
      BY <1>3, <1>7, <2>3, <3>1, MisplacedFacts
  <2> QED
    BY <1>6, <2>1, <2>2, <2>3 DEF Fails
<1>9. TypeOK' /\ FirstOK' /\ PcOK' /\ DecisionOK'
  BY <1>1, <1>3, <1>4, <1>8 DEF LivingInv, TypeOK, FirstOK, PcOK, DecisionOK
<1>10. RestoreOK'
  <2>1. \A x \in Targets : Kept(x)' = Kept(x)
    BY <1>1 DEF Kept
  <2>2. ASSUME NEW i \in DOMAIN restore'
        PROVE  /\ restore'[i].to \in Targets
               /\ restore'[i].from = Kept(restore'[i].to) /\ first.disk[restore'[i].to] = "old"
    <3>1. restore'[i] \in [from : Places \ Targets, to : Targets]
      BY <1>4, ElementOf, Zenon
    <3> QED
      BY <1>4, <3>1 DEF LivingInv, RestoreOK
  <2>3. ASSUME NEW i \in DOMAIN restore', NEW j \in DOMAIN restore', restore'[i].to = restore'[j].to
        PROVE  i = j
    <3>1. i + 1 = j + 1
      BY <1>4, <2>3 DEF LivingInv, RestoreOK
    <3> QED
      BY <1>4, <3>1
  <2> QED
    BY <1>1, <1>2, <2>1, <2>2, <2>3 DEF RestoreOK
<1>11. FailureOK'
  <2> SUFFICES ASSUME faults' <= 1, NEW x \in Targets, first.disk[x] = "old"
               PROVE  Recoverable(x)'
    BY <1>1 DEF FailureOK
  <2>1. faults' = faults /\ faults = 1
    BY <1>3, <1>8
  <2>2. result = "failed"
    BY <1>1 DEF LivingInv, PcOK
  <2>3. Recoverable(x)
    BY <1>1, <2>1, <2>2 DEF LivingInv, FailureOK
  <2>4. CASE x # y
    <3>1. Listed(x)' <=> Listed(x)
      BY <1>4, <1>5, <2>4 DEF Listed
    <3>2. disk'[x] = disk[x] /\ disk'[Kept(x)] = disk[Kept(x)]
      <4>1. Own(x) \subseteq Places /\ x \in Own(x) /\ Kept(x) \in Own(x) /\ Own(x) \cap Own(y) = {}
        BY <1>5, <2>4, OwnFacts
      <4> QED
        BY <1>7, <1>8, <4>1
    <3>3. x = "vendor" => disk'["vendor.orig"] = disk["vendor.orig"]
      <4>1. x = "vendor" => "vendor.orig" \in Own(x) /\ "vendor.orig" \in Places /\ Own(x) \cap Own(y) = {}
        BY <1>5, <2>4, OwnFacts
      <4> QED
        BY <1>7, <1>8, <4>1
    <3>4. Kept(x)' = Kept(x)
      BY <1>1 DEF Kept
    <3> QED
      BY <1>1, <2>3, <3>1, <3>2, <3>3, <3>4 DEF Recoverable, IsBack
  <2>5. CASE x = y
    <3>1. Listed(y)
      BY <1>4, <1>5 DEF Listed
    <3>2. ~Listed(y)'
      <4> SUFFICES ASSUME NEW i \in DOMAIN restore', restore'[i].to = y
                   PROVE  FALSE
        BY DEF Listed
      <4>1. restore[i + 1].to = restore[1].to /\ i + 1 \in DOMAIN restore /\ i + 1 # 1
        BY <1>4, <1>5
      <4> QED
        BY <1>4, <4>1 DEF LivingInv, RestoreOK
    <3>3. disk[Kept(y)] = "old" /\ (y = "vendor" => disk[y] = "none" \/ payload.crossDevice)
      BY <1>1, <2>3, <2>5, <3>1 DEF Recoverable
    <3>4. IsBack(y)'
      <4>1. CASE Succeeds(Kept(y), y)
        <5>1. disk'[y] = "old"
          BY <1>3, <1>7, <3>3, <4>1, MovedFacts DEF Succeeds
        <5> QED
          BY <5>1 DEF IsBack
      <4>2. CASE Fails(Kept(y), y)
        <5>1. ~Movable(Kept(y), y) /\ disk' = disk
          BY <1>3, <2>1, <4>2 DEF Fails
        <5>2. y = "vendor" /\ payload.crossDevice
          <6>1. Kept(y) \in Directories <=> y = "vendor"
            BY <1>5, OwnFacts, Zenon
          <6> QED
            BY <3>3, <5>1, <6>1 DEF Movable
        <5>3. disk["vendor.orig"] = "old" \/ first.disk["vendor.orig"] = "other"
          BY <3>3, <5>2 DEF Kept, LivingInv, FirstOK
        <5> QED
          BY <1>1, <5>1, <5>2, <5>3 DEF IsBack
      <4> QED
        BY <1>6, <4>1, <4>2
    <3> QED
      BY <2>5, <3>2, <3>4 DEF Recoverable
  <2> QED
    BY <2>4, <2>5
<1>12. PreparingOK' /\ MovingOK' /\ VendorBakOK' /\ SuccessOK' /\ GitOK'
  BY <1>1, <1>2 DEF LivingInv, PcOK, PreparingOK, MovingOK, VendorBakOK, SuccessOK, GitOK
<1> QED
  BY <1>9, <1>10, <1>11, <1>12 DEF LivingInv

LEMMA RestoredStep == LivingInv /\ Restored => LivingInv'
<1> SUFFICES ASSUME LivingInv, Restored
             PROVE  LivingInv'
  OBVIOUS
<1>1. /\ pc = "restoring" /\ pc' = "leaving" /\ restore = <<>> /\ result = "failed" /\ faults >= 1
      /\ UNCHANGED <<payload, sw, first, disk, git, restore, vendorbak, faults, result>>
  BY DEF Restored, LivingInv, PcOK
<1>2. \A x \in Targets : ~Listed(x)
  <2>1. DOMAIN restore = {}
    BY <1>1, EmptyDomain, Zenon
  <2> QED
    BY <2>1 DEF Listed
<1>3. TypeOK' /\ FirstOK' /\ PcOK' /\ DecisionOK'
  BY <1>1 DEF LivingInv, TypeOK, FirstOK, PcOK, DecisionOK, Moving, Preparing
<1>4. RestoreOK'
  BY <1>1, NothingToRestore DEF Moving
<1>5. FailureOK'
  BY <1>1, <1>2 DEF LivingInv, FailureOK, Recoverable, IsBack
<1>6. PreparingOK' /\ MovingOK' /\ VendorBakOK' /\ SuccessOK' /\ GitOK'
  <2>1. "leaving" \notin AheadOf("vendor")
    BY DEF AheadOf, Moving
  <2> QED
    BY <1>1, <2>1 DEF PreparingOK, MovingOK, VendorBakOK, SuccessOK, GitOK, Preparing, Moving
<1> QED
  BY <1>3, <1>4, <1>5, <1>6 DEF LivingInv

LEMMA WithoutFacts ==
    ASSUME disk \in [Places -> Content], NEW places
    PROVE  /\ Without(places) \in [Places -> Content]
           /\ \A p \in Places \ places : Without(places)[p] = disk[p]
           /\ \A p \in Places \cap places : Without(places)[p] = "none"
  BY DEF Without, Content

\* A removal touches only what it is told to remove, whether it fails or not.
LEMMA RemovalFacts ==
    ASSUME disk \in [Places -> Content], faults \in 0 .. MaxFaults, NEW places, RemoveAll(places)
    PROVE  /\ disk' \in [Places -> Content]
           /\ \A p \in Places \ places : disk'[p] = disk[p]
           /\ git' \in {git, Nowhere} /\ (git \notin places => git' = git)
           /\ faults' \in 0 .. MaxFaults /\ faults' >= faults
           /\ faults' = 0 => faults = 0 /\ \A p \in Places \cap places : disk'[p] = "none"
<1>1. CASE IsRemoved(places)
  <2>1. disk' = Without(places) /\ git' = GitWithout(places) /\ faults' = faults
    BY <1>1 DEF IsRemoved
  <2>2. git' \in {git, Nowhere} /\ (git \notin places => git' = git)
    BY <2>1 DEF GitWithout
  <2> QED
    BY <2>1, <2>2, WithoutFacts
<1>2. CASE IsRemovedInPart(places)
  <2> DEFINE present == {p \in places \cap Places : disk[p] # "none"}
  <2>1. PICK gone \in SUBSET present, cut \in SUBSET present :
           /\ disk' = [p \in Places |-> IF p \in cut THEN "partial" ELSE Without(gone)[p]]
           /\ git' \in {GitWithout(gone), GitWithout(gone \cup cut)}
    BY <1>2 DEF IsRemovedInPart
  <2>2. gone \subseteq places /\ cut \subseteq places
    OBVIOUS
  <2>3. faults < MaxFaults /\ faults' = faults + 1
    BY <1>2 DEF IsRemovedInPart
  <2> HIDE DEF present
  <2>4. /\ Without(gone) \in [Places -> Content]
        /\ \A p \in Places \ gone : Without(gone)[p] = disk[p]
    BY WithoutFacts
  <2>5. disk' \in [Places -> Content] /\ \A p \in Places \ places : disk'[p] = disk[p]
    BY <2>1, <2>2, <2>4 DEF Content
  <2>6. git' \in {git, Nowhere} /\ (git \notin places => git' = git)
    BY <2>1, <2>2 DEF GitWithout
  <2>7. faults' \in 0 .. MaxFaults /\ faults' >= faults /\ faults' # 0
    BY <2>3, FaultsAssumption
  <2> QED
    BY <2>5, <2>6, <2>7
<1> QED
  BY <1>1, <1>2 DEF RemoveAll

\* What can be put back is right wherever the process goes that moves nothing.
LEMMA RestoreIsOld ==
    ASSUME RestoreOK, pc' \notin Moving, UNCHANGED <<first, restore>>
    PROVE  RestoreOK'
  BY DEF RestoreOK, Kept

LEMMA CleanUpStep == LivingInv /\ CleanUp => LivingInv'
<1> SUFFICES ASSUME LivingInv, CleanUp
             PROVE  LivingInv'
  OBVIOUS
<1> DEFINE bak == IF sw["vendor"] THEN {vendorbak} ELSE {}
<1>1. /\ pc = "clean" /\ pc' = "leaving" /\ result' = "ok" /\ result = "none"
      /\ RemoveAll(bak)
      /\ UNCHANGED <<payload, sw, first, restore, vendorbak>>
  BY DEF CleanUp, LivingInv, PcOK, Moving
<1>2. /\ disk \in [Places -> Content]
      /\ git \in Directories \cup {Nowhere}
      /\ vendorbak \in {"vendor.orig", "td/.vendor.orig", Nowhere}
      /\ faults \in 0 .. MaxFaults
  BY DEF LivingInv, TypeOK
<1>3. "clean" \in Moving /\ \A x \in Targets : "clean" \in Behind(x) /\ "clean" \notin AheadOf(x)
  BY PcFacts DEF Moving
<1>4. \A x \in Targets : sw[x] => disk[x] = "new" /\ IsKept(x)
  BY <1>1, <1>3 DEF LivingInv, MovingOK, Standing
<1>5. \A x \in Targets : ~sw[x] => Untouched(x)
  BY <1>1, <1>3 DEF LivingInv, MovingOK, Standing
<1>6. sw["vendor"] => vendorbak = IF first.disk["vendor"] = "none" THEN Nowhere ELSE Kept("vendor")
  BY <1>1 DEF LivingInv, VendorBakOK
<1>7. "vendor" \in Targets /\ "vendor.orig" \in Places \ Targets /\ Targets \subseteq Places
      /\ Nowhere \notin Places /\ "td/.vendor.orig" \notin Targets
      /\ "vendor.orig" \in Copies("vendor") /\ "vendor.orig" \in Backups("vendor")
  BY PlaceFacts DEF Targets, Nowhere, Backups
<1> HIDE DEF bak
<1>8. /\ disk' \in [Places -> Content]
      /\ \A p \in Places \ bak : disk'[p] = disk[p]
      /\ git' \in {git, Nowhere} /\ (git \notin bak => git' = git)
      /\ faults' \in 0 .. MaxFaults /\ faults' >= faults
      /\ faults' = 0 => faults = 0 /\ \A p \in Places \cap bak : disk'[p] = "none"
  BY <1>1, <1>2, RemovalFacts
<1> USE DEF bak
<1>9. \A x \in Targets : disk'[x] = IF sw[x] THEN "new" ELSE first.disk[x]
  <2>1. \A x \in Targets : x \notin bak
    BY <1>2, <1>7
  <2>2. \A x \in Targets : disk'[x] = disk[x]
    BY <1>7, <1>8, <2>1
  <2>3. \A x \in Targets : x \in Copies(x)
    BY OwnFacts
  <2> QED
    BY <1>4, <1>5, <2>2, <2>3 DEF Untouched
<1>10. ASSUME faults' = 0 \/ first.disk["vendor.orig"] # "none"
       PROVE  disk'["vendor.orig"] = first.disk["vendor.orig"]
  <2>1. CASE ~sw["vendor"]
    <3>1. disk["vendor.orig"] = first.disk["vendor.orig"]
      BY <1>5, <1>7, <2>1 DEF Untouched
    <3> QED
      BY <1>7, <1>8, <2>1, <3>1
  <2>2. CASE sw["vendor"]
    <3>1. disk["vendor.orig"] = IF Kept("vendor") = "vendor.orig" THEN first.disk["vendor"]
                                ELSE first.disk["vendor.orig"]
      BY <1>4, <1>7, <2>2 DEF IsKept
    <3>2. Kept("vendor") = IF first.disk["vendor.orig"] = "none" THEN "vendor.orig" ELSE "td/.vendor.orig"
      BY PlaceFacts DEF Kept
    <3>3. bak = {IF first.disk["vendor"] = "none" THEN Nowhere ELSE Kept("vendor")}
      BY <1>6, <2>2
    <3> HIDE DEF bak
    <3> QED
      BY <1>7, <1>8, <1>10, <3>1, <3>2, <3>3
  <2> QED
    BY <2>1, <2>2
<1>11. git' \in Directories \cup {Nowhere}
  BY <1>2, <1>8
<1>12. GitOK'
  <2> SUFFICES ASSUME faults' = 0
               PROVE  git' = first.git
    BY <1>1 DEF GitOK, Moving
  <2>1. git = first.git /\ first.git \in {"vendor", Nowhere}
    BY <1>1, <1>8 DEF LivingInv, GitOK, FirstOK
  <2>2. "vendor" \notin bak
    BY <1>2, <1>7
  <2> QED
    BY <1>8, <2>1, <2>2
<1>13. TypeOK' /\ FirstOK' /\ PcOK' /\ DecisionOK'
  BY <1>1, <1>8, <1>11 DEF LivingInv, TypeOK, FirstOK, PcOK, DecisionOK, Moving, Preparing
<1>14. SuccessOK'
  BY <1>1, <1>9, <1>10 DEF SuccessOK
<1>15. RestoreOK'
  BY <1>1, RestoreIsOld DEF Moving, LivingInv
<1>16. PreparingOK' /\ MovingOK' /\ VendorBakOK' /\ FailureOK'
  <2>1. "leaving" \notin AheadOf("vendor")
    BY DEF AheadOf, Moving
  <2> QED
    BY <1>1, <2>1 DEF PreparingOK, MovingOK, VendorBakOK, FailureOK, Preparing, Moving
<1> QED
  BY <1>12, <1>13, <1>14, <1>15, <1>16 DEF LivingInv

LEMMA LeaveStep == LivingInv /\ Leave => LivingInv'
<1> SUFFICES ASSUME LivingInv, Leave
             PROVE  LivingInv'
  OBVIOUS
<1>1. /\ pc = "leaving" /\ pc' = "returned" /\ result \in {"ok", "failed"}
      /\ RemoveAll(TempPlaces)
      /\ UNCHANGED <<payload, sw, first, restore, vendorbak, result>>
  BY DEF Leave, LivingInv, PcOK
<1>2. /\ Targets \subseteq Places \ TempPlaces /\ "vendor.orig" \in Places \ TempPlaces
      /\ TempPlaces \subseteq Places /\ "vendor" \notin TempPlaces /\ Nowhere \notin TempPlaces
  BY PlaceFacts DEF Targets, Nowhere
<1>3. /\ disk' \in [Places -> Content]
      /\ \A p \in Places \ TempPlaces : disk'[p] = disk[p]
      /\ git' \in {git, Nowhere} /\ (git \notin TempPlaces => git' = git)
      /\ faults' \in 0 .. MaxFaults /\ faults' >= faults
      /\ faults' = 0 => faults = 0 /\ \A p \in TempPlaces : disk'[p] = "none"
  <2>1. TempPlaces = Places \cap TempPlaces
    BY <1>2
  <2>2. disk \in [Places -> Content] /\ faults \in 0 .. MaxFaults
    BY DEF LivingInv, TypeOK
  <2> QED
    BY <1>1, <2>1, <2>2, RemovalFacts
<1>4. git' \in Directories \cup {Nowhere}
  BY <1>3 DEF LivingInv, TypeOK
<1>5. GitOK'
  <2> SUFFICES ASSUME faults' = 0, result # "failed"
               PROVE  git' = first.git
    BY <1>1 DEF GitOK, Moving
  <2>1. git = first.git /\ first.git \in {"vendor", Nowhere}
    BY <1>1, <1>3 DEF LivingInv, GitOK, FirstOK, Moving
  <2> QED
    BY <1>2, <1>3, <2>1
<1>6. TypeOK' /\ FirstOK' /\ PcOK' /\ DecisionOK'
  BY <1>1, <1>3, <1>4 DEF LivingInv, TypeOK, FirstOK, PcOK, DecisionOK, Moving, Preparing
<1>7. SuccessOK'
  BY <1>1, <1>2, <1>3 DEF LivingInv, SuccessOK
<1>8. FailureOK'
  <2> SUFFICES ASSUME result = "failed", faults' <= 1, NEW x \in Targets, first.disk[x] = "old"
               PROVE  IsBack(x)'
    BY <1>1 DEF FailureOK, Recoverable
  <2>1. IsBack(x)
    <3>1. faults <= 1
      BY <1>3 DEF LivingInv, TypeOK
    <3> QED
      BY <1>1, <3>1 DEF LivingInv, FailureOK, Recoverable
  <2>2. disk'[x] = disk[x] /\ disk'["vendor.orig"] = disk["vendor.orig"]
    BY <1>2, <1>3
  <2> QED
    BY <1>1, <2>1, <2>2 DEF IsBack
<1>9. RestoreOK'
  BY <1>1, RestoreIsOld DEF Moving, LivingInv
<1>10. PreparingOK' /\ MovingOK' /\ VendorBakOK'
  <2>1. "returned" \notin AheadOf("vendor")
    BY DEF AheadOf, Moving
  <2> QED
    BY <1>1, <2>1 DEF PreparingOK, MovingOK, VendorBakOK, Preparing, Moving
<1> QED
  BY <1>5, <1>6, <1>7, <1>8, <1>9, <1>10 DEF LivingInv

LEMMA CrashStep == LivingInv /\ Crash => LivingInv'
<1> SUFFICES ASSUME LivingInv, Crash
             PROVE  LivingInv'
  OBVIOUS
<1>1. pc' = "killed" /\ UNCHANGED <<payload, sw, first, disk, git, restore, vendorbak, faults, result>>
  BY DEF Crash
<1>2. "killed" \notin AheadOf("vendor") /\ "killed" \notin Moving
  BY DEF AheadOf, Moving
<1>3. TypeOK' /\ FirstOK' /\ PcOK' /\ DecisionOK'
  BY <1>1 DEF LivingInv, TypeOK, FirstOK, PcOK, DecisionOK, Moving, Preparing
<1>4. RestoreOK'
  BY <1>1, <1>2, RestoreIsOld DEF LivingInv
<1>5. PreparingOK' /\ MovingOK' /\ VendorBakOK' /\ FailureOK' /\ SuccessOK' /\ GitOK'
  BY <1>1, <1>2 DEF PreparingOK, MovingOK, VendorBakOK, FailureOK, SuccessOK, GitOK, Preparing
<1> QED
  BY <1>3, <1>4, <1>5 DEF LivingInv

LEMMA LivingStutter == LivingInv /\ UNCHANGED writerVars => LivingInv'
<1> SUFFICES ASSUME LivingInv, UNCHANGED writerVars
             PROVE  LivingInv'
  OBVIOUS
<1>1. UNCHANGED <<payload, sw, first, disk, git, pc, restore, vendorbak, faults, result>>
  BY DEF writerVars
<1>2. TypeOK' /\ FirstOK' /\ PcOK' /\ DecisionOK' /\ SuccessOK' /\ GitOK' /\ VendorBakOK'
  BY <1>1 DEF LivingInv, TypeOK, FirstOK, PcOK, DecisionOK, SuccessOK, GitOK, VendorBakOK, Kept
<1>3. PreparingOK' /\ MovingOK'
  BY <1>1 DEF LivingInv, PreparingOK, MovingOK, Standing, Untouched, IsMade, IsKept, Kept
<1>4. RestoreOK' /\ FailureOK'
  BY <1>1 DEF LivingInv, RestoreOK, FailureOK, Recoverable, IsBack, Listed, Kept
<1> QED
  BY <1>2, <1>3, <1>4 DEF LivingInv

LEMMA LivingInit == Init => LivingInv
<1> SUFFICES ASSUME Init
             PROVE  LivingInv
  OBVIOUS
<1>1. /\ payload \in Payloads /\ sw = [x \in Targets |-> FALSE] /\ disk \in [Places -> {"none", "old", "other"}]
      /\ git \in {"vendor", Nowhere} /\ first = [disk |-> disk, git |-> git]
      /\ pc = "new" /\ restore = <<>> /\ vendorbak = Nowhere /\ faults = 0 /\ result = "none"
  BY DEF Init
<1>2. /\ Targets \subseteq Places /\ "vendor.orig" \in Places \ Targets /\ TempPlaces \subseteq Places \ Targets
      /\ "vendor.orig" \notin TempPlaces
  BY PlaceFacts DEF Targets
<1>3. /\ \A x \in Targets : disk[x] \in {"none", "old"}
      /\ disk["vendor.orig"] \in {"none", "other"}
      /\ \A p \in TempPlaces : disk[p] = "none"
  BY <1>2 DEF Init
<1>4. TypeOK
  <2>1. disk \in [Places -> Content] /\ first.disk = disk
    BY <1>1 DEF Content
  <2>2. git \in Directories \cup {Nowhere}
    BY <1>1 DEF Directories
  <2>3. restore \in Seq([from : Places \ Targets, to : Targets])
    BY <1>1
  <2>4. faults \in 0 .. MaxFaults
    BY <1>1, FaultsAssumption
  <2> QED
    BY <1>1, <2>1, <2>2, <2>3, <2>4 DEF TypeOK
<1>5. FirstOK /\ PcOK /\ DecisionOK /\ FailureOK /\ SuccessOK /\ MovingOK
  BY <1>1, <1>3 DEF FirstOK, PcOK, DecisionOK, FailureOK, SuccessOK, MovingOK, Preparing, Moving
<1>6. PreparingOK
  <2>1. \A x \in Targets : Untouched(x)
    BY <1>1 DEF Untouched
  <2>2. \A x \in Targets : disk[Temp(x)] = "none"
    BY <1>3, OwnFacts
  <2> QED
    BY <1>1, <2>1, <2>2 DEF PreparingOK
<1>7. VendorBakOK /\ GitOK
  BY <1>1 DEF VendorBakOK, GitOK, Moving
<1>8. RestoreOK
  <2>1. DOMAIN restore = {}
    BY <1>1, EmptyDomain, Zenon
  <2> QED
    BY <1>1, <2>1 DEF RestoreOK, Moving
<1> QED
  BY <1>4, <1>5, <1>6, <1>7, <1>8 DEF LivingInv

LEMMA LivingStep == LivingInv /\ [Next]_vars => LivingInv'
<1> SUFFICES ASSUME LivingInv, [Next]_vars
             PROVE  LivingInv'
  OBVIOUS
<1>1. CASE Begin
  BY <1>1, BeginStep
<1>2. CASE WriteFiles \/ TreeIsWritten \/ TreeHasFailed
  BY <1>2, WriteStep
<1>3. CASE StartTree \/ TreeStep
  BY <1>3, LivingStutter DEF StartTree, TreeStep
<1>4. CASE MoveGit
  BY <1>4, MoveGitStep
<1>5. ASSUME NEW x \in Targets, Skip(x) \/ NothingToMoveOut(x) \/ MoveOut(x) \/ MoveIn(x)
      PROVE  LivingInv'
  BY <1>5, SkipStep, NothingStep, MoveOutStep, MoveInStep
<1>6. CASE Restore
  BY <1>6, RestoreStep
<1>7. CASE Restored
  BY <1>7, RestoredStep
<1>8. CASE CleanUp
  BY <1>8, CleanUpStep
<1>9. CASE Leave
  BY <1>9, LeaveStep
<1>10. CASE Crash
  BY <1>10, CrashStep
<1>11. CASE Done \/ UNCHANGED vars
  BY <1>11, LivingStutter DEF Done, vars
<1> QED
  BY <1>1, <1>2, <1>3, <1>4, <1>5, <1>6, <1>7, <1>8, <1>9, <1>10, <1>11 DEF Next, Step

\* Only a process that is killed is left as it stands.
LEMMA DeadStep == [Next]_vars /\ pc = "killed" => UNCHANGED <<payload, first, disk, faults, result>>
<1> SUFFICES ASSUME [Next]_vars, pc = "killed"
             PROVE  UNCHANGED <<payload, first, disk, faults, result>>
  OBVIOUS
<1>1. \A x \in Targets : Out(x) # "killed" /\ In(x) # "killed"
  BY DEF Out, In, Targets
<1>2. ~Step
  BY <1>1 DEF Step, Begin, WriteFiles, StartTree, TreeStep, TreeIsWritten, TreeHasFailed, MoveGit,
              Skip, NothingToMoveOut, MoveOut, MoveIn, Restore, Restored, CleanUp, Leave
<1>3. UNCHANGED vars
  BY <1>2 DEF Next, Crash, Done
<1> QED
  BY <1>3 DEF vars, writerVars

\* The invariant of the specification, before and after a crash.
WholeInv == LivingInv /\ (pc = "killed" => OriginalsSurvive)

LEMMA WholeStep == WholeInv /\ [Next]_vars => WholeInv'
<1> SUFFICES ASSUME WholeInv, [Next]_vars
             PROVE  WholeInv'
  OBVIOUS
<1>1. LivingInv'
  BY LivingStep DEF WholeInv
<1>2. ASSUME pc' = "killed"
      PROVE  OriginalsSurvive'
  <2>1. OriginalsSurvive
    BY Survival DEF WholeInv
  <2>2. UNCHANGED <<payload, first, disk, faults, result>>
    <3>1. CASE pc = "killed"
      BY <3>1, DeadStep
    <3>2. CASE pc # "killed"
      <4>1. Crash
        <5>1. \A x \in Targets : In(x) # "killed" /\ After(x) # "killed"
          BY DEF In, After, Targets
        <5> QED
          BY <1>2, <3>2, <5>1
          DEF Next, Step, Done, vars, writerVars, Begin, WriteFiles, Abandon, StartTree, TreeStep,
              TreeIsWritten, TreeHasFailed, MoveGit, Skip, NothingToMoveOut, MoveOut, MoveIn,
              Restore, Restored, CleanUp, Leave
      <4> QED
        BY <4>1 DEF Crash
    <3> QED
      BY <3>1, <3>2
  <2> QED
    BY <2>1, <2>2 DEF OriginalsSurvive
<1> QED
  BY <1>1, <1>2 DEF WholeInv

LEMMA WholeFacts == WholeInv => TypeOK /\ AllOrNothing /\ OriginalsSurvive
<1> SUFFICES ASSUME WholeInv
             PROVE  TypeOK /\ AllOrNothing /\ OriginalsSurvive
  OBVIOUS
<1>1. LivingInv /\ OriginalsSurvive
  BY Survival DEF WholeInv
<1>2. Committed
  <2> SUFFICES ASSUME pc = "returned", result = "ok"
               PROVE  /\ \A x \in Targets : disk[x] = IF sw[x] THEN "new" ELSE first.disk[x]
                      /\ \A p \in Places \ Targets :
                            faults = 0 \/ first.disk[p] # "none" => disk[p] = first.disk[p]
                      /\ faults = 0 => git = first.git
    BY DEF Committed, Returned
  <2>1. /\ \A x \in Targets : disk[x] = IF sw[x] THEN "new" ELSE first.disk[x]
        /\ faults = 0 \/ first.disk["vendor.orig"] # "none" => disk["vendor.orig"] = first.disk["vendor.orig"]
        /\ faults = 0 => \A p \in TempPlaces : disk[p] = "none"
    BY <1>1 DEF LivingInv, SuccessOK
  <2>2. \A p \in Places \ Targets : faults = 0 \/ first.disk[p] # "none" => disk[p] = first.disk[p]
    BY <1>1, <2>1 DEF LivingInv, FirstOK, Places
  <2>3. faults = 0 => git = first.git
    BY <1>1 DEF LivingInv, GitOK, Moving
  <2> QED
    BY <2>1, <2>2, <2>3
<1>3. LockAndVendorAgree
  <2> SUFFICES ASSUME pc = "returned", result = "ok", payload.vendor # "never", disk["lock"] = "new"
               PROVE  disk["vendor"] = "new"
    BY DEF LockAndVendorAgree, Returned
  <2>1. sw = NewSafeWriter(payload)
    BY <1>1 DEF LivingInv, DecisionOK
  <2>2. sw["lock"] = WritesLock(payload) /\ sw["vendor"] = WritesVendor(payload)
    BY <2>1 DEF NewSafeWriter, Targets
  <2>3. sw["lock"]
    BY <1>1 DEF LivingInv, SuccessOK, FirstOK, Targets
  <2>4. payload.vendor \in {"always", "onChanged"}
    BY <1>1 DEF LivingInv, TypeOK, Payloads
  <2>5. sw["vendor"]
    BY <2>2, <2>3, <2>4 DEF WritesLock, WritesVendor
  <2> QED
    BY <1>1, <2>5 DEF LivingInv, SuccessOK, Targets
<1>4. RolledBack
  BY <1>1 DEF LivingInv, FailureOK, Recoverable, IsBack, RolledBack, Returned
<1> QED
  BY <1>1, <1>2, <1>3, <1>4 DEF AllOrNothing, LivingInv

\* To the tree, a step of Write is one of its own or none.
LEMMA StepOfTheTree == [Next]_vars => [MakeTree \/ WriteTree]_treeVars
<1> SUFFICES ASSUME [Next]_vars
             PROVE  [MakeTree \/ WriteTree]_treeVars
  OBVIOUS
<1>1. CASE StartTree \/ TreeStep
  BY <1>1 DEF StartTree, TreeStep
<1>2. CASE Begin \/ WriteFiles \/ TreeIsWritten \/ TreeHasFailed \/ MoveGit
  BY <1>2 DEF Begin, WriteFiles, TreeIsWritten, TreeHasFailed, MoveGit, treeVars
<1>3. ASSUME NEW x \in Targets, Skip(x) \/ NothingToMoveOut(x) \/ MoveOut(x) \/ MoveIn(x)
      PROVE  UNCHANGED treeVars
  BY <1>3 DEF Skip, NothingToMoveOut, MoveOut, MoveIn, treeVars
<1>4. CASE Restore \/ Restored \/ CleanUp \/ Leave \/ Crash \/ Done \/ UNCHANGED vars
  BY <1>4 DEF Restore, Restored, CleanUp, Leave, Crash, Done, vars, treeVars
<1> QED
  BY <1>1, <1>2, <1>3, <1>4 DEF Next, Step

-----------------------------------------------------------------------------
(* The theorems.                                                           *)

\* What Write has moved, what it can still take back and what its goroutines are
\* at are as WholeInv says, after up to two failures and a kill at any step.
THEOREM Invariance == Spec => []WholeInv
<1>1. Init => WholeInv
  BY LivingInit DEF WholeInv, Init
<1> QED
  BY <1>1, WholeStep, PTL DEF Spec

\* SafeWriter's state has its type.
THEOREM TypeCorrect == Spec => []TypeOK
  BY Invariance, WholeFacts, PTL

\* When SafeWriter.Write has returned, everything is written, or, after a single
\* failure, what was there is there again (txn_writer.go:267), a vendor directory
\* that had to go to another device excepted; and lock and vendor directory agree.
\* This holds of every project, every payload and any bound on the moves that fail.
THEOREM WriteIsAllOrNothing == Spec => []AllOrNothing
  BY Invariance, WholeFacts, PTL

\* Wherever Write is killed, and whatever has failed once before, the old
\* manifest, lock and vendor directory are each still whole somewhere.
THEOREM NothingIsLost == Spec => []OriginalsSurvive
  BY Invariance, WholeFacts, PTL

\* The errgroup's count, semaphore and error and the directories on disk agree
\* with where each goroutine of WriteDepTree stands.
THEOREM TreeInvariance == Spec => []TreeInv
<1>1. Init => TreeInv
  BY TreeInvInit DEF Init
<1>2. TreeInv /\ [Next]_vars => TreeInv'
  BY StepOfTheTree, TreeInvStep
<1> QED
  BY <1>1, <1>2, PTL DEF Spec

\* However many projects there are and however their goroutines are scheduled,
\* WriteDepTree writes all of the tree and tells of each project once, or it
\* leaves nothing.
THEOREM TreeIsWholeOrGone == Spec => []TreeIsAllOrNothing
  BY TreeInvariance, TreeFacts, PTL

\* The error that the group keeps was not caused by the cancellation that another
\* error had led to, and onWrite had been told of it.
THEOREM FirstErrorIsTheCause == Spec => []ErrorIsTheCause
  BY TreeInvariance, TreeFacts, PTL

-----------------------------------------------------------------------------
(* ReachMap.                                                               *)

Frames == [pkg : Names, todo : SUBSET Names]

\* q is above p on the stack; q is what p has yet to visit.
Above(p, q) == \E j, k \in DOMAIN stack : j < k /\ stack[j].pkg = p /\ stack[k].pkg = q
ToDo(p, q) == \E j \in DOMAIN stack : stack[j].pkg = p /\ q \in stack[j].todo

\* The stack is a path of imports, and its packages are those that are grey.
StackTypes ==
    /\ input \in Inputs /\ workmap = WorkMap(input)
    /\ colors \in [Names -> {"white", "grey", "black"}]
    /\ stack \in Seq(Frames)
StackIsPath ==
    /\ \A p \in Names : colors[p] = "grey" <=> p \in OnPath
    /\ \A p \in Names : ~Above(p, p)
    /\ \A p, q \in Names : ToDo(p, q) => q \in Imported(p) \ {p}
    /\ \A j \in DOMAIN stack : j + 1 \in DOMAIN stack => <<stack[j].pkg, stack[j + 1].pkg>> \in Imports

\* Which packages have an entry in which map.
DomainsAgree ==
    /\ DOMAIN exrsets = DOMAIN inrsets
    /\ DOMAIN exrsets \subseteq Analysed
    /\ DOMAIN errmap \subseteq DOMAIN workmap \ DOMAIN exrsets
    /\ \A p \in Names :
          /\ colors[p] = "white" => p \notin DOMAIN exrsets \cup DOMAIN errmap
          /\ colors[p] = "grey" => p \in DOMAIN exrsets
          /\ colors[p] = "black" /\ p \in DOMAIN workmap => p \in DOMAIN exrsets \cup DOMAIN errmap

\* What is above a package on the stack is reached by it, with all it has found.
PathIsReached ==
    \A p, q \in Names : Above(p, q) =>
        q \in Reached(p) /\ exrsets[q] \subseteq exrsets[p] /\ inrsets[q] \subseteq inrsets[p]

\* The sets have what a package imports itself, and nothing that it does not reach.
SetsAreSound ==
    \A p \in DOMAIN exrsets :
        /\ ImportsOf(input, p) \cap External \subseteq exrsets[p] /\ exrsets[p] \subseteq ReachedOutside(p)
        /\ Imported(p) \subseteq inrsets[p] /\ inrsets[p] \subseteq Reached(p)

\* Every import is followed, is yet to be, or leads back.
IsFollowed(p, q) ==
    \/ p \in Reached(q)
    \/ colors[q] = "black" /\ q \in DOMAIN exrsets
       /\ exrsets[q] \subseteq exrsets[p] /\ inrsets[q] \subseteq inrsets[p]
    \/ ~input.backprop /\ q \notin Analysed
    \/ ToDo(p, q) \/ Above(p, q)
ImportsAreFollowed ==
    \A p, q \in Names : p \in DOMAIN exrsets /\ q \in Imported(p) \ {p} => IsFollowed(p, q)

\* A package without entry reaches one with an error.
PoisonIsReal == \A p \in Analysed : colors[p] = "black" /\ p \notin DOMAIN exrsets => IsPoisoned(p)

\* Every cause is right, and a missing package was first imported by another that
\* is done.
IsRightCause(p, bad, cause) ==
    LET way == <<p>> \o cause
        end == way[Len(way)]
    IN  /\ \A k \in 1 .. Len(way) - 1 : <<way[k], way[k + 1]>> \in Imports
        /\ IsTrouble(end)
        /\ \/ bad = end
           \/ bad = Unknown /\ end \notin DOMAIN workmap
              /\ Cardinality({q \in Names : <<q, end>> \in Imports}) > 1
ErrorsAreRight ==
    /\ \A p \in DOMAIN errmap : errmap[p].cause \in Seq(Names) /\ IsRightCause(p, errmap[p].err, errmap[p].cause)
    /\ input.backprop => \A q \in Names :
          q \notin DOMAIN workmap /\ colors[q] = "black" => \E p \in Names : <<p, q>> \in Imports /\ colors[p] = "black"

ReachInv ==
    /\ StackTypes /\ StackIsPath /\ DomainsAgree /\ PathIsReached
    /\ SetsAreSound /\ ImportsAreFollowed /\ PoisonIsReal /\ ErrorsAreRight

-----------------------------------------------------------------------------
(* Of the graph.                                                           *)

\* What a package imports, and what that imports in turn, is reached.
LEMMA ReachedHasImports == \A p : Imported(p) \subseteq Reached(p)
BY DEF Reached, Imported

LEMMA ReachedIsClosed == \A p, q : q \in Reached(p) => Imported(q) \subseteq Reached(p)
<1> SUFFICES ASSUME NEW p, NEW q, q \in Reached(p), NEW r \in Imported(q) PROVE r \in Reached(p)
  OBVIOUS
<1>1. r \in Names
  BY DEF Imported
<1>2. ASSUME NEW set \in SUBSET Names, Imported(p) \subseteq set, IsClosed(set) PROVE r \in set
  <2>1. q \in set
    BY <1>2 DEF Reached
  <2> QED
    BY <2>1, <1>2 DEF IsClosed
<1> QED
  BY <1>1, <1>2 DEF Reached

LEMMA ReachedIsLeast ==
    ASSUME NEW p, NEW set \in SUBSET Names, Imported(p) \subseteq set, IsClosed(set)
    PROVE  Reached(p) \subseteq set
BY DEF Reached

\* So reaching is transitive.
LEMMA ReachedIsTransitive == \A p, q : q \in Reached(p) => Reached(q) \subseteq Reached(p)
<1> SUFFICES ASSUME NEW p, NEW q, q \in Reached(p) PROVE Reached(q) \subseteq Reached(p)
  OBVIOUS
<1>1. Reached(p) \in SUBSET Names
  BY DEF Reached
<1>2. IsClosed(Reached(p))
  BY ReachedIsClosed DEF IsClosed
<1>3. Imported(q) \subseteq Reached(p)
  BY ReachedIsClosed
<1> QED
  BY <1>1, <1>2, <1>3, ReachedIsLeast

LEMMA OutsideIsTransitive ==
    \A p, q : q \in Reached(p) => ReachedOutside(q) \subseteq ReachedOutside(p)
<1> SUFFICES ASSUME NEW p, NEW q, q \in Reached(p) PROVE ReachedOutside(q) \subseteq ReachedOutside(p)
  OBVIOUS
<1>1. {q} \cup Reached(q) \subseteq {p} \cup Reached(p)
  BY ReachedIsTransitive
<1> QED
  BY <1>1 DEF ReachedOutside

LEMMA OutsideHasImports == \A p \in Analysed : ImportsOf(input, p) \cap External \subseteq ReachedOutside(p)
BY DEF ReachedOutside

\* What ToReachMap makes of its input is the graph.
LEMMA WorkMapIsGraph ==
    ASSUME StackTypes
    PROVE  /\ DOMAIN workmap \subseteq Names /\ Analysed \subseteq DOMAIN workmap
           /\ \A p : IsSound(p) <=> p \in Analysed
           /\ \A p \in Analysed :
                 workmap[p].in = Imported(p) /\ workmap[p].ex = ImportsOf(input, p) \cap External
           /\ \A p : p \notin Analysed => Imported(p) = {}
<1> USE InputsAssumption DEF StackTypes
<1>1. DOMAIN input.tree \subseteq Names /\ \A p \in DOMAIN input.tree : input.tree[p].err \in BOOLEAN
  BY DEF IsTree
<1>2. DOMAIN workmap \subseteq DOMAIN input.tree
  BY DEF WorkMap
<1>3. Analysed \subseteq DOMAIN workmap
  BY DEF WorkMap, Analysed
<1>4. \A p \in DOMAIN workmap : ~input.tree[p].err => p \in Analysed
  BY DEF WorkMap, Analysed
<1>5. \A p \in DOMAIN workmap : workmap[p].err <=> input.tree[p].err
  BY <1>1, <1>2 DEF WorkMap
<1>6. \A p \in Analysed : workmap[p].in = ImportsOf(input, p) \cap Names /\ workmap[p].ex = ImportsOf(input, p) \cap External
  BY <1>3 DEF WorkMap, Analysed
<1>7. \A p \in Analysed : Imported(p) = ImportsOf(input, p) \cap Names
  BY DEF Imported, Imports
<1>8. \A p : p \notin Analysed => Imported(p) = {}
  BY DEF Imported, Imports
<1>9. \A p : IsSound(p) <=> p \in Analysed
  BY <1>1, <1>2, <1>3, <1>4, <1>5 DEF IsSound, Analysed
<1> QED
  BY <1>1, <1>2, <1>3, <1>6, <1>7, <1>8, <1>9

\* The graph is of the input alone.
LEMMA GraphStays ==
    ASSUME input' = input
    PROVE  /\ Analysed' = Analysed /\ Imports' = Imports
           /\ \A p : /\ ImportsOf(input, p)' = ImportsOf(input, p)
                     /\ Imported(p)' = Imported(p) /\ Reached(p)' = Reached(p)
                     /\ ReachedOutside(p)' = ReachedOutside(p)
                     /\ IsTrouble(p)' <=> IsTrouble(p)
                     /\ IsPoisoned(p)' <=> IsPoisoned(p)
<1>1. Analysed' = Analysed
  BY DEF Analysed
<1>2. \A p : ImportsOf(input, p)' = ImportsOf(input, p)
  BY DEF ImportsOf
<1>3. Imports' = Imports
  BY <1>1 DEF Imports, ImportsOf
<1>4. \A p : Imported(p)' = Imported(p)
  BY <1>3 DEF Imported
<1>5. \A set : IsClosed(set)' <=> IsClosed(set)
  BY <1>4 DEF IsClosed
<1>6. \A p : Reached(p)' = Reached(p)
  BY <1>4, <1>5 DEF Reached
<1>7. \A p : ReachedOutside(p)' = ReachedOutside(p)
  <2> SUFFICES ASSUME NEW p PROVE ReachedOutside(p)' = ReachedOutside(p)
    OBVIOUS
  <2>1. Reached(p)' = Reached(p)
    BY <1>6
  <2> QED
    BY <1>1, <2>1 DEF ReachedOutside, ImportsOf
<1>8. \A p : IsPoisoned(p)' <=> IsPoisoned(p)
  BY <1>1, <1>6 DEF IsPoisoned
<1>9. \A p : IsTrouble(p)' <=> IsTrouble(p)
  BY <1>1 DEF IsTrouble
<1> QED
  BY <1>1, <1>2, <1>3, <1>4, <1>6, <1>7, <1>8, <1>9

-----------------------------------------------------------------------------
(* Of the stack.                                                           *)

LEMMA TopIsFrame ==
    ASSUME stack \in Seq(Frames), stack # <<>>
    PROVE  /\ Len(stack) \in DOMAIN stack /\ Top.pkg \in Names /\ Top.todo \in SUBSET Names
           /\ Top = stack[Len(stack)] /\ Top.pkg \in OnPath
<1>1. Len(stack) \in DOMAIN stack
  OBVIOUS
<1>2. stack[Len(stack)] \in Frames
  BY <1>1
<1> QED
  BY <1>1, <1>2 DEF Top, Frames, OnPath

LEMMA OnPathAreNames == stack \in Seq(Frames) => OnPath \subseteq Names
<1> SUFFICES ASSUME stack \in Seq(Frames), NEW j \in DOMAIN stack PROVE stack[j].pkg \in Names
  BY DEF OnPath
<1>1. stack[j] \in Frames
  OBVIOUS
<1> QED
  BY <1>1 DEF Frames

\* Who is on the path is on top, or below it.
LEMMA BelowTop ==
    ASSUME stack \in Seq(Frames)
    PROVE  /\ stack = <<>> => OnPath = {}
           /\ stack # <<>> => \A p \in OnPath : p = Top.pkg \/ Above(p, Top.pkg)
           /\ \A p, q : Above(p, q) => p \in OnPath /\ q \in OnPath
           /\ \A p, q : ToDo(p, q) => p \in OnPath
<1>1. stack = <<>> => OnPath = {}
  BY DEF OnPath
<1>2. ASSUME stack # <<>>, NEW p \in OnPath, p # Top.pkg PROVE Above(p, Top.pkg)
  <2>1. PICK j \in DOMAIN stack : stack[j].pkg = p
    BY DEF OnPath
  <2>2. Len(stack) \in DOMAIN stack /\ Top = stack[Len(stack)]
    BY <1>2, TopIsFrame
  <2>3. j # Len(stack)
    BY <2>1, <2>2, <1>2
  <2>4. j < Len(stack)
    BY <2>1, <2>2, <2>3
  <2> QED
    BY <2>1, <2>2, <2>4 DEF Above
<1>3. \A p, q : Above(p, q) => p \in OnPath /\ q \in OnPath
  BY DEF Above, OnPath
<1>4. \A p, q : ToDo(p, q) => p \in OnPath
  BY DEF ToDo, OnPath
<1> QED
  BY <1>1, <1>2, <1>3, <1>4

\* What a visit takes off the one on top.
LEMMA VisitedFacts ==
    ASSUME stack \in Seq(Frames), NEW pkg
    PROVE  /\ Visited(pkg) \in Seq(Frames) /\ Len(Visited(pkg)) = Len(stack)
           /\ DOMAIN Visited(pkg) = DOMAIN stack
           /\ \A j \in DOMAIN stack :
                 /\ Visited(pkg)[j].pkg = stack[j].pkg
                 /\ Visited(pkg)[j].todo = IF j = Len(stack) THEN stack[j].todo \ {pkg} ELSE stack[j].todo
<1>1. CASE stack = <<>>
  BY <1>1 DEF Visited
<1>2. CASE stack # <<>>
  <2> DEFINE n == Len(stack)
             new == [stack EXCEPT ![n].todo = @ \ {pkg}]
  <2>1. n \in DOMAIN stack /\ Visited(pkg) = new
    BY <1>2 DEF Visited
  <2>2. stack[n] \in Frames
    BY <2>1
  <2>3. [stack[n] EXCEPT !.todo = @ \ {pkg}] \in Frames
    BY <2>2 DEF Frames
  <2>4. new = [stack EXCEPT ![n] = [stack[n] EXCEPT !.todo = @ \ {pkg}]]
    OBVIOUS
  <2>5. new \in Seq(Frames) /\ Len(new) = n /\ DOMAIN new = DOMAIN stack
    BY <2>1, <2>3, <2>4
  <2>6. \A j \in DOMAIN stack : j # n => new[j] = stack[j]
    BY <2>1
  <2>7. new[n].pkg = stack[n].pkg /\ new[n].todo = stack[n].todo \ {pkg}
    BY <2>1, <2>2 DEF Frames
  <2> QED
    BY <2>1, <2>5, <2>6, <2>7
<1> QED
  BY <1>1, <1>2

LEMMA VisitOf ==
    ASSUME stack \in Seq(Frames), NEW pkg \in Names, stack' = Visited(pkg)
    PROVE  /\ stack' \in Seq(Frames) /\ OnPath' = OnPath
           /\ \A p, q \in Names :
                 /\ Above(p, q)' <=> Above(p, q)
                 /\ ToDo(p, q)' => ToDo(p, q)
                 /\ ToDo(p, q) => ToDo(p, q)' \/ (stack # <<>> /\ p = Top.pkg /\ q = pkg)
           /\ \A j \in DOMAIN stack' : j + 1 \in DOMAIN stack' =>
                 /\ j \in DOMAIN stack /\ j + 1 \in DOMAIN stack
                 /\ stack'[j].pkg = stack[j].pkg /\ stack'[j + 1].pkg = stack[j + 1].pkg
<1>1. /\ stack' \in Seq(Frames) /\ DOMAIN stack' = DOMAIN stack
      /\ \A j \in DOMAIN stack :
            /\ stack'[j].pkg = stack[j].pkg
            /\ stack'[j].todo = IF j = Len(stack) THEN stack[j].todo \ {pkg} ELSE stack[j].todo
  BY VisitedFacts
<1>2. OnPath' = OnPath
  BY <1>1 DEF OnPath
<1>3. ASSUME NEW p \in Names, NEW q \in Names PROVE Above(p, q)' <=> Above(p, q)
  <2>1. DOMAIN stack' = DOMAIN stack /\ \A j \in DOMAIN stack : stack'[j].pkg = stack[j].pkg
    BY <1>1
  <2> QED
    BY <2>1 DEF Above
<1>4. ASSUME NEW p \in Names, NEW q \in Names, ToDo(p, q)' PROVE ToDo(p, q)
  BY <1>1, <1>4 DEF ToDo
<1>5. ASSUME NEW p \in Names, NEW q \in Names, ToDo(p, q), ~ToDo(p, q)'
      PROVE  stack # <<>> /\ p = Top.pkg /\ q = pkg
  <2>1. PICK j \in DOMAIN stack : stack[j].pkg = p /\ q \in stack[j].todo
    BY <1>5 DEF ToDo
  <2>2. stack'[j].pkg = p /\ q \notin stack'[j].todo
    BY <1>1, <1>5, <2>1 DEF ToDo
  <2>3. j = Len(stack) /\ q = pkg
    BY <1>1, <2>1, <2>2
  <2> QED
    BY <2>1, <2>3 DEF Top
<1> QED
  BY <1>1, <1>2, <1>3, <1>4, <1>5

\* What a call of dfe puts on it.
LEMMA PushedFacts ==
    ASSUME stack \in Seq(Frames), NEW pkg \in Names, NEW in \in SUBSET Names,
           stack' = Append(Visited(pkg), [pkg |-> pkg, todo |-> in])
    PROVE  /\ stack' \in Seq(Frames) /\ DOMAIN stack' = 1 .. (Len(stack) + 1)
           /\ \A j \in 1 .. Len(stack) :
                 /\ stack'[j].pkg = stack[j].pkg
                 /\ stack[j].todo \ {pkg} \subseteq stack'[j].todo /\ stack'[j].todo \subseteq stack[j].todo
                 /\ j # Len(stack) => stack'[j].todo = stack[j].todo
           /\ stack'[Len(stack) + 1].pkg = pkg /\ stack'[Len(stack) + 1].todo = in
<1> DEFINE n == Len(stack)
           frame == [pkg |-> pkg, todo |-> in]
<1>1. /\ Visited(pkg) \in Seq(Frames) /\ Len(Visited(pkg)) = n /\ DOMAIN Visited(pkg) = DOMAIN stack
      /\ \A j \in DOMAIN stack :
            /\ Visited(pkg)[j].pkg = stack[j].pkg
            /\ Visited(pkg)[j].todo = IF j = n THEN stack[j].todo \ {pkg} ELSE stack[j].todo
  BY VisitedFacts
<1>2. frame \in Frames /\ n \in Nat /\ DOMAIN stack = 1 .. n
  BY DEF Frames
<1>3. stack' \in Seq(Frames)
  BY <1>1, <1>2
<1>4. DOMAIN stack' = 1 .. (n + 1)
  BY <1>1, <1>2
<1>5. \A j \in 1 .. n : stack'[j] = Visited(pkg)[j]
  BY <1>1, <1>2
<1>6. stack'[n + 1] = frame
  BY <1>1, <1>2
<1>7. \A j \in 1 .. n : stack'[j].pkg = stack[j].pkg
  BY <1>1, <1>2, <1>5
<1>8. \A j \in 1 .. n :
         /\ stack[j].todo \ {pkg} \subseteq stack'[j].todo /\ stack'[j].todo \subseteq stack[j].todo
         /\ j # n => stack'[j].todo = stack[j].todo
  BY <1>1, <1>2, <1>5
<1>9. frame.pkg = pkg /\ frame.todo = in
  OBVIOUS
<1> HIDE DEF frame
<1>10. stack'[n + 1].pkg = pkg /\ stack'[n + 1].todo = in
  BY <1>6, <1>9
<1> QED
  BY <1>3, <1>4, <1>7, <1>8, <1>10

LEMMA PushOf ==
    ASSUME NEW n \in Nat, n = Len(stack), DOMAIN stack = 1 .. n, DOMAIN stack' = 1 .. (n + 1),
           stack = <<>> <=> n = 0,
           NEW pkg \in Names, NEW in \in SUBSET Names,
           \A j \in 1 .. n : stack'[j].pkg = stack[j].pkg,
           \A j \in 1 .. n :
              /\ stack[j].todo \ {pkg} \subseteq stack'[j].todo /\ stack'[j].todo \subseteq stack[j].todo
              /\ j # n => stack'[j].todo = stack[j].todo,
           stack'[n + 1].pkg = pkg, stack'[n + 1].todo = in
    PROVE  /\ OnPath' = OnPath \cup {pkg}
           /\ \A p, q \in Names :
                 /\ Above(p, q)' <=> Above(p, q) \/ (p \in OnPath /\ q = pkg)
                 /\ ToDo(p, q)' => ToDo(p, q) \/ (p = pkg /\ q \in in)
                 /\ ToDo(p, q) => ToDo(p, q)' \/ (stack # <<>> /\ p = Top.pkg /\ q = pkg)
                 /\ p = pkg /\ q \in in => ToDo(p, q)'
           /\ \A j \in DOMAIN stack' : j + 1 \in DOMAIN stack' =>
                 /\ j \in DOMAIN stack /\ stack'[j].pkg = stack[j].pkg
                 /\ \/ j + 1 \in DOMAIN stack /\ stack'[j + 1].pkg = stack[j + 1].pkg
                    \/ stack # <<>> /\ j = Len(stack) /\ stack'[j + 1].pkg = pkg
<1>2. n \in Nat /\ DOMAIN stack = 1 .. n
  OBVIOUS
<1>4. DOMAIN stack' = 1 .. (n + 1)
  OBVIOUS
<1>6. \A j \in 1 .. n :
         /\ stack[j].todo \ {pkg} \subseteq stack'[j].todo /\ stack'[j].todo \subseteq stack[j].todo
         /\ j # n => stack'[j].todo = stack[j].todo
  OBVIOUS
<1>7. \A j \in 1 .. n : stack'[j].pkg = stack[j].pkg
  OBVIOUS
<1>8. stack'[n + 1].pkg = pkg /\ stack'[n + 1].todo = in /\ n + 1 \in DOMAIN stack'
  OBVIOUS
<1>9. OnPath' = OnPath \cup {pkg}
  <2>1. \A p \in OnPath : p \in OnPath'
    <3> SUFFICES ASSUME NEW j \in 1 .. n PROVE stack[j].pkg \in OnPath'
      BY <1>2 DEF OnPath
    <3>1. stack'[j].pkg = stack[j].pkg /\ j \in DOMAIN stack'
      BY <1>2, <1>4, <1>7
    <3> QED
      BY <3>1 DEF OnPath
  <2>2. pkg \in OnPath'
    BY <1>8 DEF OnPath
  <2>3. ASSUME NEW p \in OnPath' PROVE p \in OnPath \cup {pkg}
    <3>1. PICK j \in DOMAIN stack' : stack'[j].pkg = p
      BY DEF OnPath
    <3>2. CASE j = n + 1
      BY <3>1, <3>2, <1>8
    <3>3. CASE j # n + 1
      <4>1. j \in 1 .. n
        BY <3>3, <1>2, <1>4
      <4> QED
        BY <4>1, <3>1, <1>2, <1>7 DEF OnPath
    <3> QED
      BY <3>2, <3>3
  <2> QED
    BY <2>1, <2>2, <2>3
<1>10. ASSUME NEW p \in Names, NEW q \in Names, Above(p, q)' PROVE Above(p, q) \/ (p \in OnPath /\ q = pkg)
  <2>1. PICK j, k \in DOMAIN stack' : j < k /\ stack'[j].pkg = p /\ stack'[k].pkg = q
    BY <1>10 DEF Above
  <2>2. j \in 1 .. n
    BY <2>1, <1>2, <1>4
  <2>3. p \in OnPath
    BY <2>1, <2>2, <1>2, <1>7 DEF OnPath
  <2>4. CASE k = n + 1
    BY <2>1, <2>3, <2>4, <1>8
  <2>5. CASE k # n + 1
    <3>1. k \in 1 .. n
      BY <2>5, <1>2, <1>4
    <3> QED
      BY <3>1, <2>1, <2>2, <1>2, <1>7 DEF Above
  <2> QED
    BY <2>4, <2>5
<1>11. ASSUME NEW p \in Names, NEW q \in Names, Above(p, q) PROVE Above(p, q)'
  <2>1. PICK j, k \in 1 .. n : j < k /\ stack[j].pkg = p /\ stack[k].pkg = q
    BY <1>2, <1>11 DEF Above
  <2>2. j \in DOMAIN stack' /\ k \in DOMAIN stack' /\ stack'[j].pkg = p /\ stack'[k].pkg = q
    BY <2>1, <1>2, <1>4, <1>7
  <2> QED
    BY <2>1, <2>2 DEF Above
<1>12. ASSUME NEW p \in Names, p \in OnPath PROVE Above(p, pkg)'
  <2>1. PICK j \in 1 .. n : stack[j].pkg = p
    BY <1>2, <1>12 DEF OnPath
  <2>2. j \in DOMAIN stack' /\ stack'[j].pkg = p /\ j < n + 1
    BY <2>1, <1>2, <1>4, <1>7
  <2> QED
    BY <2>2, <1>8 DEF Above
<1>13. ASSUME NEW p \in Names, NEW q \in Names, ToDo(p, q)' PROVE ToDo(p, q) \/ (p = pkg /\ q \in in)
  <2>1. PICK j \in DOMAIN stack' : stack'[j].pkg = p /\ q \in stack'[j].todo
    BY <1>13 DEF ToDo
  <2>2. CASE j = n + 1
    BY <2>1, <2>2, <1>8
  <2>3. CASE j # n + 1
    <3>1. j \in 1 .. n
      BY <2>3, <1>2, <1>4
    <3>2. stack[j].pkg = p /\ q \in stack[j].todo
      BY <3>1, <2>1, <1>6, <1>7
    <3> QED
      BY <3>1, <3>2, <1>2 DEF ToDo
  <2> QED
    BY <2>2, <2>3
<1>14. ASSUME NEW p \in Names, NEW q \in Names, ToDo(p, q), ~ToDo(p, q)'
       PROVE  stack # <<>> /\ p = Top.pkg /\ q = pkg
  <2>1. PICK j \in 1 .. n : stack[j].pkg = p /\ q \in stack[j].todo
    BY <1>2, <1>14 DEF ToDo
  <2>2. j \in DOMAIN stack' /\ stack'[j].pkg = p
    BY <2>1, <1>2, <1>4, <1>7
  <2>3. q \notin stack'[j].todo
    BY <2>2, <1>14 DEF ToDo
  <2>4. j = n /\ q = pkg
    BY <2>1, <2>3, <1>6
  <2> QED
    BY <2>1, <2>4, <1>2 DEF Top
<1>15. ASSUME NEW q \in in PROVE ToDo(pkg, q)'
  BY <1>8 DEF ToDo
<1>16. ASSUME NEW j \in DOMAIN stack', j + 1 \in DOMAIN stack'
       PROVE  /\ j \in DOMAIN stack /\ stack'[j].pkg = stack[j].pkg
              /\ \/ j + 1 \in DOMAIN stack /\ stack'[j + 1].pkg = stack[j + 1].pkg
                 \/ stack # <<>> /\ j = Len(stack) /\ stack'[j + 1].pkg = pkg
  <2>1. j \in 1 .. n
    BY <1>2, <1>4, <1>16
  <2>2. CASE j = n
    BY <2>1, <2>2, <1>2, <1>7, <1>8
  <2>3. CASE j # n
    <3>1. j + 1 \in 1 .. n
      BY <2>1, <2>3, <1>2
    <3> QED
      BY <2>1, <3>1, <1>2, <1>7
  <2> QED
    BY <2>2, <2>3
<1> QED
  BY <1>9, <1>10, <1>11, <1>12, <1>13, <1>14, <1>15, <1>16

LEMMA PopOf ==
    ASSUME stack \in Seq(Frames), stack # <<>>, Top.todo = {}, \A p \in Names : ~Above(p, p),
           stack' = SubSeq(stack, 1, Len(stack) - 1)
    PROVE  /\ stack' \in Seq(Frames) /\ OnPath' = OnPath \ {Top.pkg}
           /\ \A p, q \in Names :
                 /\ Above(p, q)' => Above(p, q)
                 /\ Above(p, q) => Above(p, q)' \/ q = Top.pkg
                 /\ ToDo(p, q)' <=> ToDo(p, q)
           /\ \A j \in DOMAIN stack' : j + 1 \in DOMAIN stack' =>
                 /\ j \in DOMAIN stack /\ j + 1 \in DOMAIN stack
                 /\ stack'[j].pkg = stack[j].pkg /\ stack'[j + 1].pkg = stack[j + 1].pkg
<1> DEFINE n == Len(stack) - 1
<1>1. n \in Nat /\ DOMAIN stack = 1 .. (n + 1) /\ Top = stack[n + 1]
  BY DEF Top
<1>2. stack' \in Seq(Frames) /\ Len(stack') = n /\ DOMAIN stack' = 1 .. n
  BY <1>1
<1>3. \A j \in 1 .. n : stack'[j] = stack[j]
  BY <1>1
<1> HIDE DEF n
<1>4. Top.pkg \in Names
  BY TopIsFrame
<1>5. OnPath' = OnPath \ {Top.pkg}
  <2>1. ASSUME NEW p \in OnPath, p # Top.pkg PROVE p \in OnPath'
    <3>1. PICK j \in 1 .. (n + 1) : stack[j].pkg = p
      BY <1>1 DEF OnPath
    <3>2. j \in 1 .. n
      BY <3>1, <2>1, <1>1
    <3> QED
      BY <3>1, <3>2, <1>2, <1>3 DEF OnPath
  <2>2. ASSUME NEW p \in OnPath' PROVE p \in OnPath /\ p # Top.pkg
    <3>1. PICK j \in 1 .. n : stack'[j].pkg = p
      BY <1>2 DEF OnPath
    <3>2. stack[j].pkg = p /\ j \in DOMAIN stack /\ n + 1 \in DOMAIN stack /\ j < n + 1
      BY <3>1, <1>1, <1>3
    <3>3. p \in OnPath
      BY <3>2 DEF OnPath
    <3>4. ASSUME p = Top.pkg PROVE FALSE
      <4>1. Above(Top.pkg, Top.pkg)
        BY <3>2, <3>4, <1>1 DEF Above
      <4> QED
        BY <4>1, <1>4
    <3> QED
      BY <3>3, <3>4
  <2> QED
    BY <2>1, <2>2
<1>6. ASSUME NEW p \in Names, NEW q \in Names, Above(p, q)' PROVE Above(p, q)
  <2>1. PICK j, k \in 1 .. n : j < k /\ stack'[j].pkg = p /\ stack'[k].pkg = q
    BY <1>2, <1>6 DEF Above
  <2>2. j \in DOMAIN stack /\ k \in DOMAIN stack /\ stack[j].pkg = p /\ stack[k].pkg = q
    BY <2>1, <1>1, <1>3
  <2> QED
    BY <2>1, <2>2 DEF Above
<1>7. ASSUME NEW p \in Names, NEW q \in Names, Above(p, q), q # Top.pkg PROVE Above(p, q)'
  <2>1. PICK j, k \in 1 .. (n + 1) : j < k /\ stack[j].pkg = p /\ stack[k].pkg = q
    BY <1>1, <1>7 DEF Above
  <2>2. j \in 1 .. n /\ k \in 1 .. n
    BY <2>1, <1>1, <1>7
  <2>3. stack'[j].pkg = p /\ stack'[k].pkg = q
    BY <2>1, <2>2, <1>3
  <2> QED
    BY <2>1, <2>2, <2>3, <1>2 DEF Above
<1>8. ASSUME NEW p \in Names, NEW q \in Names PROVE ToDo(p, q)' <=> ToDo(p, q)
  <2>1. ASSUME ToDo(p, q) PROVE ToDo(p, q)'
    <3>1. PICK j \in 1 .. (n + 1) : stack[j].pkg = p /\ q \in stack[j].todo
      BY <1>1, <2>1 DEF ToDo
    <3>2. j \in 1 .. n
      BY <3>1, <1>1
    <3> QED
      BY <3>1, <3>2, <1>2, <1>3 DEF ToDo
  <2>2. ASSUME ToDo(p, q)' PROVE ToDo(p, q)
    <3>1. PICK j \in 1 .. n : stack'[j].pkg = p /\ q \in stack'[j].todo
      BY <1>2, <2>2 DEF ToDo
    <3>2. j \in DOMAIN stack /\ stack[j].pkg = p /\ q \in stack[j].todo
      BY <3>1, <1>1, <1>3
    <3> QED
      BY <3>2 DEF ToDo
  <2> QED
    BY <2>1, <2>2
<1>9. ASSUME NEW j \in DOMAIN stack', j + 1 \in DOMAIN stack'
      PROVE  /\ j \in DOMAIN stack /\ j + 1 \in DOMAIN stack
             /\ stack'[j].pkg = stack[j].pkg /\ stack'[j + 1].pkg = stack[j + 1].pkg
  BY <1>1, <1>2, <1>3, <1>9
<1> QED
  BY <1>2, <1>5, <1>6, <1>7, <1>8, <1>9

LEMMA ClearOf ==
    ASSUME stack' = <<>>
    PROVE  stack' \in Seq(Frames) /\ OnPath' = {} /\ \A p, q : ~Above(p, q)' /\ ~ToDo(p, q)'
<1>1. stack' \in Seq(Frames) /\ DOMAIN stack' = {}
  OBVIOUS
<1> QED
  BY <1>1 DEF OnPath, Above, ToDo

-----------------------------------------------------------------------------
(* The steps.                                                              *)

LEMMA ReachInitInv == ReachInit => ReachInv
<1> SUFFICES ASSUME ReachInit PROVE ReachInv
  OBVIOUS
<1>1. DOMAIN stack = {} /\ stack \in Seq(Frames)
  BY DEF ReachInit
<1>2. DOMAIN exrsets = {} /\ DOMAIN inrsets = {} /\ DOMAIN errmap = {}
  BY DEF ReachInit, EmptyMap
<1>3. colors \in [Names -> {"white", "grey", "black"}] /\ \A p \in Names : colors[p] = "white"
  BY DEF ReachInit
<1>4. OnPath = {} /\ \A p, q : ~Above(p, q) /\ ~ToDo(p, q)
  BY <1>1 DEF OnPath, Above, ToDo
<1>5. StackTypes
  BY <1>1, <1>3 DEF StackTypes, ReachInit
<1>6. Analysed \subseteq Names
  BY <1>5, WorkMapIsGraph
<1>7. StackIsPath
  BY <1>1, <1>3, <1>4 DEF StackIsPath
<1>8. DomainsAgree
  BY <1>2, <1>3 DEF DomainsAgree
<1>9. PathIsReached /\ SetsAreSound /\ ImportsAreFollowed
  BY <1>2, <1>4 DEF PathIsReached, SetsAreSound, ImportsAreFollowed
<1>10. PoisonIsReal
  BY <1>3, <1>6 DEF PoisonIsReal
<1>11. ErrorsAreRight
  BY <1>2, <1>3 DEF ErrorsAreRight
<1> QED
  BY <1>5, <1>7, <1>8, <1>9, <1>10, <1>11 DEF ReachInv

\* Who is on the path reaches what is visited next, and has what is on top has.
LEMMA PathReachesVisited ==
    ASSUME ReachInv, NEW pkg \in Names, Visits(pkg), stack # <<>>
    PROVE  /\ Top.pkg \in Names /\ Top.pkg \in OnPath /\ ToDo(Top.pkg, pkg)
           /\ pkg # Top.pkg /\ pkg \in Imported(Top.pkg) /\ <<Top.pkg, pkg>> \in Imports
           /\ \A p \in OnPath : pkg \in Reached(p)
<1> USE DEF ReachInv
<1>1. stack \in Seq(Frames) /\ Len(stack) \in DOMAIN stack /\ Top = stack[Len(stack)]
      /\ Top.pkg \in Names /\ Top.pkg \in OnPath
  BY TopIsFrame DEF StackTypes
<1>2. ToDo(Top.pkg, pkg)
  BY <1>1 DEF ToDo, Visits
<1>3. pkg # Top.pkg /\ pkg \in Imported(Top.pkg)
  BY <1>1, <1>2 DEF StackIsPath
<1>4. <<Top.pkg, pkg>> \in Imports
  BY <1>3 DEF Imported
<1>5. ASSUME NEW p \in OnPath PROVE pkg \in Reached(p)
  <2>1. CASE p = Top.pkg
    BY <2>1, <1>3, ReachedHasImports
  <2>2. CASE Above(p, Top.pkg)
    <3>1. p \in Names
      BY <1>1, OnPathAreNames
    <3>2. Top.pkg \in Reached(p)
      BY <2>2, <3>1, <1>1 DEF PathIsReached
    <3> QED
      BY <3>2, <1>3, ReachedIsClosed
  <2> QED
    BY <1>1, <2>1, <2>2, BelowTop
<1> QED
  BY <1>1, <1>2, <1>3, <1>4, <1>5

\* A visit that is over at once leaves a path.
LEMMA VisitKeepsPath ==
    ASSUME StackTypes, StackIsPath, NEW pkg \in Names, stack' = Visited(pkg), input' = input,
           \A p \in Names : colors'[p] = "grey" <=> colors[p] = "grey"
    PROVE  StackIsPath'
<1>1. stack \in Seq(Frames)
  BY DEF StackTypes
<1>2. /\ OnPath' = OnPath
      /\ \A p, q \in Names : (Above(p, q)' <=> Above(p, q)) /\ (ToDo(p, q)' => ToDo(p, q))
      /\ \A j \in DOMAIN stack' : j + 1 \in DOMAIN stack' =>
                 /\ j \in DOMAIN stack /\ j + 1 \in DOMAIN stack
                 /\ stack'[j].pkg = stack[j].pkg /\ stack'[j + 1].pkg = stack[j + 1].pkg
  BY <1>1, VisitOf
<1>3. Imports' = Imports /\ \A p : Imported(p)' = Imported(p)
  BY GraphStays
<1>4. (\A p \in Names : colors[p] = "grey" <=> p \in OnPath)'
  BY <1>2 DEF StackIsPath
<1>5. (\A p \in Names : ~Above(p, p))'
  BY <1>2 DEF StackIsPath
<1>6. (\A p, q \in Names : ToDo(p, q) => q \in Imported(p) \ {p})'
  BY <1>2, <1>3 DEF StackIsPath
<1>7. (\A j \in DOMAIN stack : j + 1 \in DOMAIN stack => <<stack[j].pkg, stack[j + 1].pkg>> \in Imports)'
  BY <1>2, <1>3 DEF StackIsPath
<1> QED
  BY <1>4, <1>5, <1>6, <1>7 DEF StackIsPath

\* What is followed stays so, but for the import that is visited.
LEMMA FollowedStays ==
    ASSUME NEW p \in Names, NEW q \in Names, IsFollowed(p, q), input' = input,
           colors[q] = "black" /\ q \in DOMAIN exrsets =>
              /\ colors'[q] = "black" /\ q \in DOMAIN exrsets'
              /\ exrsets'[q] = exrsets[q] /\ inrsets'[q] = inrsets[q]
              /\ exrsets[p] \subseteq exrsets'[p] /\ inrsets[p] \subseteq inrsets'[p],
           ToDo(p, q) \/ Above(p, q) => IsFollowed(p, q)'
    PROVE  IsFollowed(p, q)'
<1>1. Reached(q)' = Reached(q) /\ Analysed' = Analysed
  BY GraphStays
<1>2. CASE p \in Reached(q)
  BY <1>1, <1>2 DEF IsFollowed
<1>3. CASE colors[q] = "black" /\ q \in DOMAIN exrsets
           /\ exrsets[q] \subseteq exrsets[p] /\ inrsets[q] \subseteq inrsets[p]
  BY <1>3 DEF IsFollowed
<1>4. CASE ~input.backprop /\ q \notin Analysed
  BY <1>1, <1>4 DEF IsFollowed
<1> QED
  BY <1>2, <1>3, <1>4 DEF IsFollowed

-----------------------------------------------------------------------------
\* dfe comes to a package that it has not seen.
LEMMA ExploreInv ==
    ASSUME ReachInv, NEW pkg \in Names, Explore(pkg)
    PROVE  ReachInv'
<1> DEFINE ex == ImportsOf(input, pkg) \cap External
           in == Imported(pkg)
           below == OnPath
<1>a. StackTypes /\ StackIsPath /\ DomainsAgree /\ PathIsReached /\ SetsAreSound
      /\ ImportsAreFollowed /\ PoisonIsReal /\ ErrorsAreRight
  BY DEF ReachInv
<1>b. stack \in Seq(Frames) /\ colors \in [Names -> {"white", "grey", "black"}]
  BY <1>a DEF StackTypes
<1>c. colors[pkg] = "white" /\ Visits(pkg) /\ IsSound(pkg) /\ input' = input /\ workmap' = workmap /\ errmap' = errmap
  BY DEF Explore
<1>1. pkg \in Analysed /\ workmap[pkg].ex = ex /\ workmap[pkg].in = in /\ Analysed \subseteq Names
      /\ DOMAIN workmap \subseteq Names /\ Analysed \subseteq DOMAIN workmap
  BY <1>a, <1>c, WorkMapIsGraph
<1>2. in \subseteq Names
  BY DEF Imported
<1>3. below \subseteq Names /\ pkg \notin below /\ below \subseteq DOMAIN exrsets
      /\ pkg \notin DOMAIN exrsets /\ pkg \notin DOMAIN errmap
  <2>1. below \subseteq Names
    BY <1>b, OnPathAreNames
  <2>2. pkg \notin below
    BY <1>a, <1>c DEF StackIsPath
  <2>3. below \subseteq DOMAIN exrsets
    BY <2>1, <1>a DEF StackIsPath, DomainsAgree
  <2> QED
    BY <2>1, <2>2, <2>3, <1>a, <1>c DEF DomainsAgree
<1>4. \A p \in below : pkg \in Reached(p)
  BY <1>b, <1>c, BelowTop, PathReachesVisited
<1>5. /\ DOMAIN exrsets' = DOMAIN exrsets \cup {pkg} /\ DOMAIN inrsets' = DOMAIN inrsets \cup {pkg}
      /\ exrsets'[pkg] = ex /\ inrsets'[pkg] = in
      /\ \A p \in DOMAIN exrsets : exrsets'[p] = IF p \in below THEN exrsets[p] \cup ex ELSE exrsets[p]
      /\ \A p \in DOMAIN inrsets : inrsets'[p] = IF p \in below THEN inrsets[p] \cup in ELSE inrsets[p]
  <2>1. exrsets' = Add(Put(exrsets, pkg, ex), below, ex) /\ inrsets' = Add(Put(inrsets, pkg, in), below, in)
    BY <1>1 DEF Explore
  <2>2. DOMAIN inrsets = DOMAIN exrsets
    BY <1>a DEF DomainsAgree
  <2> HIDE DEF ex, in, below
  <2> QED
    BY <2>1, <2>2, <1>3 DEF Add, Put
<1>6. colors' \in [Names -> {"white", "grey", "black"}] /\ colors'[pkg] = "grey"
      /\ \A p \in Names : p # pkg => colors'[p] = colors[p]
  BY <1>b DEF Explore
<1>7. stack' = Append(Visited(pkg), [pkg |-> pkg, todo |-> in \ {pkg}])
  BY <1>1 DEF Explore
<1>8. /\ stack' \in Seq(Frames)
      /\ OnPath' = below \cup {pkg}
      /\ \A p, q \in Names :
                 /\ Above(p, q)' <=> Above(p, q) \/ (p \in below /\ q = pkg)
                 /\ ToDo(p, q)' => ToDo(p, q) \/ (p = pkg /\ q \in in \ {pkg})
                 /\ ToDo(p, q) => ToDo(p, q)' \/ (stack # <<>> /\ p = Top.pkg /\ q = pkg)
                 /\ p = pkg /\ q \in in \ {pkg} => ToDo(p, q)'
      /\ \A j \in DOMAIN stack' : j + 1 \in DOMAIN stack' =>
                 /\ j \in DOMAIN stack /\ stack'[j].pkg = stack[j].pkg
                 /\ \/ j + 1 \in DOMAIN stack /\ stack'[j + 1].pkg = stack[j + 1].pkg
                    \/ stack # <<>> /\ j = Len(stack) /\ stack'[j + 1].pkg = pkg
  <2>1. PICK n \in Nat : n = Len(stack)
    BY <1>b
  <2>2. PICK rest \in SUBSET Names : rest = in \ {pkg}
    BY <1>2
  <2>3. DOMAIN stack = 1 .. n /\ (stack = <<>> <=> n = 0)
    BY <1>b, <2>1
  <2>4. stack' = Append(Visited(pkg), [pkg |-> pkg, todo |-> rest])
    BY <1>7, <2>2
  <2>5. /\ stack' \in Seq(Frames) /\ DOMAIN stack' = 1 .. (n + 1)
        /\ \A j \in 1 .. n : stack'[j].pkg = stack[j].pkg
        /\ \A j \in 1 .. n :
              /\ stack[j].todo \ {pkg} \subseteq stack'[j].todo /\ stack'[j].todo \subseteq stack[j].todo
              /\ j # n => stack'[j].todo = stack[j].todo
        /\ stack'[n + 1].pkg = pkg /\ stack'[n + 1].todo = rest
    BY <1>b, <2>1, <2>4, PushedFacts
  <2> HIDE DEF in
  <2> QED
    BY <2>1, <2>2, <2>3, <2>5, PushOf
<1>9. /\ Analysed' = Analysed /\ Imports' = Imports
      /\ \A p : /\ ImportsOf(input, p)' = ImportsOf(input, p)
                /\ Imported(p)' = Imported(p) /\ Reached(p)' = Reached(p)
                /\ ReachedOutside(p)' = ReachedOutside(p)
                /\ IsTrouble(p)' <=> IsTrouble(p)
                /\ IsPoisoned(p)' <=> IsPoisoned(p)
  BY <1>c, GraphStays
<1> HIDE DEF below
<1>10. StackTypes'
  BY <1>a, <1>c, <1>6, <1>8 DEF StackTypes
<1>11. StackIsPath'
  <2>1. (\A p \in Names : colors[p] = "grey" <=> p \in OnPath)'
    BY <1>a, <1>6, <1>8 DEF StackIsPath, below
  <2>2. (\A p \in Names : ~Above(p, p))'
    BY <1>a, <1>3, <1>8 DEF StackIsPath
  <2>3. (\A p, q \in Names : ToDo(p, q) => q \in Imported(p) \ {p})'
    BY <1>a, <1>8, <1>9 DEF StackIsPath
  <2>4. (\A j \in DOMAIN stack : j + 1 \in DOMAIN stack => <<stack[j].pkg, stack[j + 1].pkg>> \in Imports)'
    <3> SUFFICES ASSUME NEW j \in DOMAIN stack', j + 1 \in DOMAIN stack'
                 PROVE  <<stack'[j].pkg, stack'[j + 1].pkg>> \in Imports
      BY <1>9
    <3>1. CASE j + 1 \in DOMAIN stack /\ stack'[j + 1].pkg = stack[j + 1].pkg
      BY <3>1, <1>8, <1>a DEF StackIsPath
    <3>2. CASE stack # <<>> /\ j = Len(stack) /\ stack'[j + 1].pkg = pkg
      <4>1. <<Top.pkg, pkg>> \in Imports
        BY <3>2, <1>c, PathReachesVisited
      <4> QED
        BY <4>1, <3>2, <1>8 DEF Top
    <3> QED
      BY <3>1, <3>2, <1>8
  <2> QED
    BY <2>1, <2>2, <2>3, <2>4 DEF StackIsPath
<1>12. DomainsAgree'
  BY <1>a, <1>c, <1>1, <1>3, <1>5, <1>6, <1>9 DEF DomainsAgree
<1>13. PathIsReached'
  <2> SUFFICES ASSUME NEW p \in Names, NEW q \in Names, Above(p, q)'
               PROVE  q \in Reached(p) /\ exrsets'[q] \subseteq exrsets'[p] /\ inrsets'[q] \subseteq inrsets'[p]
    BY <1>9 DEF PathIsReached
  <2>1. DOMAIN inrsets = DOMAIN exrsets
    BY <1>a DEF DomainsAgree
  <2>2. CASE Above(p, q)
    <3>1. p \in below /\ q \in below
      BY <2>2, <1>b, BelowTop DEF below
    <3>2. q \in Reached(p) /\ exrsets[q] \subseteq exrsets[p] /\ inrsets[q] \subseteq inrsets[p]
      BY <2>2, <1>a DEF PathIsReached
    <3> QED
      BY <2>1, <3>1, <3>2, <1>3, <1>5
  <2>3. CASE p \in below /\ q = pkg
    BY <2>1, <2>3, <1>3, <1>4, <1>5
  <2> QED
    BY <2>2, <2>3, <1>8
<1>14. SetsAreSound'
  <2> SUFFICES ASSUME NEW p \in DOMAIN exrsets'
               PROVE  /\ ImportsOf(input, p) \cap External \subseteq exrsets'[p] /\ exrsets'[p] \subseteq ReachedOutside(p)
                      /\ Imported(p) \subseteq inrsets'[p] /\ inrsets'[p] \subseteq Reached(p)
    BY <1>9 DEF SetsAreSound
  <2>1. DOMAIN inrsets = DOMAIN exrsets
    BY <1>a DEF DomainsAgree
  <2>2. ex \subseteq ReachedOutside(pkg) /\ in \subseteq Reached(pkg)
    BY <1>1, OutsideHasImports, ReachedHasImports
  <2>3. CASE p = pkg
    BY <2>2, <2>3, <1>5
  <2>4. CASE p # pkg
    <3>1. p \in DOMAIN exrsets
      BY <2>4, <1>5
    <3>2. /\ ImportsOf(input, p) \cap External \subseteq exrsets[p] /\ exrsets[p] \subseteq ReachedOutside(p)
          /\ Imported(p) \subseteq inrsets[p] /\ inrsets[p] \subseteq Reached(p)
      BY <3>1, <1>a DEF SetsAreSound
    <3>3. p \in below => ex \subseteq ReachedOutside(p) /\ in \subseteq Reached(p)
      BY <1>4, <2>2, OutsideIsTransitive, ReachedIsTransitive
    <3> HIDE DEF ex, in
    <3> QED
      BY <2>1, <3>1, <3>2, <3>3, <1>5
  <2> QED
    BY <2>3, <2>4
<1>15. ImportsAreFollowed'
  <2> SUFFICES ASSUME NEW p \in Names, NEW q \in Names, p \in DOMAIN exrsets', q \in Imported(p) \ {p}
               PROVE  IsFollowed(p, q)'
    BY <1>9 DEF ImportsAreFollowed
  <2>1. DOMAIN inrsets = DOMAIN exrsets
    BY <1>a DEF DomainsAgree
  <2>2. CASE p = pkg
    BY <2>2, <1>8 DEF IsFollowed
  <2>3. CASE p # pkg
    <3>1. p \in DOMAIN exrsets
      BY <2>3, <1>5
    <3>2. IsFollowed(p, q)
      BY <3>1, <1>a DEF ImportsAreFollowed
    <3>3. ASSUME colors[q] = "black", q \in DOMAIN exrsets
          PROVE  /\ colors'[q] = "black" /\ q \in DOMAIN exrsets'
                 /\ exrsets'[q] = exrsets[q] /\ inrsets'[q] = inrsets[q]
                 /\ exrsets[p] \subseteq exrsets'[p] /\ inrsets[p] \subseteq inrsets'[p]
      <4>1. q # pkg /\ q \notin below
        BY <3>3, <1>a, <1>c DEF StackIsPath, below
      <4> HIDE DEF ex, in
      <4> QED
        BY <2>1, <3>1, <3>3, <4>1, <1>5, <1>6
    <3>4. ASSUME ToDo(p, q) \/ Above(p, q) PROVE IsFollowed(p, q)'
      <4>1. CASE stack # <<>> /\ p = Top.pkg /\ q = pkg
        <5>1. p \in below
          BY <4>1, <1>b, TopIsFrame DEF below
        <5> QED
          BY <4>1, <5>1, <1>8 DEF IsFollowed
      <4>2. CASE ~(stack # <<>> /\ p = Top.pkg /\ q = pkg)
        <5>1. ToDo(p, q)' \/ Above(p, q)'
          BY <3>4, <4>2, <1>8
        <5> QED
          BY <5>1 DEF IsFollowed
      <4> QED
        BY <4>1, <4>2
    <3> QED
      BY <3>2, <3>3, <3>4, <1>c, FollowedStays
  <2> QED
    BY <2>2, <2>3
<1>16. PoisonIsReal'
  <2> SUFFICES ASSUME NEW p \in Analysed, colors'[p] = "black", p \notin DOMAIN exrsets' PROVE IsPoisoned(p)
    BY <1>9 DEF PoisonIsReal
  <2> QED
    BY <1>a, <1>1, <1>5, <1>6 DEF PoisonIsReal
<1>17. ErrorsAreRight'
  <2>1. (\A p \in DOMAIN errmap : errmap[p].cause \in Seq(Names) /\ IsRightCause(p, errmap[p].err, errmap[p].cause))'
    <3>1. ASSUME NEW p \in DOMAIN errmap, NEW bad, NEW cause, IsRightCause(p, bad, cause) PROVE IsRightCause(p, bad, cause)'
      BY <3>1, <1>c, <1>9 DEF IsRightCause
    <3> QED
      BY <3>1, <1>a, <1>c DEF ErrorsAreRight
  <2>2. (input.backprop => \A q \in Names :
          q \notin DOMAIN workmap /\ colors[q] = "black" => \E p \in Names : <<p, q>> \in Imports /\ colors[p] = "black")'
    BY <1>a, <1>c, <1>1, <1>6, <1>9 DEF ErrorsAreRight
  <2> QED
    BY <2>1, <2>2 DEF ErrorsAreRight
<1> QED
  BY <1>10, <1>11, <1>12, <1>13, <1>14, <1>15, <1>16, <1>17 DEF ReachInv

\* A visit that is over at once leaves the imports followed, if it follows its own.
LEMMA VisitKeepsFollowed ==
    ASSUME ReachInv, NEW pkg \in Names, stack' = Visited(pkg), input' = input,
           DOMAIN exrsets' = DOMAIN exrsets,
           \A p \in DOMAIN exrsets : exrsets[p] \subseteq exrsets'[p] /\ inrsets[p] \subseteq inrsets'[p],
           \A q \in DOMAIN exrsets : colors[q] = "black" =>
              colors'[q] = "black" /\ exrsets'[q] = exrsets[q] /\ inrsets'[q] = inrsets[q],
           \A p \in Names : stack # <<>> /\ p = Top.pkg => IsFollowed(p, pkg)'
    PROVE  ImportsAreFollowed'
<1> SUFFICES ASSUME NEW p \in Names, NEW q \in Names, p \in DOMAIN exrsets, q \in Imported(p) \ {p}
             PROVE  IsFollowed(p, q)'
  <2>1. \A x : Imported(x)' = Imported(x)
    BY GraphStays
  <2> QED
    BY <2>1 DEF ImportsAreFollowed
<1>1. IsFollowed(p, q)
  BY DEF ReachInv, ImportsAreFollowed
<1>2. stack \in Seq(Frames)
  BY DEF ReachInv, StackTypes
<1>3. (Above(p, q)' <=> Above(p, q)) /\ (ToDo(p, q) => ToDo(p, q)' \/ (stack # <<>> /\ p = Top.pkg /\ q = pkg))
  BY <1>2, VisitOf
<1>4. ASSUME ToDo(p, q) \/ Above(p, q) PROVE IsFollowed(p, q)'
  <2>1. CASE stack # <<>> /\ p = Top.pkg /\ q = pkg
    <3>1. IsFollowed(p, pkg)'
      BY <2>1
    <3> QED
      BY <2>1, <3>1
  <2>2. CASE ~(stack # <<>> /\ p = Top.pkg /\ q = pkg)
    <3>1. ToDo(p, q)' \/ Above(p, q)'
      BY <1>3, <1>4, <2>2
    <3> QED
      BY <3>1 DEF IsFollowed
  <2> QED
    BY <2>1, <2>2
<1> QED
  BY <1>1, <1>4, FollowedStays

\* A visit that changes no map and no color, of an import that is followed.
LEMMA PassInv ==
    ASSUME ReachInv, NEW pkg \in Names, stack' = Visited(pkg),
           input' = input, workmap' = workmap, colors' = colors, exrsets' = exrsets,
           inrsets' = inrsets, errmap' = errmap,
           \A p \in Names : stack # <<>> /\ p = Top.pkg => IsFollowed(p, pkg)'
    PROVE  ReachInv'
<1>a. StackTypes /\ StackIsPath /\ DomainsAgree /\ PathIsReached /\ SetsAreSound
      /\ ImportsAreFollowed /\ PoisonIsReal /\ ErrorsAreRight
  BY DEF ReachInv
<1>b. stack \in Seq(Frames)
  BY <1>a DEF StackTypes
<1>1. /\ Analysed' = Analysed /\ Imports' = Imports
      /\ \A p : /\ ImportsOf(input, p)' = ImportsOf(input, p)
                /\ Imported(p)' = Imported(p) /\ Reached(p)' = Reached(p)
                /\ ReachedOutside(p)' = ReachedOutside(p)
                /\ IsTrouble(p)' <=> IsTrouble(p)
                /\ IsPoisoned(p)' <=> IsPoisoned(p)
  BY GraphStays
<1>2. /\ stack' \in Seq(Frames) /\ OnPath' = OnPath
      /\ \A p, q \in Names : Above(p, q)' <=> Above(p, q)
  BY <1>b, VisitOf
<1>3. StackTypes'
  BY <1>a, <1>2 DEF StackTypes
<1>4. StackIsPath'
  BY <1>a, VisitKeepsPath
<1>5. DomainsAgree'
  BY <1>a, <1>1 DEF DomainsAgree
<1>6. PathIsReached'
  BY <1>a, <1>1, <1>2 DEF PathIsReached
<1>7. SetsAreSound'
  BY <1>a, <1>1 DEF SetsAreSound
<1>8. ImportsAreFollowed'
  BY VisitKeepsFollowed
<1>9. PoisonIsReal'
  BY <1>a, <1>1 DEF PoisonIsReal
<1>10. ErrorsAreRight'
  <2>1. ASSUME NEW p \in DOMAIN errmap, NEW bad, NEW cause, IsRightCause(p, bad, cause) PROVE IsRightCause(p, bad, cause)'
    BY <2>1, <1>1 DEF IsRightCause
  <2>2. (\A p \in DOMAIN errmap : errmap[p].cause \in Seq(Names) /\ IsRightCause(p, errmap[p].err, errmap[p].cause))'
    BY <2>1, <1>a DEF ErrorsAreRight
  <2>3. (input.backprop => \A q \in Names :
          q \notin DOMAIN workmap /\ colors[q] = "black" => \E p \in Names : <<p, q>> \in Imports /\ colors[p] = "black")'
    BY <1>a, <1>1 DEF ErrorsAreRight
  <2> QED
    BY <2>2, <2>3 DEF ErrorsAreRight
<1> QED
  BY <1>3, <1>4, <1>5, <1>6, <1>7, <1>8, <1>9, <1>10 DEF ReachInv

\* dfe comes to a package on its own path: a cycle.
LEMMA SeeGreyInv ==
    ASSUME ReachInv, NEW pkg \in Names, SeeGrey(pkg)
    PROVE  ReachInv'
<1>1. ASSUME NEW p \in Names, stack # <<>>, p = Top.pkg PROVE IsFollowed(p, pkg)'
  <2>1. pkg # p /\ pkg \in OnPath /\ stack \in Seq(Frames)
    BY <1>1, PathReachesVisited DEF SeeGrey, ReachInv, StackIsPath, StackTypes
  <2>2. Above(pkg, p)
    BY <1>1, <2>1, BelowTop
  <2>3. p \in Reached(pkg)
    BY <2>2 DEF ReachInv, PathIsReached
  <2>4. Reached(pkg)' = Reached(pkg)
    BY GraphStays DEF SeeGrey
  <2> QED
    BY <2>3, <2>4 DEF IsFollowed
<1>2. /\ stack' = Visited(pkg) /\ input' = input /\ workmap' = workmap /\ colors' = colors
      /\ exrsets' = exrsets /\ inrsets' = inrsets /\ errmap' = errmap
  BY DEF SeeGrey
<1> QED
  BY <1>1, <1>2, PassInv

\* dfe comes to a package that is done and has no entry, and lets it be.
LEMMA PassOverInv ==
    ASSUME ReachInv, NEW pkg \in Names, PassOver(pkg)
    PROVE  ReachInv'
<1>1. pkg \notin Analysed
  BY DEF PassOver, ReachInv, PoisonIsReal, IsPoisoned
<1>2. Analysed' = Analysed
  BY GraphStays DEF PassOver
<1>3. /\ stack' = Visited(pkg) /\ input' = input /\ workmap' = workmap /\ colors' = colors
      /\ exrsets' = exrsets /\ inrsets' = inrsets /\ errmap' = errmap /\ ~input.backprop
  BY DEF PassOver
<1>4. \A p \in Names : IsFollowed(p, pkg)'
  BY <1>1, <1>2, <1>3 DEF IsFollowed
<1> QED
  BY <1>3, <1>4, PassInv

\* The same of a package with an error, which is recorded.
LEMMA RecordErrorInv ==
    ASSUME ReachInv, NEW pkg \in Names, RecordError(pkg)
    PROVE  ReachInv'
<1>a. StackTypes /\ StackIsPath /\ DomainsAgree /\ PathIsReached /\ SetsAreSound
      /\ ImportsAreFollowed /\ PoisonIsReal /\ ErrorsAreRight
  BY DEF ReachInv
<1>b. stack \in Seq(Frames) /\ colors \in [Names -> {"white", "grey", "black"}]
  BY <1>a DEF StackTypes
<1>c. /\ colors[pkg] = "white" /\ ~IsSound(pkg) /\ ~input.backprop /\ stack' = Visited(pkg)
      /\ input' = input /\ workmap' = workmap /\ exrsets' = exrsets /\ inrsets' = inrsets
  BY DEF RecordError
<1>1. /\ Analysed' = Analysed /\ Imports' = Imports
      /\ \A p : /\ ImportsOf(input, p)' = ImportsOf(input, p)
                /\ Imported(p)' = Imported(p) /\ Reached(p)' = Reached(p)
                /\ ReachedOutside(p)' = ReachedOutside(p)
                /\ IsTrouble(p)' <=> IsTrouble(p)
                /\ IsPoisoned(p)' <=> IsPoisoned(p)
  BY <1>c, GraphStays
<1>2. /\ stack' \in Seq(Frames) /\ OnPath' = OnPath
      /\ \A p, q \in Names : Above(p, q)' <=> Above(p, q)
  BY <1>b, <1>c, VisitOf
<1>3. colors' \in [Names -> {"white", "grey", "black"}] /\ colors'[pkg] = "black"
      /\ \A p \in Names : p # pkg => colors'[p] = colors[p]
  BY <1>b DEF RecordError, Blacken
<1>4. pkg \notin Analysed /\ Analysed \subseteq Names
  BY <1>a, <1>c, WorkMapIsGraph
<1>5. /\ DOMAIN errmap' = DOMAIN errmap \cup ({pkg} \cap DOMAIN workmap)
      /\ \A p \in DOMAIN errmap : p # pkg => errmap'[p] = errmap[p]
      /\ pkg \in DOMAIN workmap => errmap'[pkg] = [err |-> pkg, cause |-> <<>>]
  BY DEF RecordError, Put
<1>6. StackTypes'
  BY <1>a, <1>c, <1>2, <1>3 DEF StackTypes
<1>7. StackIsPath'
  BY <1>a, <1>c, <1>3, VisitKeepsPath
<1>8. DomainsAgree'
  BY <1>a, <1>c, <1>1, <1>3, <1>4, <1>5 DEF DomainsAgree
<1>9. PathIsReached'
  BY <1>a, <1>c, <1>1, <1>2 DEF PathIsReached
<1>10. SetsAreSound'
  BY <1>a, <1>c, <1>1 DEF SetsAreSound
<1>11. ImportsAreFollowed'
  <2>1. \A p \in Names : IsFollowed(p, pkg)'
    BY <1>1, <1>4, <1>c DEF IsFollowed
  <2>2. \A q \in DOMAIN exrsets : colors[q] = "black" => colors'[q] = "black"
    BY <1>a, <1>3, <1>4 DEF DomainsAgree
  <2> QED
    BY <2>1, <2>2, <1>c, VisitKeepsFollowed
<1>12. PoisonIsReal'
  BY <1>a, <1>c, <1>1, <1>3, <1>4 DEF PoisonIsReal
<1>13. ErrorsAreRight'
  <2>1. ASSUME NEW p, NEW bad, NEW cause, IsRightCause(p, bad, cause) PROVE IsRightCause(p, bad, cause)'
    BY <2>1, <1>c, <1>1 DEF IsRightCause
  <2>2. IsRightCause(pkg, pkg, <<>>) /\ <<>> \in Seq(Names)
    BY <1>4 DEF IsRightCause, IsTrouble
  <2>3. ASSUME NEW p \in DOMAIN errmap' PROVE errmap'[p].cause \in Seq(Names) /\ IsRightCause(p, errmap'[p].err, errmap'[p].cause)
    <3>1. CASE p = pkg
      <4>1. pkg \in DOMAIN workmap \/ pkg \in DOMAIN errmap
        BY <3>1, <1>5
      <4>2. pkg \notin DOMAIN errmap
        BY <1>a, <1>c DEF DomainsAgree
      <4>3. errmap'[p].err = pkg /\ errmap'[p].cause = <<>>
        BY <4>1, <4>2, <3>1, <1>5
      <4> QED
        BY <4>3, <3>1, <2>2
    <3>2. CASE p # pkg
      BY <3>2, <1>a, <1>5 DEF ErrorsAreRight
    <3> QED
      BY <3>1, <3>2
  <2>4. ASSUME NEW p \in DOMAIN errmap' PROVE IsRightCause(p, errmap[p].err, errmap[p].cause)'
    <3>1. PICK bad, cause : bad = errmap'[p].err /\ cause = errmap'[p].cause
      OBVIOUS
    <3>2. IsRightCause(p, bad, cause)'
      BY <2>1, <2>3, <3>1
    <3> QED
      BY <3>1, <3>2 DEF IsRightCause
  <2>5. (\A p \in DOMAIN errmap : errmap[p].cause \in Seq(Names) /\ IsRightCause(p, errmap[p].err, errmap[p].cause))'
    BY <2>3, <2>4
  <2> QED
    BY <2>5, <1>c DEF ErrorsAreRight
<1> QED
  BY <1>6, <1>7, <1>8, <1>9, <1>10, <1>11, <1>12, <1>13 DEF ReachInv

\* dfe comes to a package that is done, and pulls over what it reaches.
LEMMA PullOverInv ==
    ASSUME ReachInv, NEW pkg \in Names, PullOver(pkg)
    PROVE  ReachInv'
<1> DEFINE ex == exrsets[pkg]
           in == inrsets[pkg]
           below == OnPath
<1>a. StackTypes /\ StackIsPath /\ DomainsAgree /\ PathIsReached /\ SetsAreSound
      /\ ImportsAreFollowed /\ PoisonIsReal /\ ErrorsAreRight
  BY DEF ReachInv
<1>b. stack \in Seq(Frames) /\ colors \in [Names -> {"white", "grey", "black"}]
  BY <1>a DEF StackTypes
<1>c. /\ colors[pkg] = "black" /\ pkg \in DOMAIN exrsets /\ Visits(pkg) /\ stack' = Visited(pkg)
      /\ input' = input /\ workmap' = workmap /\ colors' = colors /\ errmap' = errmap
  BY DEF PullOver
<1>1. /\ Analysed' = Analysed /\ Imports' = Imports
      /\ \A p : /\ ImportsOf(input, p)' = ImportsOf(input, p)
                /\ Imported(p)' = Imported(p) /\ Reached(p)' = Reached(p)
                /\ ReachedOutside(p)' = ReachedOutside(p)
                /\ IsTrouble(p)' <=> IsTrouble(p)
                /\ IsPoisoned(p)' <=> IsPoisoned(p)
  BY <1>c, GraphStays
<1>2. /\ stack' \in Seq(Frames) /\ OnPath' = below
      /\ \A p, q \in Names : Above(p, q)' <=> Above(p, q)
  BY <1>b, <1>c, VisitOf
<1>3. stack # <<>> /\ DOMAIN inrsets = DOMAIN exrsets /\ pkg \notin below
  BY <1>a, <1>c DEF Visits, DomainsAgree, StackIsPath
<1>4. \A p \in below : pkg \in Reached(p)
  BY <1>3, <1>c, PathReachesVisited
<1>5. /\ DOMAIN exrsets' = DOMAIN exrsets /\ DOMAIN inrsets' = DOMAIN inrsets
      /\ \A p \in DOMAIN exrsets : exrsets'[p] = IF p \in below THEN exrsets[p] \cup ex ELSE exrsets[p]
      /\ \A p \in DOMAIN inrsets : inrsets'[p] = IF p \in below THEN inrsets[p] \cup in ELSE inrsets[p]
  <2>1. exrsets' = Add(exrsets, below, ex) /\ inrsets' = Add(inrsets, below, in)
    BY DEF PullOver
  <2> HIDE DEF ex, in, below
  <2> QED
    BY <2>1 DEF Add
<1>6. StackTypes'
  BY <1>a, <1>c, <1>2 DEF StackTypes
<1>7. StackIsPath'
  BY <1>a, <1>c, VisitKeepsPath
<1>8. DomainsAgree'
  BY <1>a, <1>c, <1>1, <1>5 DEF DomainsAgree
<1>9. PathIsReached'
  <2> SUFFICES ASSUME NEW p \in Names, NEW q \in Names, Above(p, q)
               PROVE  q \in Reached(p) /\ exrsets'[q] \subseteq exrsets'[p] /\ inrsets'[q] \subseteq inrsets'[p]
    BY <1>1, <1>2 DEF PathIsReached
  <2>1. p \in below /\ q \in below
    BY <1>b, BelowTop
  <2>2. p \in DOMAIN exrsets /\ q \in DOMAIN exrsets
    BY <2>1, <1>a DEF StackIsPath, DomainsAgree
  <2>3. q \in Reached(p) /\ exrsets[q] \subseteq exrsets[p] /\ inrsets[q] \subseteq inrsets[p]
    BY <1>a DEF PathIsReached
  <2> HIDE DEF ex, in, below
  <2> QED
    BY <1>3, <2>1, <2>2, <2>3, <1>5
<1>10. SetsAreSound'
  <2> SUFFICES ASSUME NEW p \in DOMAIN exrsets
               PROVE  /\ ImportsOf(input, p) \cap External \subseteq exrsets'[p] /\ exrsets'[p] \subseteq ReachedOutside(p)
                      /\ Imported(p) \subseteq inrsets'[p] /\ inrsets'[p] \subseteq Reached(p)
    BY <1>1, <1>5 DEF SetsAreSound
  <2>1. ex \subseteq ReachedOutside(pkg) /\ in \subseteq Reached(pkg)
    BY <1>a, <1>c DEF SetsAreSound
  <2>2. /\ ImportsOf(input, p) \cap External \subseteq exrsets[p] /\ exrsets[p] \subseteq ReachedOutside(p)
        /\ Imported(p) \subseteq inrsets[p] /\ inrsets[p] \subseteq Reached(p)
    BY <1>a DEF SetsAreSound
  <2> HIDE DEF ex, in, below
  <2>3. p \in below => ex \subseteq ReachedOutside(p) /\ in \subseteq Reached(p)
    BY <1>4, <2>1, OutsideIsTransitive, ReachedIsTransitive
  <2> QED
    BY <1>3, <2>2, <2>3, <1>5
<1>11. ImportsAreFollowed'
  <2>1. ASSUME NEW p \in Names, stack # <<>>, p = Top.pkg PROVE IsFollowed(p, pkg)'
    <3>1. p \in below
      BY <2>1, <1>c, PathReachesVisited
    <3>2. p \in DOMAIN exrsets
      BY <3>1, <1>a DEF StackIsPath, DomainsAgree
    <3>3. exrsets'[pkg] \subseteq exrsets'[p] /\ inrsets'[pkg] \subseteq inrsets'[p]
      BY <3>1, <3>2, <1>3, <1>5, <1>c
    <3> QED
      BY <3>3, <1>5, <1>c DEF IsFollowed
  <2>2. \A p \in DOMAIN exrsets : exrsets[p] \subseteq exrsets'[p] /\ inrsets[p] \subseteq inrsets'[p]
    <3> HIDE DEF ex, in, below
    <3> QED
      BY <1>3, <1>5
  <2>3. ASSUME NEW q \in DOMAIN exrsets, colors[q] = "black"
        PROVE  colors'[q] = "black" /\ exrsets'[q] = exrsets[q] /\ inrsets'[q] = inrsets[q]
    <3>1. q \in Names
      BY <1>a, WorkMapIsGraph DEF DomainsAgree
    <3>2. q \notin below
      BY <3>1, <2>3, <1>a DEF StackIsPath
    <3> HIDE DEF ex, in, below
    <3> QED
      BY <3>2, <2>3, <1>3, <1>5, <1>c
  <2> QED
    BY <2>1, <2>2, <2>3, <1>5, <1>c, VisitKeepsFollowed
<1>12. PoisonIsReal'
  BY <1>a, <1>c, <1>1, <1>5 DEF PoisonIsReal
<1>13. ErrorsAreRight'
  <2>1. ASSUME NEW p \in DOMAIN errmap, NEW bad, NEW cause, IsRightCause(p, bad, cause) PROVE IsRightCause(p, bad, cause)'
    BY <2>1, <1>c, <1>1 DEF IsRightCause
  <2>2. (\A p \in DOMAIN errmap : errmap[p].cause \in Seq(Names) /\ IsRightCause(p, errmap[p].err, errmap[p].cause))'
    BY <2>1, <1>a, <1>c DEF ErrorsAreRight
  <2>3. (input.backprop => \A q \in Names :
          q \notin DOMAIN workmap /\ colors[q] = "black" => \E p \in Names : <<p, q>> \in Imports /\ colors[p] = "black")'
    BY <1>a, <1>c, <1>1 DEF ErrorsAreRight
  <2> QED
    BY <2>2, <2>3 DEF ErrorsAreRight
<1> QED
  BY <1>6, <1>7, <1>8, <1>9, <1>10, <1>11, <1>12, <1>13 DEF ReachInv

\* dfe returns.
LEMMA ReturnInv ==
    ASSUME ReachInv, Return
    PROVE  ReachInv'
<1>a. StackTypes /\ StackIsPath /\ DomainsAgree /\ PathIsReached /\ SetsAreSound
      /\ ImportsAreFollowed /\ PoisonIsReal /\ ErrorsAreRight
  BY DEF ReachInv
<1>b. stack \in Seq(Frames) /\ colors \in [Names -> {"white", "grey", "black"}]
  BY <1>a DEF StackTypes
<1>c. /\ stack # <<>> /\ Top.todo = {} /\ stack' = SubSeq(stack, 1, Len(stack) - 1)
      /\ input' = input /\ workmap' = workmap /\ exrsets' = exrsets /\ inrsets' = inrsets /\ errmap' = errmap
  BY DEF Return
<1>1. /\ Analysed' = Analysed /\ Imports' = Imports
      /\ \A p : /\ ImportsOf(input, p)' = ImportsOf(input, p)
                /\ Imported(p)' = Imported(p) /\ Reached(p)' = Reached(p)
                /\ ReachedOutside(p)' = ReachedOutside(p)
                /\ IsTrouble(p)' <=> IsTrouble(p)
                /\ IsPoisoned(p)' <=> IsPoisoned(p)
  BY <1>c, GraphStays
<1>d. PICK top \in Names : top = Top.pkg /\ top \in OnPath
  BY <1>b, <1>c, TopIsFrame
<1>2. /\ stack' \in Seq(Frames) /\ OnPath' = OnPath \ {top}
      /\ \A p, q \in Names :
                 /\ Above(p, q)' => Above(p, q)
                 /\ Above(p, q) => Above(p, q)' \/ q = top
                 /\ ToDo(p, q)' <=> ToDo(p, q)
      /\ \A j \in DOMAIN stack' : j + 1 \in DOMAIN stack' =>
                 /\ j \in DOMAIN stack /\ j + 1 \in DOMAIN stack
                 /\ stack'[j].pkg = stack[j].pkg /\ stack'[j + 1].pkg = stack[j + 1].pkg
  <2>1. \A p \in Names : ~Above(p, p)
    BY <1>a DEF StackIsPath
  <2> QED
    BY <2>1, <1>b, <1>c, <1>d, PopOf
<1>3. colors' \in [Names -> {"white", "grey", "black"}] /\ colors'[top] = "black"
      /\ \A p \in Names : p # top => colors'[p] = colors[p]
  BY <1>b, <1>d DEF Return, Blacken
<1>4. top \in DOMAIN exrsets /\ top \in DOMAIN workmap /\ colors[top] = "grey"
  BY <1>a, <1>d, WorkMapIsGraph DEF StackIsPath, DomainsAgree
<1>5. StackTypes'
  BY <1>a, <1>c, <1>2, <1>3 DEF StackTypes
<1>6. StackIsPath'
  <2>1. (\A p \in Names : colors[p] = "grey" <=> p \in OnPath)'
    BY <1>a, <1>2, <1>3 DEF StackIsPath
  <2>2. (\A p \in Names : ~Above(p, p))'
    BY <1>a, <1>2 DEF StackIsPath
  <2>3. (\A p, q \in Names : ToDo(p, q) => q \in Imported(p) \ {p})'
    BY <1>a, <1>1, <1>2 DEF StackIsPath
  <2>4. (\A j \in DOMAIN stack : j + 1 \in DOMAIN stack => <<stack[j].pkg, stack[j + 1].pkg>> \in Imports)'
    BY <1>a, <1>1, <1>2 DEF StackIsPath
  <2> QED
    BY <2>1, <2>2, <2>3, <2>4 DEF StackIsPath
<1>7. DomainsAgree'
  BY <1>a, <1>c, <1>1, <1>3, <1>4 DEF DomainsAgree
<1>8. PathIsReached'
  BY <1>a, <1>c, <1>1, <1>2 DEF PathIsReached
<1>9. SetsAreSound'
  BY <1>a, <1>c, <1>1 DEF SetsAreSound
<1>10. ImportsAreFollowed'
  <2> SUFFICES ASSUME NEW p \in Names, NEW q \in Names, p \in DOMAIN exrsets, q \in Imported(p) \ {p}
               PROVE  IsFollowed(p, q)'
    BY <1>1, <1>c DEF ImportsAreFollowed
  <2>1. IsFollowed(p, q)
    BY <1>a DEF ImportsAreFollowed
  <2>2. colors[q] = "black" => colors'[q] = "black"
    BY <1>3
  <2>3. ASSUME ToDo(p, q) \/ Above(p, q) PROVE IsFollowed(p, q)'
    <3>1. CASE Above(p, q) /\ q = top
      <4>1. exrsets[q] \subseteq exrsets[p] /\ inrsets[q] \subseteq inrsets[p]
        BY <3>1, <1>a DEF PathIsReached
      <4> QED
        BY <4>1, <3>1, <1>3, <1>4, <1>c DEF IsFollowed
    <3>2. CASE ~(Above(p, q) /\ q = top)
      <4>1. ToDo(p, q)' \/ Above(p, q)'
        BY <2>3, <3>2, <1>2
      <4> QED
        BY <4>1 DEF IsFollowed
    <3> QED
      BY <3>1, <3>2
  <2> QED
    BY <2>1, <2>2, <2>3, <1>c, FollowedStays
<1>11. PoisonIsReal'
  <2>1. Analysed \subseteq Names
    BY <1>a, WorkMapIsGraph
  <2> QED
    BY <2>1, <1>a, <1>c, <1>1, <1>3, <1>4 DEF PoisonIsReal
<1>12. ErrorsAreRight'
  <2>1. ASSUME NEW p \in DOMAIN errmap, NEW bad, NEW cause, IsRightCause(p, bad, cause) PROVE IsRightCause(p, bad, cause)'
    BY <2>1, <1>c, <1>1 DEF IsRightCause
  <2>2. (\A p \in DOMAIN errmap : errmap[p].cause \in Seq(Names) /\ IsRightCause(p, errmap[p].err, errmap[p].cause))'
    BY <2>1, <1>a, <1>c DEF ErrorsAreRight
  <2>3. (input.backprop => \A q \in Names :
          q \notin DOMAIN workmap /\ colors[q] = "black" => \E p \in Names : <<p, q>> \in Imports /\ colors[p] = "black")'
    BY <1>a, <1>c, <1>1, <1>3, <1>4 DEF ErrorsAreRight
  <2> QED
    BY <2>2, <2>3 DEF ErrorsAreRight
<1> QED
  BY <1>5, <1>6, <1>7, <1>8, <1>9, <1>10, <1>11, <1>12 DEF ReachInv

-----------------------------------------------------------------------------
(* Poison.                                                                 *)

\* Who is on a path, and who of them gets an error.
IsOn(path, p) == \E k \in DOMAIN path : path[k] = p
IsHit(path, p) == \E k \in DOMAIN path : path[k] = p /\ (k = Len(path) => p \in DOMAIN workmap)

\* What poison does to the maps, for each package on the path it is given.
LEMMA PoisonFacts ==
    ASSUME NEW path \in Seq(Names), NEW bad, NEW cause, Poison(path, bad, cause)
    PROVE  /\ input' = input /\ workmap' = workmap /\ stack' = <<>>
           /\ \A p : p \in DOMAIN exrsets' <=> p \in DOMAIN exrsets /\ ~ IsOn(path, p)
           /\ \A p : p \in DOMAIN inrsets' <=> p \in DOMAIN inrsets /\ ~ IsOn(path, p)
           /\ \A p \in DOMAIN exrsets' : exrsets'[p] = exrsets[p]
           /\ \A p \in DOMAIN inrsets' : inrsets'[p] = inrsets[p]
           /\ \A p : p \in DOMAIN errmap' <=> p \in DOMAIN errmap \/ IsHit(path, p)
           /\ \A p \in DOMAIN errmap' :
                 \/ p \in DOMAIN errmap /\ errmap'[p] = errmap[p]
                 \/ \E k \in DOMAIN path :
                       /\ path[k] = p
                       /\ errmap'[p].err = bad /\ errmap'[p].cause = SubSeq(cause, k + 1, Len(cause))
<1> DEFINE hit == {k \in DOMAIN path : k = Len(path) => path[k] \in DOMAIN workmap}
           of(p) == CHOOSE k \in hit : path[k] = p
<1>1. input' = input /\ workmap' = workmap /\ stack' = <<>>
  BY DEF Poison
<1>e. PICK gone : gone = {path[k] : k \in DOMAIN path}
  OBVIOUS
<1>2. exrsets' = Restrict(exrsets, DOMAIN exrsets \ gone) /\ inrsets' = Restrict(inrsets, DOMAIN inrsets \ gone)
  BY <1>e DEF Poison
<1>3. errmap' = [p \in DOMAIN errmap \cup {path[k] : k \in hit} |->
                    IF \E k \in hit : path[k] = p
                    THEN [err |-> bad, cause |-> SubSeq(cause, of(p) + 1, Len(cause))]
                    ELSE errmap[p]]
  BY DEF Poison
<1>4. \A p : (\E k \in hit : path[k] = p) => of(p) \in hit /\ path[of(p)] = p
  OBVIOUS
<1>5. \A k \in hit : k \in DOMAIN path
  OBVIOUS
<1> HIDE DEF hit, of
<1>6. /\ DOMAIN exrsets' = DOMAIN exrsets \ gone /\ DOMAIN inrsets' = DOMAIN inrsets \ gone
      /\ \A p \in DOMAIN exrsets' : exrsets'[p] = exrsets[p]
      /\ \A p \in DOMAIN inrsets' : inrsets'[p] = inrsets[p]
  BY <1>2 DEF Restrict
<1>7. DOMAIN errmap' = DOMAIN errmap \cup {path[k] : k \in hit}
  BY <1>3
<1>8. ASSUME NEW p \in DOMAIN errmap'
      PROVE  \/ p \in DOMAIN errmap /\ errmap'[p] = errmap[p]
             \/ \E k \in DOMAIN path :
                   /\ path[k] = p
                   /\ errmap'[p].err = bad /\ errmap'[p].cause = SubSeq(cause, k + 1, Len(cause))
  <2>1. CASE \E k \in hit : path[k] = p
    <3>1. PICK rest : rest = SubSeq(cause, of(p) + 1, Len(cause))
      OBVIOUS
    <3>2. errmap'[p] = [err |-> bad, cause |-> rest]
      BY <2>1, <3>1, <1>3, <1>7
    <3>3. errmap'[p].err = bad /\ errmap'[p].cause = rest
      BY <3>2
    <3> QED
      BY <3>1, <3>3, <2>1, <1>4, <1>5
  <2>2. CASE ~(\E k \in hit : path[k] = p)
    <3>1. p \in DOMAIN errmap
      BY <2>2, <1>7
    <3> QED
      BY <3>1, <2>2, <1>3, <1>7
  <2> QED
    BY <2>1, <2>2
<1>9. \A p : p \in DOMAIN errmap' <=> p \in DOMAIN errmap \/ IsHit(path, p)
  BY <1>7 DEF hit, IsHit
<1>10. \A p : p \in gone <=> IsOn(path, p)
  BY <1>e DEF IsOn
<1>11. \A p : /\ p \in DOMAIN exrsets' <=> p \in DOMAIN exrsets /\ ~ IsOn(path, p)
              /\ p \in DOMAIN inrsets' <=> p \in DOMAIN inrsets /\ ~ IsOn(path, p)
  BY <1>6, <1>10
<1> QED
  BY <1>1, <1>6, <1>8, <1>9, <1>11

\* A poisoned path: everything but the causes.
LEMMA PoisonKeeps ==
    ASSUME ReachInv, NEW pkg \in Names, Visits(pkg), input.backprop,
           pkg \notin Analysed \/ IsPoisoned(pkg),
           NEW gone \in SUBSET Names, OnPath \subseteq gone, gone \subseteq OnPath \cup {pkg},
           pkg \in gone => colors[pkg] = "white" /\ pkg \notin Analysed,
           input' = input, workmap' = workmap, stack' = <<>>,
           DOMAIN exrsets' = DOMAIN exrsets \ gone, DOMAIN inrsets' = DOMAIN inrsets \ gone,
           \A p \in DOMAIN exrsets' : exrsets'[p] = exrsets[p],
           \A p \in DOMAIN inrsets' : inrsets'[p] = inrsets[p],
           DOMAIN errmap' = DOMAIN errmap \cup (gone \cap DOMAIN workmap),
           Blacken(gone)
    PROVE  StackTypes' /\ StackIsPath' /\ DomainsAgree' /\ PathIsReached'
           /\ SetsAreSound' /\ ImportsAreFollowed' /\ PoisonIsReal'
<1>a. StackTypes /\ StackIsPath /\ DomainsAgree /\ PathIsReached /\ SetsAreSound
      /\ ImportsAreFollowed /\ PoisonIsReal /\ ErrorsAreRight
  BY DEF ReachInv
<1>b. stack \in Seq(Frames) /\ colors \in [Names -> {"white", "grey", "black"}]
  BY <1>a DEF StackTypes
<1>1. /\ Analysed' = Analysed /\ Imports' = Imports
      /\ \A p : /\ ImportsOf(input, p)' = ImportsOf(input, p)
                /\ Imported(p)' = Imported(p) /\ Reached(p)' = Reached(p)
                /\ ReachedOutside(p)' = ReachedOutside(p)
                /\ IsTrouble(p)' <=> IsTrouble(p)
                /\ IsPoisoned(p)' <=> IsPoisoned(p)
  BY GraphStays
<1>2. stack' \in Seq(Frames) /\ OnPath' = {} /\ \A p, q : ~Above(p, q)' /\ ~ToDo(p, q)'
  BY ClearOf
<1>3. colors' \in [Names -> {"white", "grey", "black"}]
      /\ (\A p \in gone : colors'[p] = "black") /\ (\A p \in Names : p \notin gone => colors'[p] = colors[p])
  BY <1>b DEF Blacken
<1>4. Analysed \subseteq Names /\ Analysed \subseteq DOMAIN workmap /\ DOMAIN workmap \subseteq Names
  BY <1>a, WorkMapIsGraph
<1>5. \A p \in OnPath : p \in Names /\ colors[p] = "grey" /\ p \in DOMAIN exrsets
  BY <1>a, <1>b, OnPathAreNames DEF StackIsPath, DomainsAgree
<1>6. StackTypes'
  BY <1>a, <1>2, <1>3 DEF StackTypes
<1>7. StackIsPath'
  <2>1. (\A p \in Names : colors[p] = "grey" <=> p \in OnPath)'
    BY <1>a, <1>2, <1>3 DEF StackIsPath
  <2>2. DOMAIN stack' = {}
    OBVIOUS
  <2> QED
    BY <2>1, <2>2, <1>2 DEF StackIsPath
<1>8. DomainsAgree'
  <2>1. DOMAIN exrsets' = DOMAIN inrsets' /\ DOMAIN exrsets' \subseteq Analysed
    BY <1>a DEF DomainsAgree
  <2>2. DOMAIN errmap' \subseteq DOMAIN workmap \ DOMAIN exrsets'
    BY <1>a DEF DomainsAgree
  <2>3. ASSUME NEW p \in Names
        PROVE  /\ colors'[p] = "white" => p \notin DOMAIN exrsets' \cup DOMAIN errmap'
               /\ colors'[p] = "grey" => p \in DOMAIN exrsets'
               /\ colors'[p] = "black" /\ p \in DOMAIN workmap => p \in DOMAIN exrsets' \cup DOMAIN errmap'
    <3>1. CASE p \in gone
      BY <3>1, <1>3
    <3>2. CASE p \notin gone
      BY <3>2, <1>3, <1>a DEF DomainsAgree
    <3> QED
      BY <3>1, <3>2
  <2> QED
    BY <2>1, <2>2, <2>3, <1>1 DEF DomainsAgree
<1>9. PathIsReached'
  BY <1>2 DEF PathIsReached
<1>10. SetsAreSound'
  <2>1. DOMAIN exrsets = DOMAIN inrsets
    BY <1>a DEF DomainsAgree
  <2> QED
    BY <2>1, <1>a, <1>1 DEF SetsAreSound
<1>11. ImportsAreFollowed'
  <2> SUFFICES ASSUME NEW p \in Names, NEW q \in Names, p \in DOMAIN exrsets', q \in Imported(p) \ {p}
               PROVE  IsFollowed(p, q)'
    BY <1>1 DEF ImportsAreFollowed
  <2>1. p \in DOMAIN exrsets /\ p \notin OnPath /\ DOMAIN exrsets = DOMAIN inrsets
    BY <1>a DEF DomainsAgree
  <2>2. IsFollowed(p, q)
    BY <2>1, <1>a DEF ImportsAreFollowed
  <2>3. ~ToDo(p, q) /\ ~Above(p, q)
    BY <2>1, <1>b, BelowTop
  <2>4. ASSUME colors[q] = "black", q \in DOMAIN exrsets
        PROVE  /\ colors'[q] = "black" /\ q \in DOMAIN exrsets'
               /\ exrsets'[q] = exrsets[q] /\ inrsets'[q] = inrsets[q]
               /\ exrsets[p] \subseteq exrsets'[p] /\ inrsets[p] \subseteq inrsets'[p]
    <3>1. q \notin gone
      BY <2>4, <1>5
    <3> QED
      BY <3>1, <2>1, <2>4, <1>3
  <2> QED
    BY <2>2, <2>3, <2>4, FollowedStays
<1>12. PoisonIsReal'
  <2> SUFFICES ASSUME NEW p \in Analysed, colors'[p] = "black", p \notin DOMAIN exrsets' PROVE IsPoisoned(p)
    BY <1>1 DEF PoisonIsReal
  <2>1. CASE p \in OnPath
    <3>1. pkg \in Reached(p)
      BY <2>1, <1>b, BelowTop, PathReachesVisited
    <3>2. CASE pkg \notin Analysed
      BY <3>1, <3>2 DEF IsPoisoned
    <3>3. CASE IsPoisoned(pkg)
      <4>1. Reached(pkg) \subseteq Reached(p)
        BY <3>1, ReachedIsTransitive
      <4> QED
        BY <4>1, <3>3 DEF IsPoisoned
    <3> QED
      BY <3>2, <3>3
  <2>2. CASE p \notin OnPath
    <3>1. p \notin gone
      BY <2>2
    <3> QED
      BY <3>1, <1>a, <1>3, <1>4 DEF PoisonIsReal
  <2> QED
    BY <2>1, <2>2
<1> QED
  BY <1>6, <1>7, <1>8, <1>9, <1>10, <1>11, <1>12

-----------------------------------------------------------------------------
(* Causes.                                                                 *)

\* The path and the package that is visited are a way of imports.
Way(pkg) == Append(Path, pkg)
LEMMA PathIsWay ==
    ASSUME ReachInv, NEW pkg \in Names, Visits(pkg)
    PROVE  /\ Len(stack) \in Nat
           /\ Path \in Seq(Names) /\ Len(Path) = Len(stack) /\ DOMAIN Path = 1 .. Len(stack)
           /\ Way(pkg) \in Seq(Names) /\ Len(Way(pkg)) = Len(stack) + 1 /\ Way(pkg)[Len(stack) + 1] = pkg
           /\ \A p \in OnPath : \E k \in 1 .. Len(stack) : Path[k] = p
           /\ \A k \in 1 .. Len(stack) :
                 Way(pkg)[k] = Path[k] /\ Path[k] \in OnPath /\ <<Way(pkg)[k], Way(pkg)[k + 1]>> \in Imports
<1>0. PICK n \in Nat : n = Len(stack)
  BY DEF ReachInv, StackTypes
<1>1. stack \in Seq(Frames) /\ n \in Nat /\ DOMAIN stack = 1 .. n
  BY <1>0 DEF ReachInv, StackTypes
<1>2. \A k \in 1 .. n : stack[k].pkg \in Names
  <2>1. \A k \in 1 .. n : stack[k] \in Frames
    BY <1>1
  <2> QED
    BY <2>1 DEF Frames
<1>3. Path = [k \in 1 .. n |-> stack[k].pkg]
  BY <1>1 DEF Path
<1>4. Path \in Seq(Names) /\ Len(Path) = n /\ DOMAIN Path = 1 .. n
  BY <1>1, <1>2, <1>3
<1>5. \A p \in OnPath : \E k \in 1 .. n : Path[k] = p
  BY <1>1, <1>3, <1>4 DEF OnPath
<1>w. PICK way : way = Way(pkg)
  OBVIOUS
<1>6. way \in Seq(Names) /\ Len(way) = n + 1 /\ way[n + 1] = pkg
  BY <1>w, <1>1, <1>4 DEF Way
<1>7. \A k \in 1 .. n : way[k] = Path[k]
  BY <1>w, <1>1, <1>4 DEF Way
<1>8. \A k \in 1 .. n : Path[k] = stack[k].pkg /\ Path[k] \in OnPath
  BY <1>1, <1>3, <1>4 DEF OnPath
<1>9. ASSUME NEW k \in 1 .. n PROVE <<way[k], way[k + 1]>> \in Imports
  <2>1. CASE k = n
    <3>1. stack # <<>>
      BY <2>1, <1>1
    <3>2. <<Top.pkg, pkg>> \in Imports /\ Top.pkg = stack[n].pkg
      BY <3>1, <1>0, <1>1, PathReachesVisited DEF Top
    <3> QED
      BY <3>2, <2>1, <1>6, <1>7, <1>8
  <2>2. CASE k # n
    <3>1. k + 1 \in 1 .. n
      BY <2>2, <1>1
    <3>2. <<stack[k].pkg, stack[k + 1].pkg>> \in Imports
      BY <3>1, <1>1 DEF ReachInv, StackIsPath
    <3> QED
      BY <3>1, <3>2, <1>7, <1>8
  <2> QED
    BY <2>1, <2>2
<1> QED
  BY <1>0, <1>1, <1>4, <1>5, <1>6, <1>7, <1>8, <1>9, <1>w

\* What is left of a way from one of its packages.
LEMMA RestOfWay ==
    ASSUME NEW way \in Seq(Names), NEW k \in 1 .. Len(way)
    PROVE  LET rest == <<way[k]>> \o SubSeq(way, k + 1, Len(way))
           IN  /\ SubSeq(way, k + 1, Len(way)) \in Seq(Names)
               /\ Len(rest) \in Nat \ {0} /\ Len(rest) = Len(way) - k + 1
               /\ \A j \in 1 .. Len(rest) : rest[j] = way[j + k - 1]
<1>1. PICK n \in Nat : n = Len(way)
  OBVIOUS
<1>2. PICK m \in Nat : m = n - k
  <2>1. k \in 1 .. n
    BY <1>1
  <2>2. n - k \in Nat
    BY <2>1
  <2> QED
    BY <2>2
<1>3. PICK sub : sub = SubSeq(way, k + 1, Len(way))
  OBVIOUS
<1>4. sub \in Seq(Names) /\ Len(sub) = m /\ \A j \in 1 .. m : sub[j] = way[j + k]
  BY <1>1, <1>2, <1>3
<1>5. PICK one : one = <<way[k]>>
  OBVIOUS
<1>6. one \in Seq(Names) /\ Len(one) = 1 /\ one[1] = way[k]
  <2>1. way[k] \in Names
    OBVIOUS
  <2> QED
    BY <2>1, <1>5
<1>7. PICK rest : rest = one \o sub
  OBVIOUS
<1>8. rest \in Seq(Names) /\ Len(rest) = m + 1
  <2>1. Len(rest) = Len(one) + Len(sub) /\ rest \in Seq(Names)
    BY <1>4, <1>6, <1>7, ConcatProperties
  <2> QED
    BY <2>1, <1>4, <1>6
<1>9. rest[1] = way[k] /\ \A j \in 2 .. m + 1 : rest[j] = sub[j - 1]
  <2>1. \A i \in 1 .. (Len(one) + Len(sub)) : rest[i] = IF i <= Len(one) THEN one[i] ELSE sub[i - Len(one)]
    BY <1>4, <1>6, <1>7, ConcatProperties
  <2>2. \A i \in 1 .. (1 + m) : rest[i] = IF i <= 1 THEN one[i] ELSE sub[i - 1]
    BY <2>1, <1>4, <1>6
  <2> QED
    BY <2>2, <1>6
<1>10. ASSUME NEW j \in 1 .. m + 1 PROVE rest[j] = way[j + k - 1]
  <2>1. CASE j = 1
    BY <2>1, <1>9
  <2>2. CASE j # 1
    <3>1. j \in 2 .. m + 1 /\ j - 1 \in 1 .. m
      BY <2>2, <1>2
    <3>2. rest[j] = way[(j - 1) + k]
      BY <3>1, <1>4, <1>9
    <3>3. (j - 1) + k = j + k - 1
      BY <1>1
    <3> QED
      BY <3>2, <3>3
  <2> QED
    BY <2>1, <2>2
<1>11. m + 1 \in Nat \ {0} /\ m + 1 = Len(way) - k + 1
  BY <1>1, <1>2
<1> QED
  BY <1>3, <1>4, <1>5, <1>7, <1>8, <1>10, <1>11

\* A way of imports to trouble, and the error at its end.
LeadsTo(way, bad) ==
    /\ \A j \in 1 .. Len(way) - 1 : <<way[j], way[j + 1]>> \in Imports
    /\ IsTrouble(way[Len(way)])
    /\ \/ bad = way[Len(way)]
       \/ bad = Unknown /\ way[Len(way)] \notin DOMAIN workmap
          /\ Cardinality({q \in Names : <<q, way[Len(way)]>> \in Imports}) > 1

\* So each package on a way to trouble has the rest of the way as its cause.
LEMMA RestIsCause ==
    ASSUME NEW way \in Seq(Names), NEW k \in 1 .. Len(way), NEW bad, LeadsTo(way, bad)
    PROVE  IsRightCause(way[k], bad, SubSeq(way, k + 1, Len(way)))
<1> DEFINE rest == <<way[k]>> \o SubSeq(way, k + 1, Len(way))
<1>1. /\ Len(rest) \in Nat \ {0} /\ Len(rest) = Len(way) - k + 1
      /\ \A j \in 1 .. Len(rest) : rest[j] = way[j + k - 1]
  BY RestOfWay
<1>2. SUFFICES /\ \A j \in 1 .. Len(rest) - 1 : <<rest[j], rest[j + 1]>> \in Imports
               /\ rest[Len(rest)] = way[Len(way)]
  BY DEF IsRightCause, LeadsTo
<1> HIDE DEF rest
<1>3. PICK n \in Nat : n = Len(way)
  OBVIOUS
<1>4. rest[Len(rest)] = way[Len(way)]
  BY <1>1, <1>3
<1>5. ASSUME NEW j \in 1 .. Len(rest) - 1 PROVE <<rest[j], rest[j + 1]>> \in Imports
  <2>1. j \in 1 .. Len(rest) /\ j + 1 \in 1 .. Len(rest) /\ j + k - 1 \in 1 .. n - 1
    BY <1>1, <1>3
  <2>2. rest[j] = way[j + k - 1] /\ rest[j + 1] = way[(j + 1) + k - 1]
    BY <2>1, <1>1
  <2>3. (j + 1) + k - 1 = (j + k - 1) + 1
    BY <1>3
  <2>4. <<way[j + k - 1], way[(j + k - 1) + 1]>> \in Imports
    BY <2>1, <1>3 DEF LeadsTo
  <2> QED
    BY <2>2, <2>3, <2>4
<1> QED
  BY <1>4, <1>5

\* The path to a package and its cause make one way, with the same end.
LEMMA WaysJoin ==
    ASSUME ReachInv, NEW pkg \in Names, Visits(pkg), NEW cause \in Seq(Names), NEW bad,
           IsRightCause(pkg, bad, cause), NEW way, way = Way(pkg) \o cause
    PROVE  /\ way \in Seq(Names) /\ Len(Path) < Len(way) /\ \A k \in DOMAIN Path : way[k] = Path[k]
           /\ LeadsTo(way, bad)
<1>1. PICK n \in Nat, m \in Nat : n = Len(stack) /\ m = Len(cause)
  BY DEF ReachInv, StackTypes
<1>2. PICK head : head = Way(pkg)
  OBVIOUS
<1>3. /\ Path \in Seq(Names) /\ Len(Path) = n
      /\ DOMAIN Path = 1 .. n
      /\ head \in Seq(Names) /\ Len(head) = n + 1 /\ head[n + 1] = pkg
      /\ \A k \in 1 .. n : head[k] = Path[k] /\ <<head[k], head[k + 1]>> \in Imports
  BY <1>1, <1>2, PathIsWay
<1>4. way = head \o cause
  BY <1>2
<1>5. /\ way \in Seq(Names) /\ Len(way) = n + 1 + m
      /\ \A k \in 1 .. n + 1 + m : way[k] = IF k <= n + 1 THEN head[k] ELSE cause[k - (n + 1)]
  <2>1. /\ head \o cause \in Seq(Names) /\ Len(head \o cause) = Len(head) + Len(cause)
        /\ \A k \in 1 .. Len(head) + Len(cause) :
              (head \o cause)[k] = IF k <= Len(head) THEN head[k] ELSE cause[k - Len(head)]
    BY <1>3, ConcatProperties
  <2>2. Len(head) = n + 1 /\ Len(cause) = m
    BY <1>1, <1>3
  <2> QED
    BY <2>1, <2>2, <1>4
<1>6. PICK rest : rest = <<pkg>> \o cause
  OBVIOUS
<1>7. /\ Len(rest) = 1 + m /\ \A k \in 1 .. 1 + m : rest[k] = IF k <= 1 THEN pkg ELSE cause[k - 1]
  <2>1. PICK one : one = <<pkg>>
    OBVIOUS
  <2>2. one \in Seq(Names) /\ Len(one) = 1 /\ one[1] = pkg
    BY <2>1
  <2>3. /\ Len(one \o cause) = 1 + m
        /\ \A k \in 1 .. 1 + m : (one \o cause)[k] = IF k <= 1 THEN one[k] ELSE cause[k - 1]
    <3>1. /\ Len(one \o cause) = Len(one) + Len(cause)
          /\ \A k \in 1 .. Len(one) + Len(cause) :
                (one \o cause)[k] = IF k <= Len(one) THEN one[k] ELSE cause[k - Len(one)]
      BY <2>2, ConcatProperties
    <3> QED
      BY <3>1, <2>2, <1>1
  <2> QED
    BY <1>6, <2>1, <2>2, <2>3
<1>8. \A k \in 1 .. 1 + m : way[n + k] = rest[k]
  <2> SUFFICES ASSUME NEW k \in 1 .. 1 + m PROVE way[n + k] = rest[k]
    OBVIOUS
  <2>1. PICK i : i = n + k
    OBVIOUS
  <2>2. i \in 1 .. n + 1 + m /\ i \in Nat /\ (i <= n + 1 <=> k = 1) /\ i - (n + 1) = k - 1
    BY <2>1, <1>1
  <2>4. CASE k = 1
    <3>1. i = n + 1 /\ way[i] = head[i]
      BY <2>1, <2>2, <2>4, <1>5
    <3>2. head[i] = pkg
      BY <3>1, <1>3
    <3>3. rest[k] = pkg
      BY <2>4, <1>1, <1>7
    <3> QED
      BY <3>1, <3>2, <3>3, <2>1
  <2>3. CASE k # 1
    <3>1. way[i] = cause[i - (n + 1)]
      BY <2>2, <2>3, <1>5
    <3>2. rest[k] = cause[k - 1]
      BY <2>3, <1>1, <1>7
    <3> QED
      BY <3>1, <3>2, <2>1, <2>2
  <2> QED
    BY <2>3, <2>4
<1>9. /\ \A k \in 1 .. m : <<rest[k], rest[k + 1]>> \in Imports
      /\ IsTrouble(rest[1 + m])
      /\ \/ bad = rest[1 + m]
         \/ bad = Unknown /\ rest[1 + m] \notin DOMAIN workmap
            /\ Cardinality({q \in Names : <<q, rest[1 + m]>> \in Imports}) > 1
  <2>1. /\ \A k \in 1 .. Len(rest) - 1 : <<rest[k], rest[k + 1]>> \in Imports
        /\ IsTrouble(rest[Len(rest)])
        /\ \/ bad = rest[Len(rest)]
           \/ bad = Unknown /\ rest[Len(rest)] \notin DOMAIN workmap
              /\ Cardinality({q \in Names : <<q, rest[Len(rest)]>> \in Imports}) > 1
    BY <1>6 DEF IsRightCause
  <2>2. Len(rest) = 1 + m /\ Len(rest) - 1 = m
    BY <1>1, <1>7
  <2> QED
    BY <2>1, <2>2
<1>10. way[Len(way)] = rest[1 + m]
  <2>1. Len(way) = n + (1 + m) /\ 1 + m \in 1 .. 1 + m
    BY <1>1, <1>5
  <2> QED
    BY <2>1, <1>8
<1>11. \A k \in DOMAIN Path : way[k] = Path[k]
  <2> SUFFICES ASSUME NEW k \in 1 .. n PROVE way[k] = Path[k]
    BY <1>3
  <2>1. k \in 1 .. n + 1 + m /\ k <= n + 1
    BY <1>1
  <2> QED
    BY <2>1, <1>3, <1>5
<1>12. ASSUME NEW j \in 1 .. Len(way) - 1 PROVE <<way[j], way[j + 1]>> \in Imports
  <2>1. CASE j <= n
    <3>1. j \in 1 .. n /\ j \in 1 .. n + 1 + m /\ j + 1 \in 1 .. n + 1 + m /\ j <= n + 1 /\ j + 1 <= n + 1
      BY <2>1, <1>1
    <3>2. way[j] = head[j] /\ way[j + 1] = head[j + 1]
      BY <3>1, <1>5
    <3> QED
      BY <3>1, <3>2, <1>3
  <2>2. CASE ~(j <= n)
    <3>1. Len(way) = n + 1 + m /\ j \in n + 1 .. n + m
      BY <2>2, <1>1, <1>5
    <3>2. PICK k \in 1 .. m : j = n + k
      <4>1. j - n \in 1 .. m /\ j = n + (j - n)
        BY <3>1, <1>1
      <4> QED
        BY <4>1
    <3>3. k \in 1 .. 1 + m /\ k + 1 \in 1 .. 1 + m /\ n + (k + 1) = j + 1
      BY <3>2, <1>1
    <3>4. way[j] = rest[k] /\ way[j + 1] = rest[k + 1]
      BY <3>2, <3>3, <1>8
    <3> QED
      BY <3>2, <3>4, <1>9
  <2> QED
    BY <2>1, <2>2
<1>13. Len(Path) < Len(way)
  BY <1>1, <1>3, <1>5
<1>14. LeadsTo(way, bad)
  <2>1. PICK end : end = way[Len(way)]
    OBVIOUS
  <2>2. end = rest[1 + m]
    BY <2>1, <1>10
  <2>3. /\ IsTrouble(end)
        /\ \/ bad = end
           \/ bad = Unknown /\ end \notin DOMAIN workmap
              /\ Cardinality({q \in Names : <<q, end>> \in Imports}) > 1
    BY <2>2, <1>9
  <2> QED
    BY <2>1, <2>3, <1>12 DEF LeadsTo
<1> QED
  BY <1>5, <1>11, <1>13, <1>14

LEMMA PoisonedErrors ==
    ASSUME NEW path \in Seq(Names), NEW bad, NEW way, Poison(path, bad, way)
    PROVE  /\ input' = input /\ workmap' = workmap
           /\ \A p \in DOMAIN errmap' :
                 \/ p \in DOMAIN errmap /\ errmap'[p] = errmap[p]
                 \/ \E k \in DOMAIN path :
                       path[k] = p /\ errmap'[p].err = bad /\ errmap'[p].cause = SubSeq(way, k + 1, Len(way))
BY PoisonFacts

\* Poison leaves right causes, if it is given a way to trouble.
LEMMA PoisonKeepsErrors ==
    ASSUME ReachInv, NEW pkg \in Names, Visits(pkg),
           NEW path \in Seq(Names), NEW way \in Seq(Names), NEW bad, Poison(path, bad, way),
           Len(path) <= Len(way), \A k \in DOMAIN path : way[k] = path[k],
           LeadsTo(way, bad),
           NEW gone \in SUBSET Names, OnPath \subseteq gone, gone \subseteq OnPath \cup {pkg}, Blacken(gone)
    PROVE  ErrorsAreRight'
<1>a. StackTypes /\ StackIsPath /\ DomainsAgree /\ PathIsReached /\ SetsAreSound
      /\ ImportsAreFollowed /\ PoisonIsReal /\ ErrorsAreRight
  BY DEF ReachInv
<1>b. stack \in Seq(Frames)
  BY <1>a DEF StackTypes
<1>c. /\ input' = input /\ workmap' = workmap
      /\ \A p \in DOMAIN errmap' :
            \/ p \in DOMAIN errmap /\ errmap'[p] = errmap[p]
            \/ \E k \in DOMAIN path :
                  path[k] = p /\ errmap'[p].err = bad /\ errmap'[p].cause = SubSeq(way, k + 1, Len(way))
  BY PoisonedErrors
<1>1. /\ Analysed' = Analysed /\ Imports' = Imports
      /\ \A p : /\ ImportsOf(input, p)' = ImportsOf(input, p)
                /\ Imported(p)' = Imported(p) /\ Reached(p)' = Reached(p)
                /\ ReachedOutside(p)' = ReachedOutside(p)
                /\ IsTrouble(p)' <=> IsTrouble(p)
                /\ IsPoisoned(p)' <=> IsPoisoned(p)
  BY <1>c, GraphStays
<1>2. (\A p \in gone : colors'[p] = "black") /\ (\A p \in Names : p \notin gone => colors'[p] = colors[p])
  BY DEF Blacken
<1>3. ASSUME NEW p \in DOMAIN errmap' PROVE errmap'[p].cause \in Seq(Names) /\ IsRightCause(p, errmap'[p].err, errmap'[p].cause)
  <2>1. CASE p \in DOMAIN errmap /\ errmap'[p] = errmap[p]
    BY <2>1, <1>a DEF ErrorsAreRight
  <2>2. CASE \E k \in DOMAIN path :
                path[k] = p /\ errmap'[p].err = bad /\ errmap'[p].cause = SubSeq(way, k + 1, Len(way))
    <3>1. PICK k \in DOMAIN path :
                path[k] = p /\ errmap'[p].err = bad /\ errmap'[p].cause = SubSeq(way, k + 1, Len(way))
      BY <2>2
    <3>2. k \in 1 .. Len(way) /\ way[k] = p
      BY <3>1
    <3>3. SubSeq(way, k + 1, Len(way)) \in Seq(Names)
      BY <3>2, RestOfWay
    <3>4. IsRightCause(way[k], bad, SubSeq(way, k + 1, Len(way)))
      BY <3>2, RestIsCause
    <3> QED
      BY <3>1, <3>2, <3>3, <3>4
  <2> QED
    BY <2>1, <2>2, <1>c
<1>4. ASSUME NEW p, NEW e, NEW cause, IsRightCause(p, e, cause) PROVE IsRightCause(p, e, cause)'
  BY <1>4, <1>c, <1>1 DEF IsRightCause
<1>5. ASSUME NEW p \in DOMAIN errmap' PROVE IsRightCause(p, errmap[p].err, errmap[p].cause)'
  <2>1. PICK e, cause : e = errmap'[p].err /\ cause = errmap'[p].cause
    OBVIOUS
  <2>2. IsRightCause(p, e, cause)'
    BY <1>3, <1>4, <2>1
  <2> QED
    BY <2>1, <2>2 DEF IsRightCause
<1>6. (\A p \in DOMAIN errmap : errmap[p].cause \in Seq(Names) /\ IsRightCause(p, errmap[p].err, errmap[p].cause))'
  BY <1>3, <1>5
<1>7. ASSUME input.backprop, NEW q \in Names, q \notin DOMAIN workmap, colors'[q] = "black"
      PROVE  \E p \in Names : <<p, q>> \in Imports /\ colors'[p] = "black"
  <2>1. CASE q \in gone
    <3>1. q \notin OnPath
      BY <1>7, <1>a, WorkMapIsGraph DEF StackIsPath, DomainsAgree
    <3>2. q = pkg /\ stack # <<>>
      BY <2>1, <3>1, <1>7 DEF Visits
    <3>3. Top.pkg \in Names /\ Top.pkg \in OnPath /\ <<Top.pkg, pkg>> \in Imports
      BY <3>2, PathReachesVisited
    <3> QED
      BY <3>2, <3>3, <1>2
  <2>2. CASE q \notin gone
    <3>1. PICK p \in Names : <<p, q>> \in Imports /\ colors[p] = "black"
      BY <2>2, <1>2, <1>7, <1>a DEF ErrorsAreRight
    <3> QED
      BY <3>1, <1>2
  <2> QED
    BY <2>1, <2>2
<1> QED
  BY <1>6, <1>7, <1>1, <1>c DEF ErrorsAreRight

\* dfe comes to a package that is missing or has an error.
LEMMA PoisonWhiteInv ==
    ASSUME ReachInv, NEW pkg \in Names, PoisonWhite(pkg)
    PROVE  ReachInv'
<1>1. /\ colors[pkg] = "white" /\ ~IsSound(pkg) /\ input.backprop /\ Visits(pkg)
      /\ Poison(Append(Path, pkg), pkg, Append(Path, pkg)) /\ Blacken(OnPath \cup {pkg})
  BY DEF PoisonWhite
<1>2. pkg \notin Analysed /\ stack \in Seq(Frames) /\ DomainsAgree /\ StackIsPath
  BY <1>1, WorkMapIsGraph DEF ReachInv, StackTypes
<1>3. PICK gone \in SUBSET Names : gone = OnPath \cup {pkg}
  BY <1>2, OnPathAreNames
<1>4. PICK n \in Nat : n = Len(stack)
  BY <1>2
<1>p. PICK way : way = Way(pkg)
  OBVIOUS
<1>5. /\ way \in Seq(Names) /\ Len(way) = n + 1 /\ way[n + 1] = pkg
      /\ \A p \in OnPath : \E k \in 1 .. n : Path[k] = p
      /\ \A k \in 1 .. n : way[k] = Path[k] /\ Path[k] \in OnPath /\ <<way[k], way[k + 1]>> \in Imports
  BY <1>p, <1>1, <1>4, PathIsWay
<1>6. DOMAIN way = 1 .. n + 1 /\ Len(way) - 1 = n
  BY <1>4, <1>5
<1>7. \A k \in 1 .. n : way[k] \in OnPath
  BY <1>5
<1>8. \A p : IsOn(way, p) <=> p \in gone
  <2>1. \A p \in OnPath : \E k \in 1 .. n : way[k] = p
    BY <1>5
  <2>2. 1 .. n \subseteq DOMAIN way /\ n + 1 \in DOMAIN way /\ \A k \in DOMAIN way : k = n + 1 \/ k \in 1 .. n
    BY <1>6
  <2>3. \A k \in DOMAIN way : way[k] \in gone
    BY <2>2, <1>3, <1>5, <1>7
  <2>4. \A p \in gone : \E k \in DOMAIN way : way[k] = p
    BY <2>1, <2>2, <1>3, <1>5
  <2> QED
    BY <2>3, <2>4 DEF IsOn
<1>9. OnPath \subseteq DOMAIN workmap
  BY <1>2, OnPathAreNames, WorkMapIsGraph DEF StackIsPath, DomainsAgree, ReachInv
<1>10. \A p : IsHit(way, p) <=> p \in gone \cap DOMAIN workmap
  <2>1. \A k \in DOMAIN way : k # Len(way) => way[k] \in DOMAIN workmap
    BY <1>5, <1>6, <1>7, <1>9
  <2> QED
    BY <2>1, <1>8 DEF IsOn, IsHit
<1>11. Poison(way, pkg, way) /\ Blacken(gone)
  BY <1>p, <1>1, <1>3 DEF Way
<1>12. /\ input' = input /\ workmap' = workmap /\ stack' = <<>>
       /\ DOMAIN exrsets' = DOMAIN exrsets \ gone /\ DOMAIN inrsets' = DOMAIN inrsets \ gone
       /\ \A p \in DOMAIN exrsets' : exrsets'[p] = exrsets[p]
       /\ \A p \in DOMAIN inrsets' : inrsets'[p] = inrsets[p]
       /\ DOMAIN errmap' = DOMAIN errmap \cup (gone \cap DOMAIN workmap)
  <2>1. /\ input' = input /\ workmap' = workmap /\ stack' = <<>>
        /\ \A p : p \in DOMAIN exrsets' <=> p \in DOMAIN exrsets /\ ~ IsOn(way, p)
        /\ \A p : p \in DOMAIN inrsets' <=> p \in DOMAIN inrsets /\ ~ IsOn(way, p)
        /\ \A p \in DOMAIN exrsets' : exrsets'[p] = exrsets[p]
        /\ \A p \in DOMAIN inrsets' : inrsets'[p] = inrsets[p]
        /\ \A p : p \in DOMAIN errmap' <=> p \in DOMAIN errmap \/ IsHit(way, p)
    BY <1>5, <1>11, PoisonFacts
  <2> QED
    BY <2>1, <1>8, <1>10
<1>13. StackTypes' /\ StackIsPath' /\ DomainsAgree' /\ PathIsReached'
       /\ SetsAreSound' /\ ImportsAreFollowed' /\ PoisonIsReal'
  BY <1>1, <1>2, <1>3, <1>11, <1>12, PoisonKeeps
<1>14. ErrorsAreRight'
  <2>1. way[Len(way)] = pkg /\ IsTrouble(way[Len(way)]) /\ Len(way) <= Len(way)
    BY <1>2, <1>4, <1>5 DEF IsTrouble
  <2>2. \A j \in 1 .. Len(way) - 1 : <<way[j], way[j + 1]>> \in Imports
    BY <1>5, <1>6
  <2>3. LeadsTo(way, pkg)
    BY <2>1, <2>2 DEF LeadsTo
  <2>4. Len(way) <= Len(way) /\ \A k \in DOMAIN way : way[k] = way[k]
    BY <2>1
  <2>5. way \in Seq(Names) /\ OnPath \subseteq gone /\ gone \subseteq OnPath \cup {pkg}
    BY <1>3, <1>5
  <2> QED
    BY <2>3, <2>4, <2>5, <1>1, <1>11, PoisonKeepsErrors
<1> QED
  BY <1>13, <1>14 DEF ReachInv

\* dfe comes to a package that is done and was poisoned.
LEMMA PoisonBlackInv ==
    ASSUME ReachInv, NEW pkg \in Names, PoisonBlack(pkg)
    PROVE  ReachInv'
<1> DEFINE from == IF pkg \in DOMAIN errmap THEN errmap[pkg] ELSE [err |-> Unknown, cause |-> <<>>]
<1>1. /\ colors[pkg] = "black" /\ pkg \notin DOMAIN exrsets /\ input.backprop /\ Visits(pkg) /\ stack # <<>>
      /\ Poison(Path, from.err, Append(Path, pkg) \o from.cause) /\ Blacken(OnPath)
  BY DEF PoisonBlack, Visits
<1>2. stack \in Seq(Frames) /\ DomainsAgree /\ StackIsPath /\ PoisonIsReal /\ ErrorsAreRight
  BY DEF ReachInv, StackTypes
<1>3. pkg \notin Analysed \/ IsPoisoned(pkg)
  BY <1>1, <1>2 DEF PoisonIsReal
<1>4. PICK bad, cause : bad = from.err /\ cause = from.cause
  OBVIOUS
<1>5. cause \in Seq(Names) /\ IsRightCause(pkg, bad, cause)
  <2>1. CASE pkg \in DOMAIN errmap
    BY <2>1, <1>2, <1>4 DEF ErrorsAreRight
  <2>2. CASE pkg \notin DOMAIN errmap
    <3>1. bad = Unknown /\ cause = <<>>
      BY <2>2, <1>4
    <3>2. pkg \notin DOMAIN workmap
      BY <2>2, <1>1, <1>2 DEF DomainsAgree
    <3>3. pkg \notin Analysed
      BY <3>2, WorkMapIsGraph DEF ReachInv
    <3>4. PICK p \in Names : <<p, pkg>> \in Imports /\ colors[p] = "black"
      BY <3>2, <1>1, <1>2 DEF ErrorsAreRight
    <3>5. PICK top \in Names : top = Top.pkg /\ top \in OnPath /\ <<top, pkg>> \in Imports
      BY <1>1, PathReachesVisited
    <3>6. top # p
      BY <3>4, <3>5, <1>2 DEF StackIsPath
    <3>7. Cardinality({q \in Names : <<q, pkg>> \in Imports}) > 1
      <4> DEFINE importers == {q \in Names : <<q, pkg>> \in Imports}
      <4>1. IsFiniteSet(importers)
        BY NamesAssumption, FS_Subset
      <4>2. {top} \cup {p} \subseteq importers
        BY <3>4, <3>5
      <4>3. IsFiniteSet({top}) /\ Cardinality({top}) = 1
        BY FS_Singleton
      <4>4. Cardinality({top} \cup {p}) = 2
        BY <3>6, <4>3, FS_AddElement
      <4>5. Cardinality({top} \cup {p}) <= Cardinality(importers) /\ Cardinality(importers) \in Nat
        BY <4>1, <4>2, FS_Subset, FS_CardinalityType
      <4> HIDE DEF importers
      <4>6. Cardinality(importers) > 1
        BY <4>4, <4>5
      <4> QED
        BY <4>6 DEF importers
    <3>8. PICK way : way = <<pkg>> \o cause
      OBVIOUS
    <3>9. way = <<pkg>>
      BY <3>1, <3>8
    <3>10. Len(way) = 1 /\ way[1] = pkg
      BY <3>9
    <3>11. /\ \A k \in 1 .. Len(way) - 1 : <<way[k], way[k + 1]>> \in Imports
           /\ IsTrouble(way[Len(way)])
           /\ bad = Unknown /\ way[Len(way)] \notin DOMAIN workmap
           /\ Cardinality({q \in Names : <<q, way[Len(way)]>> \in Imports}) > 1
      BY <3>1, <3>2, <3>3, <3>7, <3>10 DEF IsTrouble
    <3>12. cause \in Seq(Names)
      BY <3>1
    <3> QED
      BY <3>8, <3>11, <3>12 DEF IsRightCause
  <2> QED
    BY <2>1, <2>2
<1>6. PICK way : way = Way(pkg) \o cause
  OBVIOUS
<1>7. /\ way \in Seq(Names) /\ Len(Path) < Len(way) /\ \A k \in DOMAIN Path : way[k] = Path[k]
      /\ LeadsTo(way, bad)
  BY <1>1, <1>5, <1>6, WaysJoin
<1>8. PICK path \in Seq(Names) : path = Path /\ \A p : IsOn(path, p) <=> p \in OnPath
  <2>1. /\ Path \in Seq(Names) /\ DOMAIN Path = 1 .. Len(stack)
        /\ \A p \in OnPath : \E k \in 1 .. Len(stack) : Path[k] = p
        /\ \A k \in 1 .. Len(stack) : Path[k] \in OnPath
    BY <1>1, PathIsWay
  <2>2. \A p : IsOn(Path, p) <=> p \in OnPath
    BY <2>1 DEF IsOn
  <2> QED
    BY <2>1, <2>2
<1>9. Poison(path, bad, way)
  BY <1>1, <1>4, <1>6, <1>8 DEF Way
<1>10. PICK gone \in SUBSET Names : gone = OnPath
  BY <1>2, OnPathAreNames
<1>11. pkg \notin gone /\ Blacken(gone) /\ gone \subseteq DOMAIN workmap
  BY <1>1, <1>2, <1>10, WorkMapIsGraph DEF StackIsPath, DomainsAgree, ReachInv
<1>12. \A p : IsHit(path, p) <=> p \in gone \cap DOMAIN workmap
  BY <1>8, <1>10, <1>11 DEF IsOn, IsHit
<1>13. /\ input' = input /\ workmap' = workmap /\ stack' = <<>>
       /\ DOMAIN exrsets' = DOMAIN exrsets \ gone /\ DOMAIN inrsets' = DOMAIN inrsets \ gone
       /\ \A p \in DOMAIN exrsets' : exrsets'[p] = exrsets[p]
       /\ \A p \in DOMAIN inrsets' : inrsets'[p] = inrsets[p]
       /\ DOMAIN errmap' = DOMAIN errmap \cup (gone \cap DOMAIN workmap)
  <2>1. /\ input' = input /\ workmap' = workmap /\ stack' = <<>>
        /\ \A p : p \in DOMAIN exrsets' <=> p \in DOMAIN exrsets /\ ~ IsOn(path, p)
        /\ \A p : p \in DOMAIN inrsets' <=> p \in DOMAIN inrsets /\ ~ IsOn(path, p)
        /\ \A p \in DOMAIN exrsets' : exrsets'[p] = exrsets[p]
        /\ \A p \in DOMAIN inrsets' : inrsets'[p] = inrsets[p]
        /\ \A p : p \in DOMAIN errmap' <=> p \in DOMAIN errmap \/ IsHit(path, p)
    BY <1>9, PoisonFacts
  <2> QED
    BY <2>1, <1>8, <1>10, <1>12
<1>14. StackTypes' /\ StackIsPath' /\ DomainsAgree' /\ PathIsReached'
       /\ SetsAreSound' /\ ImportsAreFollowed' /\ PoisonIsReal'
  BY <1>1, <1>3, <1>10, <1>11, <1>13, PoisonKeeps
<1>15. ErrorsAreRight'
  <2>1. Len(path) <= Len(way) /\ \A k \in DOMAIN path : way[k] = path[k]
    BY <1>7, <1>8
  <2> QED
    BY <2>1, <1>1, <1>7, <1>9, <1>10, <1>11, PoisonKeepsErrors
<1> QED
  BY <1>14, <1>15 DEF ReachInv

-----------------------------------------------------------------------------
(* Every step, and every state.                                            *)

LEMMA ReachNextInv ==
    ASSUME ReachInv, [ReachNext]_reachVars
    PROVE  ReachInv'
<1>1. ASSUME NEW pkg \in Names,
             \/ Explore(pkg) \/ PoisonWhite(pkg) \/ RecordError(pkg) \/ SeeGrey(pkg)
             \/ PullOver(pkg) \/ PoisonBlack(pkg) \/ PassOver(pkg)
      PROVE  ReachInv'
  <2>1. CASE Explore(pkg)
    BY <2>1, ExploreInv
  <2>2. CASE PoisonWhite(pkg)
    BY <2>2, PoisonWhiteInv
  <2>3. CASE RecordError(pkg)
    BY <2>3, RecordErrorInv
  <2>4. CASE SeeGrey(pkg)
    BY <2>4, SeeGreyInv
  <2>5. CASE PullOver(pkg)
    BY <2>5, PullOverInv
  <2>6. CASE PoisonBlack(pkg)
    BY <2>6, PoisonBlackInv
  <2>7. CASE PassOver(pkg)
    BY <2>7, PassOverInv
  <2> QED
    BY <1>1, <2>1, <2>2, <2>3, <2>4, <2>5, <2>6, <2>7
<1>2. CASE Return
  BY <1>2, ReturnInv
<1>3. CASE UNCHANGED reachVars
  <2>1. /\ input' = input /\ workmap' = workmap /\ colors' = colors /\ stack' = stack
        /\ exrsets' = exrsets /\ inrsets' = inrsets /\ errmap' = errmap
    BY <1>3 DEF reachVars
  <2>2. /\ Analysed' = Analysed /\ Imports' = Imports
        /\ \A p : /\ ImportsOf(input, p)' = ImportsOf(input, p)
                  /\ Imported(p)' = Imported(p) /\ Reached(p)' = Reached(p)
                  /\ ReachedOutside(p)' = ReachedOutside(p)
                  /\ IsTrouble(p)' <=> IsTrouble(p)
                  /\ IsPoisoned(p)' <=> IsPoisoned(p)
    BY <2>1, GraphStays
  <2>3. OnPath' = OnPath /\ \A p, q : (Above(p, q)' <=> Above(p, q)) /\ (ToDo(p, q)' <=> ToDo(p, q))
    BY <2>1 DEF OnPath, Above, ToDo
  <2>4. StackTypes' /\ StackIsPath' /\ DomainsAgree' /\ PathIsReached' /\ SetsAreSound' /\ PoisonIsReal'
    BY <2>1, <2>2, <2>3 DEF ReachInv, StackTypes, StackIsPath, DomainsAgree, PathIsReached, SetsAreSound, PoisonIsReal
  <2>5. \A p, q : IsFollowed(p, q)' <=> IsFollowed(p, q)
    BY <2>1, <2>2, <2>3 DEF IsFollowed
  <2>6. ImportsAreFollowed'
    BY <2>1, <2>2, <2>5 DEF ReachInv, ImportsAreFollowed
  <2>7. ASSUME NEW p, NEW bad, NEW cause, IsRightCause(p, bad, cause) PROVE IsRightCause(p, bad, cause)'
    BY <2>7, <2>1, <2>2 DEF IsRightCause
  <2>8. ErrorsAreRight'
    BY <2>1, <2>2, <2>7 DEF ReachInv, ErrorsAreRight
  <2> QED
    BY <2>4, <2>6, <2>8 DEF ReachInv
<1> QED
  BY <1>1, <1>2, <1>3 DEF ReachNext, Finished

\* ToReachMap: the inductive invariant.  The stack of dfe is a path of imports
\* whose packages are grey, the sets hold nothing that is not reached and all that
\* the imports that were followed reach, and every cause leads to its error.
THEOREM ReachInvariance == ReachSpec => []ReachInv
<1>1. ReachInit => ReachInv
  BY ReachInitInv
<1>2. ReachInv /\ [ReachNext]_reachVars => ReachInv'
  BY ReachNextInv
<1> QED
  BY <1>1, <1>2, PTL DEF ReachSpec

-----------------------------------------------------------------------------
(* What is left when the exploration is done.                              *)

\* "whatever was present is in one of the maps", and every cause is a path of
\* imports that ends at what the error is about (pkgtree.go:438, :762); only the
\* error of a missing package may be lost on the way.
THEOREM CausesAreRight == ReachSpec => []CausesArePaths
<1>1. ASSUME ReachInv PROVE CausesArePaths
  <2> SUFFICES ASSUME IsDone
               PROVE  /\ DOMAIN errmap \cap DOMAIN exrsets = {}
                      /\ DOMAIN errmap \cup DOMAIN exrsets = DOMAIN workmap
                      /\ \A p \in DOMAIN errmap : IsRightCause(p, errmap[p].err, errmap[p].cause)
    <3>1. ASSUME NEW p \in DOMAIN errmap, IsRightCause(p, errmap[p].err, errmap[p].cause)
          PROVE  LET way == <<p>> \o errmap[p].cause
                     end == way[Len(way)]
                 IN  /\ \A k \in 1 .. Len(way) - 1 : <<way[k], way[k + 1]>> \in Imports
                     /\ IsTrouble(end)
                     /\ end \in DOMAIN workmap \/ errmap[p].err # Unknown => errmap[p].err = end
      BY <3>1, Zenon DEF IsRightCause
    <3> QED
      BY <3>1 DEF CausesArePaths
  <2>1. StackTypes /\ DomainsAgree /\ ErrorsAreRight
    BY <1>1 DEF ReachInv
  <2>2. DOMAIN workmap \subseteq Names /\ Analysed \subseteq DOMAIN workmap
    BY <2>1, WorkMapIsGraph
  <2>3. \A p \in DOMAIN workmap : p \in DOMAIN exrsets \cup DOMAIN errmap
    BY <2>1, <2>2 DEF IsDone, DomainsAgree
  <2> QED
    BY <2>1, <2>2, <2>3 DEF DomainsAgree, ErrorsAreRight
<1> QED
  BY <1>1, ReachInvariance, PTL

\* What holds of an import that was followed, where no cycle is reached.
LEMMA FollowedAtLast ==
    ASSUME ReachInv, IsDone, NEW p \in Names, IsAcyclic(p),
           NEW q \in {p} \cup Reached(p), q \in DOMAIN exrsets, NEW r \in Imported(q)
    PROVE  /\ r \in Reached(p) /\ r \in inrsets[q]
           /\ r \in Analysed => r \in DOMAIN exrsets /\ exrsets[r] \subseteq exrsets[q] /\ inrsets[r] \subseteq inrsets[q]
           /\ input.backprop => r \in Analysed
<1>1. DomainsAgree /\ SetsAreSound /\ ImportsAreFollowed /\ StackTypes
  BY DEF ReachInv
<1>2. q \in Names /\ r \in Names /\ r \in Reached(q)
  BY ReachedHasImports DEF Reached, Imported
<1>3. r \in Reached(p)
  BY ReachedIsClosed, ReachedHasImports
<1>4. r \in inrsets[q]
  BY <1>1 DEF SetsAreSound
<1>5. q \in Analysed
  BY <1>1 DEF DomainsAgree
<1>6. CASE r = q
  BY <1>3, <1>4, <1>5, <1>6
<1>7. CASE r # q
  <2>1. IsFollowed(q, r)
    BY <1>1, <1>2, <1>7 DEF ImportsAreFollowed
  <2>2. q \notin Reached(r)
    BY <1>2, <1>3, <1>7 DEF IsAcyclic
  <2>3. ~ToDo(q, r) /\ ~Above(q, r)
    BY DEF IsDone, ToDo, Above
  <2>4. CASE r \in DOMAIN exrsets /\ exrsets[r] \subseteq exrsets[q] /\ inrsets[r] \subseteq inrsets[q]
    BY <2>4, <1>1, <1>3, <1>4 DEF DomainsAgree
  <2>5. CASE ~input.backprop /\ r \notin Analysed
    BY <2>5, <1>3, <1>4
  <2> QED
    BY <2>1, <2>2, <2>3, <2>4, <2>5 DEF IsFollowed
<1> QED
  BY <1>6, <1>7

\* There, a package with an entry has all that it reaches, and with backprop all
\* of that is sound.
LEMMA AllIsFollowed ==
    ASSUME ReachInv, IsDone, NEW p \in DOMAIN exrsets, IsAcyclic(p)
    PROVE  /\ Reached(p) \subseteq inrsets[p] /\ ReachedOutside(p) \subseteq exrsets[p]
           /\ input.backprop => Reached(p) \subseteq Analysed
<1> DEFINE has(q) == q \in DOMAIN exrsets /\ exrsets[q] \subseteq exrsets[p] /\ inrsets[q] \subseteq inrsets[p]
           found == {q \in Reached(p) :
                        q \in inrsets[p] /\ (q \in Analysed => has(q)) /\ (input.backprop => q \in Analysed)}
<1>1. DomainsAgree /\ SetsAreSound /\ StackTypes
  BY DEF ReachInv
<1>2. p \in Analysed /\ Analysed \subseteq Names
  BY <1>1, WorkMapIsGraph DEF DomainsAgree
<1>3. ASSUME NEW q \in {p} \cup Reached(p), q = p \/ q \in found, NEW r \in Imported(q)
      PROVE  r \in found
  <2>1. q \in Analysed
    <3>1. Imported(q) # {}
      OBVIOUS
    <3> QED
      BY <3>1, <1>1, WorkMapIsGraph
  <2>2. has(q)
    BY <2>1, <1>3
  <2>3. /\ r \in Reached(p) /\ r \in inrsets[q]
        /\ r \in Analysed => r \in DOMAIN exrsets /\ exrsets[r] \subseteq exrsets[q] /\ inrsets[r] \subseteq inrsets[q]
        /\ input.backprop => r \in Analysed
    <3>1. q \in DOMAIN exrsets /\ p \in Names
      BY <2>2, <1>2
    <3> HIDE DEF has, found
    <3> QED
      BY <3>1, FollowedAtLast
  <2> QED
    BY <2>2, <2>3
<1>4. found \in SUBSET Names
  BY DEF Reached
<1>5. Imported(p) \subseteq found
  BY <1>3
<1>6. IsClosed(found)
  <2> SUFFICES ASSUME NEW q \in found PROVE Imported(q) \subseteq found
    BY DEF IsClosed
  <2>1. q \in {p} \cup Reached(p)
    OBVIOUS
  <2> HIDE DEF found
  <2> QED
    BY <2>1, <1>3
<1>7. Reached(p) \subseteq found
  <2> HIDE DEF found
  <2> QED
    BY <1>4, <1>5, <1>6, ReachedIsLeast
<1>8. ASSUME NEW q \in {p} \cup Reached(p), q \in Analysed PROVE ImportsOf(input, q) \cap External \subseteq exrsets[p]
  <2>1. has(q)
    BY <1>7, <1>8
  <2> QED
    BY <2>1, <1>1 DEF SetsAreSound
<1>9. ReachedOutside(p) \subseteq exrsets[p]
  <2> SUFFICES ASSUME NEW x \in ReachedOutside(p) PROVE x \in exrsets[p]
    OBVIOUS
  <2>1. PICK q \in ({p} \cup Reached(p)) \cap Analysed : x \in ImportsOf(input, q) \cap External
    BY DEF ReachedOutside
  <2> QED
    BY <2>1, <1>8
<1> QED
  BY <1>7, <1>9

LEMMA MapIsRightWhenDone ==
    ASSUME ReachInv, IsDone
    PROVE  MapIsRight
<1>1. DomainsAgree /\ SetsAreSound /\ StackTypes /\ PoisonIsReal
  BY DEF ReachInv
<1>2. Analysed \subseteq Names /\ Analysed \subseteq DOMAIN workmap
  BY <1>1, WorkMapIsGraph
<1>3. ASSUME NEW p \in Analysed, ~IsPoisoned(p) PROVE p \in DOMAIN exrsets
  BY <1>1, <1>2, <1>3 DEF IsDone, PoisonIsReal
<1>4. ASSUME NEW p \in Analysed, IsPoisoned(p), IsAcyclic(p) PROVE p \notin DOMAIN exrsets
  BY <1>4, AllIsFollowed DEF IsPoisoned
<1>5. ASSUME NEW p \in DOMAIN exrsets
      PROVE  /\ ImportsOf(input, p) \subseteq exrsets[p] \cup inrsets[p]
             /\ exrsets[p] \subseteq ReachedOutside(p) /\ inrsets[p] \subseteq Reached(p)
  <2>1. p \in Analysed
    BY <1>1 DEF DomainsAgree
  <2>2. ImportsOf(input, p) \subseteq Names \cup External
    BY <2>1, <1>1, InputsAssumption DEF StackTypes, IsTree, ImportsOf, Analysed
  <2>3. ImportsOf(input, p) \cap Names \subseteq Imported(p)
    BY <2>1 DEF Imported, Imports
  <2>4. /\ ImportsOf(input, p) \cap External \subseteq exrsets[p] /\ exrsets[p] \subseteq ReachedOutside(p)
        /\ Imported(p) \subseteq inrsets[p] /\ inrsets[p] \subseteq Reached(p)
    BY <1>1 DEF SetsAreSound
  <2> QED
    BY <2>2, <2>3, <2>4
<1>6. ASSUME NEW p \in DOMAIN exrsets, IsAcyclic(p) PROVE exrsets[p] = ReachedOutside(p) /\ inrsets[p] = Reached(p)
  <2>1. Reached(p) \subseteq inrsets[p] /\ ReachedOutside(p) \subseteq exrsets[p]
    BY <1>6, AllIsFollowed
  <2> QED
    BY <2>1, <1>5
<1>7. DOMAIN exrsets = DOMAIN inrsets /\ DOMAIN exrsets \subseteq Analysed
  BY <1>1 DEF DomainsAgree
<1> QED
  BY <1>3, <1>4, <1>5, <1>6, <1>7 DEF MapIsRight

LEMMA UsesAreRightWhenDone ==
    ASSUME ReachInv, MapIsRight
    PROVE  UsesAreRight
<1> DEFINE visible == Analysed \ Hidden
<1> SUFFICES ASSUME \A p \in Names : IsAcyclic(p), ~input.backprop
             PROVE  /\ Flattened = UNION {ReachedOutside(p) : p \in visible}
                    /\ \A p \in Analysed : p \in Trimmed <=> p \in visible \/ \E q \in visible : p \in Reached(q)
  BY DEF UsesAreRight
<1>1. DomainsAgree /\ StackTypes
  BY DEF ReachInv
<1>2. Analysed \subseteq Names
  BY <1>1, WorkMapIsGraph
<1>3. DOMAIN exrsets = Analysed
  BY DEF MapIsRight, IsPoisoned
<1>4. \A p \in Analysed : exrsets[p] = ReachedOutside(p) /\ inrsets[p] = Reached(p)
  BY <1>2, <1>3 DEF MapIsRight
<1>5. Flattened = UNION {ReachedOutside(p) : p \in visible}
  <2>1. \A x : x \in Flattened <=> \E p \in visible : x \in exrsets[p]
    BY <1>3 DEF Flattened
  <2>2. \A x : x \in UNION {ReachedOutside(p) : p \in visible} <=> \E p \in visible : x \in ReachedOutside(p)
    OBVIOUS
  <2> QED
    BY <2>1, <2>2, <1>4
<1>6. ASSUME NEW p \in Analysed PROVE p \in Trimmed <=> p \in visible \/ \E q \in visible : p \in Reached(q)
  <2>1. p \in DOMAIN input.tree /\ \A q \in Analysed : q \notin input.ignore
    BY DEF Analysed
  <2>2. {q \in DOMAIN exrsets : q \notin Hidden /\ q \notin input.ignore} = visible
    BY <1>3, <2>1
  <2>3. p \notin DOMAIN errmap
    BY <1>1, <1>3 DEF DomainsAgree
  <2>4. p \in Trimmed <=> p \in visible \/ \E q \in visible : p \in inrsets[q]
    BY <2>1, <2>2, <2>3 DEF Trimmed
  <2> QED
    BY <2>4, <1>4
<1> QED
  BY <1>5, <1>6

\* The reach map is right, with and without backprop, and so is what FlattenFn and
\* TrimHiddenPackages make of it: of every tree, in any order of exploration.
THEOREM ReachMapIsRightAtLast == ReachSpec => []ReachMapIsRight
<1>1. ReachInv => ReachMapIsRight
  BY MapIsRightWhenDone, UsesAreRightWhenDone DEF ReachMapIsRight
<1> QED
  BY <1>1, ReachInvariance, PTL

=============================================================================
