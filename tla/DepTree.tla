------------------------------- MODULE DepTree -------------------------------
(***************************************************************************)
(* WriteDepTree (gps/solution.go): the projects of a lock are exported and *)
(* pruned into a new directory, one goroutine for each of them, at most    *)
(* concurrentWriters at a time.  The goroutines are an errgroup: the first *)
(* error cancels the context that all of them share, and the caller waits  *)
(* for all of them.                                                        *)
(***************************************************************************)
EXTENDS Naturals, Sequences, FiniteSets

CONSTANTS
    LockedProjects,
    ConcurrentWriters

ASSUME WritersAssumption == ConcurrentWriters \in Nat \ {0}
ASSUME ProjectsAssumption == IsFiniteSet(LockedProjects) /\ "none" \notin LockedProjects

VARIABLES
    tree,       \* what is on disk of each project
    worker,     \* where the goroutine of each project stands
    err,        \* what each goroutine returns
    groupErr,   \* Group.err, by the project whose error it is
    progress,   \* the calls of onWrite
    writing     \* WriteDepTree itself: "idle", "writing", "written" or "failed"

treeVars == <<tree, worker, err, groupErr, progress, writing>>

NoProject == "none"

\* The context is cancelled by the first error.
Cancelled == groupErr # NoProject

\* A goroutine holds its place in `sem' while it exports and prunes.
HoldersForGood == {p \in LockedProjects : worker[p] # "waiting"}    \* a bug: never released
Holders == {p \in LockedProjects : worker[p] \in {"exporting", "pruning"}}

TreeInit ==
    /\ tree = [p \in LockedProjects |-> "absent"]
    /\ worker = [p \in LockedProjects |-> "waiting"]
    /\ err = [p \in LockedProjects |-> "nil"]
    /\ groupErr = NoProject
    /\ progress = <<>>
    /\ writing = "idle"

-----------------------------------------------------------------------------
(* The goroutine of project p.                                             *)

Acquire(p) ==
    /\ writing = "writing" /\ worker[p] = "waiting"
    /\ Cardinality(Holders) < ConcurrentWriters
    /\ worker' = [worker EXCEPT ![p] = "exporting"]
    /\ UNCHANGED <<tree, err, groupErr, progress, writing>>

\* select takes either of its cases when both are ready.
TurnAway(p) ==
    /\ writing = "writing" /\ worker[p] = "waiting" /\ Cancelled
    /\ worker' = [worker EXCEPT ![p] = "reporting"]
    /\ err' = [err EXCEPT ![p] = "canceled"]
    /\ UNCHANGED <<tree, groupErr, progress, writing>>

Export(p) ==
    /\ worker[p] = "exporting"
    /\ tree' = [tree EXCEPT ![p] = "exported"]
    /\ worker' = [worker EXCEPT ![p] = "pruning"]
    /\ UNCHANGED <<err, groupErr, progress, writing>>

\* ExportProject fails, by itself or because the context is cancelled; either
\* way its error is wrapped, so that it is not context.Canceled any more.
ExportFails(p) ==
    /\ worker[p] = "exporting"
    /\ \E left \in {"absent", "partial"} : tree' = [tree EXCEPT ![p] = left]
    /\ \E e \in {"own"} \cup (IF Cancelled THEN {"wrapped"} ELSE {}) : err' = [err EXCEPT ![p] = e]
    /\ worker' = [worker EXCEPT ![p] = "reporting"]
    /\ UNCHANGED <<groupErr, progress, writing>>

\* The last thing a goroutine returns is ctx.Err().
Prune(p) ==
    /\ worker[p] = "pruning"
    /\ tree' = [tree EXCEPT ![p] = "pruned"]
    /\ err' = [err EXCEPT ![p] = IF Cancelled THEN "canceled" ELSE "nil"]
    /\ worker' = [worker EXCEPT ![p] = "reporting"]
    /\ UNCHANGED <<groupErr, progress, writing>>

PruneFails(p) ==
    /\ worker[p] = "pruning"
    /\ err' = [err EXCEPT ![p] = "own"]
    /\ worker' = [worker EXCEPT ![p] = "reporting"]
    /\ UNCHANGED <<tree, groupErr, progress, writing>>

\* cnt is locked while it is incremented and onWrite is called.
Report(p) ==
    /\ worker[p] = "reporting"
    /\ progress' = IF err[p] = "canceled" THEN progress
                   ELSE Append(progress, [count |-> Len(progress) + 1, lp |-> p, failure |-> err[p] # "nil"])
    /\ worker' = [worker EXCEPT ![p] = "returning"]
    /\ UNCHANGED <<tree, err, groupErr, writing>>

ReturnLast(p) ==    \* a bug: the last error wins
    /\ worker[p] = "returning"
    /\ worker' = [worker EXCEPT ![p] = "done"]
    /\ groupErr' = IF err[p] # "nil" THEN p ELSE groupErr
    /\ UNCHANGED <<tree, err, progress, writing>>
ReturnFirst(p) ==
    /\ worker[p] = "returning"
    /\ worker' = [worker EXCEPT ![p] = "done"]
    /\ groupErr' = IF err[p] # "nil" /\ ~Cancelled THEN p ELSE groupErr
    /\ UNCHANGED <<tree, err, progress, writing>>

Work(p) ==
    \/ Acquire(p) \/ TurnAway(p) \/ Export(p) \/ ExportFails(p)
    \/ Prune(p) \/ PruneFails(p) \/ Report(p) \/ ReturnFirst(p)

-----------------------------------------------------------------------------
(* WriteDepTree.                                                           *)

MakeTree ==
    /\ writing = "idle"
    /\ writing' \in {"writing", "failed"}
    /\ UNCHANGED <<tree, worker, err, groupErr, progress>>

\* g.Wait; a tree that is not complete is removed.
WaitForFirst ==    \* a bug: the first error ends the wait
    /\ writing = "writing"
    /\ Cancelled \/ \A p \in LockedProjects : worker[p] = "done"
    /\ writing' = IF Cancelled THEN "failed" ELSE "written"
    /\ tree' = IF Cancelled THEN [p \in LockedProjects |-> "absent"] ELSE tree
    /\ UNCHANGED <<worker, err, groupErr, progress>>
Wait ==
    /\ writing = "writing"
    /\ \A p \in LockedProjects : worker[p] = "done"
    /\ writing' = IF Cancelled THEN "failed" ELSE "written"
    /\ tree' = IF Cancelled THEN [p \in LockedProjects |-> "absent"] ELSE tree
    /\ UNCHANGED <<worker, err, groupErr, progress>>

WriteTree == Wait \/ \E p \in LockedProjects : Work(p)

-----------------------------------------------------------------------------
(* Properties.                                                             *)

\* A tree that is reported as written is complete, and each of its projects was
\* reported as written, once; of a tree that is not, nothing is left.  Nobody
\* writes to it any more.
TreeIsAllOrNothing ==
    /\ writing = "written" =>
          /\ \A p \in LockedProjects : tree[p] = "pruned"
          /\ Len(progress) = Cardinality(LockedProjects)
          /\ {progress[i].lp : i \in DOMAIN progress} = LockedProjects
          /\ \A i \in DOMAIN progress : ~progress[i].failure
    /\ writing = "failed" => \A p \in LockedProjects : tree[p] = "absent"

\* The error that WriteDepTree returns is the project's own, not one that
\* another's error has caused, and was reported before.
ErrorIsTheCause ==
    Cancelled =>
        /\ err[groupErr] = "own"
        /\ \E i \in DOMAIN progress : progress[i].lp = groupErr /\ progress[i].failure

-----------------------------------------------------------------------------
(* The inductive invariant behind both.                                    *)

TreeTypeOK ==
    /\ tree \in [LockedProjects -> {"absent", "partial", "exported", "pruned"}]
    /\ worker \in [LockedProjects ->
                      {"waiting", "exporting", "pruning", "reporting", "returning", "done"}]
    /\ err \in [LockedProjects -> {"nil", "own", "wrapped", "canceled"}]
    /\ groupErr \in LockedProjects \cup {NoProject}
    /\ progress \in Seq([count : Nat, lp : LockedProjects, failure : BOOLEAN])
    /\ writing \in {"idle", "writing", "written", "failed"}

\* The projects that onWrite has been told of.
Told == {p \in LockedProjects : worker[p] \in {"returning", "done"} /\ err[p] # "canceled"}

\* onWrite was told of each of them once, and how it went.
ToldOnce ==
    /\ Len(progress) = Cardinality(Told)
    /\ {progress[i].lp : i \in DOMAIN progress} = Told
    /\ \A i \in DOMAIN progress : progress[i].failure <=> err[progress[i].lp] # "nil"

\* What a goroutine returns agrees with what it has left on disk, and an error
\* that another has caused comes after that other.
ErrorsHaveCauses ==
    /\ \A p \in LockedProjects :
          /\ worker[p] \in {"waiting", "exporting", "pruning"} => err[p] = "nil"
          /\ worker[p] \in {"reporting", "returning", "done"} /\ err[p] = "nil" /\ writing # "failed"
                => tree[p] = "pruned"
          /\ err[p] \in {"canceled", "wrapped"} => Cancelled
          /\ worker[p] = "done" /\ err[p] # "nil" => Cancelled
    /\ Cancelled => err[groupErr] = "own" /\ worker[groupErr] = "done"

\* Nobody is at work before WriteDepTree has begun or after it has returned.
Settled ==
    /\ writing # "writing" => \A p \in LockedProjects : worker[p] \in {"waiting", "done"}
    /\ writing \in {"idle", "failed"} => \A p \in LockedProjects : tree[p] = "absent"
    /\ writing = "written" => ~Cancelled /\ \A p \in LockedProjects : worker[p] = "done"

TreeInv == TreeTypeOK /\ ToldOnce /\ ErrorsHaveCauses /\ Settled
=============================================================================
