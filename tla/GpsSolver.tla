------------------------------ MODULE GpsSolver ------------------------------
(***************************************************************************)
(* dep's version solver (gps/solver.go, gps/version_queue.go): it selects  *)
(* projects and packages one at a time, each at the first version in its   *)
(* queue that the selection so far allows, and on a failure goes back to   *)
(* the last queue that something has marked as failed.                     *)
(*                                                                         *)
(* A step is one turn of the loop of solve or of the loop of backtrack.    *)
(***************************************************************************)
EXTENDS GpsSelection

CONSTANTS Worlds    \* what the projects may be like

ASSUME WorldsAssumption == \A w \in Worlds : IsWorld(w)

VARIABLES
    sel,     \* the selection and the queue of what to select, see GpsSelection
    vqs,     \* the stack of version queues
    phase    \* "solving", "backtracking", "solved", "failed" or "panicked"

solverVars == <<world, sel, vqs, phase>>

-----------------------------------------------------------------------------
(* Version queues.                                                         *)

LockVersion(p) ==
    IF p \in DOMAIN world.rootLock /\ p \notin world.change THEN world.rootLock[p] ELSE NoVersion

\* What was asked for by the root takes the version that the lock of the last
\* of its other dependers prefers; anything else the one it was queued with.
PreferredVersion(bmi) ==
    LET locks == [i \in DOMAIN sel.deps[bmi.id] |->
                    IF sel.deps[bmi.id][i].depender = RootAtom THEN <<>>
                    ELSE world.lock[sel.deps[bmi.id][i].depender]]
        named == {i \in DOMAIN locks : bmi.id \in DOMAIN locks[i]}
    IN  IF ~bmi.fromRoot THEN bmi.prefv
        ELSE IF named = {} THEN NoVersion ELSE locks[Max(named)][bmi.id]

Known(v) == IF v = NoVersion THEN <<>> ELSE <<v>>

NewVersionQueue(bmi) ==
    LET lockv == LockVersion(bmi.id)
        prefv == PreferredVersion(bmi)
        known == Known(lockv) \o Known(prefv)
    IN  [id |-> bmi.id, lockv |-> lockv, prefv |-> prefv, failed |-> FALSE,
         pi |-> IF known = <<>> THEN world.versions[bmi.id] ELSE known,
         allLoaded |-> known = <<>>]

\* What advance() adds when the queue runs empty for the first time.
Unloaded(q) ==
    IF q.allLoaded THEN <<>>
    ELSE LET all == world.versions[q.id]
         IN  RemoveAll(all, {i \in DOMAIN all : all[i] \in {q.lockv, q.prefv}})

\* The queue after `n' calls of advance(), and whether isExhausted() then.
Advanced(q, n) ==
    IF n < Len(q.pi)
    THEN [q EXCEPT !.pi = SubSeq(@, n + 1, Len(@)), !.failed = @ /\ n = 0]
    ELSE [q EXCEPT !.pi = SubSeq(Unloaded(q), n - Len(q.pi) + 1, Len(Unloaded(q))),
                   !.allLoaded = TRUE, !.failed = FALSE]
Tries(q) == Len(q.pi \o Unloaded(q))
Current(q) == q.pi[1]

\* fail(): the first queue of each of these projects is marked.
Fail(queues, ids) ==
    [i \in DOMAIN queues |->
        IF queues[i].id \in ids /\ \A j \in 1..(i - 1) : queues[j].id # queues[i].id
        THEN [queues[i] EXCEPT !.failed = TRUE] ELSE queues[i]]

-----------------------------------------------------------------------------
(* findValidVersion, from the front of `q', with the selection `t'.        *)

CheckAt(t, q, n, pl) == Check(t, <<q.id, Current(Advanced(q, n))>>, pl, FALSE)
ValidAt(t, q, pl) == {n \in 0..(Tries(q) - 1) : CheckAt(t, q, n, pl) = {}}
FindsVersion(t, q, pl) == ValidAt(t, q, pl) # {}
Found(t, q, pl) == Advanced(q, Min(ValidAt(t, q, pl)))

\* All that the failures of the first `n' versions may have marked.
Blamed(t, q, pl, n) ==
    LET ways == [i \in 1..n |-> CheckAt(t, q, i - 1, pl)]
    IN  {UNION {b[i] : i \in 1..n}
            : b \in {c \in [1..n -> UNION {ways[i] : i \in 1..n}] : \A i \in 1..n : c[i] \in ways[i]}}
BlamedOnTheWay(t, q, pl) == Blamed(t, q, pl, Min(ValidAt(t, q, pl)))

\* When no version is left, the oldest depender is marked as well.
BlamedForExhaustion(t, q, pl) ==
    {b \cup {t.deps[q.id][1].depender[1]} : b \in Blamed(t, q, pl, Tries(q))}

-----------------------------------------------------------------------------
(* SolverInit is the state that selectRoot leaves.                         *)

Nothing == [projects |-> <<[a |-> RootAtom, pl |-> {}, first |-> TRUE]>>,
            deps |-> [p \in Projects |-> <<>>], unsel |-> <<>>]

RootQueue == {[Bmi(d.to, d.pl, NoVersion) EXCEPT !.fromRoot = TRUE] : d \in RootDependencies}

SolverInit ==
    /\ world \in Worlds
    /\ \E order \in SetToSeqs(RootQueue) :
          sel = HeapPushAll([Nothing EXCEPT !.deps = PushDeps(@, RootAtom, RootDependencies)], order)
    /\ vqs = <<>>
    /\ phase = "solving"

-----------------------------------------------------------------------------
(* The loop of solve.                                                      *)

Foremost == sel.unsel[1]    \* nextUnselected
IsNewProject == phase = "solving" /\ sel.unsel # <<>> /\ ~IsSelected(sel, Foremost.id)
IsAddition == phase = "solving" /\ sel.unsel # <<>> /\ IsSelected(sel, Foremost.id)

\* A project that is not selected yet: its queue has a version to select.
SelectProject ==
    /\ IsNewProject
    /\ Foremost.id \in world.exists
    /\ LET q == NewVersionQueue(Foremost)
       IN  /\ FindsVersion(sel, q, Foremost.pl)
           /\ \E marked \in BlamedOnTheWay(sel, q, Foremost.pl) :
                 vqs' = Append(Fail(vqs, marked), Found(sel, q, Foremost.pl))
           /\ sel' \in SelectAtom(sel, <<q.id, Current(Found(sel, q, Foremost.pl))>>, Foremost.pl, FALSE)
    /\ UNCHANGED <<world, phase>>

\* Its queue has none.
ProjectFails ==
    /\ IsNewProject
    /\ Foremost.id \in world.exists
    /\ LET q == NewVersionQueue(Foremost)
       IN  /\ ~FindsVersion(sel, q, Foremost.pl)
           /\ sel.deps[q.id] # <<>>
           /\ \E marked \in BlamedForExhaustion(sel, q, Foremost.pl) : vqs' = Fail(vqs, marked)
    /\ phase' = "backtracking"
    /\ UNCHANGED <<world, sel>>

\* There is no such project: nothing is marked.
ProjectIsMissing ==
    /\ IsNewProject
    /\ Foremost.id \notin world.exists
    /\ phase' = "backtracking"
    /\ UNCHANGED <<world, sel, vqs>>

\* More packages of a project whose version stands.
AddPackages ==
    /\ IsAddition
    /\ Check(sel, SelectedAtom(sel, Foremost.id), Foremost.pl, TRUE) = {}
    /\ sel' \in SelectAtom(sel, SelectedAtom(sel, Foremost.id), Foremost.pl, TRUE)
    /\ UNCHANGED <<world, vqs, phase>>

AdditionFails ==
    /\ IsAddition
    /\ \E marked \in Check(sel, SelectedAtom(sel, Foremost.id), Foremost.pl, TRUE) : vqs' = Fail(vqs, marked)
    /\ phase' = "backtracking"
    /\ UNCHANGED <<world, sel>>

Solve ==
    /\ phase = "solving" /\ sel.unsel = <<>>
    /\ phase' = "solved"
    /\ UNCHANGED <<world, sel, vqs>>

-----------------------------------------------------------------------------
(* The loop of backtrack.                                                  *)

PopQueue ==
    /\ phase = "backtracking" /\ vqs # <<>> /\ ~Last(vqs).failed
    /\ vqs' = Front(vqs)
    /\ sel' = UnselectProject(sel)
    /\ UNCHANGED <<world, phase>>

\* The queue that was marked: its project comes off the selection, the version
\* it had is dropped, and the rest is searched for another.
Unselected == UnselectProject(sel)
Again == sel.projects[FirstOfLast(sel)].pl    \* awp.pl
RetrySame(q) == q    \* a bug: the version that failed is tried again
RetryFrom(q) == Advanced(q, 1)
IsRetry == phase = "backtracking" /\ vqs # <<>> /\ Last(vqs).failed

RetryQueue ==
    /\ IsRetry
    /\ LET q == RetryFrom(Last(vqs))
       IN  /\ FindsVersion(Unselected, q, Again)
           /\ \E marked \in BlamedOnTheWay(Unselected, q, Again) :
                 vqs' = Append(Fail(Front(vqs), marked), Found(Unselected, q, Again))
           /\ sel' \in SelectAtom(Unselected, <<q.id, Current(Found(Unselected, q, Again))>>, Again, FALSE)
    /\ phase' = "solving"
    /\ UNCHANGED world

RetryFails ==
    /\ IsRetry
    /\ LET q == RetryFrom(Last(vqs))
       IN  /\ Tries(q) > 0
           /\ ~FindsVersion(Unselected, q, Again)
           /\ Unselected.deps[q.id] # <<>>
           /\ \E marked \in BlamedForExhaustion(Unselected, q, Again) : vqs' = Fail(Front(vqs), marked)
    /\ sel' = Unselected
    /\ UNCHANGED <<world, phase>>

NothingToRetry ==
    /\ IsRetry
    /\ Tries(RetryFrom(Last(vqs))) = 0
    /\ vqs' = Front(vqs)
    /\ sel' = Unselected
    /\ UNCHANGED <<world, phase>>

GiveUp ==
    /\ phase = "backtracking" /\ vqs = <<>>
    /\ phase' = "failed"
    /\ UNCHANGED <<world, sel, vqs>>

\* findValidVersion takes the first of the dependencies on a project when the
\* queue is exhausted: an index out of range where there is none.
SelectPanics ==
    /\ IsNewProject
    /\ Foremost.id \in world.exists
    /\ ~FindsVersion(sel, NewVersionQueue(Foremost), Foremost.pl)
    /\ sel.deps[Foremost.id] = <<>>
    /\ phase' = "panicked"
    /\ UNCHANGED <<world, sel, vqs>>

RetryPanics ==
    /\ IsRetry
    /\ LET q == RetryFrom(Last(vqs))
       IN  /\ Tries(q) > 0
           /\ ~FindsVersion(Unselected, q, Again)
           /\ Unselected.deps[q.id] = <<>>
    /\ phase' = "panicked"
    /\ UNCHANGED <<world, sel, vqs>>

Finished == phase \in {"solved", "failed", "panicked"} /\ UNCHANGED solverVars

SolverNext ==
    \/ SelectProject \/ ProjectFails \/ ProjectIsMissing
    \/ AddPackages \/ AdditionFails \/ Solve
    \/ PopQueue \/ RetryQueue \/ RetryFails \/ NothingToRetry \/ GiveUp
    \/ SelectPanics \/ RetryPanics \/ Finished

SolverSpec == SolverInit /\ [][SolverNext]_solverVars

-----------------------------------------------------------------------------
(* Properties.                                                             *)

Dependency == [depender : Atoms \cup {RootAtom}, pl : SUBSET Packages, allows : SUBSET Versions]

\* The stacks and queues hold atoms, packages and versions that exist, and no
\* queue of versions holds a nil.
SolverTypes ==
    /\ sel.projects \in Seq([a : Atoms \cup {RootAtom}, pl : SUBSET Packages, first : BOOLEAN])
    /\ sel.deps \in [Projects -> Seq(Dependency)]
    /\ sel.unsel \in Seq([id : Projects, pl : SUBSET Packages, fromRoot : BOOLEAN,
                        prefv : Versions \cup {NoVersion}])
    /\ vqs \in Seq([id : Projects, lockv : Versions \cup {NoVersion}, prefv : Versions \cup {NoVersion},
                    failed : BOOLEAN, pi : Seq(Versions), allLoaded : BOOLEAN])
    /\ phase \in {"solving", "backtracking", "solved", "failed", "panicked"}

\* An assignment of one version to each of some projects, and of packages, that
\* has what the root asks for and what its own packages ask for in turn, each
\* at a version that everybody who asks allows.
Satisfies(version, pkgs, d) ==
    d.to \in DOMAIN version /\ version[d.to] \in d.allows /\ d.pl \subseteq pkgs[d.to]

IsSolution(version, pkgs) ==
    /\ \A d \in RootDependencies : Satisfies(version, pkgs, d)
    /\ \A p \in DOMAIN version :
          /\ pkgs[p] \subseteq Reachable(<<p, version[p]>>)
          /\ \A d \in DependenciesOf(<<p, version[p]>>, pkgs[p]) : Satisfies(version, pkgs, d)

\* What Solve returns is a solution, whatever was backtracked on the way
\* (solver.go:597: the projects and packages of the selection).
SolutionIsSound ==
    LET selected == {p \in Projects : IsSelected(sel, p)}
    IN  phase = "solved" =>
            /\ \A i, j \in DOMAIN sel.projects :
                  sel.projects[i].a[1] = sel.projects[j].a[1] => sel.projects[i].a = sel.projects[j].a
            /\ IsSolution([p \in selected |-> SelectedAtom(sel, p)[2]],
                          [p \in selected |-> SelectedPackagesIn(sel, p)])

\* The doc of vqs (solver.go:147): one queue for each project selected, in that
\* order, untouched by additions of packages; and its current version is the
\* one selected.  Backtracking panics where they are misaligned.
Firsts == {i \in DOMAIN sel.projects : i > 1 /\ sel.projects[i].first}
QueuesMatchSelection ==
    /\ Len(vqs) = Cardinality(Firsts)
    /\ \A i \in Firsts :
          LET q == vqs[PlaceIn(Firsts, i)]
          IN  q.pi # <<>> /\ sel.projects[i].a = <<q.id, Current(q)>>

\* What backtracking relies on when it undoes a selection.
SelectionIsConsistent ==
    SolverTypes /\ DepsMatchSelection(sel) /\ QueuesMatchSelection /\ ConstraintsAgree(sel)

\* A package that somebody requires is selected or queued, through all that
\* backtracking puts back into the queue and takes out of it.
NothingForgotten == IsNothingForgotten(sel)

\* The search ends: every turn of the loops lowers this rank, in the
\* lexicographic order.  What counts first is how many versions the oldest queue
\* has left, then the next one, and last what is left to add to the selection;
\* while backtracking, the current version of the newest queue is given up.  A
\* queue may have two versions more than its project has: one from a lock that
\* is out of date, and one that two locks name.
VersionsLeft(i) ==
    IF i > Len(vqs) THEN 2 * Cardinality(Versions) + 5
    ELSE 2 * Tries(vqs[i]) - (IF i = Len(vqs) /\ phase = "backtracking" THEN 1 ELSE 0)

SearchesLeft ==
    IF phase = "solving" \/ (phase = "backtracking" /\ vqs # <<>>) THEN 2
    ELSE IF phase = "backtracking" THEN 1 ELSE 0
PackagesLeft == {x \in Projects \X Packages : x[2] \notin SelectedPackagesIn(sel, x[1])}

SearchRank ==
    <<SearchesLeft>> \o [i \in 1..Cardinality(Projects) |-> VersionsLeft(i)]
    \o <<Cardinality(PackagesLeft), Len(sel.unsel)>>

LexBelow(x, y) == \E i \in DOMAIN x : x[i] < y[i] /\ \A j \in 1..(i - 1) : x[j] = y[j]

AlwaysAdvances == [][LexBelow(SearchRank', SearchRank)]_solverVars

=============================================================================
