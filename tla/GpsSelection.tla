---------------------------- MODULE GpsSelection ----------------------------
(***************************************************************************)
(* What dep's solver knows and what it has chosen (gps/selection.go,       *)
(* gps/satisfy.go and the helpers of gps/solver.go that read them).        *)
(*                                                                         *)
(* A world is all the solver learns from outside: of every project the     *)
(* versions that exist, in the order in which they are to be tried; of     *)
(* every version its packages, what these import, its constraints and its  *)
(* lock; and of the root project its imports, constraints and lock.  An    *)
(* atom is a project at a version.                                         *)
(*                                                                         *)
(* The record s is the part of the solver struct that a selection changes: *)
(*   s.projects  the selection stack,                                      *)
(*   s.deps      for each project the dependencies on it, oldest first,    *)
(*   s.unsel     the queue of what is still to be selected.                *)
(*                                                                         *)
(* A constraint is the set of versions it admits.  Left out: alternate     *)
(* sources and case variants of a project, constraints that are revisions, *)
(* ignored packages, dependencies on the root, and failing network calls.  *)
(***************************************************************************)
EXTENDS Naturals, FiniteSets, SequencesExt

CONSTANTS
    Projects,      \* the project roots, but for the root project
    Rank,          \* the order of their names: iname.Less(jname)
    Root,
    Versions, NoVersion,
    Packages,
    ProjectOf      \* the project a package is in: DeduceProjectRoot

ASSUME GpsAssumption ==
    /\ Root \notin Projects /\ NoVersion \notin Versions /\ Versions # {}
    /\ IsFiniteSet(Projects) /\ IsFiniteSet(Versions) /\ IsFiniteSet(Packages)
    /\ ProjectOf \in [Packages -> Projects]

VARIABLE world

RootAtom == <<Root, NoVersion>>
Atoms == Projects \X Versions

-----------------------------------------------------------------------------
(* What an atom imports and asks for.                                      *)

\* What comes of the manifests and locks, and of ToReachMap (see ReachMap: behind
\* no cycle of imports, and Go has none, what a package reaches inside its project
\* has an entry as well, and all that is reached from there is reached from the
\* package).
IsWorld(w) ==
    /\ w.versions \in [Projects -> Seq(Versions)] /\ \A p \in Projects : IsInjective(w.versions[p])
    /\ w.exists \subseteq Projects /\ w.change \subseteq Projects
    /\ w.rootImports \subseteq Packages
    /\ w.rootConstraints \in [Projects -> (SUBSET Versions) \ {{}}]
    /\ w.rootLock \in [DOMAIN w.rootLock -> Versions] /\ DOMAIN w.rootLock \subseteq Projects
    /\ \A a \in Atoms :
          /\ w.constraints[a] \in [Projects -> SUBSET Versions]
          /\ w.lock[a] \in [DOMAIN w.lock[a] -> Versions] /\ DOMAIN w.lock[a] \subseteq Projects
          /\ w.packages[a] \subseteq Packages /\ DOMAIN w.external[a] \subseteq Packages
          /\ DOMAIN w.internal[a] = DOMAIN w.external[a]
          /\ \A k \in DOMAIN w.external[a] :
                /\ w.internal[a][k] \subseteq DOMAIN w.external[a]
                /\ w.external[a][k] \subseteq {x \in Packages : ProjectOf[x] # a[1]}
                /\ \A j \in w.internal[a][k] : w.external[a][j] \subseteq w.external[a][k]

\* One dependency for every project that `reach' touches, under the
\* constraint its manifest states, or under none.
IntersectConstraintsWithImports(constraints, reach) ==
    {[to |-> p, pl |-> {k \in reach : ProjectOf[k] = p}, allows |-> constraints[p]]
        : p \in {ProjectOf[k] : k \in reach}}

\* ptree.ToReachMap has an entry for each package that is not poisoned.
Reachable(a) == DOMAIN world.external[a]

DependenciesOf(a, pl) ==
    IntersectConstraintsWithImports(
        world.constraints[a], UNION {world.external[a][k] : k \in pl \cap Reachable(a)})

RootDependencies ==
    IntersectConstraintsWithImports(world.rootConstraints, world.rootImports)

\* The packages `pl' and those of the same project they reach.
WithInternal(a, pl) == pl \cup UNION {world.internal[a][k] : k \in pl}

-----------------------------------------------------------------------------
(* The selection: what is selected, and what depends on what.              *)

IndicesOf(s, p) == {i \in DOMAIN s.projects : s.projects[i].a[1] = p}
IsSelected(s, p) == IndicesOf(s, p) # {}
\* selected() returns the first entry of the project.
SelectedAtom(s, p) == s.projects[Min(IndicesOf(s, p))].a

GetConstraint(s, p) ==
    {v \in Versions : \A i \in DOMAIN s.deps[p] : v \in s.deps[p][i].allows}
RequiredPackagesIn(s, p) == UNION {s.deps[p][i].pl : i \in DOMAIN s.deps[p]}
SelectedPackagesIn(s, p) == UNION {s.projects[i].pl : i \in IndicesOf(s, p)}

IsAsked(deps, p) == \E d \in deps : d.to = p
AskedOf(deps, p) == CHOOSE d \in deps : d.to = p
DependencyFrom(depender, d) == [depender |-> depender, pl |-> d.pl, allows |-> d.allows]

PushDeps(deps, depender, new) ==
    [p \in Projects |->
        IF IsAsked(new, p) THEN Append(deps[p], DependencyFrom(depender, AskedOf(new, p))) ELSE deps[p]]
PopDeps(deps, old) ==
    [p \in Projects |-> IF IsAsked(old, p) THEN Front(deps[p]) ELSE deps[p]]

-----------------------------------------------------------------------------
(* The queue of what is to be selected: container/heap over a slice, from  *)
(* which remove() also takes entries out of the middle.                    *)

\* unselectedComparator: additions to selected projects first, then what the
\* root's lock names, then projects with fewer versions, then by name.
IsBefore(s, x, y) ==
    LET key(e) == <<IF IsSelected(s, e.id) THEN 0 ELSE 1,
                    IF e.id \in DOMAIN world.rootLock THEN 0 ELSE 1,
                    IF e.id \in DOMAIN world.rootLock THEN 0 ELSE Len(world.versions[e.id]),
                    Rank[e.id]>>
        kx == key(x)
        ky == key(y)
    IN  \E i \in 1..4 : kx[i] < ky[i] /\ \A j \in 1..(i - 1) : kx[j] = ky[j]

\* heap.Push: the new entry climbs from the end while it is before its parent.
HeapPush(s, e) ==
    LET n == Len(s.unsel) + 1
        up[i \in 1..n] ==    \* when it has come to i
            IF i > 1 /\ IsBefore(s, e, s.unsel[i \div 2])
            THEN [up[i \div 2] EXCEPT ![i] = s.unsel[i \div 2]]
            ELSE [Append(s.unsel, e) EXCEPT ![i] = e]
    IN  [s EXCEPT !.unsel = up[n]]

HeapPushAll(s, order) ==
    LET after[n \in 0..Len(order)] == IF n = 0 THEN s ELSE HeapPush(after[n - 1], order[n])
    IN  after[Len(order)]

RemoveProject(s, p, pl) ==    \* a bug: every entry of the project goes
    [s EXCEPT !.unsel = SelectSeq(@, LAMBDA e : e.id # p)]

RemoveAll(seq, gone) ==
    LET kept[n \in 0..Len(seq)] ==
            IF n = 0 THEN <<>>
            ELSE IF n \in gone THEN kept[n - 1] ELSE Append(kept[n - 1], seq[n])
    IN  kept[Len(seq)]

\* remove(): the first entry for these packages of the project, if there is one.
IsBmi(s, i, p, pl) == s.unsel[i].id = p /\ s.unsel[i].pl = pl
FirstBmi(s, p, pl) ==
    {i \in DOMAIN s.unsel : IsBmi(s, i, p, pl) /\ \A j \in 1..(i - 1) : ~IsBmi(s, j, p, pl)}
RemoveBmi(s, p, pl) == [s EXCEPT !.unsel = RemoveAll(@, FirstBmi(s, p, pl))]

-----------------------------------------------------------------------------
(* selectAtom and unselectLast.                                            *)

Bmi(p, pl, prefv) == [id |-> p, pl |-> pl, fromRoot |-> FALSE, prefv |-> prefv]

\* What the atom asks of others and nobody asked before, with the version
\* that the atom's lock prefers.
NewlyRequired(s, a, new) ==
    {Bmi(d.to, d.pl \ RequiredPackagesIn(s, d.to),
         IF d.to \in DOMAIN world.lock[a] THEN world.lock[a][d.to] ELSE NoVersion)
        : d \in {e \in new : ~ e.pl \subseteq RequiredPackagesIn(s, e.to)}}

\* The states that selectAtom may leave, one for each order in which the new
\* dependencies come out of their map.
SelectAtom(s, a, pl, pkgonly) ==
    LET new == DependenciesOf(a, pl)
        removed == RemoveBmi(s, a[1], pl)
        pushed == [projects |-> Append(s.projects, [a |-> a, pl |-> WithInternal(a, pl), first |-> ~pkgonly]),
                   deps |-> PushDeps(s.deps, a, new),
                   unsel |-> removed.unsel]
    IN  {HeapPushAll(pushed, order) : order \in SetToSeqs(NewlyRequired(s, a, new))}

\* Where the queue has what nobody asks for any more.
Orphans(s, old) == UNION {FirstBmi(s, d.to, d.pl) : d \in {e \in old : s.deps[e.to] = <<>>}}

UnselectLast(s) ==
    LET top == Last(s.projects)
        old == DependenciesOf(top.a, top.pl)
        popped == HeapPush([s EXCEPT !.projects = Front(s.projects)],
                           Bmi(top.a[1], top.pl, NoVersion))
        fewer == [popped EXCEPT !.deps = PopDeps(s.deps, old)]
    IN  [fewer EXCEPT !.unsel = RemoveAll(@, Orphans(fewer, old))]

\* Additions of packages are popped on the way to the project below them.
FirstOfLast(s) == Max({i \in DOMAIN s.projects : s.projects[i].first})
UnselectTop(s) == UnselectLast(s)    \* a bug: it stops at an addition of packages
UnselectProject(s) ==
    LET entries == Len(s.projects) - FirstOfLast(s) + 1
        after[n \in 0..entries] == IF n = 0 THEN s ELSE UnselectLast(after[n - 1])
    IN  after[entries]

-----------------------------------------------------------------------------
(* check: may these packages of the atom be selected?  The result is the   *)
(* set of the ways in which it may fail, each the set of the projects it   *)
(* marks as failed; dependencies are looked at in no particular order, and *)
(* the first that fails decides.  No way to fail: the atom is allowable.   *)

\* checkAtomAllowable
IsAllowed(s, a) == a[2] \in GetConstraint(s, a[1])
Disallowing(s, a) ==
    {s.deps[a[1]][i].depender[1] : i \in {j \in DOMAIN s.deps[a[1]] : a[2] \notin s.deps[a[1]][j].allows}}

\* checkRequiredPackagesExist and the errors of getImportsAndConstraintsOf
HasPackages(s, a, pl) ==
    /\ RequiredPackagesIn(s, a[1]) \subseteq world.packages[a]
    /\ pl \subseteq Reachable(a)

\* checkDepsConstraintsAllowable
IsDisjoint(s, d) == GetConstraint(s, d.to) \cap d.allows = {}
Disagreeing(s, d) ==
    {s.deps[d.to][i].depender[1] : i \in {j \in DOMAIN s.deps[d.to] : s.deps[d.to][j].allows \cap d.allows = {}}}

\* checkDepsDisallowsSelected
RejectsSelected(s, d) == IsSelected(s, d.to) /\ SelectedAtom(s, d.to)[2] \notin d.allows

\* checkPackageImportsFromDepExist
LacksImports(s, d) ==
    IsSelected(s, d.to) /\ ~ d.pl \subseteq world.packages[SelectedAtom(s, d.to)]

DisallowsSelectedIsForgotten(s, d) == IsDisjoint(s, d) \/ LacksImports(s, d)
IsBadDependency(s, d) == IsDisjoint(s, d) \/ RejectsSelected(s, d) \/ LacksImports(s, d)
FailedBy(s, d) ==
    IF IsDisjoint(s, d) THEN Disagreeing(s, d)
    ELSE IF RejectsSelected(s, d) THEN {d.to} ELSE {}

Check(s, a, pl, pkgonly) ==
    IF ~pkgonly /\ ~IsAllowed(s, a) THEN {Disallowing(s, a)}
    ELSE IF ~HasPackages(s, a, pl) THEN {{}}
    ELSE {FailedBy(s, d) : d \in {e \in DependenciesOf(a, pl) : IsBadDependency(s, e)}}

-----------------------------------------------------------------------------
(* Properties of a selection.                                              *)

\* The stacks of dependencies are those of the selection, in its order: what
\* unselectLast works out again and pops is what selectAtom pushed for the same
\* entry (solver.go:1363), although the entry has more packages by then.
DependenciesOfEntry(e) == IF e.a = RootAtom THEN RootDependencies ELSE DependenciesOf(e.a, e.pl)
Dependers(s, p) == {i \in DOMAIN s.projects : IsAsked(DependenciesOfEntry(s.projects[i]), p)}
PlaceIn(set, i) == Cardinality(set \cap 1..i)

DepsMatchSelection(s) ==
    \A p \in Projects :
        /\ Len(s.deps[p]) = Cardinality(Dependers(s, p))
        /\ \A i \in Dependers(s, p) :
              LET e == s.projects[i]
              IN  s.deps[p][PlaceIn(Dependers(s, p), i)]
                    = DependencyFrom(e.a, AskedOf(DependenciesOfEntry(e), p))

\* What getConstraint takes for granted (selection.go:154): the constraints on
\* a project admit a version all together, though they are checked one dependency
\* at a time.
ConstraintsAgree(s) == \A p \in Projects : GetConstraint(s, p) # {}

\* A package that somebody requires is selected or queued.
QueuedPackagesIn(s, p) == UNION {s.unsel[i].pl : i \in {j \in DOMAIN s.unsel : s.unsel[j].id = p}}
IsNothingForgotten(s) ==
    \A p \in Projects :
        RequiredPackagesIn(s, p) \subseteq SelectedPackagesIn(s, p) \cup QueuedPackagesIn(s, p)
=============================================================================
