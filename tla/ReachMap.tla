------------------------------- MODULE ReachMap -------------------------------
(***************************************************************************)
(* What the packages of a project import, through each other, from outside *)
(* (gps/pkgtree: ToReachMap, wmToReach, TrimHiddenPackages, FlattenFn).    *)
(* dep's solver learns the imports of a version from this, with main       *)
(* packages and tests left out and errors propagated; dep learns those of  *)
(* the root project from it with all of them.                              *)
(*                                                                         *)
(* wmToReach explores the internal imports depth first, in the order of    *)
(* the maps of Go, which is any order.  A step is one call of dfe, or the  *)
(* return from one.  A failure that propagates undoes all of the stack:    *)
(* every dfe on it returns false at once, which is one step.               *)
(*                                                                         *)
(* An error is known by the package that it is about.  Left out: the       *)
(* import of "." and how internal imports are told from external ones.     *)
(***************************************************************************)
EXTENDS Naturals, Sequences, FiniteSets, GoMap

CONSTANTS
    Names,       \* import paths inside the project
    External,    \* import paths outside
    Hidden,      \* the names that pkgFilter does not pass
    Inputs       \* the calls of ToReachMap

\* A tree has a package for some of the names: one that could not be parsed, or
\* one with its imports, and whether it is a main package.
IsTree(t) ==
    /\ DOMAIN t \subseteq Names
    /\ \A p \in DOMAIN t :
          /\ t[p].err \in BOOLEAN /\ t[p].main \in BOOLEAN
          /\ t[p].imports \cup t[p].testImports \subseteq Names \cup External

ASSUME NamesAssumption == IsFiniteSet(Names)
ASSUME InputsAssumption ==
    \A i \in Inputs :
        /\ IsTree(i.tree) /\ i.ignore \subseteq Names \cup External
        /\ i.main \in BOOLEAN /\ i.tests \in BOOLEAN /\ i.backprop \in BOOLEAN

Unknown == "unknown"    \* the error "if you get this error see ... issues/351"

VARIABLES
    input,
    workmap,
    colors,
    exrsets, inrsets,    \* what each package has been found to reach, outside and inside
    errmap,
    stack                \* the calls of dfe under way, and what each has yet to visit

reachVars == <<input, workmap, colors, exrsets, inrsets, errmap, stack>>

-----------------------------------------------------------------------------
(* ToReachMap.                                                             *)

ImportsOf(i, p) ==
    (i.tree[p].imports \cup (IF i.tests THEN i.tree[p].testImports ELSE {})) \ i.ignore

\* What has an error stays, whether ignored or a main package.
WorkMap(i) ==
    LET kept == {p \in DOMAIN i.tree : i.tree[p].err \/ (p \notin i.ignore /\ (i.tree[p].main => i.main))}
    IN  [p \in kept |->
            IF i.tree[p].err THEN [err |-> TRUE, in |-> {}, ex |-> {}]
            ELSE [err |-> FALSE, in |-> ImportsOf(i, p) \cap Names, ex |-> ImportsOf(i, p) \cap External]]

ReachInit ==
    /\ input \in Inputs
    /\ workmap = WorkMap(input)
    /\ colors = [p \in Names |-> "white"]
    /\ exrsets = EmptyMap /\ inrsets = EmptyMap
    /\ errmap = EmptyMap
    /\ stack = <<>>

-----------------------------------------------------------------------------
(* wmToReach.                                                              *)

Path == [k \in DOMAIN stack |-> stack[k].pkg]
OnPath == {stack[k].pkg : k \in DOMAIN stack}
Top == stack[Len(stack)]

\* The package to visit: any that is not black, or an import of the one on top.
\* Imports of itself are skipped.
Visits(pkg) ==
    IF stack = <<>> THEN pkg \in DOMAIN workmap /\ colors[pkg] # "black" ELSE pkg \in Top.todo
Visited(pkg) ==
    IF stack = <<>> THEN stack ELSE [stack EXCEPT ![Len(stack)].todo = @ \ {pkg}]

IsSound(pkg) == pkg \in DOMAIN workmap /\ ~workmap[pkg].err

\* Adds to the set of each of these packages that has one.
Add(sets, pkgs, new) == [p \in DOMAIN sets |-> IF p \in pkgs THEN sets[p] \cup new ELSE sets[p]]

Explore(pkg) ==
    /\ Visits(pkg) /\ colors[pkg] = "white" /\ IsSound(pkg)
    /\ colors' = [colors EXCEPT ![pkg] = "grey"]
    /\ exrsets' = Add(Put(exrsets, pkg, workmap[pkg].ex), OnPath, workmap[pkg].ex)
    /\ inrsets' = Add(Put(inrsets, pkg, workmap[pkg].in), OnPath, workmap[pkg].in)
    /\ stack' = Append(Visited(pkg), [pkg |-> pkg, todo |-> workmap[pkg].in \ {pkg}])
    /\ UNCHANGED <<input, workmap, errmap>>

\* poison: the packages on the path lose what they reach and get the error, each
\* with the rest of the causes behind it.  The last one may not exist.
PoisonWithAllCauses(path, err, cause) ==    \* a bug: each gets its own name, too
    /\ exrsets' = Restrict(exrsets, DOMAIN exrsets \ {path[k] : k \in DOMAIN path})
    /\ inrsets' = Restrict(inrsets, DOMAIN inrsets \ {path[k] : k \in DOMAIN path})
    /\ LET hit == {k \in DOMAIN path : k = Len(path) => path[k] \in DOMAIN workmap}
       IN  errmap' = [p \in DOMAIN errmap \cup {path[k] : k \in hit} |->
                        IF \E k \in hit : path[k] = p
                        THEN [err |-> err, cause |-> LET k == CHOOSE k \in hit : path[k] = p
                                                     IN  SubSeq(cause, k, Len(cause))]
                        ELSE errmap[p]]
    /\ stack' = <<>>
    /\ UNCHANGED <<input, workmap>>

Poison(path, err, cause) ==
    /\ exrsets' = Restrict(exrsets, DOMAIN exrsets \ {path[k] : k \in DOMAIN path})
    /\ inrsets' = Restrict(inrsets, DOMAIN inrsets \ {path[k] : k \in DOMAIN path})
    /\ LET hit == {k \in DOMAIN path : k = Len(path) => path[k] \in DOMAIN workmap}
       IN  errmap' = [p \in DOMAIN errmap \cup {path[k] : k \in hit} |->
                        IF \E k \in hit : path[k] = p
                        THEN [err |-> err, cause |-> LET k == CHOOSE k \in hit : path[k] = p
                                                     IN  SubSeq(cause, k + 1, Len(cause))]
                        ELSE errmap[p]]
    /\ stack' = <<>>
    /\ UNCHANGED <<input, workmap>>

Blacken(pkgs) == colors' = [p \in Names |-> IF p \in pkgs THEN "black" ELSE colors[p]]

\* A package that is missing or has an error.  (If nothing is propagated, the
\* importer goes on to its next import.)
PoisonWhite(pkg) ==
    /\ Visits(pkg) /\ colors[pkg] = "white" /\ ~IsSound(pkg) /\ input.backprop
    /\ Poison(Append(Path, pkg), pkg, Append(Path, pkg))
    /\ Blacken(OnPath \cup {pkg})

RecordError(pkg) ==
    /\ Visits(pkg) /\ colors[pkg] = "white" /\ ~IsSound(pkg) /\ ~input.backprop
    /\ errmap' = IF pkg \in DOMAIN workmap THEN Put(errmap, pkg, [err |-> pkg, cause |-> <<>>]) ELSE errmap
    /\ Blacken({pkg})
    /\ stack' = Visited(pkg)
    /\ UNCHANGED <<input, workmap, exrsets, inrsets>>

\* A cycle of imports, which is let pass.
SeeGrey(pkg) ==
    /\ Visits(pkg) /\ colors[pkg] = "grey"
    /\ stack' = Visited(pkg)
    /\ UNCHANGED <<input, workmap, colors, exrsets, inrsets, errmap>>

PullOverOnce(pkg) ==    \* a bug: only the importer gets what the package reaches
    /\ Visits(pkg) /\ colors[pkg] = "black" /\ pkg \in DOMAIN exrsets
    /\ exrsets' = Add(exrsets, {Top.pkg}, exrsets[pkg])
    /\ inrsets' = Add(inrsets, {Top.pkg}, inrsets[pkg])
    /\ stack' = Visited(pkg)
    /\ UNCHANGED <<input, workmap, colors, errmap>>

\* Everybody on the path gets what a package that is done reaches.
PullOver(pkg) ==
    /\ Visits(pkg) /\ colors[pkg] = "black" /\ pkg \in DOMAIN exrsets
    /\ exrsets' = Add(exrsets, OnPath, exrsets[pkg])
    /\ inrsets' = Add(inrsets, OnPath, inrsets[pkg])
    /\ stack' = Visited(pkg)
    /\ UNCHANGED <<input, workmap, colors, errmap>>

\* A package that is done and was poisoned.
PoisonBlack(pkg) ==
    /\ Visits(pkg) /\ colors[pkg] = "black" /\ pkg \notin DOMAIN exrsets /\ input.backprop
    /\ LET from == IF pkg \in DOMAIN errmap THEN errmap[pkg] ELSE [err |-> Unknown, cause |-> <<>>]
       IN  Poison(Path, from.err, Append(Path, pkg) \o from.cause)
    /\ Blacken(OnPath)

PassOver(pkg) ==
    /\ Visits(pkg) /\ colors[pkg] = "black" /\ pkg \notin DOMAIN exrsets /\ ~input.backprop
    /\ stack' = Visited(pkg)
    /\ UNCHANGED <<input, workmap, colors, exrsets, inrsets, errmap>>

Return ==
    /\ stack # <<>> /\ Top.todo = {}
    /\ Blacken({Top.pkg})
    /\ stack' = SubSeq(stack, 1, Len(stack) - 1)
    /\ UNCHANGED <<input, workmap, exrsets, inrsets, errmap>>

IsDone == stack = <<>> /\ \A p \in DOMAIN workmap : colors[p] = "black"
Finished == IsDone /\ UNCHANGED reachVars

ReachNext ==
    \/ \E pkg \in Names :
          \/ Explore(pkg) \/ PoisonWhite(pkg) \/ RecordError(pkg) \/ SeeGrey(pkg)
          \/ PullOver(pkg) \/ PoisonBlack(pkg) \/ PassOver(pkg)
    \/ Return \/ Finished

ReachSpec == ReachInit /\ [][ReachNext]_reachVars

-----------------------------------------------------------------------------
(* What is made of the maps.                                               *)

\* FlattenFn, for every import.
Flattened == UNION {exrsets[p] : p \in DOMAIN exrsets \ Hidden}

\* TrimHiddenPackages asks for a reach map without propagation.
Trimmed ==
    LET visible == {p \in DOMAIN exrsets : p \notin Hidden /\ p \notin input.ignore}
        problems == {p \in DOMAIN errmap : p \notin Hidden /\ p \notin input.ignore}
    IN  DOMAIN input.tree \cap (visible \cup problems \cup UNION {inrsets[p] : p \in visible})

-----------------------------------------------------------------------------
(* Properties.                                                             *)

\* The packages that are analysed, by the doc of ToReachMap, and what they import.
Analysed ==
    {p \in DOMAIN input.tree :
        ~input.tree[p].err /\ p \notin input.ignore /\ (input.tree[p].main => input.main)}
Imports == {edge \in Analysed \X Names : edge[2] \in ImportsOf(input, edge[1])}
Imported(p) == {q \in Names : <<p, q>> \in Imports}

\* What a package imports, directly or through others: the least set that has all
\* it imports itself, and all that its members import.
IsClosed(set) == \A q \in set : Imported(q) \subseteq set
Reached(p) ==
    {q \in Names : \A set \in SUBSET Names : Imported(p) \subseteq set /\ IsClosed(set) => q \in set}
ReachedOutside(p) ==
    UNION {ImportsOf(input, q) \cap External : q \in ({p} \cup Reached(p)) \cap Analysed}

\* No cycle can be reached from the package, but for imports of itself.
IsAcyclic(p) ==
    \A q, r \in {p} \cup Reached(p) : r \in Reached(q) /\ q \in Reached(r) => q = r
IsPoisoned(p) == input.backprop /\ ~(Reached(p) \subseteq Analysed)

\* "computes the list of external import statements that are transitively imported"
\* (pkgtree.go:474): for a package from which no cycle is reached the map has
\* exactly what it reaches, or no entry if it reaches a package with an error or
\* none at all.  Behind a cycle, it has no more than that, and no sound package is
\* without entry, but imports may be missing, and an error need not arrive.
MapIsRight ==
    /\ DOMAIN exrsets = DOMAIN inrsets
    /\ DOMAIN exrsets \subseteq Analysed
    /\ \A p \in Analysed :
          /\ ~IsPoisoned(p) => p \in DOMAIN exrsets
          /\ IsPoisoned(p) /\ IsAcyclic(p) => p \notin DOMAIN exrsets
    /\ \A p \in DOMAIN exrsets :
          /\ ImportsOf(input, p) \subseteq exrsets[p] \cup inrsets[p]
          /\ exrsets[p] \subseteq ReachedOutside(p) /\ inrsets[p] \subseteq Reached(p)
          /\ IsAcyclic(p) => exrsets[p] = ReachedOutside(p) /\ inrsets[p] = Reached(p)

\* Of a tree without cycles, the imports of the root are those of its visible
\* packages, and what is trimmed is hidden and imported by nothing visible.
UsesAreRight ==
    (\A p \in Names : IsAcyclic(p)) /\ ~input.backprop =>
        LET visible == Analysed \ Hidden
        IN  /\ Flattened = UNION {ReachedOutside(p) : p \in visible}
            /\ \A p \in Analysed :
                  p \in Trimmed <=> p \in visible \/ \E q \in visible : p \in Reached(q)

ReachMapIsRight == IsDone => MapIsRight /\ UsesAreRight

\* "presence in the errmap indicates the package was present in the input"
\* (pkgtree.go:762), and whatever was present is in one of the maps.  "The path to
\* the internal package ... that is the original cause" (:438): the causes are a
\* path of imports that ends at a package with an error or at a missing one, and the
\* error is that of the end; if the end is missing, unless no error is given at all
\* (see FromErrExists).
IsTrouble(p) == p \notin Analysed
CausesArePaths ==
    IsDone =>
        /\ DOMAIN errmap \cap DOMAIN exrsets = {}
        /\ DOMAIN errmap \cup DOMAIN exrsets = DOMAIN workmap
        /\ \A p \in DOMAIN errmap :
              LET way == <<p>> \o errmap[p].cause
                  end == way[Len(way)]
              IN  /\ \A k \in 1 .. Len(way) - 1 : <<way[k], way[k + 1]>> \in Imports
                  /\ IsTrouble(end)
                  /\ end \in DOMAIN workmap \/ errmap[p].err # Unknown => errmap[p].err = end

\* "It should not be possible for fromErr to not exist" (pkgtree.go:806): no package
\* is given the unknown error.  It is violated: a missing package has no entry in
\* errmap, and whoever comes to it second finds none.
FromErrExists == IsDone => \A p \in DOMAIN errmap : errmap[p].err # Unknown
=============================================================================
