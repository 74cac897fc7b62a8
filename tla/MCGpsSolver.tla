----------------------------- MODULE MCGpsSolver -----------------------------
(* Three projects of two versions each, b of two packages; the families of  *)
(* worlds differ in what imports what, in what is allowed with what, and in *)
(* what the locks say.                                                      *)
EXTENDS GpsSolver, TLC

ThreeProjects == {"a", "b", "c"}
ByName == [a |-> 1, b |-> 2, c |-> 3]
FourPackages == {"a", "b", "b/x", "c"}
ProjectOfPackage == ("a" :> "a") @@ ("b" :> "b") @@ ("b/x" :> "b") @@ ("c" :> "c")

Free == [p \in ThreeProjects |-> 1..3]

\* A package of each version: what it reaches inside and outside its project.
Shape(internal, external) ==
    [packages |-> DOMAIN external, internal |-> internal, external |-> external]
Leaf(k) == Shape(k :> {}, k :> {})

World(shapes, constraints, rootImports, rootConstraints, rootLock, locks) ==
    [versions |-> [p \in ThreeProjects |-> IF p = "c" THEN <<2, 1>> ELSE <<1, 2>>],
     exists |-> ThreeProjects,
     packages |-> [a \in Atoms |-> IF a \in DOMAIN shapes THEN shapes[a].packages ELSE {}],
     internal |-> [a \in Atoms |-> IF a \in DOMAIN shapes THEN shapes[a].internal ELSE <<>>],
     external |-> [a \in Atoms |-> IF a \in DOMAIN shapes THEN shapes[a].external ELSE <<>>],
     constraints |-> [a \in Atoms |-> IF a \in DOMAIN constraints THEN constraints[a] ELSE Free],
     lock |-> [a \in Atoms |-> IF a \in DOMAIN locks THEN locks[a] ELSE <<>>],
     rootImports |-> rootImports, rootConstraints |-> rootConstraints,
     rootLock |-> rootLock, change |-> {}]

On(p, allowed) == [Free EXCEPT ![p] = allowed]
Importing(k, external) == Shape(k :> {}, k :> external)

\* b without b/x, with both apart, and with b importing b/x.
BShapes(external) ==
    {Shape("b" :> {}, "b" :> external),
     Shape(("b" :> {}) @@ ("b/x" :> {}), ("b" :> external) @@ ("b/x" :> {})),
     Shape(("b" :> {"b/x"}) @@ ("b/x" :> {}), ("b" :> external) @@ ("b/x" :> {}))}

ImportWorlds ==
    {World((<<"a", 1>> :> Importing("a", a1)) @@ (<<"a", 2>> :> Importing("a", a2))
            @@ (<<"b", 1>> :> b1) @@ (<<"b", 2>> :> b2)
            @@ (<<"c", 1>> :> Leaf("c")) @@ (<<"c", 2>> :> Importing("c", c2)),
           (<<"a", 1>> :> On("c", onC)) @@ (<<"b", 1>> :> On("c", {1})),
           rootImports, Free, <<>>, <<>>)
        : a1 \in {{"b"}, {"b", "b/x"}, {"b", "c"}, {"b", "b/x", "c"}}, a2 \in {{}, {"b"}, {"c"}},
          b1 \in BShapes({"c"}), b2 \in BShapes({}), c2 \in {{}, {"b/x"}},
          onC \in {{2}, {3}}, rootImports \in {{"a"}, {"a", "b"}}}

\* a and b both want c, b also a choice of its own.
ConstraintWorlds ==
    {World((<<"a", 1>> :> Importing("a", {"b", "c"})) @@ (<<"a", 2>> :> Importing("a", a2))
            @@ (<<"b", 1>> :> b1) @@ (<<"b", 2>> :> b2)
            @@ (<<"c", 1>> :> Leaf("c")) @@ (<<"c", 2>> :> Leaf("c")),
           (<<"a", 1>> :> On("c", a1c)) @@ (<<"a", 2>> :> On("c", a2c))
            @@ (<<"b", 1>> :> On("c", b1c)) @@ (<<"b", 2>> :> On("c", b2c)),
           rootImports, rootConstraints, <<>>, <<>>)
        : a2 \in {{"c"}, {"b", "c"}}, b1 \in BShapes({"c"}), b2 \in BShapes({"c"}),
          a1c \in {{2}, {3}}, a2c \in {{2}, 1..3}, b1c \in {{1, 3}, {3}}, b2c \in {{1, 3}, {2}},
          rootImports \in {{"a"}, {"a", "b"}}, rootConstraints \in {Free, On("c", {1, 2})}}

\* The root's lock and that of a name versions of b, one of which is gone, and
\* the constraint of a forbids some of them.
LockWorlds ==
    {World((<<"a", 1>> :> Importing("a", {"b"})) @@ (<<"a", 2>> :> Importing("a", {"b", "c"}))
            @@ (<<"b", 1>> :> Importing("b", {"c"})) @@ (<<"b", 2>> :> Leaf("b"))
            @@ (<<"c", 1>> :> Leaf("c")) @@ (<<"c", 2>> :> Importing("c", {"b"})),
           (<<"a", 1>> :> On("b", onB)) @@ (<<"c", 2>> :> On("b", {2})),
           rootImports, Free, rootLock, (<<"a", 1>> :> aLock) @@ (<<"a", 2>> :> aLock))
        : onB \in {{1}, {2}, {1, 3}}, rootImports \in {{"a"}, {"a", "b"}, {"b", "c"}},
          rootLock \in {<<>>, "b" :> 1, "b" :> 3, ("b" :> 2) @@ ("a" :> 2), "c" :> 2},
          aLock \in {<<>>, "b" :> 1, "b" :> 3}}

SmallWorlds ==
    ImportWorlds \cup ConstraintWorlds \cup LockWorlds
    \cup {[w EXCEPT !.exists = ThreeProjects \ {"c"}] : w \in LockWorlds}
    \cup {[w EXCEPT !.change = {"b"}] : w \in LockWorlds}
=============================================================================
