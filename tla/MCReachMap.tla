------------------------------ MODULE MCReachMap ------------------------------
(* Every tree of three packages, each with an import of its own from        *)
(* outside; and trees with a main package, tests, a hidden package, and     *)
(* imports to ignore.                                                       *)
EXTENDS ReachMap, TLC

Three == {"A", "A/b", "A/_c"}
Own == [p \in Three |-> CASE p = "A" -> "X" [] p = "A/b" -> "Y" [] OTHER -> "Z"]
ThreeOutside == {"X", "Y", "Z"}

Broken == [err |-> TRUE, main |-> FALSE, imports |-> {}, testImports |-> {}]
Sound(p, imports) == [err |-> FALSE, main |-> FALSE, imports |-> imports \cup {Own[p]}, testImports |-> {}]
SmallTrees ==
    {[p \in ns |-> IF p \in broken THEN Broken ELSE Sound(p, imports[p])] :
        ns \in SUBSET Three, broken \in SUBSET Three, imports \in [Three -> SUBSET Three]}

Plain ==
    {[tree |-> t, main |-> TRUE, tests |-> TRUE, backprop |-> b, ignore |-> {}] :
        t \in SmallTrees, b \in BOOLEAN}

\* A chain of imports, the last by a test, with a main package somewhere.
Chain(m) ==
    ("A" :> [Sound("A", {"A/b"}) EXCEPT !.main = m = "A"])
    @@ ("A/b" :> [Sound("A/b", {}) EXCEPT !.main = m = "A/b", !.testImports = {"A/_c"}])
    @@ ("A/_c" :> [Sound("A/_c", {}) EXCEPT !.main = m = "A/_c"])
WithOptions ==
    {[tree |-> Chain(m), main |-> mains, tests |-> tests, backprop |-> b, ignore |-> ignore] :
        m \in Three \cup {"none"}, mains \in BOOLEAN, tests \in BOOLEAN, b \in BOOLEAN,
        ignore \in SUBSET (Three \cup {"Y"})}

SmallInputs == Plain \cup WithOptions
=============================================================================
