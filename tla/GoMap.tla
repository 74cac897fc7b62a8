-------------------------------- MODULE GoMap --------------------------------
(***************************************************************************)
(* A map of Go: a function whose domain is the set of the keys it has.     *)
(***************************************************************************)
EXTENDS Functions

EmptyMap == [k \in {} |-> 0]
Put(map, key, value) ==
    [k \in DOMAIN map \cup {key} |-> IF k = key THEN value ELSE map[k]]
Delete(map, key) == Restrict(map, DOMAIN map \ {key})
=============================================================================
