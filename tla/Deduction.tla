------------------------------ MODULE Deduction ------------------------------
(***************************************************************************)
(* The deduction of project roots (gps/deduce.go).  Known hosts are        *)
(* deduced from the path alone; any other path takes an HTTP request for   *)
(* its go-get metadata, which an httpMetadataDeducer makes once.  rootxt   *)
(* remembers roots that are known and requests that are under way.         *)
(*                                                                         *)
(* A root is a path whose packages are in one repository.  Left out:       *)
(* prefixes in the trie that are not paths ("a/b" of "a/bc"), which are    *)
(* looked up in vain, and roots inside other roots.                        *)
(***************************************************************************)
EXTENDS Supervisor, Sequences

CONSTANTS
    Paths,
    Vanity,       \* the paths that no rule knows
    Malformed,    \* the paths that a rule knows and does not like
    RootOf,       \* the root of each path
    Above,        \* the prefixes of each path, the longest first
    SourcesOf     \* the URLs that are tried for a path, in their order

Metadata(p) == <<p, "ctHTTPMetadata">>

\* No root is inside another: what is above a path and is a path, or the root of
\* one, has the same root.
ASSUME DeductionAssumption ==
    /\ Vanity \subseteq Paths /\ \A p \in Paths : Metadata(p) \in CallInfos
    /\ \A p \in Paths : DOMAIN Above[p] \subseteq Nat
    /\ \A p, q \in Paths : \A i \in DOMAIN Above[p] :
          Above[p][i] \in {q, RootOf[q]} => RootOf[q] = RootOf[p]

VARIABLES
    rootxt,    \* deductionCoordinator.rootxt
    hmds,      \* the httpMetadataDeducers made so far
    at,        \* where each caller stands
    path,      \* the path it asks for
    hmd,       \* the deducer whose deduce() it is in
    deduced    \* what deduceRootPath has returned to it

deductionVars == <<rootxt, hmds, at, path, hmd, deduced>>

Deduced(root, mb) == [ok |-> TRUE, root |-> root, mb |-> mb]
NotDeduced == [ok |-> FALSE, root |-> "", mb |-> <<>>]

Sources(mb) == [hmd |-> 0, mb |-> mb]
Deducer(i) == [hmd |-> i, mb |-> <<>>]

DeductionInit ==
    /\ rootxt = EmptyMap
    /\ hmds = <<>>
    /\ at = [c \in Callers |-> "idle"]
    /\ path = [c \in Callers |-> ""]
    /\ hmd = [c \in Callers |-> 0]
    /\ deduced = [c \in Callers |-> NotDeduced]

GoTo(c, where) == at' = [at EXCEPT ![c] = where]
Return(c, pd) == GoTo(c, "deduced") /\ deduced' = [deduced EXCEPT ![c] = pd]

----------------------------------------------------------------------------
(* deduceRootPath.                                                         *)

\* rootxt.LongestPrefix
Known(p) == {i \in DOMAIN Above[p] : Above[p][i] \in DOMAIN rootxt}
LongestPrefix(p) == Above[p][CHOOSE i \in Known(p) : \A j \in Known(p) : i <= j]

DeduceIsRefused(c) ==
    /\ at[c] = "looking" /\ cancelled
    /\ Return(c, NotDeduced)
    /\ UNCHANGED <<supVars, rootxt, hmds, path, hmd>>

FindEntry(c) ==
    /\ at[c] = "looking" /\ ~cancelled
    /\ Known(path[c]) # {}
    /\ LET prefix == LongestPrefix(path[c])
           entry == rootxt[prefix]
       IN  IF entry.hmd = 0
             THEN Return(c, Deduced(prefix, entry.mb)) /\ UNCHANGED hmd
             ELSE GoTo(c, "once") /\ hmd' = [hmd EXCEPT ![c] = entry.hmd] /\ UNCHANGED deduced
    /\ UNCHANGED <<supVars, rootxt, hmds, path>>

FindNothing(c) ==
    /\ at[c] = "looking" /\ ~cancelled
    /\ Known(path[c]) = {}
    /\ GoTo(c, "unknown")
    /\ UNCHANGED <<supVars, rootxt, hmds, path, hmd, deduced>>

DeduceKnownPath(c) ==
    /\ at[c] = "unknown" /\ path[c] \notin Vanity
    /\ IF path[c] \in Malformed
         THEN Return(c, NotDeduced) /\ UNCHANGED rootxt
         ELSE /\ Return(c, Deduced(RootOf[path[c]], SourcesOf[path[c]]))
              /\ rootxt' = Put(rootxt, RootOf[path[c]], Sources(SourcesOf[path[c]]))
    /\ UNCHANGED <<supVars, hmds, path, hmd>>

\* The new deducer is in rootxt before its request is made.  Two callers may both
\* have found nothing; the second one's deducer replaces the first one's.
NewDeducer(c) ==
    /\ at[c] = "unknown" /\ path[c] \in Vanity
    /\ hmds' = Append(hmds, [once |-> "new", pd |-> NotDeduced])
    /\ rootxt' = Put(rootxt, path[c], Deducer(Len(hmds')))
    /\ hmd' = [hmd EXCEPT ![c] = Len(hmds')]
    /\ GoTo(c, "once")
    /\ UNCHANGED <<supVars, path, deduced>>

----------------------------------------------------------------------------
(* httpMetadataDeducer.deduce.                                             *)

Ask(c) ==
    /\ at[c] = "once" /\ hmds[hmd[c]].once = "new"
    /\ Start(c, Metadata(path[c]))
    /\ hmds' = [hmds EXCEPT ![hmd[c]].once = "running"]
    /\ GoTo(c, "asking")
    /\ UNCHANGED <<rootxt, path, hmd, deduced>>

AskIsRefused(c) ==
    /\ at[c] = "once" /\ hmds[hmd[c]].once = "new" /\ cancelled
    /\ hmds' = [hmds EXCEPT ![hmd[c]].once = "done"]
    /\ Return(c, NotDeduced)
    /\ UNCHANGED <<supVars, rootxt, path, hmd>>

\* once.Do lets the others wait until the first has returned, and then it is its
\* result they get, the error included.
JoinOnce(c) ==
    /\ at[c] = "once" /\ hmds[hmd[c]].once = "done"
    /\ Return(c, hmds[hmd[c]].pd)
    /\ UNCHANGED <<supVars, rootxt, hmds, path, hmd>>

MetadataArrives(c) ==
    /\ at[c] = "asking"
    /\ Done(c)
    /\ hmds' = [hmds EXCEPT ![hmd[c]].pd = Deduced(RootOf[path[c]], SourcesOf[path[c]])]
    /\ GoTo(c, "storing")
    /\ UNCHANGED <<rootxt, path, hmd, deduced>>

MetadataFails(c) ==
    /\ at[c] = "asking"
    /\ Done(c)
    /\ hmds' = [hmds EXCEPT ![hmd[c]].once = "done"]
    /\ Return(c, NotDeduced)
    /\ UNCHANGED <<rootxt, path, hmd>>

\* returnFunc, still inside once.Do.
StoreRoot(c) ==
    /\ at[c] = "storing"
    /\ LET pd == hmds[hmd[c]].pd
       IN  rootxt' = Put(rootxt, pd.root, Sources(pd.mb)) /\ Return(c, pd)
    /\ hmds' = [hmds EXCEPT ![hmd[c]].once = "done"]
    /\ UNCHANGED <<supVars, path, hmd>>

Deduce(c) ==
    \/ DeduceIsRefused(c) \/ FindEntry(c) \/ FindNothing(c) \/ DeduceKnownPath(c)
    \/ NewDeducer(c) \/ Ask(c) \/ AskIsRefused(c) \/ JoinOnce(c)
    \/ MetadataArrives(c) \/ MetadataFails(c) \/ StoreRoot(c)

----------------------------------------------------------------------------
(***************************************************************************)
(* Properties                                                              *)
(***************************************************************************)
DeductionTypeOK ==
    /\ \A p \in DOMAIN rootxt : rootxt[p].hmd \in 0 .. Len(hmds)
    /\ hmds \in Seq([once : {"new", "running", "done"},
                     pd : {NotDeduced} \cup {Deduced(RootOf[p], SourcesOf[p]) : p \in Paths}])
    /\ path \in [Callers -> Paths \cup {""}]
    /\ hmd \in [Callers -> 0 .. Len(hmds)]

\* Whoever is told a root is told the root of its path, however its request was
\* folded in with those for other paths of the repository.
RootsAreRight ==
    \A c \in Callers :
        at[c] = "deduced" /\ deduced[c].ok => deduced[c].root = RootOf[path[c]]

----------------------------------------------------------------------------
(* The inductive invariant behind them.                                    *)

Deductions == {NotDeduced} \cup {Deduced(RootOf[p], SourcesOf[q]) : p, q \in Paths}

\* An entry of rootxt is a root with its sources, or a path that somebody asks for.
EntriesOK ==
    \A x \in DOMAIN rootxt :
        IF rootxt[x].hmd = 0 THEN \E p, q \in Paths : x = RootOf[p] /\ rootxt[x].mb = SourcesOf[q]
        ELSE x \in Paths

\* Whoever uses a deducer, and the paths it is in rootxt for, are of one repository.
Requesting == {"once", "asking", "storing"}
IsOfOneRoot(i) ==
    \E p \in Paths :
        /\ \A c \in Callers : at[c] \in Requesting /\ hmd[c] = i => RootOf[path[c]] = RootOf[p]
        /\ \A x \in DOMAIN rootxt : rootxt[x].hmd = i => RootOf[x] = RootOf[p]
        /\ hmds[i].pd.ok => hmds[i].pd.root = RootOf[p]

DeducingOK(c) ==
    /\ at[c] # "idle" => path[c] \in Paths
    /\ at[c] \in Requesting => hmd[c] # 0
    /\ at[c] = "storing" => hmds[hmd[c]].pd.ok

DeductionInv ==
    /\ DeductionTypeOK /\ RootsAreRight
    /\ deduced \in [Callers -> Deductions]
    /\ EntriesOK
    /\ \A i \in 1 .. Len(hmds) : IsOfOneRoot(i)
    /\ \A c \in Callers : DeducingOK(c)
=============================================================================
