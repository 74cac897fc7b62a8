---------------------------- MODULE SourceGateway ----------------------------
(***************************************************************************)
(* gps's sourceGateway (gps/source.go) with its singleSourceCacheMemory    *)
(* (gps/source_cache.go) and the source behind it (gps/vcs_source.go):     *)
(* which calls it makes to upstream and to the local clone, under its      *)
(* mutex, while upstream goes on.                                          *)
(*                                                                         *)
(* Revision r is the commit of version r; upstream has the revisions up to *)
(* a number, and so has a clone or a version list made from it.  listPackages, *)
(* getManifestAndLock and exportVersionTo read a revision; the first two,  *)
(* which differ in what they parse, are "read".  disambiguateRevision, which *)
(* changes nothing but what require() does, is left out, and so are clones *)
(* that a killed command leaves half made.                                 *)
(***************************************************************************)
EXTENDS Naturals

CONSTANTS
    Callers,
    NoCaller,
    MaxRevision,   \* bounds what upstream gets to
    MaxCalls       \* bounds the calls of all callers together

ASSUME GatewayAssumption ==
    /\ NoCaller \notin Callers
    /\ MaxRevision \in Nat /\ MaxCalls \in Nat

VARIABLES
    git,        \* whether the source is a git repository; else it is hg or bzr
    upstream,   \* the last revision of upstream
    clone,      \* the last revision of the local clone, 0 without one
    srcState,   \* sourceGateway.srcState, as a set of flags
    vList,      \* the last version of the cached version list, 0 without one
    rMap,       \* the revisions that the cache knows to exist
    ptrees,     \* the revisions whose package tree is in the cache
    mu,         \* who holds sourceGateway.mu
    at,         \* where each caller stands
    call,       \* what it has called
    todo,       \* the flags that its require() has yet to see to
    then,       \* where it goes on when require() has returned
    addl,       \* the flags that initLocal gives to loadLatestVersionList
    faults,     \* whether a command or a request of the call has failed by itself
    synced,     \* whether the clone was up to date before the version list came
    calls       \* how many calls were made

cacheVars == <<vList, rMap, ptrees>>
callVars == <<at, call, todo, then, addl, faults>>
vars == <<git, upstream, clone, srcState, cacheVars, mu, callVars, synced, calls>>

Revisions == 1 .. MaxRevision
Flags == {"ExistsUpstream", "ExistsLocally", "HasLatestVersionList", "HasLatestLocally"}

\* A version is asked for by its name, or by its revision.
Calls ==
    [what : {"listVersions", "syncLocal"}, rev : {0}, named : {FALSE}, again : {FALSE}]
        \cup [what : {"sourceExists"}, rev : {0}, named : {FALSE}, again : BOOLEAN]
        \cup [what : {"revisionPresentIn"}, rev : Revisions, named : {FALSE}, again : {FALSE}]
        \cup [what : {"read", "exportVersionTo"}, rev : Revisions, named : BOOLEAN, again : {FALSE}]
NoCall == [what |-> "none", rev |-> 0, named |-> FALSE, again |-> FALSE]

Opening == [NoCall EXCEPT !.what = "newSourceGateway"]

\* newSourceGateway, which has a clone of an earlier run or asks upstream.  Until
\* it has, nobody else has the gateway: as if the caller held the mutex.
Init ==
    /\ git \in BOOLEAN
    /\ upstream \in Revisions
    /\ clone \in 0 .. upstream
    /\ srcState = IF clone = 0 THEN {} ELSE {"ExistsLocally"}
    /\ vList = 0
    /\ rMap = {}
    /\ ptrees = {}
    /\ IF clone = 0 THEN mu \in Callers ELSE mu = NoCaller
    /\ at = [c \in Callers |-> IF c = mu THEN "requiring" ELSE "idle"]
    /\ call = [c \in Callers |-> IF c = mu THEN Opening ELSE NoCall]
    /\ todo = [c \in Callers |-> IF c = mu THEN {"ExistsUpstream"} ELSE {}]
    /\ then = [c \in Callers |-> "done"]
    /\ addl = [c \in Callers |-> {}]
    /\ faults = [c \in Callers |-> FALSE]
    /\ synced = FALSE
    /\ calls = 0

\* Somebody pushes to upstream.
Push ==
    /\ upstream < MaxRevision
    /\ upstream' = upstream + 1
    /\ UNCHANGED <<git, clone, srcState, cacheVars, mu, callVars, synced, calls>>

GoTo(c, where) == at' = [at EXCEPT ![c] = where]

----------------------------------------------------------------------------
(* require().                                                              *)

Require(c, wanted, next) ==
    IF wanted \subseteq srcState
      THEN GoTo(c, next) /\ UNCHANGED <<todo, then>>
      ELSE /\ GoTo(c, "requiring")
           /\ todo' = [todo EXCEPT ![c] = wanted \ srcState]
           /\ then' = [then EXCEPT ![c] = next]

\* The flags that come before each other one, in the order of their bits.
Before ==
    [ExistsUpstream       |-> {},
     ExistsLocally        |-> {"ExistsUpstream"},
     HasLatestVersionList |-> {"ExistsUpstream", "ExistsLocally"},
     HasLatestLocally     |-> {"ExistsUpstream", "ExistsLocally", "HasLatestVersionList"}]
IsNext(c, flag) == at[c] = "requiring" /\ flag \in todo[c] /\ todo[c] \cap Before[flag] = {}

Checked(c, flags) ==
    /\ srcState' = srcState \cup flags
    /\ todo' = [todo EXCEPT ![c] = @ \ flags]
    /\ addl' = [addl EXCEPT ![c] = {}]
    /\ IF todo[c] \subseteq flags THEN GoTo(c, then[c]) ELSE GoTo(c, "requiring")

\* Nothing to do for a flag.
IsMet(c, flag) ==
    \/ flag = "ExistsLocally" /\ clone # 0
    \/ flag = "HasLatestVersionList" /\ vList # 0

SetFlag(c) ==
    /\ \E flag \in Flags : IsNext(c, flag) /\ IsMet(c, flag) /\ Checked(c, {flag})
    /\ UNCHANGED <<git, upstream, clone, cacheVars, mu, call, then, faults, synced, calls>>

\* sourceExistsUpstream, for what does not list versions to that end.
Ping(c) ==
    /\ IsNext(c, "ExistsUpstream") /\ ~git
    /\ Checked(c, {"ExistsUpstream"})
    /\ UNCHANGED <<git, upstream, clone, cacheVars, mu, call, then, faults, synced, calls>>

\* hg and bzr list the versions of a clone, and so need one.
NeedsClone(c) ==
    /\ clone = 0
    /\ IsNext(c, "ExistsLocally") \/ (~git /\ IsNext(c, "HasLatestVersionList"))

FreshClone == {"ExistsUpstream", "ExistsLocally", "HasLatestLocally"}

InitLocal(c) ==
    /\ NeedsClone(c)
    /\ clone' = upstream
    /\ IF IsNext(c, "ExistsLocally")
         THEN Checked(c, FreshClone)
         ELSE addl' = [addl EXCEPT ![c] = FreshClone] /\ UNCHANGED <<srcState, todo, at>>
    /\ UNCHANGED <<git, upstream, cacheVars, mu, call, then, faults, synced, calls>>

\* loadLatestVersionList, for the list or, for git, to see that upstream exists.
Lists(c, flag) ==
    /\ IsNext(c, flag)
    /\ \/ flag = "ExistsUpstream" /\ git
       \/ flag = "HasLatestVersionList" /\ vList = 0 /\ (git \/ clone # 0)

LoadLatestVersionList(c) ==
    /\ \E flag \in Flags : Lists(c, flag) /\ Checked(c, {flag, "HasLatestVersionList"} \cup addl[c])
    /\ vList' = IF git THEN upstream ELSE clone
    /\ rMap' = rMap \cup 1 .. vList'
    /\ synced' = ("HasLatestLocally" \in srcState)
    /\ UNCHANGED <<git, upstream, clone, ptrees, mu, call, then, faults, calls>>

UpdateLocal(c) ==
    /\ IsNext(c, "HasLatestLocally")
    /\ clone' = upstream
    /\ Checked(c, FreshClone)
    /\ UNCHANGED <<git, upstream, cacheVars, mu, call, then, faults, synced, calls>>

\* Mutant: the flag is set before the error is looked at.
RequireFailsFlagged(c) ==
    /\ at[c] = "requiring"
    /\ \E flag \in todo[c] : IsNext(c, flag) /\ ~IsMet(c, flag) /\ srcState' = srcState \cup {flag}
    /\ GoTo(c, "failed")
    /\ faults' = [faults EXCEPT ![c] = TRUE]
    /\ todo' = [todo EXCEPT ![c] = {}]
    /\ addl' = [addl EXCEPT ![c] = {}]
    /\ UNCHANGED <<git, upstream, clone, cacheVars, mu, call, then, synced, calls>>

\* A request or a command of require() fails or is cancelled; what initLocal has
\* added is dropped.
RequireFails(c) ==
    /\ at[c] = "requiring"
    /\ \E flag \in todo[c] : IsNext(c, flag) /\ ~IsMet(c, flag)
    /\ GoTo(c, "failed")
    /\ faults' = [faults EXCEPT ![c] = TRUE]
    /\ todo' = [todo EXCEPT ![c] = {}]
    /\ addl' = [addl EXCEPT ![c] = {}]
    /\ UNCHANGED <<git, upstream, clone, srcState, cacheVars, mu, call, then, synced, calls>>

----------------------------------------------------------------------------
(* The methods, with the mutex held.                                       *)

Call(c) ==
    /\ at[c] = "idle" /\ calls < MaxCalls
    /\ \E m \in Calls : ~m.again /\ call' = [call EXCEPT ![c] = m]
    /\ GoTo(c, "locking")
    /\ calls' = calls + 1
    /\ UNCHANGED <<git, upstream, clone, srcState, cacheVars, mu, todo, then, addl, faults, synced>>

\* What each method requires first, and where it goes on.
Wants ==
    [listVersions      |-> {"HasLatestVersionList"},
     syncLocal         |-> {"ExistsLocally", "HasLatestLocally"},
     sourceExists      |-> {"ExistsLocally"},
     revisionPresentIn |-> {"ExistsLocally"},
     exportVersionTo   |-> {"ExistsLocally"},
     read              |-> {}]
GoesOn(c) ==
    IF call[c].what = "revisionPresentIn" THEN "looking"
    ELSE IF call[c].what \in {"read", "exportVersionTo"} THEN "converting"
    ELSE "done"

\* Mutant: upstream is asked before the cache directory.
WantedUpstreamFirst(c) ==
    IF call[c].what = "sourceExists" THEN {"ExistsUpstream"}
    ELSE IF call[c].what = "listVersions" /\ vList # 0 THEN {}
    ELSE Wants[call[c].what]

\* SourceExists is existsInCache and, when that has failed, existsUpstream; a
\* version list that is in the cache is returned.
Wanted(c) ==
    IF call[c].again THEN {"ExistsUpstream"}
    ELSE IF call[c].what = "listVersions" /\ vList # 0 THEN {}
    ELSE Wants[call[c].what]

Lock(c) ==
    /\ at[c] = "locking" /\ mu = NoCaller
    /\ mu' = c
    /\ Require(c, Wanted(c), GoesOn(c))
    /\ UNCHANGED <<git, upstream, clone, srcState, cacheVars, call, addl, faults, synced, calls>>

\* revisionPresentIn: what the cache knows of, or what the clone has.
LookUp(c) ==
    /\ at[c] = "looking"
    /\ rMap' = rMap \cup ({call[c].rev} \cap 1 .. clone)
    /\ GoTo(c, "done")
    /\ UNCHANGED <<git, upstream, clone, srcState, vList, ptrees, mu, call, todo, then, addl,
                   faults, synced, calls>>

\* convertToRevision, and then the cache of package trees.
IsRevision(c) == ~call[c].named \/ call[c].rev <= vList

ConvertToRevision(c) ==
    /\ at[c] = "converting"
    /\ IF ~IsRevision(c)
         THEN IF "HasLatestVersionList" \in srcState
                THEN GoTo(c, "failed") /\ UNCHANGED <<todo, then>>
                ELSE Require(c, {"HasLatestVersionList"}, "converting")
         ELSE IF call[c].what = "read" /\ call[c].rev \in ptrees
                THEN GoTo(c, "done") /\ UNCHANGED <<todo, then>>
                ELSE Require(c, {"ExistsLocally"}, "reading")
    /\ UNCHANGED <<git, upstream, clone, srcState, cacheVars, mu, call, addl, faults, synced, calls>>

Reads(c) == at[c] \in {"reading", "rereading"}

Read(c) ==
    /\ Reads(c) /\ call[c].rev <= clone
    /\ IF call[c].what = "read"
         THEN ptrees' = ptrees \cup {call[c].rev} /\ rMap' = rMap \cup {call[c].rev}
         ELSE UNCHANGED <<ptrees, rMap>>
    /\ GoTo(c, "done")
    /\ UNCHANGED <<git, upstream, clone, srcState, vList, mu, call, todo, then, addl, faults,
                   synced, calls>>

\* Mutant: the revision is not looked for upstream.
RetryNothing(c) == GoTo(c, "failed") /\ UNCHANGED <<todo, then>>

\* A revision that cannot be read may be in upstream only: the clone is updated
\* once, and it is read again.
Retry(c) ==
    IF at[c] = "reading" /\ "HasLatestLocally" \notin srcState
      THEN Require(c, {"HasLatestLocally"}, "rereading")
      ELSE GoTo(c, "failed") /\ UNCHANGED <<todo, then>>

ReadFails(c) ==
    /\ Reads(c)
    /\ Retry(c)
    /\ faults' = IF call[c].rev <= clone THEN [faults EXCEPT ![c] = TRUE] ELSE faults
    /\ UNCHANGED <<git, upstream, clone, srcState, cacheVars, mu, call, addl, synced, calls>>

\* The method returns, and the mutex is given up.
Unlock(c) ==
    /\ at[c] = "done" \/ (at[c] = "failed" /\ call[c] # Opening)
    /\ mu' = NoCaller
    /\ IF at[c] = "failed" /\ call[c].what = "sourceExists" /\ ~call[c].again
         THEN GoTo(c, "locking") /\ call' = [call EXCEPT ![c].again = TRUE] /\ UNCHANGED faults
         ELSE GoTo(c, "idle") /\ call' = [call EXCEPT ![c] = NoCall] /\ faults' = [faults EXCEPT ![c] = FALSE]
    /\ UNCHANGED <<git, upstream, clone, srcState, cacheVars, todo, then, addl, synced, calls>>

\* A gateway that could not be opened is forgotten; a later call makes another.
OpenAgain(c) ==
    /\ at[c] = "failed" /\ call[c] = Opening
    /\ GoTo(c, "requiring")
    /\ todo' = [todo EXCEPT ![c] = {"ExistsUpstream"}]
    /\ faults' = [faults EXCEPT ![c] = FALSE]
    /\ UNCHANGED <<git, upstream, clone, srcState, cacheVars, mu, call, then, addl, synced, calls>>

Step(c) ==
    \/ SetFlag(c) \/ Ping(c) \/ InitLocal(c) \/ LoadLatestVersionList(c) \/ UpdateLocal(c)
    \/ RequireFails(c) \/ Lock(c) \/ LookUp(c) \/ ConvertToRevision(c)
    \/ Read(c) \/ ReadFails(c) \/ Unlock(c) \/ OpenAgain(c)

\* No more calls are made, and upstream has got to the bound.
Quiet ==
    /\ \A c \in Callers : at[c] = "idle"
    /\ calls = MaxCalls /\ upstream = MaxRevision
    /\ UNCHANGED vars

Next == Push \/ (\E c \in Callers : Call(c) \/ Step(c)) \/ Quiet

Spec == Init /\ [][Next]_vars

----------------------------------------------------------------------------
(***************************************************************************)
(* Properties                                                              *)
(***************************************************************************)
Places ==
    {"idle", "locking", "requiring", "looking", "converting", "reading", "rereading", "done", "failed"}
Outside == {"idle", "locking"}

SourceTypes ==
    /\ git \in BOOLEAN /\ synced \in BOOLEAN
    /\ upstream \in Revisions
    /\ clone \in 0 .. upstream /\ vList \in 0 .. upstream
    /\ srcState \subseteq Flags
    /\ rMap \subseteq Revisions /\ ptrees \subseteq Revisions
    /\ mu \in Callers \cup {NoCaller}
    /\ calls \in 0 .. MaxCalls
CallerTypes ==
    /\ at \in [Callers -> Places]
    /\ call \in [Callers -> Calls \cup {NoCall, Opening}]
    /\ todo \in [Callers -> SUBSET Flags]
    /\ then \in [Callers -> {"looking", "converting", "reading", "rereading", "done"}]
    /\ addl \in [Callers -> SUBSET Flags]
    /\ faults \in [Callers -> BOOLEAN]
TypeOK == SourceTypes /\ CallerTypes

\* "serializing and caching": whoever is in a method holds the mutex.
Serialized == \A c \in Callers : at[c] \notin Outside <=> mu = c

\* The flags of srcState say what is so, and what is in the cache is in the
\* clone: the list of versions, once flagged, is there, and a package tree is
\* of a revision that the clone has.
FlagsAreTrue ==
    /\ "ExistsLocally" \in srcState => clone # 0
    /\ "HasLatestLocally" \in srcState => "ExistsLocally" \in srcState
    /\ "HasLatestVersionList" \in srcState <=> vList # 0
    /\ 1 .. vList \subseteq rMap
    /\ ptrees \subseteq rMap \cap 1 .. clone

\* A gateway is opened before anything else is done with it: from then on upstream
\* is known to exist, or a clone.
OpenedFirst ==
    /\ \A c \in Callers : call[c] = Opening =>
          /\ at[c] \in {"requiring", "done", "failed"} /\ then[c] = "done"
          /\ at[c] = "requiring" => todo[c] = {"ExistsUpstream"}
          /\ IF at[c] = "done" THEN "ExistsUpstream" \in srcState ELSE srcState = {} /\ vList = 0
    /\ srcState \cap {"ExistsUpstream", "ExistsLocally"} # {} \/ \E c \in Callers : call[c] = Opening

ReadingPlaces == {"looking", "converting", "reading", "rereading"}
ReadingMethods == {"revisionPresentIn", "read", "exportVersionTo"}

\* require() has to do with what is missing, and only the opening of the gateway
\* with the existence of the source upstream: whoever asks for that later, after
\* the cache directory has failed, finds it known.
RequiresWhatIsMissing ==
    \A c \in Callers :
        /\ at[c] = "requiring" =>
              /\ todo[c] # {} /\ todo[c] \cap srcState = {}
              /\ "ExistsUpstream" \in todo[c] => call[c] = Opening
              /\ call[c].what = "sourceExists" => todo[c] = {"ExistsLocally"}
              /\ then[c] = "rereading" => "HasLatestLocally" \in todo[c] \cup srcState
              /\ then[c] # "done" => call[c].what \in ReadingMethods
        /\ at[c] \in ReadingPlaces => call[c].what \in ReadingMethods
        /\ at[c] = "rereading" => "HasLatestLocally" \in srcState
        /\ at[c] = "locking" => call[c] # NoCall
        /\ call[c].again => "ExistsUpstream" \in srcState
        /\ at[c] = "failed" /\ call[c].what = "sourceExists" => "ExistsUpstream" \in srcState
        /\ addl[c] # {} => ~git /\ clone # 0 /\ addl[c] = FreshClone

\* A clone that is up to date has what is listed, unless it was so before.
FreshEnough ==
    /\ ~git => vList <= clone
    /\ "HasLatestLocally" \in srcState /\ clone < vList => synced

GatewayInv ==
    TypeOK /\ Serialized /\ FlagsAreTrue /\ OpenedFirst /\ RequiresWhatIsMissing /\ FreshEnough

\* A read that fails although no request and no command has failed by itself is
\* of a revision that the clone does not have, although it was brought up to date.
\* With the version list at hand that can only be when the clone was brought up to
\* date before the list came: a prefetch (SyncSourceFor) and then a push.
ListedIsReadable ==
    \A c \in Callers :
        at[c] = "failed" /\ ~faults[c] /\ call[c].what \in {"read", "exportVersionTo"} =>
            /\ call[c].rev > clone \/ (call[c].rev > vList /\ call[c].named)
            /\ call[c].rev <= vList => synced /\ git

\* "Subsequent calls will return a cached version of the first call's results"
\* (source_manager.go:447): the version list, once there, is not replaced, although
\* to see whether a git repository exists upstream loads it, too.
ListStays == [][vList # 0 => vList' = vList]_vars
=============================================================================
