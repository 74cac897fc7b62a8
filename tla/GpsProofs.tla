------------------------------ MODULE GpsProofs ------------------------------
(***************************************************************************)
(* Proofs about gps, the library of dep: what a source gateway knows, how- *)
(* ever far upstream gets and however many goroutines call it; and the     *)
(* solver, whatever the projects, that what it returns is a solution and   *)
(* that its search ends.                                                   *)
(*                                                                         *)
(* Functions that call themselves are shown to exist by induction over a   *)
(* set of naturals, which has a least member: IndexInduction.              *)
(***************************************************************************)
EXTENDS GpsSolver, SourceGateway, FiniteSetTheorems, SequenceTheorems, TLAPS

-----------------------------------------------------------------------------
(* SourceGateway.                                                          *)

Inv == GatewayInv /\ ListedIsReadable

\* What is known of the records of calls.
LEMMA CallFacts ==
    /\ NoCall.what = "none" /\ NoCall.again = FALSE
    /\ Opening.what = "newSourceGateway" /\ Opening.again = FALSE
    /\ \A m \in Calls : m.what \notin {"none", "newSourceGateway"}
    /\ \A m \in Calls : Wants[m.what] \subseteq Flags \ {"ExistsUpstream"}
    /\ \A m \in Calls : m.what # "sourceExists" => m.again = FALSE
    /\ \A m \in Calls : m.what \in {"read", "exportVersionTo", "revisionPresentIn"} => m.rev \in Revisions
    /\ \A m \in Calls : m.what = "sourceExists" => [m EXCEPT !.again = TRUE] \in Calls
<1>1. NoCall.what = "none" /\ Opening.what = "newSourceGateway"
  BY DEF NoCall, Opening
<1>2. NoCall.again = FALSE /\ Opening.again = FALSE
  BY DEF NoCall, Opening
<1>3. \A m \in Calls : m.what \notin {"none", "newSourceGateway"}
  BY DEF Calls
<1>4. \A m \in Calls : m.what # "sourceExists" => m.again = FALSE
  BY DEF Calls
<1>5. \A m \in Calls : m.what \in {"read", "exportVersionTo", "revisionPresentIn"} => m.rev \in Revisions
  BY DEF Calls
<1>6. \A m \in Calls : m.what = "sourceExists" => [m EXCEPT !.again = TRUE] \in Calls
  BY DEF Calls
<1>7. \A m \in Calls : Wants[m.what] \subseteq Flags \ {"ExistsUpstream"}
  <2>1. \A m \in Calls : m.what \in {"listVersions", "syncLocal", "sourceExists", "revisionPresentIn",
                                      "read", "exportVersionTo"}
    BY DEF Calls
  <2>2. \A x \in {"listVersions", "syncLocal", "sourceExists", "revisionPresentIn", "read",
                   "exportVersionTo"} : Wants[x] \subseteq Flags \ {"ExistsUpstream"}
    BY DEF Wants, Flags
  <2> QED
    BY <2>1, <2>2
<1> QED
  BY <1>1, <1>2, <1>3, <1>4, <1>5, <1>6, <1>7

\* A new gateway has all of it.
LEMMA InitInv == Init => Inv
<1> SUFFICES ASSUME Init PROVE Inv
  OBVIOUS
<1> USE GatewayAssumption DEF Init
<1>1. SourceTypes
  <2>1. srcState \subseteq Flags
    BY DEF Flags
  <2>2. upstream \in Revisions /\ clone \in 0 .. upstream /\ 0 \in 0 .. upstream /\ 0 \in 0 .. MaxCalls
    BY DEF Revisions
  <2> QED
    BY <2>1, <2>2 DEF SourceTypes
<1>2. CallerTypes
  BY DEF CallerTypes, Places, Outside, Flags
<1>3. Serialized
  BY DEF Serialized, Outside
<1>4. FlagsAreTrue
  BY DEF FlagsAreTrue
<1>5. OpenedFirst
  BY CallFacts DEF OpenedFirst
<1>6. RequiresWhatIsMissing
  BY CallFacts DEF RequiresWhatIsMissing, ReadingPlaces
<1>7. FreshEnough
  BY DEF FreshEnough
<1>8. ListedIsReadable
  BY DEF ListedIsReadable
<1> QED
  BY <1>1, <1>2, <1>3, <1>4, <1>5, <1>6, <1>7, <1>8 DEF Inv, GatewayInv, TypeOK

----------------------------------------------------------------------------
(* The caller that takes a step holds the mutex, and the others are outside. *)

\* Nobody but the holder of the mutex is in a method.
LEMMA Holder ==
    ASSUME Inv, NEW c \in Callers, at[c] \notin Outside
    PROVE  /\ mu = c /\ \A d \in Callers : d # c => at[d] \in Outside
           /\ c # NoCaller
BY GatewayAssumption DEF Inv, GatewayInv, Serialized

\* What a step of Checked keeps: flags are only set, for what has been seen to.
LEMMA SetFlagStep ==
    ASSUME Inv, NEW c \in Callers, SetFlag(c)
    PROVE  Inv'
<1>1. PICK flag \in Flags : IsNext(c, flag) /\ IsMet(c, flag) /\ Checked(c, {flag})
  BY DEF SetFlag
<1>2. UNCHANGED <<git, upstream, clone, cacheVars, mu, call, then, faults, synced, calls>>
  BY DEF SetFlag
<1>3. at[c] = "requiring" /\ flag \in todo[c]
  BY <1>1 DEF IsNext
<1>4. mu = c /\ \A d \in Callers : d # c => at[d] \in Outside
  BY <1>3, Holder DEF Outside
<1>5. SourceTypes'
  BY <1>1, <1>2 DEF Checked, cacheVars, Inv, GatewayInv, TypeOK, SourceTypes
<1>6. CallerTypes'
  BY <1>1, <1>2 DEF Checked, GoTo, Inv, GatewayInv, TypeOK, CallerTypes, Places, Outside
<1>7. Serialized'
  BY <1>1, <1>2, <1>3, <1>4
     DEF Checked, GoTo, Inv, GatewayInv, TypeOK, CallerTypes, Serialized, Places, Outside
<1>8. FlagsAreTrue'
  BY <1>1, <1>2 DEF Checked, IsMet, cacheVars, Inv, GatewayInv, FlagsAreTrue
<1>9. OpenedFirst'
  BY <1>1, <1>2, <1>3, <1>4
     DEF Checked, GoTo, IsMet, cacheVars, Inv, GatewayInv, TypeOK, CallerTypes, OpenedFirst, Outside
<1>10. RequiresWhatIsMissing'
  BY <1>1, <1>2, <1>3, <1>4
     DEF Checked, GoTo, Inv, GatewayInv, TypeOK, CallerTypes, RequiresWhatIsMissing, Outside,
         ReadingPlaces, ReadingMethods
<1>11. FreshEnough'
  BY <1>1, <1>2 DEF Checked, IsMet, cacheVars, Inv, GatewayInv, FreshEnough
<1>12. ListedIsReadable'
  BY <1>1, <1>2, <1>4
     DEF Checked, GoTo, cacheVars, Inv, TypeOK, GatewayInv, CallerTypes, ListedIsReadable,
         Outside, Places
<1> QED
  BY <1>5, <1>6, <1>7, <1>8, <1>9, <1>10, <1>11, <1>12 DEF Inv, GatewayInv, TypeOK

\* A source that answers exists upstream.
LEMMA PingStep ==
    ASSUME Inv, NEW c \in Callers, Ping(c)
    PROVE  Inv'
<1>1. at[c] = "requiring"
  BY DEF Ping, IsNext
<1>2. mu = c /\ c # NoCaller /\ \A d \in Callers : d # c => at[d] \in Outside
  BY <1>1, Holder DEF Outside
<1>3. Revisions \subseteq Nat /\ 1 .. upstream \subseteq Revisions /\ 1 .. clone \subseteq 1 .. upstream
  BY GatewayAssumption DEF Revisions, Inv, GatewayInv, TypeOK, SourceTypes
<1>4. FreshClone \subseteq Flags
  BY DEF FreshClone, Flags
<1>5. SourceTypes'
  BY <1>1, <1>2, <1>3, <1>4, GatewayAssumption, CallFacts
     DEF Ping, IsNext, Checked, GoTo, cacheVars, Inv, GatewayInv, TypeOK, SourceTypes,
         CallerTypes, Revisions, Flags
<1>6. CallerTypes'
  BY <1>1, <1>2, <1>3, <1>4, GatewayAssumption, CallFacts
     DEF Ping, IsNext, Checked, GoTo, cacheVars, Inv, GatewayInv, TypeOK, SourceTypes,
         CallerTypes, Places, Outside, Flags
<1>7. Serialized'
  BY <1>1, <1>2, <1>3, <1>4, GatewayAssumption, CallFacts
     DEF Ping, IsNext, Checked, GoTo, cacheVars, Inv, GatewayInv, TypeOK, SourceTypes,
         CallerTypes, Serialized, Outside
<1>8. FlagsAreTrue'
  BY <1>1, <1>2, <1>3, <1>4, GatewayAssumption, CallFacts
     DEF Ping, IsNext, Checked, GoTo, cacheVars, Inv, GatewayInv, TypeOK, SourceTypes,
         CallerTypes, FlagsAreTrue, Revisions
<1>9. OpenedFirst'
  BY <1>1, <1>2, <1>3, <1>4, GatewayAssumption, CallFacts
     DEF Ping, IsNext, Checked, GoTo, cacheVars, Inv, GatewayInv, TypeOK, SourceTypes,
         CallerTypes, OpenedFirst, Outside, RequiresWhatIsMissing, ReadingPlaces
<1>10. RequiresWhatIsMissing'
  BY <1>1, <1>2, <1>3, <1>4, GatewayAssumption, CallFacts
     DEF Ping, IsNext, Checked, GoTo, cacheVars, Inv, GatewayInv, TypeOK, SourceTypes,
         CallerTypes, RequiresWhatIsMissing, Outside, OpenedFirst, ReadingPlaces, ReadingMethods
<1>11. FreshEnough'
  BY <1>1, <1>2, <1>3, <1>4, GatewayAssumption, CallFacts
     DEF Ping, IsNext, Checked, GoTo, cacheVars, Inv, GatewayInv, TypeOK, SourceTypes,
         CallerTypes, FreshEnough, Revisions
<1>12. ListedIsReadable'
  BY <1>1, <1>2, <1>3, <1>4, GatewayAssumption, CallFacts
     DEF Ping, IsNext, Checked, GoTo, cacheVars, Inv, GatewayInv, TypeOK, SourceTypes,
         CallerTypes, ListedIsReadable, Outside, Revisions, RequiresWhatIsMissing, FreshEnough
<1> QED
  BY <1>5, <1>6, <1>7, <1>8, <1>9, <1>10, <1>11, <1>12 DEF Inv, GatewayInv, TypeOK

\* A clone has all that upstream has.
LEMMA InitLocalStep ==
    ASSUME Inv, NEW c \in Callers, InitLocal(c)
    PROVE  Inv'
<1>1. at[c] = "requiring"
  BY DEF InitLocal, IsNext, NeedsClone
<1>2. mu = c /\ c # NoCaller /\ \A d \in Callers : d # c => at[d] \in Outside
  BY <1>1, Holder DEF Outside
<1>3. Revisions \subseteq Nat /\ 1 .. upstream \subseteq Revisions /\ 1 .. clone \subseteq 1 .. upstream
  BY GatewayAssumption DEF Revisions, Inv, GatewayInv, TypeOK, SourceTypes
<1>4. FreshClone \subseteq Flags
  BY DEF FreshClone, Flags
<1>5. SourceTypes'
  BY <1>1, <1>2, <1>3, <1>4, GatewayAssumption, CallFacts
     DEF InitLocal, IsNext, NeedsClone, Checked, GoTo, FreshClone, cacheVars, Inv, GatewayInv,
         TypeOK, SourceTypes, CallerTypes, Revisions, Flags
<1>6. CallerTypes'
  BY <1>1, <1>2, <1>3, <1>4, GatewayAssumption, CallFacts
     DEF InitLocal, IsNext, NeedsClone, Checked, GoTo, FreshClone, cacheVars, Inv, GatewayInv,
         TypeOK, SourceTypes, CallerTypes, Places, Outside, Flags
<1>7. Serialized'
  BY <1>1, <1>2, <1>3, <1>4, GatewayAssumption, CallFacts
     DEF InitLocal, IsNext, NeedsClone, Checked, GoTo, FreshClone, cacheVars, Inv, GatewayInv,
         TypeOK, SourceTypes, CallerTypes, Serialized, Outside
<1>8. FlagsAreTrue'
  BY <1>1, <1>2, <1>3, <1>4, GatewayAssumption, CallFacts
     DEF InitLocal, IsNext, NeedsClone, Checked, GoTo, FreshClone, cacheVars, Inv, GatewayInv,
         TypeOK, SourceTypes, CallerTypes, FlagsAreTrue, Revisions
<1>9. OpenedFirst'
  BY <1>1, <1>2, <1>3, <1>4, GatewayAssumption, CallFacts
     DEF InitLocal, IsNext, NeedsClone, Checked, GoTo, FreshClone, cacheVars, Inv, GatewayInv,
         TypeOK, SourceTypes, CallerTypes, OpenedFirst, Outside, RequiresWhatIsMissing,
         ReadingPlaces
<1>10. RequiresWhatIsMissing'
  <2>1. CASE IsNext(c, "ExistsLocally")
    <3>1. Checked(c, FreshClone)
      BY <2>1 DEF InitLocal
    <3> QED
      BY <1>1, <1>2, <1>4, <2>1, <3>1, CallFacts
         DEF InitLocal, IsNext, Checked, GoTo, FreshClone, Inv, GatewayInv, TypeOK, CallerTypes,
             SourceTypes,
             RequiresWhatIsMissing, Outside, OpenedFirst, ReadingPlaces, ReadingMethods, Revisions
  <2>2. CASE ~IsNext(c, "ExistsLocally")
    <3>1. addl' = [addl EXCEPT ![c] = FreshClone] /\ UNCHANGED <<srcState, todo, at>>
      BY <2>2 DEF InitLocal
    <3>2. ~git /\ clone' # 0
      BY <2>2, GatewayAssumption
         DEF InitLocal, NeedsClone, Inv, GatewayInv, TypeOK, SourceTypes, Revisions
    <3> QED
      BY <1>2, <3>1, <3>2
         DEF InitLocal, Inv, GatewayInv, TypeOK, CallerTypes, RequiresWhatIsMissing
  <2> QED
    BY <2>1, <2>2
<1>11. FreshEnough'
  BY <1>1, <1>2, <1>3, <1>4, GatewayAssumption, CallFacts
     DEF InitLocal, IsNext, NeedsClone, Checked, GoTo, FreshClone, cacheVars, Inv, GatewayInv,
         TypeOK, SourceTypes, CallerTypes, FreshEnough, Revisions
<1>12. ListedIsReadable'
  BY <1>1, <1>2, <1>3, <1>4, GatewayAssumption, CallFacts
     DEF InitLocal, IsNext, NeedsClone, Checked, GoTo, FreshClone, cacheVars, Inv, GatewayInv,
         TypeOK, SourceTypes, CallerTypes, ListedIsReadable, Outside, Revisions,
         RequiresWhatIsMissing, FreshEnough
<1> QED
  BY <1>5, <1>6, <1>7, <1>8, <1>9, <1>10, <1>11, <1>12 DEF Inv, GatewayInv, TypeOK

\* The version list comes once.
LEMMA LoadLatestVersionListStep ==
    ASSUME Inv, NEW c \in Callers, LoadLatestVersionList(c)
    PROVE  Inv'
<1>1. at[c] = "requiring"
  BY DEF LoadLatestVersionList, IsNext, Lists
<1>2. mu = c /\ c # NoCaller /\ \A d \in Callers : d # c => at[d] \in Outside
  BY <1>1, Holder DEF Outside
<1>3. Revisions \subseteq Nat /\ 1 .. upstream \subseteq Revisions /\ 1 .. clone \subseteq 1 .. upstream
  BY GatewayAssumption DEF Revisions, Inv, GatewayInv, TypeOK, SourceTypes
<1>4. FreshClone \subseteq Flags
  BY DEF FreshClone, Flags
<1>5. SourceTypes'
  BY <1>1, <1>2, <1>3, <1>4, GatewayAssumption, CallFacts
     DEF LoadLatestVersionList, IsNext, Lists, Checked, GoTo, FreshClone, cacheVars, Inv,
         GatewayInv, TypeOK, SourceTypes, CallerTypes, Revisions, Flags
<1>6. CallerTypes'
  BY <1>1, <1>2, <1>3, <1>4, GatewayAssumption, CallFacts
     DEF LoadLatestVersionList, IsNext, Lists, Checked, GoTo, FreshClone, cacheVars, Inv,
         GatewayInv, TypeOK, SourceTypes, CallerTypes, Places, Outside, Flags
<1>7. Serialized'
  BY <1>1, <1>2, <1>3, <1>4, GatewayAssumption, CallFacts
     DEF LoadLatestVersionList, IsNext, Lists, Checked, GoTo, FreshClone, cacheVars, Inv,
         GatewayInv, TypeOK, SourceTypes, CallerTypes, Serialized, Outside
<1>8. FlagsAreTrue'
  <2>1. PICK flag \in Flags : Lists(c, flag) /\ Checked(c, {flag, "HasLatestVersionList"} \cup addl[c])
    BY DEF LoadLatestVersionList
  <2>2. srcState' = srcState \cup {flag, "HasLatestVersionList"} \cup addl[c]
    BY <2>1 DEF Checked
  <2>3. flag \in {"ExistsUpstream", "HasLatestVersionList"}
    BY <2>1 DEF Lists
  <2>4. vList' # 0
    BY <2>1, <1>3 DEF LoadLatestVersionList, Lists, Inv, GatewayInv, TypeOK, SourceTypes, Revisions
  <2>5. "ExistsLocally" \in srcState' => clone # 0
    BY <2>2, <2>3 DEF Inv, GatewayInv, FlagsAreTrue, RequiresWhatIsMissing
  <2>6. "HasLatestLocally" \in srcState' => "ExistsLocally" \in srcState'
    BY <2>2, <2>3 DEF Inv, GatewayInv, FlagsAreTrue, RequiresWhatIsMissing, FreshClone
  <2> QED
    BY <2>2, <2>4, <2>5, <2>6 DEF LoadLatestVersionList, Inv, GatewayInv, FlagsAreTrue
<1>9. OpenedFirst'
  BY <1>1, <1>2, <1>3, <1>4, GatewayAssumption, CallFacts
     DEF LoadLatestVersionList, IsNext, Lists, Checked, GoTo, FreshClone, cacheVars, Inv,
         GatewayInv, TypeOK, SourceTypes, CallerTypes, OpenedFirst, Outside,
         RequiresWhatIsMissing, ReadingPlaces
<1>10. RequiresWhatIsMissing'
  BY <1>1, <1>2, <1>3, <1>4, GatewayAssumption, CallFacts
     DEF LoadLatestVersionList, IsNext, Lists, Checked, GoTo, FreshClone, cacheVars, Inv,
         GatewayInv, TypeOK, SourceTypes, CallerTypes, RequiresWhatIsMissing, Outside,
         OpenedFirst, ReadingPlaces, ReadingMethods
<1>11. FreshEnough'
  <2>1. CASE git
    <3>1. addl[c] = {}
      BY <2>1 DEF Inv, GatewayInv, RequiresWhatIsMissing
    <3>2. "HasLatestLocally" \in srcState' => "HasLatestLocally" \in srcState
      BY <3>1 DEF LoadLatestVersionList, Lists, Checked
    <3> QED
      BY <2>1, <3>2 DEF LoadLatestVersionList, FreshEnough
  <2>2. CASE ~git
    <3>1. vList' = clone /\ clone' = clone
      BY <2>2 DEF LoadLatestVersionList
    <3> QED
      BY <2>2, <3>1, <1>3
         DEF LoadLatestVersionList, FreshEnough, Inv, GatewayInv, TypeOK, SourceTypes, Revisions
  <2> QED
    BY <2>1, <2>2
<1>12. ListedIsReadable'
  BY <1>1, <1>2, <1>3, <1>4, GatewayAssumption, CallFacts
     DEF LoadLatestVersionList, IsNext, Lists, Checked, GoTo, FreshClone, cacheVars, Inv,
         GatewayInv, TypeOK, SourceTypes, CallerTypes, ListedIsReadable, Outside, Revisions,
         RequiresWhatIsMissing, FreshEnough
<1> QED
  BY <1>5, <1>6, <1>7, <1>8, <1>9, <1>10, <1>11, <1>12 DEF Inv, GatewayInv, TypeOK

\* The clone is brought up to date.
LEMMA UpdateLocalStep ==
    ASSUME Inv, NEW c \in Callers, UpdateLocal(c)
    PROVE  Inv'
<1>1. at[c] = "requiring"
  BY DEF UpdateLocal, IsNext
<1>2. mu = c /\ c # NoCaller /\ \A d \in Callers : d # c => at[d] \in Outside
  BY <1>1, Holder DEF Outside
<1>3. Revisions \subseteq Nat /\ 1 .. upstream \subseteq Revisions /\ 1 .. clone \subseteq 1 .. upstream
  BY GatewayAssumption DEF Revisions, Inv, GatewayInv, TypeOK, SourceTypes
<1>4. FreshClone \subseteq Flags
  BY DEF FreshClone, Flags
<1>5. SourceTypes'
  BY <1>1, <1>2, <1>3, <1>4, GatewayAssumption, CallFacts
     DEF UpdateLocal, IsNext, Checked, GoTo, FreshClone, Before, cacheVars, Inv, GatewayInv,
         TypeOK, SourceTypes, CallerTypes, Revisions, Flags
<1>6. CallerTypes'
  BY <1>1, <1>2, <1>3, <1>4, GatewayAssumption, CallFacts
     DEF UpdateLocal, IsNext, Checked, GoTo, FreshClone, Before, cacheVars, Inv, GatewayInv,
         TypeOK, SourceTypes, CallerTypes, Places, Outside, Flags
<1>7. Serialized'
  BY <1>1, <1>2, <1>3, <1>4, GatewayAssumption, CallFacts
     DEF UpdateLocal, IsNext, Checked, GoTo, FreshClone, Before, cacheVars, Inv, GatewayInv,
         TypeOK, SourceTypes, CallerTypes, Serialized, Outside
<1>8. FlagsAreTrue'
  BY <1>1, <1>2, <1>3, <1>4, GatewayAssumption, CallFacts
     DEF UpdateLocal, IsNext, Checked, GoTo, FreshClone, Before, cacheVars, Inv, GatewayInv,
         TypeOK, SourceTypes, CallerTypes, FlagsAreTrue, Revisions
<1>9. OpenedFirst'
  BY <1>1, <1>2, <1>3, <1>4, GatewayAssumption, CallFacts
     DEF UpdateLocal, IsNext, Checked, GoTo, FreshClone, Before, cacheVars, Inv, GatewayInv,
         TypeOK, SourceTypes, CallerTypes, OpenedFirst, Outside, RequiresWhatIsMissing,
         ReadingPlaces
<1>10. RequiresWhatIsMissing'
  BY <1>1, <1>2, <1>3, <1>4, GatewayAssumption, CallFacts
     DEF UpdateLocal, IsNext, Checked, GoTo, FreshClone, Before, cacheVars, Inv, GatewayInv,
         TypeOK, SourceTypes, CallerTypes, RequiresWhatIsMissing, Outside, OpenedFirst,
         ReadingPlaces, ReadingMethods
<1>11. FreshEnough'
  BY <1>1, <1>2, <1>3, <1>4, GatewayAssumption, CallFacts
     DEF UpdateLocal, IsNext, Checked, GoTo, FreshClone, Before, cacheVars, Inv, GatewayInv,
         TypeOK, SourceTypes, CallerTypes, FreshEnough, Revisions
<1>12. ListedIsReadable'
  BY <1>1, <1>2, <1>3, <1>4, GatewayAssumption, CallFacts
     DEF UpdateLocal, IsNext, Checked, GoTo, FreshClone, Before, cacheVars, Inv, GatewayInv,
         TypeOK, SourceTypes, CallerTypes, ListedIsReadable, Outside, Revisions,
         RequiresWhatIsMissing, FreshEnough
<1> QED
  BY <1>5, <1>6, <1>7, <1>8, <1>9, <1>10, <1>11, <1>12 DEF Inv, GatewayInv, TypeOK

\* Nothing is flagged by a failure.
LEMMA RequireFailsStep ==
    ASSUME Inv, NEW c \in Callers, RequireFails(c)
    PROVE  Inv'
<1>1. at[c] = "requiring"
  BY DEF RequireFails, GoTo
<1>2. mu = c /\ c # NoCaller /\ \A d \in Callers : d # c => at[d] \in Outside
  BY <1>1, Holder DEF Outside
<1>3. Revisions \subseteq Nat /\ 1 .. upstream \subseteq Revisions /\ 1 .. clone \subseteq 1 .. upstream
  BY GatewayAssumption DEF Revisions, Inv, GatewayInv, TypeOK, SourceTypes
<1>4. FreshClone \subseteq Flags
  BY DEF FreshClone, Flags
<1>5. SourceTypes'
  BY <1>1, <1>2, <1>3, <1>4, GatewayAssumption, CallFacts
     DEF RequireFails, GoTo, cacheVars, Inv, GatewayInv, TypeOK, SourceTypes, CallerTypes,
         Revisions, Flags
<1>6. CallerTypes'
  BY <1>1, <1>2, <1>3, <1>4, GatewayAssumption, CallFacts
     DEF RequireFails, GoTo, cacheVars, Inv, GatewayInv, TypeOK, SourceTypes, CallerTypes,
         Places, Outside, Flags
<1>7. Serialized'
  BY <1>1, <1>2, <1>3, <1>4, GatewayAssumption, CallFacts
     DEF RequireFails, GoTo, cacheVars, Inv, GatewayInv, TypeOK, SourceTypes, CallerTypes,
         Serialized, Outside
<1>8. FlagsAreTrue'
  BY <1>1, <1>2, <1>3, <1>4, GatewayAssumption, CallFacts
     DEF RequireFails, GoTo, cacheVars, Inv, GatewayInv, TypeOK, SourceTypes, CallerTypes,
         FlagsAreTrue, Revisions
<1>9. OpenedFirst'
  BY <1>1, <1>2, <1>3, <1>4, GatewayAssumption, CallFacts
     DEF RequireFails, GoTo, cacheVars, Inv, GatewayInv, TypeOK, SourceTypes, CallerTypes,
         OpenedFirst, Outside, RequiresWhatIsMissing, ReadingPlaces
<1>10. RequiresWhatIsMissing'
  BY <1>1, <1>2, <1>3, <1>4, GatewayAssumption, CallFacts
     DEF RequireFails, GoTo, cacheVars, Inv, GatewayInv, TypeOK, SourceTypes, CallerTypes,
         RequiresWhatIsMissing, Outside, OpenedFirst, ReadingPlaces, ReadingMethods
<1>11. FreshEnough'
  BY <1>1, <1>2, <1>3, <1>4, GatewayAssumption, CallFacts
     DEF RequireFails, GoTo, cacheVars, Inv, GatewayInv, TypeOK, SourceTypes, CallerTypes,
         FreshEnough, Revisions
<1>12. ListedIsReadable'
  BY <1>1, <1>2, <1>3, <1>4, GatewayAssumption, CallFacts
     DEF RequireFails, GoTo, cacheVars, Inv, GatewayInv, TypeOK, SourceTypes, CallerTypes,
         ListedIsReadable, Outside, Revisions, RequiresWhatIsMissing, FreshEnough
<1> QED
  BY <1>5, <1>6, <1>7, <1>8, <1>9, <1>10, <1>11, <1>12 DEF Inv, GatewayInv, TypeOK

\* A revision is looked up.
LEMMA LookUpStep ==
    ASSUME Inv, NEW c \in Callers, LookUp(c)
    PROVE  Inv'
<1>1. at[c] = "looking"
  BY DEF LookUp, GoTo
<1>2. mu = c /\ c # NoCaller /\ \A d \in Callers : d # c => at[d] \in Outside
  BY <1>1, Holder DEF Outside
<1>3. Revisions \subseteq Nat /\ 1 .. upstream \subseteq Revisions /\ 1 .. clone \subseteq 1 .. upstream
  BY GatewayAssumption DEF Revisions, Inv, GatewayInv, TypeOK, SourceTypes
<1>4. FreshClone \subseteq Flags
  BY DEF FreshClone, Flags
<1>5. SourceTypes'
  BY <1>1, <1>2, <1>3, <1>4, GatewayAssumption, CallFacts
     DEF LookUp, GoTo, cacheVars, Inv, GatewayInv, TypeOK, SourceTypes, CallerTypes, Revisions,
         Flags
<1>6. CallerTypes'
  BY <1>1, <1>2, <1>3, <1>4, GatewayAssumption, CallFacts
     DEF LookUp, GoTo, cacheVars, Inv, GatewayInv, TypeOK, SourceTypes, CallerTypes, Places,
         Outside, Flags
<1>7. Serialized'
  BY <1>1, <1>2, <1>3, <1>4, GatewayAssumption, CallFacts
     DEF LookUp, GoTo, cacheVars, Inv, GatewayInv, TypeOK, SourceTypes, CallerTypes, Serialized,
         Outside
<1>8. FlagsAreTrue'
  BY <1>1, <1>2, <1>3, <1>4, GatewayAssumption, CallFacts
     DEF LookUp, GoTo, cacheVars, Inv, GatewayInv, TypeOK, SourceTypes, CallerTypes,
         FlagsAreTrue, Revisions
<1>9. OpenedFirst'
  BY <1>1, <1>2, <1>3, <1>4, GatewayAssumption, CallFacts
     DEF LookUp, GoTo, cacheVars, Inv, GatewayInv, TypeOK, SourceTypes, CallerTypes, OpenedFirst,
         Outside, RequiresWhatIsMissing, ReadingPlaces
<1>10. RequiresWhatIsMissing'
  BY <1>1, <1>2, <1>3, <1>4, GatewayAssumption, CallFacts
     DEF LookUp, GoTo, cacheVars, Inv, GatewayInv, TypeOK, SourceTypes, CallerTypes,
         RequiresWhatIsMissing, Outside, OpenedFirst, ReadingPlaces, ReadingMethods
<1>11. FreshEnough'
  BY <1>1, <1>2, <1>3, <1>4, GatewayAssumption, CallFacts
     DEF LookUp, GoTo, cacheVars, Inv, GatewayInv, TypeOK, SourceTypes, CallerTypes, FreshEnough,
         Revisions
<1>12. ListedIsReadable'
  BY <1>1, <1>2, <1>3, <1>4, GatewayAssumption, CallFacts
     DEF LookUp, GoTo, cacheVars, Inv, GatewayInv, TypeOK, SourceTypes, CallerTypes,
         ListedIsReadable, Outside, Revisions, RequiresWhatIsMissing, FreshEnough
<1> QED
  BY <1>5, <1>6, <1>7, <1>8, <1>9, <1>10, <1>11, <1>12 DEF Inv, GatewayInv, TypeOK

\* A version becomes a revision, and what it takes to read it is required.
LEMMA ConvertToRevisionStep ==
    ASSUME Inv, NEW c \in Callers, ConvertToRevision(c)
    PROVE  Inv'
<1>1. at[c] = "converting"
  BY DEF ConvertToRevision, GoTo
<1>2. mu = c /\ c # NoCaller /\ \A d \in Callers : d # c => at[d] \in Outside
  BY <1>1, Holder DEF Outside
<1>3. Revisions \subseteq Nat /\ 1 .. upstream \subseteq Revisions /\ 1 .. clone \subseteq 1 .. upstream
  BY GatewayAssumption DEF Revisions, Inv, GatewayInv, TypeOK, SourceTypes
<1>4. FreshClone \subseteq Flags
  BY DEF FreshClone, Flags
<1>5. SourceTypes'
  BY <1>1, <1>2, <1>3, <1>4, GatewayAssumption, CallFacts
     DEF ConvertToRevision, Require, IsRevision, GoTo, cacheVars, Inv, GatewayInv, TypeOK,
         SourceTypes, CallerTypes, Revisions, Flags
<1>6. CallerTypes'
  BY <1>1, <1>2, <1>3, <1>4, GatewayAssumption, CallFacts
     DEF ConvertToRevision, Require, IsRevision, GoTo, cacheVars, Inv, GatewayInv, TypeOK,
         SourceTypes, CallerTypes, Places, Outside, Flags
<1>7. Serialized'
  BY <1>1, <1>2, <1>3, <1>4, GatewayAssumption, CallFacts
     DEF ConvertToRevision, Require, IsRevision, GoTo, cacheVars, Inv, GatewayInv, TypeOK,
         SourceTypes, CallerTypes, Serialized, Outside
<1>8. FlagsAreTrue'
  BY <1>1, <1>2, <1>3, <1>4, GatewayAssumption, CallFacts
     DEF ConvertToRevision, Require, IsRevision, GoTo, cacheVars, Inv, GatewayInv, TypeOK,
         SourceTypes, CallerTypes, FlagsAreTrue, Revisions
<1>9. OpenedFirst'
  BY <1>1, <1>2, <1>3, <1>4, GatewayAssumption, CallFacts
     DEF ConvertToRevision, Require, IsRevision, GoTo, cacheVars, Inv, GatewayInv, TypeOK,
         SourceTypes, CallerTypes, OpenedFirst, Outside, RequiresWhatIsMissing, ReadingPlaces
<1>10. RequiresWhatIsMissing'
  BY <1>1, <1>2, <1>3, <1>4, GatewayAssumption, CallFacts
     DEF ConvertToRevision, Require, IsRevision, GoTo, cacheVars, Inv, GatewayInv, TypeOK,
         SourceTypes, CallerTypes, RequiresWhatIsMissing, Outside, OpenedFirst, ReadingPlaces,
         ReadingMethods
<1>11. FreshEnough'
  BY <1>1, <1>2, <1>3, <1>4, GatewayAssumption, CallFacts
     DEF ConvertToRevision, Require, IsRevision, GoTo, cacheVars, Inv, GatewayInv, TypeOK,
         SourceTypes, CallerTypes, FreshEnough, Revisions
<1>12. ListedIsReadable'
  BY <1>1, <1>2, <1>3, <1>4, GatewayAssumption, CallFacts
     DEF ConvertToRevision, Require, IsRevision, GoTo, cacheVars, Inv, GatewayInv, TypeOK,
         SourceTypes, CallerTypes, ListedIsReadable, Outside, Revisions, RequiresWhatIsMissing,
         FreshEnough
<1> QED
  BY <1>5, <1>6, <1>7, <1>8, <1>9, <1>10, <1>11, <1>12 DEF Inv, GatewayInv, TypeOK

\* What is read is in the clone.
LEMMA ReadStep ==
    ASSUME Inv, NEW c \in Callers, Read(c)
    PROVE  Inv'
<1>1. at[c] \in {"reading", "rereading"}
  BY DEF Read, Reads
<1>2. mu = c /\ c # NoCaller /\ \A d \in Callers : d # c => at[d] \in Outside
  BY <1>1, Holder DEF Outside
<1>3. Revisions \subseteq Nat /\ 1 .. upstream \subseteq Revisions /\ 1 .. clone \subseteq 1 .. upstream
  BY GatewayAssumption DEF Revisions, Inv, GatewayInv, TypeOK, SourceTypes
<1>4. FreshClone \subseteq Flags
  BY DEF FreshClone, Flags
<1>5. SourceTypes'
  BY <1>1, <1>2, <1>3, <1>4, GatewayAssumption, CallFacts
     DEF Read, Reads, GoTo, cacheVars, Inv, GatewayInv, TypeOK, SourceTypes, CallerTypes,
         Revisions, Flags
<1>6. CallerTypes'
  BY <1>1, <1>2, <1>3, <1>4, GatewayAssumption, CallFacts
     DEF Read, Reads, GoTo, cacheVars, Inv, GatewayInv, TypeOK, SourceTypes, CallerTypes, Places,
         Outside, Flags
<1>7. Serialized'
  BY <1>1, <1>2, <1>3, <1>4, GatewayAssumption, CallFacts
     DEF Read, Reads, GoTo, cacheVars, Inv, GatewayInv, TypeOK, SourceTypes, CallerTypes,
         Serialized, Outside
<1>8. FlagsAreTrue'
  BY <1>1, <1>2, <1>3, <1>4, GatewayAssumption, CallFacts
     DEF Read, Reads, GoTo, cacheVars, Inv, GatewayInv, TypeOK, SourceTypes, CallerTypes,
         FlagsAreTrue, Revisions
<1>9. OpenedFirst'
  BY <1>1, <1>2, <1>3, <1>4, GatewayAssumption, CallFacts
     DEF Read, Reads, GoTo, cacheVars, Inv, GatewayInv, TypeOK, SourceTypes, CallerTypes,
         OpenedFirst, Outside, RequiresWhatIsMissing, ReadingPlaces
<1>10. RequiresWhatIsMissing'
  BY <1>1, <1>2, <1>3, <1>4, GatewayAssumption, CallFacts
     DEF Read, Reads, GoTo, cacheVars, Inv, GatewayInv, TypeOK, SourceTypes, CallerTypes,
         RequiresWhatIsMissing, Outside, OpenedFirst, ReadingPlaces, ReadingMethods
<1>11. FreshEnough'
  BY <1>1, <1>2, <1>3, <1>4, GatewayAssumption, CallFacts
     DEF Read, Reads, GoTo, cacheVars, Inv, GatewayInv, TypeOK, SourceTypes, CallerTypes,
         FreshEnough, Revisions
<1>12. ListedIsReadable'
  BY <1>1, <1>2, <1>3, <1>4, GatewayAssumption, CallFacts
     DEF Read, Reads, GoTo, cacheVars, Inv, GatewayInv, TypeOK, SourceTypes, CallerTypes,
         ListedIsReadable, Outside, Revisions, RequiresWhatIsMissing, FreshEnough
<1> QED
  BY <1>5, <1>6, <1>7, <1>8, <1>9, <1>10, <1>11, <1>12 DEF Inv, GatewayInv, TypeOK

\* What cannot be read is looked for upstream, once.
LEMMA ReadFailsStep ==
    ASSUME Inv, NEW c \in Callers, ReadFails(c)
    PROVE  Inv'
<1>1. at[c] \in {"reading", "rereading"}
  BY DEF ReadFails, Reads
<1>2. mu = c /\ c # NoCaller /\ \A d \in Callers : d # c => at[d] \in Outside
  BY <1>1, Holder DEF Outside
<1>3. Revisions \subseteq Nat /\ 1 .. upstream \subseteq Revisions /\ 1 .. clone \subseteq 1 .. upstream
  BY GatewayAssumption DEF Revisions, Inv, GatewayInv, TypeOK, SourceTypes
<1>4. FreshClone \subseteq Flags
  BY DEF FreshClone, Flags
<1>5. SourceTypes'
  BY <1>1, <1>2, <1>3, <1>4, GatewayAssumption, CallFacts
     DEF ReadFails, Reads, Retry, Require, GoTo, cacheVars, Inv, GatewayInv, TypeOK, SourceTypes,
         CallerTypes, Revisions, Flags
<1>6. CallerTypes'
  BY <1>1, <1>2, <1>3, <1>4, GatewayAssumption, CallFacts
     DEF ReadFails, Reads, Retry, Require, GoTo, cacheVars, Inv, GatewayInv, TypeOK, SourceTypes,
         CallerTypes, Places, Outside, Flags
<1>7. Serialized'
  BY <1>1, <1>2, <1>3, <1>4, GatewayAssumption, CallFacts
     DEF ReadFails, Reads, Retry, Require, GoTo, cacheVars, Inv, GatewayInv, TypeOK, SourceTypes,
         CallerTypes, Serialized, Outside
<1>8. FlagsAreTrue'
  BY <1>1, <1>2, <1>3, <1>4, GatewayAssumption, CallFacts
     DEF ReadFails, Reads, Retry, Require, GoTo, cacheVars, Inv, GatewayInv, TypeOK, SourceTypes,
         CallerTypes, FlagsAreTrue, Revisions
<1>9. OpenedFirst'
  BY <1>1, <1>2, <1>3, <1>4, GatewayAssumption, CallFacts
     DEF ReadFails, Reads, Retry, Require, GoTo, cacheVars, Inv, GatewayInv, TypeOK, SourceTypes,
         CallerTypes, OpenedFirst, Outside, RequiresWhatIsMissing, ReadingPlaces
<1>10. RequiresWhatIsMissing'
  BY <1>1, <1>2, <1>3, <1>4, GatewayAssumption, CallFacts
     DEF ReadFails, Reads, Retry, Require, GoTo, cacheVars, Inv, GatewayInv, TypeOK, SourceTypes,
         CallerTypes, RequiresWhatIsMissing, Outside, OpenedFirst, ReadingPlaces, ReadingMethods
<1>11. FreshEnough'
  BY <1>1, <1>2, <1>3, <1>4, GatewayAssumption, CallFacts
     DEF ReadFails, Reads, Retry, Require, GoTo, cacheVars, Inv, GatewayInv, TypeOK, SourceTypes,
         CallerTypes, FreshEnough, Revisions
<1>12. ListedIsReadable'
  BY <1>1, <1>2, <1>3, <1>4, GatewayAssumption, CallFacts
     DEF ReadFails, Reads, Retry, Require, GoTo, cacheVars, Inv, GatewayInv, TypeOK, SourceTypes,
         CallerTypes, ListedIsReadable, Outside, Revisions, RequiresWhatIsMissing, FreshEnough
<1> QED
  BY <1>5, <1>6, <1>7, <1>8, <1>9, <1>10, <1>11, <1>12 DEF Inv, GatewayInv, TypeOK

\* The mutex is given up.
LEMMA UnlockStep ==
    ASSUME Inv, NEW c \in Callers, Unlock(c)
    PROVE  Inv'
<1>1. at[c] \in {"done", "failed"}
  BY DEF Unlock, GoTo
<1>2. mu = c /\ c # NoCaller /\ \A d \in Callers : d # c => at[d] \in Outside
  BY <1>1, Holder DEF Outside
<1>3. Revisions \subseteq Nat /\ 1 .. upstream \subseteq Revisions /\ 1 .. clone \subseteq 1 .. upstream
  BY GatewayAssumption DEF Revisions, Inv, GatewayInv, TypeOK, SourceTypes
<1>4. FreshClone \subseteq Flags
  BY DEF FreshClone, Flags
<1>5. SourceTypes'
  BY <1>1, <1>2, <1>3, <1>4, GatewayAssumption, CallFacts
     DEF Unlock, GoTo, cacheVars, Inv, GatewayInv, TypeOK, SourceTypes, CallerTypes, Revisions,
         Flags
<1>6. CallerTypes'
  <2>1. CASE at[c] = "failed" /\ call[c].what = "sourceExists" /\ ~call[c].again
    <3>1. call' = [call EXCEPT ![c].again = TRUE] /\ at' = [at EXCEPT ![c] = "locking"] /\ faults' = faults
      BY <2>1 DEF Unlock, GoTo
    <3>2. call[c] \in Calls
      BY <2>1, CallFacts DEF Inv, GatewayInv, TypeOK, CallerTypes
    <3>3. call' = [call EXCEPT ![c] = [call[c] EXCEPT !.again = TRUE]]
      BY <3>1
    <3>4. call' \in [Callers -> Calls \cup {NoCall, Opening}]
      BY <2>1, <3>2, <3>3, CallFacts DEF Inv, GatewayInv, TypeOK, CallerTypes
    <3> QED
      BY <3>1, <3>4 DEF Unlock, Inv, GatewayInv, TypeOK, CallerTypes, Places
  <2>2. CASE ~(at[c] = "failed" /\ call[c].what = "sourceExists" /\ ~call[c].again)
    <3>1. /\ call' = [call EXCEPT ![c] = NoCall] /\ at' = [at EXCEPT ![c] = "idle"]
          /\ faults' = [faults EXCEPT ![c] = FALSE]
      BY <2>2 DEF Unlock, GoTo
    <3> QED
      BY <3>1 DEF Unlock, Inv, GatewayInv, TypeOK, CallerTypes, Places
  <2> QED
    BY <2>1, <2>2
<1>7. Serialized'
  BY <1>1, <1>2, <1>3, <1>4, GatewayAssumption, CallFacts
     DEF Unlock, GoTo, cacheVars, Inv, GatewayInv, TypeOK, SourceTypes, CallerTypes, Serialized,
         Outside
<1>8. FlagsAreTrue'
  BY <1>1, <1>2, <1>3, <1>4, GatewayAssumption, CallFacts
     DEF Unlock, GoTo, cacheVars, Inv, GatewayInv, TypeOK, SourceTypes, CallerTypes,
         FlagsAreTrue, Revisions
<1>9. OpenedFirst'
  BY <1>1, <1>2, <1>3, <1>4, GatewayAssumption, CallFacts
     DEF Unlock, GoTo, cacheVars, Inv, GatewayInv, TypeOK, SourceTypes, CallerTypes, OpenedFirst,
         Outside, RequiresWhatIsMissing, ReadingPlaces
<1>10. RequiresWhatIsMissing'
  BY <1>1, <1>2, <1>3, <1>4, GatewayAssumption, CallFacts
     DEF Unlock, GoTo, cacheVars, Inv, GatewayInv, TypeOK, SourceTypes, CallerTypes,
         RequiresWhatIsMissing, Outside, OpenedFirst, ReadingPlaces, ReadingMethods
<1>11. FreshEnough'
  BY <1>1, <1>2, <1>3, <1>4, GatewayAssumption, CallFacts
     DEF Unlock, GoTo, cacheVars, Inv, GatewayInv, TypeOK, SourceTypes, CallerTypes, FreshEnough,
         Revisions
<1>12. ListedIsReadable'
  BY <1>1, <1>2, <1>3, <1>4, GatewayAssumption, CallFacts
     DEF Unlock, GoTo, cacheVars, Inv, GatewayInv, TypeOK, SourceTypes, CallerTypes,
         ListedIsReadable, Outside, Revisions, RequiresWhatIsMissing, FreshEnough
<1> QED
  BY <1>5, <1>6, <1>7, <1>8, <1>9, <1>10, <1>11, <1>12 DEF Inv, GatewayInv, TypeOK

\* The gateway is opened again.
LEMMA OpenAgainStep ==
    ASSUME Inv, NEW c \in Callers, OpenAgain(c)
    PROVE  Inv'
<1>1. at[c] = "failed"
  BY DEF OpenAgain, GoTo
<1>2. mu = c /\ c # NoCaller /\ \A d \in Callers : d # c => at[d] \in Outside
  BY <1>1, Holder DEF Outside
<1>3. Revisions \subseteq Nat /\ 1 .. upstream \subseteq Revisions /\ 1 .. clone \subseteq 1 .. upstream
  BY GatewayAssumption DEF Revisions, Inv, GatewayInv, TypeOK, SourceTypes
<1>4. FreshClone \subseteq Flags
  BY DEF FreshClone, Flags
<1>5. SourceTypes'
  BY <1>1, <1>2, <1>3, <1>4, GatewayAssumption, CallFacts
     DEF OpenAgain, GoTo, cacheVars, Inv, GatewayInv, TypeOK, SourceTypes, CallerTypes,
         Revisions, Flags
<1>6. CallerTypes'
  BY <1>1, <1>2, <1>3, <1>4, GatewayAssumption, CallFacts
     DEF OpenAgain, GoTo, cacheVars, Inv, GatewayInv, TypeOK, SourceTypes, CallerTypes, Places,
         Outside, Flags
<1>7. Serialized'
  BY <1>1, <1>2, <1>3, <1>4, GatewayAssumption, CallFacts
     DEF OpenAgain, GoTo, cacheVars, Inv, GatewayInv, TypeOK, SourceTypes, CallerTypes,
         Serialized, Outside
<1>8. FlagsAreTrue'
  BY <1>1, <1>2, <1>3, <1>4, GatewayAssumption, CallFacts
     DEF OpenAgain, GoTo, cacheVars, Inv, GatewayInv, TypeOK, SourceTypes, CallerTypes,
         FlagsAreTrue, Revisions
<1>9. OpenedFirst'
  BY <1>1, <1>2, <1>3, <1>4, GatewayAssumption, CallFacts
     DEF OpenAgain, GoTo, cacheVars, Inv, GatewayInv, TypeOK, SourceTypes, CallerTypes,
         OpenedFirst, Outside, RequiresWhatIsMissing, ReadingPlaces
<1>10. RequiresWhatIsMissing'
  BY <1>1, <1>2, <1>3, <1>4, GatewayAssumption, CallFacts
     DEF OpenAgain, GoTo, cacheVars, Inv, GatewayInv, TypeOK, SourceTypes, CallerTypes,
         RequiresWhatIsMissing, Outside, OpenedFirst, ReadingPlaces, ReadingMethods
<1>11. FreshEnough'
  BY <1>1, <1>2, <1>3, <1>4, GatewayAssumption, CallFacts
     DEF OpenAgain, GoTo, cacheVars, Inv, GatewayInv, TypeOK, SourceTypes, CallerTypes,
         FreshEnough, Revisions
<1>12. ListedIsReadable'
  BY <1>1, <1>2, <1>3, <1>4, GatewayAssumption, CallFacts
     DEF OpenAgain, GoTo, cacheVars, Inv, GatewayInv, TypeOK, SourceTypes, CallerTypes,
         ListedIsReadable, Outside, Revisions, RequiresWhatIsMissing, FreshEnough
<1> QED
  BY <1>5, <1>6, <1>7, <1>8, <1>9, <1>10, <1>11, <1>12 DEF Inv, GatewayInv, TypeOK

\* Upstream goes on.
LEMMA PushStep ==
    ASSUME Inv, Push
    PROVE  Inv'
<1>1. UNCHANGED <<git, clone, srcState, cacheVars, mu, callVars, synced, calls>>
  BY DEF Push
<1>2. upstream' \in Revisions /\ upstream < upstream' /\ upstream \in Nat /\ upstream' \in Nat
  BY GatewayAssumption DEF Push, Inv, GatewayInv, TypeOK, SourceTypes, Revisions
<1>3. \A n \in 0 .. upstream : n \in 0 .. upstream'
  BY <1>2
<1>4. SourceTypes'
  BY <1>1, <1>2, <1>3, GatewayAssumption, CallFacts
     DEF callVars, cacheVars, Inv, GatewayInv, TypeOK, SourceTypes, CallerTypes, Revisions, Flags
<1>5. CallerTypes'
  BY <1>1, <1>2, <1>3, GatewayAssumption, CallFacts
     DEF callVars, cacheVars, Inv, GatewayInv, TypeOK, SourceTypes, CallerTypes, Places, Outside,
         Flags
<1>6. Serialized'
  BY <1>1, <1>2, <1>3, GatewayAssumption, CallFacts
     DEF callVars, cacheVars, Inv, GatewayInv, TypeOK, SourceTypes, CallerTypes, Serialized, Outside
<1>7. FlagsAreTrue'
  BY <1>1, <1>2, <1>3, GatewayAssumption, CallFacts
     DEF callVars, cacheVars, Inv, GatewayInv, TypeOK, SourceTypes, CallerTypes, FlagsAreTrue,
         Revisions
<1>8. OpenedFirst'
  BY <1>1, <1>2, <1>3, GatewayAssumption, CallFacts
     DEF callVars, cacheVars, Inv, GatewayInv, TypeOK, SourceTypes, CallerTypes, OpenedFirst,
         Outside, RequiresWhatIsMissing, ReadingPlaces
<1>9. RequiresWhatIsMissing'
  BY <1>1, <1>2, <1>3, GatewayAssumption, CallFacts
     DEF callVars, cacheVars, Inv, GatewayInv, TypeOK, SourceTypes, CallerTypes,
         RequiresWhatIsMissing, Outside, OpenedFirst, ReadingPlaces, ReadingMethods
<1>10. FreshEnough'
  BY <1>1, <1>2, <1>3, GatewayAssumption, CallFacts
     DEF callVars, cacheVars, Inv, GatewayInv, TypeOK, SourceTypes, CallerTypes, FreshEnough,
         Revisions
<1>11. ListedIsReadable'
  BY <1>1, <1>2, <1>3, GatewayAssumption, CallFacts
     DEF callVars, cacheVars, Inv, GatewayInv, TypeOK, SourceTypes, CallerTypes,
         ListedIsReadable, Outside, Revisions
<1> QED
  BY <1>4, <1>5, <1>6, <1>7, <1>8, <1>9, <1>10, <1>11 DEF Inv, GatewayInv, TypeOK

\* A call waits for the mutex.
LEMMA CallStep ==
    ASSUME Inv, NEW c \in Callers, Call(c)
    PROVE  Inv'
<1>1. PICK m \in Calls : ~m.again /\ call' = [call EXCEPT ![c] = m]
  BY DEF Call
<1>2. at[c] = "idle" /\ m # Opening /\ calls' \in 0 .. MaxCalls
  BY GatewayAssumption, CallFacts DEF Call, Inv, GatewayInv, TypeOK, SourceTypes
<1>3. mu # c
  BY <1>2 DEF Inv, GatewayInv, Serialized, Outside
<1>4. SourceTypes'
  BY <1>1, <1>2, <1>3, GatewayAssumption, CallFacts
     DEF Call, GoTo, cacheVars, Inv, GatewayInv, TypeOK, SourceTypes, CallerTypes, Revisions, Flags
<1>5. CallerTypes'
  BY <1>1, <1>2, <1>3, GatewayAssumption, CallFacts
     DEF Call, GoTo, cacheVars, Inv, GatewayInv, TypeOK, SourceTypes, CallerTypes, Places,
         Outside, Flags
<1>6. Serialized'
  BY <1>1, <1>2, <1>3, GatewayAssumption, CallFacts
     DEF Call, GoTo, cacheVars, Inv, GatewayInv, TypeOK, SourceTypes, CallerTypes, Serialized,
         Outside
<1>7. FlagsAreTrue'
  BY <1>1, <1>2, <1>3, GatewayAssumption, CallFacts
     DEF Call, GoTo, cacheVars, Inv, GatewayInv, TypeOK, SourceTypes, CallerTypes, FlagsAreTrue,
         Revisions
<1>8. OpenedFirst'
  BY <1>1, <1>2, <1>3, GatewayAssumption, CallFacts
     DEF Call, GoTo, cacheVars, Inv, GatewayInv, TypeOK, SourceTypes, CallerTypes, OpenedFirst,
         Outside, RequiresWhatIsMissing, ReadingPlaces
<1>9. RequiresWhatIsMissing'
  BY <1>1, <1>2, <1>3, GatewayAssumption, CallFacts
     DEF Call, GoTo, cacheVars, Inv, GatewayInv, TypeOK, SourceTypes, CallerTypes,
         RequiresWhatIsMissing, Outside, OpenedFirst, ReadingPlaces, ReadingMethods
<1>10. FreshEnough'
  BY <1>1, <1>2, <1>3, GatewayAssumption, CallFacts
     DEF Call, GoTo, cacheVars, Inv, GatewayInv, TypeOK, SourceTypes, CallerTypes, FreshEnough,
         Revisions
<1>11. ListedIsReadable'
  BY <1>1, <1>2, <1>3, GatewayAssumption, CallFacts
     DEF Call, GoTo, cacheVars, Inv, GatewayInv, TypeOK, SourceTypes, CallerTypes,
         ListedIsReadable, Outside, Revisions
<1> QED
  BY <1>4, <1>5, <1>6, <1>7, <1>8, <1>9, <1>10, <1>11 DEF Inv, GatewayInv, TypeOK

\* With the mutex comes what the method requires.
LEMMA LockStep ==
    ASSUME Inv, NEW c \in Callers, Lock(c)
    PROVE  Inv'
<1>1. /\ at[c] = "locking" /\ mu = NoCaller /\ mu' = c
      /\ UNCHANGED <<git, upstream, clone, srcState, cacheVars, call, addl, faults, synced, calls>>
  BY DEF Lock
<1>2. \A d \in Callers : at[d] \in Outside
  BY <1>1, GatewayAssumption DEF Inv, GatewayInv, Serialized
<1>3. c # NoCaller /\ Require(c, Wanted(c), GoesOn(c))
  BY GatewayAssumption DEF Lock
<1>4. SourceTypes'
  BY <1>1, <1>2, <1>3, GatewayAssumption, CallFacts
     DEF Require, GoTo, Wanted, Wants, GoesOn, cacheVars, Inv, GatewayInv, TypeOK, SourceTypes,
         CallerTypes, Revisions, Flags
<1>5. CallerTypes'
  <2>1. call[c] \in Calls
    BY <1>1 DEF Inv, GatewayInv, TypeOK, CallerTypes, OpenedFirst, RequiresWhatIsMissing
  <2>2. Wanted(c) \subseteq Flags
    BY <2>1, CallFacts DEF Wanted, Flags
  <2>3. GoesOn(c) \in {"looking", "converting", "done"}
    BY DEF GoesOn
  <2>4. CASE Wanted(c) \subseteq srcState
    BY <1>1, <1>3, <2>3, <2>4
       DEF Require, GoTo, Inv, GatewayInv, TypeOK, CallerTypes, Places
  <2>5. CASE ~(Wanted(c) \subseteq srcState)
    BY <1>1, <1>3, <2>2, <2>3, <2>5
       DEF Require, GoTo, Inv, GatewayInv, TypeOK, CallerTypes, Places
  <2> QED
    BY <2>4, <2>5
<1>6. Serialized'
  BY <1>1, <1>2, <1>3, GatewayAssumption, CallFacts
     DEF Require, GoTo, Wanted, Wants, GoesOn, cacheVars, Inv, GatewayInv, TypeOK, SourceTypes,
         CallerTypes, Serialized, Outside
<1>7. FlagsAreTrue'
  BY <1>1, <1>2, <1>3, GatewayAssumption, CallFacts
     DEF Require, GoTo, Wanted, Wants, GoesOn, cacheVars, Inv, GatewayInv, TypeOK, SourceTypes,
         CallerTypes, FlagsAreTrue, Revisions
<1>8. OpenedFirst'
  BY <1>1, <1>2, <1>3, GatewayAssumption, CallFacts
     DEF Require, GoTo, Wanted, Wants, GoesOn, cacheVars, Inv, GatewayInv, TypeOK, SourceTypes,
         CallerTypes, OpenedFirst, Outside, RequiresWhatIsMissing, ReadingPlaces
<1>9. RequiresWhatIsMissing'
  <2>1. call[c] \in Calls
    BY <1>1 DEF Inv, GatewayInv, TypeOK, CallerTypes, OpenedFirst, RequiresWhatIsMissing
  <2>2. /\ "ExistsUpstream" \in Wanted(c) => "ExistsUpstream" \in srcState
        /\ call[c].what = "sourceExists" =>
              Wanted(c) \subseteq srcState \/ Wanted(c) \ srcState = {"ExistsLocally"}
    BY <2>1, CallFacts DEF Wanted, Wants, Inv, GatewayInv, RequiresWhatIsMissing
  <2>3. /\ GoesOn(c) \in {"looking", "converting", "done"}
        /\ GoesOn(c) # "done" => call[c].what \in ReadingMethods
    BY DEF GoesOn, ReadingMethods
  <2>4. CASE Wanted(c) \subseteq srcState
    BY <1>1, <1>3, <2>3, <2>4
       DEF Require, GoTo, Inv, GatewayInv, TypeOK, CallerTypes, RequiresWhatIsMissing, ReadingPlaces
  <2>5. CASE ~(Wanted(c) \subseteq srcState)
    BY <1>1, <1>3, <2>2, <2>3, <2>5
       DEF Require, GoTo, Inv, GatewayInv, TypeOK, CallerTypes, RequiresWhatIsMissing, ReadingPlaces
  <2> QED
    BY <2>4, <2>5
<1>10. FreshEnough'
  BY <1>1, <1>2, <1>3, GatewayAssumption, CallFacts
     DEF Require, GoTo, Wanted, Wants, GoesOn, cacheVars, Inv, GatewayInv, TypeOK, SourceTypes,
         CallerTypes, FreshEnough, Revisions
<1>11. ListedIsReadable'
  BY <1>1, <1>2, <1>3, GatewayAssumption, CallFacts
     DEF Require, GoTo, Wanted, Wants, GoesOn, cacheVars, Inv, GatewayInv, TypeOK, SourceTypes,
         CallerTypes, ListedIsReadable, Outside, Revisions
<1> QED
  BY <1>4, <1>5, <1>6, <1>7, <1>8, <1>9, <1>10, <1>11 DEF Inv, GatewayInv, TypeOK

----------------------------------------------------------------------------
\* The bookkeeping of the gateway, and what a failing read means, at every step.
LEMMA NextInv == Inv /\ [Next]_vars => Inv'
<1> SUFFICES ASSUME Inv, [Next]_vars PROVE Inv'
  OBVIOUS
<1>1. CASE Push
  BY <1>1, PushStep
<1>2. ASSUME NEW c \in Callers, Call(c) PROVE Inv'
  BY <1>2, CallStep
<1>3. ASSUME NEW c \in Callers, Step(c) PROVE Inv'
  BY <1>3, SetFlagStep, PingStep, InitLocalStep, LoadLatestVersionListStep, UpdateLocalStep,
     RequireFailsStep, LockStep, LookUpStep, ConvertToRevisionStep, ReadStep, ReadFailsStep,
     UnlockStep, OpenAgainStep DEF Step
<1>4. CASE UNCHANGED vars
  BY <1>4
     DEF vars, callVars, cacheVars, Inv, GatewayInv, TypeOK, SourceTypes, CallerTypes,
         Serialized, FlagsAreTrue, OpenedFirst, RequiresWhatIsMissing, FreshEnough,
         ListedIsReadable
<1> QED
  BY <1>1, <1>2, <1>3, <1>4 DEF Next, Quiet

\* The flags of a gateway are true and its callers are serialized, whatever fails.
THEOREM GatewayInvariance == Spec => []GatewayInv
<1>1. Spec => []Inv
  BY InitInv, NextInv, PTL DEF Spec
<1> QED
  BY <1>1, PTL DEF Inv

\* A version of the list is readable unless a request or a command fails, or the
\* clone was brought up to date before upstream got it.
THEOREM ListedReadable == Spec => []ListedIsReadable
<1>1. Spec => []Inv
  BY InitInv, NextInv, PTL DEF Spec
<1> QED
  BY <1>1, PTL DEF Inv

\* The version list is loaded once: whoever asks whether the source exists upstream
\* with a list at hand is told so without a request.
THEOREM ListIsKept == Spec => ListStays
<1>1. Inv /\ [Next]_vars => [vList # 0 => vList' = vList]_vars
  <2> SUFFICES ASSUME Inv, [Next]_vars PROVE vList # 0 => vList' = vList
    OBVIOUS
  <2>1. ASSUME NEW c \in Callers, LoadLatestVersionList(c) PROVE vList = 0
    <3>1. PICK flag \in Flags : Lists(c, flag)
      BY <2>1 DEF LoadLatestVersionList
    <3>2. CASE flag = "ExistsUpstream"
      <4>1. at[c] = "requiring" /\ "ExistsUpstream" \in todo[c]
        BY <3>1, <3>2 DEF Lists, IsNext
      <4> QED
        BY <4>1 DEF Inv, GatewayInv, RequiresWhatIsMissing, OpenedFirst
    <3>3. CASE flag = "HasLatestVersionList"
      BY <3>1, <3>3 DEF Lists
    <3> QED
      BY <3>1, <3>2, <3>3 DEF Lists
  <2>2. CASE Push
    BY <2>2 DEF Push, cacheVars
  <2>3. ASSUME NEW c \in Callers, Call(c) PROVE vList' = vList
    BY <2>3 DEF Call, cacheVars
  <2>4. ASSUME NEW c \in Callers, Step(c) PROVE vList # 0 => vList' = vList
    BY <2>1, <2>4
       DEF Step, SetFlag, Ping, InitLocal, UpdateLocal, RequireFails, Lock, LookUp,
           ConvertToRevision, Read, ReadFails, Unlock, OpenAgain, cacheVars
  <2>5. CASE UNCHANGED vars
    BY <2>5 DEF vars, cacheVars
  <2> QED
    BY <2>2, <2>3, <2>4, <2>5 DEF Next, Quiet
<1>2. Spec => []Inv
  BY InitInv, NextInv, PTL DEF Spec
<1> QED
  BY <1>1, <1>2, PTL DEF Spec, ListStays

-----------------------------------------------------------------------------
(* GpsSelection: sequences and sets.                                       *)

\* A set of naturals has a least member: what the provers have of induction.
LEMMA LeastNatural ==
    ASSUME NEW T \in SUBSET Nat, T # {}
    PROVE  \E n \in T : \A m \in T : n <= m
<1> DEFINE below == OpToRel(<, Nat)
<1>1. PICK n \in T : \A m \in T : <<m, n>> \notin below
  <2>1. IsWellFoundedOn(below, Nat)
    BY NatLessThanWellFounded
  <2> HIDE DEF below
  <2> QED
    BY <2>1, WFMin
<1>2. \A m \in T : ~(m < n)
  BY <1>1 DEF OpToRel
<1>3. n \in Nat /\ \A m \in T : m \in Nat
  OBVIOUS
<1> HIDE DEF below
<1> QED
  BY <1>2, <1>3

\* Induction over a set of indices, which is data and no operator.
LEMMA IndexInduction ==
    ASSUME NEW n \in Nat, NEW T, 0 \in T, \A k \in 1 .. n : k - 1 \in T => k \in T
    PROVE  0 .. n \subseteq T
<1> SUFFICES ASSUME ~(0 .. n \subseteq T) PROVE FALSE
  OBVIOUS
<1>1. PICK k \in (0 .. n) \ T : \A m \in (0 .. n) \ T : k <= m
  <2>1. (0 .. n) \ T \in SUBSET Nat /\ (0 .. n) \ T # {}
    OBVIOUS
  <2> QED
    BY <2>1, LeastNatural
<1>2. k \in 1 .. n /\ k - 1 \in 0 .. n
  BY <1>1
<1> QED
  BY <1>1, <1>2

\* Min and Max.
LEMMA MinIsLeast ==
    ASSUME NEW T \in SUBSET Nat, T # {}
    PROVE  Min(T) \in T /\ \A m \in T : Min(T) <= m
BY LeastNatural DEF Min

\* Max of a finite set of naturals.
LEMMA MaxIsGreatest ==
    ASSUME NEW n \in Nat, NEW T \in SUBSET (0 .. n), T # {}
    PROVE  Max(T) \in T /\ \A m \in T : Max(T) >= m
<1> DEFINE U == {m \in 0 .. n : n - m \in T}
<1>1. U \in SUBSET Nat /\ U # {}
  <2>1. PICK m \in T : TRUE
    OBVIOUS
  <2>2. m \in 0 .. n
    OBVIOUS
  <2>3. PICK k \in 0 .. n : k = n - m
    BY <2>2
  <2>4. n - k = m
    BY <2>2, <2>3
  <2>5. k \in U
    BY <2>4
  <2>6. U \subseteq 0 .. n
    OBVIOUS
  <2> HIDE DEF U
  <2>7. U \in SUBSET Nat
    BY <2>6
  <2> QED
    BY <2>5, <2>7
<1>2. PICK k \in U : \A m \in U : k <= m
  <2> HIDE DEF U
  <2> QED
    BY <1>1, LeastNatural
<1>3. PICK j \in T : j = n - k
  BY <1>2
<1>4. ASSUME NEW m \in T PROVE j >= m
  <2>1. m \in 0 .. n
    OBVIOUS
  <2>2. PICK i \in 0 .. n : i = n - m
    BY <2>1
  <2>3. n - i = m
    BY <2>1, <2>2
  <2>4. k <= i
    BY <1>2, <2>3
  <2> QED
    BY <1>2, <1>3, <2>1, <2>2, <2>4
<1>5. \E j1 \in T : \A m \in T : j1 >= m
  BY <1>4
<1> QED
  BY <1>5 DEF Max

(* RemoveAll. *)
LEMMA RemoveAllIsDefined ==
    ASSUME NEW X, NEW seq \in Seq(X), NEW gone
    PROVE  \E kept : /\ RemoveAll(seq, gone) = kept[Len(seq)]
                     /\ kept[0] = <<>>
                     /\ \A n \in 1 .. Len(seq) :
                           kept[n] = IF n \in gone THEN kept[n - 1] ELSE Append(kept[n - 1], seq[n])
<1> DEFINE N == Len(seq)
           Rec(k, n) == k = [i \in 0 .. n |-> IF i = 0 THEN <<>>
                                              ELSE IF i \in gone THEN k[i - 1] ELSE Append(k[i - 1], seq[i])]
           T == {n \in 0 .. N : \E k : Rec(k, n)}
<1>1. N \in Nat
  OBVIOUS
<1>2. 0 \in T
  <2>1. \E k : k = [i \in 0 .. 0 |-> IF i = 0 THEN <<>>
                                    ELSE IF i \in gone THEN k[i - 1] ELSE Append(k[i - 1], seq[i])]
    <3>1. PICK k : k = [i \in 0 .. 0 |-> <<>>]
      OBVIOUS
    <3>2. \A i \in 0 .. 0 : i = 0
      OBVIOUS
    <3>3. k = [i \in 0 .. 0 |-> IF i = 0 THEN <<>>
                               ELSE IF i \in gone THEN k[i - 1] ELSE Append(k[i - 1], seq[i])]
      BY <3>1, <3>2
    <3> QED
      BY <3>3
  <2>2. \E k : Rec(k, 0)
    BY <2>1
  <2> HIDE DEF Rec
  <2> QED
    BY <1>1, <2>2
<1>3. ASSUME NEW n \in 1 .. N, n - 1 \in T PROVE n \in T
  <2>1. PICK k : Rec(k, n - 1)
    BY <1>3
  <2> DEFINE h == [i \in 0 .. n |-> IF i = n THEN (IF n \in gone THEN k[n - 1] ELSE Append(k[n - 1], seq[n]))
                                    ELSE k[i]]
  <2>2. \A i \in 0 .. n - 1 : h[i] = k[i]
    OBVIOUS
  <2>3. ASSUME NEW i \in 0 .. n
        PROVE  h[i] = IF i = 0 THEN <<>> ELSE IF i \in gone THEN h[i - 1] ELSE Append(h[i - 1], seq[i])
    <3>1. CASE i = n
      BY <2>2, <3>1
    <3>2. CASE i # n
      <4>1. i \in 0 .. n - 1 /\ (i # 0 => i - 1 \in 0 .. n - 1)
        BY <3>2
      <4>2. k[i] = IF i = 0 THEN <<>> ELSE IF i \in gone THEN k[i - 1] ELSE Append(k[i - 1], seq[i])
        BY <2>1, <4>1
      <4> HIDE DEF h
      <4> QED
        BY <2>2, <4>1, <4>2
    <3> QED
      BY <3>1, <3>2
  <2>4. DOMAIN h = 0 .. n /\ h = [i \in 0 .. n |-> h[i]]
    OBVIOUS
  <2> HIDE DEF h
  <2>5. Rec(h, n)
    BY <2>3, <2>4
  <2> QED
    BY <2>5
<1>4. N \in T
  <2> HIDE DEF T, N
  <2>1. 0 .. N \subseteq T
    BY <1>1, <1>2, <1>3, IndexInduction
  <2> QED
    BY <1>1, <2>1
<1> DEFINE kept == CHOOSE k : Rec(k, N)
<1>5. Rec(kept, N)
  BY <1>4
<1>6. RemoveAll(seq, gone) = kept[N]
  BY DEF RemoveAll
<1> HIDE DEF kept
<1> HIDE DEF N
<1>7. \A n \in 0 .. N : kept[n] = IF n = 0 THEN <<>>
                                 ELSE IF n \in gone THEN kept[n - 1] ELSE Append(kept[n - 1], seq[n])
  BY <1>5
<1>8. kept[0] = <<>>
  BY <1>1, <1>7
<1>9. ASSUME NEW n \in 1 .. N
      PROVE  kept[n] = IF n \in gone THEN kept[n - 1] ELSE Append(kept[n - 1], seq[n])
  <2>1. n \in 0 .. N /\ n # 0
    BY <1>1
  <2> QED
    BY <1>7, <2>1
<1> QED
  BY <1>6, <1>8, <1>9 DEF N

\* What the stacks hold: entries of the selection, and of the queue of the
\* unselected.
Entries == [a : Atoms \cup {RootAtom}, pl : SUBSET Packages, first : BOOLEAN]
QueueEntries == [id : Projects, pl : SUBSET Packages, fromRoot : BOOLEAN, prefv : Versions \cup {NoVersion}]

\* What is not taken out of a sequence stays.
LEMMA RemoveAllKeeps ==
    ASSUME NEW X, NEW seq \in Seq(X), NEW gone
    PROVE  /\ RemoveAll(seq, gone) \in Seq(X)
           /\ \A i \in 1 .. Len(seq) :
                 i \notin gone => \E j \in DOMAIN RemoveAll(seq, gone) : RemoveAll(seq, gone)[j] = seq[i]
<1>1. PICK kept : /\ RemoveAll(seq, gone) = kept[Len(seq)]
                  /\ kept[0] = <<>>
                  /\ \A n \in 1 .. Len(seq) :
                        kept[n] = IF n \in gone THEN kept[n - 1] ELSE Append(kept[n - 1], seq[n])
  BY RemoveAllIsDefined
<1> DEFINE Holds(n) == /\ kept[n] \in Seq(X)
                       /\ \A i \in 1 .. n : i \notin gone => \E j \in 1 .. Len(kept[n]) : kept[n][j] = seq[i]
           T == {n \in 0 .. Len(seq) : Holds(n)}
<1>2. Len(seq) \in Nat /\ \A n \in 1 .. Len(seq) : seq[n] \in X
  BY LenProperties, ElementOfSeq
<1>3. 0 \in T
  <2>1. 1 .. 0 = {}
    OBVIOUS
  <2>2. kept[0] \in Seq(X)
    BY <1>1, EmptySeq
  <2> QED
    BY <1>2, <2>1, <2>2
<1>4. ASSUME NEW n \in 1 .. Len(seq), n - 1 \in T PROVE n \in T
  <2>1. n - 1 \in 0 .. Len(seq) /\ Holds(n - 1)
    BY <1>4
  <2>2. kept[n] = IF n \in gone THEN kept[n - 1] ELSE Append(kept[n - 1], seq[n])
    BY <1>1
  <2>3. PICK before : before = kept[n - 1]
    OBVIOUS
  <2>4. before \in Seq(X) /\ Len(before) \in Nat
    BY <2>1, <2>3, LenProperties
  <2>5. CASE n \in gone
    <3>1. kept[n] = before
      BY <2>2, <2>3, <2>5
    <3>2. ASSUME NEW i \in 1 .. n, i \notin gone PROVE i \in 1 .. n - 1
      BY <2>5, <3>2
    <3>3. Holds(n)
      BY <2>1, <2>3, <3>1, <3>2
    <3> QED
      BY <3>3
  <2>6. CASE n \notin gone
    <3>1. kept[n] = Append(before, seq[n])
      BY <2>2, <2>3, <2>6
    <3>2. /\ kept[n] \in Seq(X) /\ Len(kept[n]) = Len(before) + 1
          /\ \A j \in 1 .. Len(before) : kept[n][j] = before[j]
          /\ kept[n][Len(before) + 1] = seq[n]
      BY <1>2, <2>4, <3>1, AppendProperties
    <3>3. ASSUME NEW i \in 1 .. n, i \notin gone PROVE \E j \in 1 .. Len(kept[n]) : kept[n][j] = seq[i]
      <4>1. CASE i = n
        <5>1. Len(before) + 1 \in 1 .. Len(kept[n])
          BY <2>4, <3>2
        <5> QED
          BY <3>2, <4>1, <5>1
      <4>2. CASE i # n
        <5>1. i \in 1 .. n - 1
          BY <4>2
        <5>2. PICK j \in 1 .. Len(before) : before[j] = seq[i]
          BY <2>1, <2>3, <3>3, <5>1
        <5>3. j \in 1 .. Len(kept[n])
          BY <2>4, <3>2
        <5> QED
          BY <3>2, <5>2, <5>3
      <4> QED
        BY <4>1, <4>2
    <3>4. Holds(n)
      BY <3>2, <3>3
    <3> QED
      BY <3>4
  <2> QED
    BY <2>5, <2>6
<1>5. Len(seq) \in T
  <2> HIDE DEF T
  <2>1. 0 .. Len(seq) \subseteq T
    BY <1>2, <1>3, <1>4, IndexInduction
  <2> QED
    BY <1>2, <2>1
<1>6. PICK result : result = RemoveAll(seq, gone)
  OBVIOUS
<1>7. /\ result \in Seq(X)
      /\ \A i \in 1 .. Len(seq) : i \notin gone => \E j \in 1 .. Len(result) : result[j] = seq[i]
  BY <1>1, <1>5, <1>6
<1>8. DOMAIN result = 1 .. Len(result)
  BY <1>7, LenProperties
<1> QED
  BY <1>6, <1>7, <1>8

\* The array of a heap while an entry climbs.
LEMMA ClimbIsDefined ==
    ASSUME NEW s, NEW e, s.unsel \in Seq(QueueEntries)
    PROVE  \E up : /\ HeapPush(s, e) = [s EXCEPT !.unsel = up[Len(s.unsel) + 1]]
                   /\ \A i \in 1 .. Len(s.unsel) + 1 :
                         up[i] = IF i > 1 /\ IsBefore(s, e, s.unsel[i \div 2])
                                 THEN [up[i \div 2] EXCEPT ![i] = s.unsel[i \div 2]]
                                 ELSE [Append(s.unsel, e) EXCEPT ![i] = e]
<1> DEFINE N == Len(s.unsel) + 1
           Rec(k, n) == k = [i \in 1 .. n |->
                                IF i > 1 /\ IsBefore(s, e, s.unsel[i \div 2])
                                THEN [k[i \div 2] EXCEPT ![i] = s.unsel[i \div 2]]
                                ELSE [Append(s.unsel, e) EXCEPT ![i] = e]]
           T == {n \in 0 .. N : \E k : Rec(k, n)}
<1>1. N \in Nat
  BY LenProperties
<1>2. 0 \in T
  <2>1. \E k : k = [i \in 1 .. 0 |->
                                IF i > 1 /\ IsBefore(s, e, s.unsel[i \div 2])
                                THEN [k[i \div 2] EXCEPT ![i] = s.unsel[i \div 2]]
                                ELSE [Append(s.unsel, e) EXCEPT ![i] = e]]
    <3>1. PICK k : k = [i \in 1 .. 0 |-> e]
      OBVIOUS
    <3>2. 1 .. 0 = {}
      OBVIOUS
    <3>3. k = [i \in 1 .. 0 |->
                                IF i > 1 /\ IsBefore(s, e, s.unsel[i \div 2])
                                THEN [k[i \div 2] EXCEPT ![i] = s.unsel[i \div 2]]
                                ELSE [Append(s.unsel, e) EXCEPT ![i] = e]]
      BY <3>1, <3>2
    <3> QED
      BY <3>3
  <2>2. \E k : Rec(k, 0)
    BY <2>1
  <2> HIDE DEF Rec, N
  <2> QED
    BY <1>1, <2>2
<1>3. ASSUME NEW n \in 1 .. N, n - 1 \in T PROVE n \in T
  <2>1. PICK k : Rec(k, n - 1)
    BY <1>3
  <2> DEFINE h == [i \in 1 .. n |->
                     IF i = n THEN IF n > 1 /\ IsBefore(s, e, s.unsel[n \div 2])
                                   THEN [k[n \div 2] EXCEPT ![n] = s.unsel[n \div 2]]
                                   ELSE [Append(s.unsel, e) EXCEPT ![n] = e]
                     ELSE k[i]]
  <2>2. \A i \in 1 .. n - 1 : h[i] = k[i]
    OBVIOUS
  <2>3. ASSUME NEW i \in 1 .. n
        PROVE  h[i] = IF i > 1 /\ IsBefore(s, e, s.unsel[i \div 2])
                      THEN [h[i \div 2] EXCEPT ![i] = s.unsel[i \div 2]]
                      ELSE [Append(s.unsel, e) EXCEPT ![i] = e]
    <3>1. i > 1 => i \div 2 \in 1 .. n - 1 /\ i \div 2 \in 1 .. i - 1
      OBVIOUS
    <3>2. CASE i = n
      BY <2>2, <3>1, <3>2
    <3>3. CASE i # n
      <4>1. i \in 1 .. n - 1
        BY <3>3
      <4>2. k[i] = IF i > 1 /\ IsBefore(s, e, s.unsel[i \div 2])
                   THEN [k[i \div 2] EXCEPT ![i] = s.unsel[i \div 2]]
                   ELSE [Append(s.unsel, e) EXCEPT ![i] = e]
        BY <2>1, <4>1
      <4>3. h[i] = k[i] /\ (i > 1 => h[i \div 2] = k[i \div 2])
        BY <2>2, <3>1, <4>1
      <4> HIDE DEF h
      <4> QED
        BY <4>2, <4>3
    <3> QED
      BY <3>2, <3>3
  <2>4. h = [i \in 1 .. n |-> h[i]]
    OBVIOUS
  <2> HIDE DEF h
  <2>5. Rec(h, n)
    BY <2>3, <2>4
  <2> QED
    BY <2>5
<1>4. N \in T
  <2> HIDE DEF T, N
  <2>1. 0 .. N \subseteq T
    BY <1>1, <1>2, <1>3, IndexInduction
  <2> QED
    BY <1>1, <2>1
<1> DEFINE up == CHOOSE k : Rec(k, N)
<1>5. Rec(up, N)
  BY <1>4
<1>6. HeapPush(s, e) = [s EXCEPT !.unsel = up[N]]
  BY DEF HeapPush
<1> HIDE DEF up
<1> QED
  BY <1>5, <1>6

-----------------------------------------------------------------------------
(* GpsSelection: the queue of the unselected.                              *)

\* A selection with its queue, whatever it has selected.
IsSolverState(s) ==
    /\ s = [projects |-> s.projects, deps |-> s.deps, unsel |-> s.unsel]
    /\ s.unsel \in Seq(QueueEntries)

\* More is in the queue, and nothing else has changed.
IsQueued(s, e) == \E j \in DOMAIN s.unsel : s.unsel[j] = e
IsPushed(s, new, t) ==
    /\ IsSolverState(t) /\ t.projects = s.projects /\ t.deps = s.deps
    /\ \A e \in new : IsQueued(t, e)
    /\ \A e : IsQueued(s, e) => IsQueued(t, e)

\* Pushing an entry keeps the queue's others.
LEMMA HeapPushKeeps ==
    ASSUME NEW s, NEW e \in QueueEntries, IsSolverState(s)
    PROVE  IsPushed(s, {e}, HeapPush(s, e))
<1>1. PICK up : /\ HeapPush(s, e) = [s EXCEPT !.unsel = up[Len(s.unsel) + 1]]
                /\ \A i \in 1 .. Len(s.unsel) + 1 :
                      up[i] = IF i > 1 /\ IsBefore(s, e, s.unsel[i \div 2])
                              THEN [up[i \div 2] EXCEPT ![i] = s.unsel[i \div 2]]
                              ELSE [Append(s.unsel, e) EXCEPT ![i] = e]
  BY ClimbIsDefined DEF IsSolverState
<1>2. PICK q \in Seq(QueueEntries) : q = s.unsel
  BY DEF IsSolverState
<1>3. PICK n \in Nat : n = Len(q)
  BY LenProperties
<1>4. /\ Append(q, e) \in [1 .. n + 1 -> QueueEntries]
      /\ \A j \in 1 .. n : Append(q, e)[j] = q[j]
      /\ \A j \in 1 .. n : q[j] \in QueueEntries
  <2>1. Append(q, e) \in Seq(QueueEntries) /\ Len(Append(q, e)) = n + 1
        /\ \A j \in 1 .. n : Append(q, e)[j] = q[j]
    BY <1>3, AppendProperties
  <2>2. \A j \in 1 .. n : q[j] \in QueueEntries
    BY <1>3, ElementOfSeq
  <2> QED
    BY <2>1, <2>2, LenProperties
\* The hole is at i: what was there and above has moved down, the rest stays.
<1> DEFINE Climbed(i) ==
              /\ up[i] \in [1 .. n + 1 -> QueueEntries]
              /\ \E k \in 1 .. i : up[i][k] = e
              /\ \A j \in 1 .. n : j < i => \E k \in 1 .. i : up[i][k] = q[j]
              /\ \A j \in 1 .. n : j > i => up[i][j] = q[j]
           T == {i \in 0 .. n + 1 : \A k \in 1 .. i : Climbed(k)}
<1>5. 0 \in T
  OBVIOUS
<1>6. ASSUME NEW i \in 1 .. n + 1, i - 1 \in T PROVE i \in T
  <2>1. \A k \in 1 .. i - 1 : Climbed(k)
    BY <1>6
  <2>2. up[i] = IF i > 1 /\ IsBefore(s, e, q[i \div 2])
                THEN [up[i \div 2] EXCEPT ![i] = q[i \div 2]]
                ELSE [Append(q, e) EXCEPT ![i] = e]
    BY <1>1, <1>2, <1>3
  <2>3. Climbed(i)
    <3>1. CASE i > 1 /\ IsBefore(s, e, q[i \div 2])
      <4>1. PICK h \in 1 .. i - 1 : h = i \div 2 /\ h \in 1 .. n
        BY <3>1
      <4>2. Climbed(h)
        BY <2>1
      <4>3. PICK u \in [1 .. n + 1 -> QueueEntries] : u = up[h]
        BY <4>2
      <4>4. up[i] = [u EXCEPT ![i] = q[h]]
        BY <2>2, <3>1, <4>1, <4>3
      <4>5. up[i] \in [1 .. n + 1 -> QueueEntries] /\ up[i][i] = q[h]
            /\ \A k \in 1 .. n + 1 : k # i => up[i][k] = u[k]
        BY <1>4, <4>1, <4>3, <4>4
      <4>6. \E k \in 1 .. i : up[i][k] = e
        <5>1. PICK k \in 1 .. h : u[k] = e
          BY <4>2, <4>3
        <5>2. k \in 1 .. i /\ k \in 1 .. n + 1 /\ k # i
          OBVIOUS
        <5> QED
          BY <4>5, <5>1, <5>2
      <4>7. ASSUME NEW j \in 1 .. n, j < i PROVE \E k \in 1 .. i : up[i][k] = q[j]
        <5>1. CASE j = h
          BY <4>5, <5>1
        <5>2. CASE j < h
          <6>1. PICK k \in 1 .. h : u[k] = q[j]
            BY <4>2, <4>3, <5>2
          <6>2. k \in 1 .. i /\ k \in 1 .. n + 1 /\ k # i
            OBVIOUS
          <6> QED
            BY <4>5, <6>1, <6>2
        <5>3. CASE j > h
          <6>1. u[j] = q[j] /\ j \in 1 .. i /\ j \in 1 .. n + 1 /\ j # i
            BY <4>2, <4>3, <4>7, <5>3
          <6> QED
            BY <4>5, <6>1
        <5> QED
          BY <5>1, <5>2, <5>3
      <4>8. ASSUME NEW j \in 1 .. n, j > i PROVE up[i][j] = q[j]
        <5>1. j > h /\ j \in 1 .. n + 1 /\ j # i
          BY <4>8
        <5>2. u[j] = q[j]
          BY <4>2, <4>3, <5>1
        <5> QED
          BY <4>5, <5>1, <5>2
      <4> QED
        BY <4>5, <4>6, <4>7, <4>8
    <3>2. CASE ~(i > 1 /\ IsBefore(s, e, q[i \div 2]))
      <4>1. up[i] = [Append(q, e) EXCEPT ![i] = e]
        BY <2>2, <3>2
      <4>2. up[i] \in [1 .. n + 1 -> QueueEntries] /\ up[i][i] = e
            /\ \A j \in 1 .. n : j # i => up[i][j] = q[j]
        <5>1. PICK longer \in [1 .. n + 1 -> QueueEntries] :
                 longer = Append(q, e) /\ \A j \in 1 .. n : longer[j] = q[j]
          BY <1>4
        <5>2. PICK result : result = [longer EXCEPT ![i] = e]
          OBVIOUS
        <5>3. result \in [1 .. n + 1 -> QueueEntries] /\ result[i] = e
          BY <5>2
        <5>4. ASSUME NEW j \in 1 .. n, j # i PROVE result[j] = q[j]
          <6>1. j \in 1 .. n + 1
            OBVIOUS
          <6> QED
            BY <5>1, <5>2, <5>4, <6>1
        <5>5. up[i] = result
          BY <4>1, <5>1, <5>2
        <5> QED
          BY <5>3, <5>4, <5>5
      <4>3. \A j \in 1 .. n : j < i => \E k \in 1 .. i : up[i][k] = q[j]
        BY <4>2
      <4> QED
        BY <4>2, <4>3
    <3> QED
      BY <3>1, <3>2
  <2>4. \A k \in 1 .. i : k = i \/ k \in 1 .. i - 1
    OBVIOUS
  <2>5. \A k \in 1 .. i : Climbed(k)
    BY <2>1, <2>3, <2>4
  <2> QED
    BY <2>5
<1>7. Climbed(n + 1)
  <2> HIDE DEF T
  <2>1. 0 .. n + 1 \subseteq T
    BY <1>5, <1>6, IndexInduction
  <2>2. n + 1 \in T
    BY <2>1
  <2> HIDE DEF Climbed
  <2>3. \A k \in 1 .. n + 1 : Climbed(k)
    BY <2>2 DEF T
  <2> QED
    BY <2>3
<1>8. PICK u \in [1 .. n + 1 -> QueueEntries] : u = up[n + 1]
  BY <1>7
<1>9. u \in Seq(QueueEntries) /\ DOMAIN u = 1 .. n + 1
  OBVIOUS
<1>10. PICK t : t = HeapPush(s, e)
  OBVIOUS
<1>11. /\ t = [projects |-> t.projects, deps |-> t.deps, unsel |-> t.unsel]
       /\ t.projects = s.projects /\ t.deps = s.deps /\ t.unsel = u
  <2>1. t = [s EXCEPT !.unsel = u]
    BY <1>1, <1>2, <1>3, <1>8, <1>10
  <2>2. s = [projects |-> s.projects, deps |-> s.deps, unsel |-> s.unsel]
    BY DEF IsSolverState
  <2> QED
    BY <2>1, <2>2
<1>12. /\ \E j \in 1 .. n + 1 : u[j] = e
       /\ \A i \in 1 .. n : \E j \in 1 .. n + 1 : u[j] = q[i]
  BY <1>7, <1>8
<1>13. DOMAIN q = 1 .. n
  BY <1>3, LenProperties
<1>14. \A x : IsQueued(s, x) => IsQueued(t, x)
  BY <1>2, <1>9, <1>11, <1>12, <1>13 DEF IsQueued
<1>15. IsQueued(t, e)
  BY <1>9, <1>11, <1>12 DEF IsQueued
<1>16. IsSolverState(t)
  BY <1>9, <1>11 DEF IsSolverState
<1> QED
  BY <1>10, <1>11, <1>14, <1>15, <1>16 DEF IsPushed

\* Pushing in some order pushes each.
LEMMA PushedInTurn ==
    ASSUME NEW s, NEW t, NEW w, NEW some, NEW more, IsPushed(s, some, t), IsPushed(t, more, w)
    PROVE  IsPushed(s, some \cup more, w)
BY DEF IsPushed

\* HeapPushAll is what its recursion says: such a function exists, for every order.
LEMMA HeapPushAllIsDefined ==
    ASSUME NEW s, NEW order \in Seq(QueueEntries)
    PROVE  \E after : /\ HeapPushAll(s, order) = after[Len(order)]
                      /\ after[0] = s
                      /\ \A n \in 1 .. Len(order) : after[n] = HeapPush(after[n - 1], order[n])
<1> DEFINE N == Len(order)
           Rec(k, n) == k = [i \in 0 .. n |-> IF i = 0 THEN s ELSE HeapPush(k[i - 1], order[i])]
           T == {n \in 0 .. N : \E k : Rec(k, n)}
<1>1. N \in Nat
  BY LenProperties
<1>2. 0 \in T
  <2>1. \E k : k = [i \in 0 .. 0 |-> IF i = 0 THEN s ELSE HeapPush(k[i - 1], order[i])]
    <3>1. PICK k : k = [i \in 0 .. 0 |-> s]
      OBVIOUS
    <3>2. \A i \in 0 .. 0 : i = 0
      OBVIOUS
    <3>3. k = [i \in 0 .. 0 |-> IF i = 0 THEN s ELSE HeapPush(k[i - 1], order[i])]
      BY <3>1, <3>2
    <3> QED
      BY <3>3
  <2>2. \E k : Rec(k, 0)
    BY <2>1
  <2> HIDE DEF Rec, N
  <2> QED
    BY <1>1, <2>2
<1>3. ASSUME NEW n \in 1 .. N, n - 1 \in T PROVE n \in T
  <2>1. PICK k : Rec(k, n - 1)
    BY <1>3
  <2> DEFINE h == [i \in 0 .. n |-> IF i = n THEN HeapPush(k[n - 1], order[n]) ELSE k[i]]
  <2>2. \A i \in 0 .. n - 1 : h[i] = k[i]
    OBVIOUS
  <2>3. ASSUME NEW i \in 0 .. n PROVE h[i] = IF i = 0 THEN s ELSE HeapPush(h[i - 1], order[i])
    <3>1. CASE i = n
      BY <2>2, <3>1
    <3>2. CASE i # n
      <4>1. i \in 0 .. n - 1 /\ (i # 0 => i - 1 \in 0 .. n - 1)
        BY <3>2
      <4>2. k[i] = IF i = 0 THEN s ELSE HeapPush(k[i - 1], order[i])
        BY <2>1, <4>1
      <4> HIDE DEF h
      <4> QED
        BY <2>2, <4>1, <4>2
    <3> QED
      BY <3>1, <3>2
  <2>4. h = [i \in 0 .. n |-> h[i]]
    OBVIOUS
  <2> HIDE DEF h
  <2>5. Rec(h, n)
    BY <2>3, <2>4
  <2> QED
    BY <2>5
<1>4. N \in T
  <2> HIDE DEF T, N
  <2>1. 0 .. N \subseteq T
    BY <1>1, <1>2, <1>3, IndexInduction
  <2> QED
    BY <1>1, <2>1
<1> DEFINE after == CHOOSE k : Rec(k, N)
<1>5. Rec(after, N)
  BY <1>4
<1>6. HeapPushAll(s, order) = after[N]
  BY DEF HeapPushAll
<1> HIDE DEF after, N
<1>7. \A n \in 0 .. N : after[n] = IF n = 0 THEN s ELSE HeapPush(after[n - 1], order[n])
  BY <1>5
<1>8. after[0] = s
  BY <1>1, <1>7
<1>9. ASSUME NEW n \in 1 .. N PROVE after[n] = HeapPush(after[n - 1], order[n])
  <2>1. n \in 0 .. N /\ n # 0
    BY <1>1
  <2> QED
    BY <1>7, <2>1
<1> QED
  BY <1>6, <1>8, <1>9 DEF N

\* Pushing several entries keeps the queue's others.
LEMMA HeapPushAllKeeps ==
    ASSUME NEW s, NEW order \in Seq(QueueEntries), IsSolverState(s)
    PROVE  IsPushed(s, {order[i] : i \in 1 .. Len(order)}, HeapPushAll(s, order))
<1>1. PICK after : /\ HeapPushAll(s, order) = after[Len(order)]
                   /\ after[0] = s
                   /\ \A n \in 1 .. Len(order) : after[n] = HeapPush(after[n - 1], order[n])
  BY HeapPushAllIsDefined
<1>2. Len(order) \in Nat /\ \A n \in 1 .. Len(order) : order[n] \in QueueEntries
  BY LenProperties, ElementOfSeq
<1> DEFINE T == {n \in 0 .. Len(order) : IsPushed(s, {order[i] : i \in 1 .. n}, after[n])}
<1>3. 0 \in T
  <2>1. IsPushed(s, {}, s)
    BY DEF IsPushed
  <2>2. {order[i] : i \in 1 .. 0} = {}
    OBVIOUS
  <2>3. IsPushed(s, {order[i] : i \in 1 .. 0}, after[0])
    BY <1>1, <2>1, <2>2
  <2> QED
    BY <1>2, <2>3
<1>4. ASSUME NEW n \in 1 .. Len(order), n - 1 \in T PROVE n \in T
  <2>1. PICK t : t = after[n - 1]
    OBVIOUS
  <2>2. IsPushed(s, {order[i] : i \in 1 .. n - 1}, t)
    BY <1>4, <2>1
  <2>3. order[n] \in QueueEntries /\ IsSolverState(t)
    BY <1>2, <2>2 DEF IsPushed
  <2>4. IsPushed(t, {order[n]}, HeapPush(t, order[n]))
    BY <2>3, HeapPushKeeps
  <2>5. IsPushed(s, {order[i] : i \in 1 .. n - 1} \cup {order[n]}, HeapPush(t, order[n]))
    BY <2>2, <2>4, PushedInTurn
  <2>6. {order[i] : i \in 1 .. n - 1} \cup {order[n]} = {order[i] : i \in 1 .. n}
    <3>1. \A i : i \in 1 .. n <=> i \in 1 .. n - 1 \/ i = n
      OBVIOUS
    <3> QED
      BY <3>1
  <2>7. HeapPush(t, order[n]) = after[n]
    BY <1>1, <2>1
  <2>8. IsPushed(s, {order[i] : i \in 1 .. n}, after[n])
    BY <2>5, <2>6, <2>7
  <2> QED
    BY <2>8
<1>5. 0 .. Len(order) \subseteq T
  <2> HIDE DEF T
  <2> QED
    BY <1>2, <1>3, <1>4, IndexInduction
<1>6. Len(order) \in T
  <2> HIDE DEF T
  <2> QED
    BY <1>2, <1>5
<1> QED
  BY <1>1, <1>6

-----------------------------------------------------------------------------
(* GpsSelection: what atoms ask for.                                       *)

\* PlaceIn numbers the members of a set of indices.
LEMMA PlaceFacts ==
    ASSUME NEW n \in Nat, NEW D \in SUBSET (1 .. n)
    PROVE  /\ IsFiniteSet(D) /\ Cardinality(D) \in Nat
           /\ \A i \in D : PlaceIn(D, i) \in 1 .. Cardinality(D)
<1>1. IsFiniteSet(1 .. n)
  BY FS_Interval
<1>2. IsFiniteSet(D) /\ Cardinality(D) \in Nat
  BY <1>1, FS_Subset, FS_CardinalityType
<1>3. ASSUME NEW i \in D PROVE PlaceIn(D, i) \in 1 .. Cardinality(D)
  <2>1. PICK E : E = D \cap 1 .. i
    OBVIOUS
  <2>2. E \subseteq D /\ i \in E /\ E # {}
    BY <2>1
  <2>3. IsFiniteSet(E) /\ Cardinality(E) <= Cardinality(D) /\ Cardinality(E) \in Nat
    BY <1>2, <2>2, FS_Subset, FS_CardinalityType
  <2>4. Cardinality(E) # 0
    BY <2>2, <2>3, FS_EmptySet
  <2> QED
    BY <1>2, <2>1, <2>3, <2>4 DEF PlaceIn
<1> QED
  BY <1>2, <1>3

\* A new last index is numbered last.
LEMMA PlaceOfNext ==
    ASSUME NEW n \in Nat, NEW D \in SUBSET (1 .. n)
    PROVE  /\ Cardinality(D \cup {n + 1}) = Cardinality(D) + 1
           /\ PlaceIn(D \cup {n + 1}, n + 1) = Cardinality(D) + 1
           /\ \A i \in D : PlaceIn(D \cup {n + 1}, i) = PlaceIn(D, i)
<1>1. IsFiniteSet(D) /\ n + 1 \notin D
  BY PlaceFacts
<1>2. Cardinality(D \cup {n + 1}) = Cardinality(D) + 1
  BY <1>1, FS_AddElement
<1>3. (D \cup {n + 1}) \cap 1 .. n + 1 = D \cup {n + 1}
  <2>1. \A i \in D \cup {n + 1} : i \in 1 .. n + 1
    OBVIOUS
  <2> QED
    BY <2>1
<1>4. \A i \in D : (D \cup {n + 1}) \cap 1 .. i = D \cap 1 .. i
  OBVIOUS
<1> QED
  BY <1>2, <1>3, <1>4 DEF PlaceIn

\* SetToSeqs has sequences of the set's members, with all of them.
LEMMA OrdersAreComplete ==
    ASSUME NEW T, IsFiniteSet(T), NEW order \in SetToSeqs(T)
    PROVE  order \in Seq(T) /\ {order[i] : i \in 1 .. Len(order)} = T
<1>1. PICK n \in Nat : n = Cardinality(T)
  BY FS_CardinalityType
<1>2. order \in [1 .. n -> T] /\ \A i, j \in 1 .. n : i # j => order[i] # order[j]
  BY <1>1 DEF SetToSeqs
<1>3. order \in Seq(T) /\ Len(order) = n
  BY <1>2
<1>4. order \in Injection(1 .. n, T)
  BY <1>2 DEF Injection, IsInjective
<1>5. Cardinality(1 .. n) = Cardinality(T)
  BY <1>1, FS_Interval
<1>6. order \in Surjection(1 .. n, T)
  BY <1>4, <1>5, FS_Injection
<1>7. \A e \in T : \E i \in 1 .. n : order[i] = e
  BY <1>6 DEF Surjection
<1>8. {order[i] : i \in 1 .. n} = T
  BY <1>2, <1>7
<1> QED
  BY <1>3, <1>8

\* The dependencies that an atom has, or the root.
Requests == [to : Projects, pl : SUBSET Packages, allows : SUBSET Versions]

\* What is asked for: one dependency per project, on some of its packages.
AreRequests(deps) ==
    /\ deps \subseteq Requests /\ IsFiniteSet(deps)
    /\ \A d \in deps : d.pl # {} /\ IsAsked(deps, d.to) /\ AskedOf(deps, d.to) = d
    /\ \A p : IsAsked(deps, p) => AskedOf(deps, p) \in deps /\ AskedOf(deps, p).to = p

\* Grouping what is reached by project makes requests of it.
LEMMA RequestFacts ==
    ASSUME NEW constraints \in [Projects -> SUBSET Versions], NEW reach \in SUBSET Packages,
           NEW deps, deps = IntersectConstraintsWithImports(constraints, reach)
    PROVE  /\ AreRequests(deps)
           /\ \A d \in deps : d.pl = {k \in reach : ProjectOf[k] = d.to} /\ d.allows = constraints[d.to]
           /\ \A k \in reach : \E d \in deps : d.to = ProjectOf[k] /\ k \in d.pl
<1> DEFINE To(k) == [to |-> ProjectOf[k], pl |-> {j \in reach : ProjectOf[j] = ProjectOf[k]},
                     allows |-> constraints[ProjectOf[k]]]
           f == [k \in reach |-> To(k)]
<1>1. ASSUME NEW k \in reach PROVE ProjectOf[k] \in Projects
  BY GpsAssumption
<1>2. ASSUME NEW d PROVE d \in deps <=> \E k \in reach : d = To(k)
  BY DEF IntersectConstraintsWithImports
<1>3. ASSUME NEW d \in deps
      PROVE  d \in Requests /\ d.pl # {} /\ d.pl = {k \in reach : ProjectOf[k] = d.to} /\ d.allows = constraints[d.to]
  <2>1. PICK k \in reach : d = To(k)
    BY <1>2
  <2>2. d.to = ProjectOf[k] /\ d.pl = {j \in reach : ProjectOf[j] = ProjectOf[k]} /\ d.allows = constraints[ProjectOf[k]]
    BY <2>1
  <2>3. k \in d.pl
    BY <2>2
  <2>4. d \in Requests
    BY <1>1, <2>1 DEF Requests
  <2> QED
    BY <2>2, <2>3, <2>4
<1>4. ASSUME NEW k \in reach PROVE \E d \in deps : d.to = ProjectOf[k] /\ k \in d.pl
  <2>1. PICK d : d = To(k)
    OBVIOUS
  <2>2. d \in deps
    BY <1>2, <2>1
  <2> QED
    BY <2>1, <2>2
<1>5. ASSUME NEW d \in deps PROVE IsAsked(deps, d.to) /\ AskedOf(deps, d.to) = d
  <2>1. ASSUME NEW c \in deps, c.to = d.to PROVE c = d
    <3>1. PICK k \in reach : d = To(k)
      BY <1>2
    <3>2. PICK j \in reach : c = To(j)
      BY <1>2
    <3>3. ProjectOf[j] = ProjectOf[k]
      BY <2>1, <3>1, <3>2
    <3> QED
      BY <3>1, <3>2, <3>3
  <2> QED
    BY <2>1 DEF IsAsked, AskedOf
<1>6. ASSUME NEW p, IsAsked(deps, p) PROVE AskedOf(deps, p) \in deps /\ AskedOf(deps, p).to = p
  BY <1>6 DEF IsAsked, AskedOf
<1>7. IsFiniteSet(deps)
  <2>1. IsFiniteSet(reach)
    BY GpsAssumption, FS_Subset
  <2>2. f \in [reach -> deps] /\ \A k \in reach : f[k] = To(k)
    BY <1>2
  <2>3. \A d \in deps : \E k \in reach : f[k] = d
    BY <1>2, <2>2
  <2> HIDE DEF f
  <2>4. f \in Surjection(reach, deps)
    BY <2>2, <2>3 DEF Surjection
  <2> QED
    BY <2>1, <2>4, FS_Surjection
<1> QED
  BY <1>3, <1>4, <1>5, <1>6, <1>7 DEF AreRequests

\* The root's dependencies are requests.
LEMMA RootRequests ==
    ASSUME IsWorld(world)
    PROVE  AreRequests(RootDependencies)
<1>1. world.rootConstraints \in [Projects -> SUBSET Versions] /\ world.rootImports \in SUBSET Packages
  BY DEF IsWorld
<1> QED
  BY <1>1, RequestFacts DEF RootDependencies

\* An atom of a world has its packages and its constraints.
LEMMA AtomFacts ==
    ASSUME IsWorld(world), NEW a \in Atoms
    PROVE  /\ world.constraints[a] \in [Projects -> SUBSET Versions]
           /\ Reachable(a) \subseteq Packages
           /\ \A k \in Reachable(a) :
                 /\ world.internal[a][k] \subseteq Reachable(a)
                 /\ world.external[a][k] \subseteq Packages
                 /\ \A x \in world.external[a][k] : ProjectOf[x] # a[1]
                 /\ \A j \in world.internal[a][k] : world.external[a][j] \subseteq world.external[a][k]
BY DEF IsWorld, Reachable

\* What some packages of an atom reach outside of it.
ReachOf(a, pl) == UNION {world.external[a][k] : k \in pl \cap Reachable(a)}

\* The dependencies of an atom are what its packages reach.
LEMMA DependencyFacts ==
    ASSUME IsWorld(world), NEW a \in Atoms, NEW pl
    PROVE  /\ AreRequests(DependenciesOf(a, pl))
           /\ \A d \in DependenciesOf(a, pl) :
                 /\ d.to # a[1] /\ d.pl = {k \in ReachOf(a, pl) : ProjectOf[k] = d.to}
                 /\ d.allows = world.constraints[a][d.to]
           /\ \A k \in ReachOf(a, pl) : \E d \in DependenciesOf(a, pl) : d.to = ProjectOf[k] /\ k \in d.pl
<1>1. PICK reach : reach = ReachOf(a, pl)
  OBVIOUS
<1>2. ASSUME NEW x \in reach PROVE x \in Packages /\ ProjectOf[x] # a[1]
  <2>1. PICK k \in pl \cap Reachable(a) : x \in world.external[a][k]
    BY <1>1 DEF ReachOf
  <2> QED
    BY <2>1, AtomFacts
<1>3. world.constraints[a] \in [Projects -> SUBSET Versions] /\ reach \in SUBSET Packages
  BY <1>2, AtomFacts
<1>4. PICK deps : deps = DependenciesOf(a, pl)
  OBVIOUS
<1>5. deps = IntersectConstraintsWithImports(world.constraints[a], reach)
  BY <1>1, <1>4 DEF DependenciesOf, ReachOf
<1>6. /\ AreRequests(deps)
      /\ \A d \in deps : d.pl = {k \in reach : ProjectOf[k] = d.to} /\ d.allows = world.constraints[a][d.to]
      /\ \A k \in reach : \E d \in deps : d.to = ProjectOf[k] /\ k \in d.pl
  BY <1>3, <1>5, RequestFacts
<1>7. ASSUME NEW d \in deps PROVE d.to # a[1]
  <2>1. PICK k \in d.pl : TRUE
    BY <1>6 DEF AreRequests
  <2>2. k \in reach /\ ProjectOf[k] = d.to
    BY <1>6, <2>1
  <2> QED
    BY <1>2, <2>2
<1> QED
  BY <1>1, <1>4, <1>6, <1>7

\* The packages of an entry are packages of its atom.
LEMMA InternalFacts ==
    ASSUME IsWorld(world), NEW a \in Atoms, NEW pl \in SUBSET Reachable(a)
    PROVE  /\ pl \subseteq WithInternal(a, pl) /\ WithInternal(a, pl) \subseteq Reachable(a)
           /\ WithInternal(a, pl) \subseteq Packages
           /\ DependenciesOf(a, WithInternal(a, pl)) = DependenciesOf(a, pl)
<1>1. PICK all : all = WithInternal(a, pl)
  OBVIOUS
<1>2. ASSUME NEW x PROVE x \in all <=> x \in pl \/ \E k \in pl : x \in world.internal[a][k]
  BY <1>1 DEF WithInternal
<1>3. pl \subseteq all /\ all \subseteq Reachable(a) /\ all \subseteq Packages
  BY <1>2, AtomFacts
<1>4. ASSUME NEW x PROVE x \in ReachOf(a, all) <=> x \in ReachOf(a, pl)
  <2>1. x \in ReachOf(a, all) <=> \E j \in all : j \in Reachable(a) /\ x \in world.external[a][j]
    BY DEF ReachOf
  <2>2. x \in ReachOf(a, pl) <=> \E j \in pl : j \in Reachable(a) /\ x \in world.external[a][j]
    BY DEF ReachOf
  <2> QED
    BY <1>2, <1>3, <2>1, <2>2, AtomFacts
<1>5. ReachOf(a, all) = ReachOf(a, pl)
  BY <1>4
<1>6. DependenciesOf(a, all) = DependenciesOf(a, pl)
  BY <1>5 DEF DependenciesOf, ReachOf
<1> QED
  BY <1>1, <1>3, <1>6

-----------------------------------------------------------------------------
(* GpsSelection: the stacks of dependencies.                               *)

\* What selections are made of.
Selections == [projects : Seq(Entries), deps : [Projects -> Seq(Dependency)], unsel : Seq(QueueEntries)]

\* The types of a selection, one by one.
LEMMA SelectionFacts ==
    ASSUME NEW s \in Selections
    PROVE  /\ IsSolverState(s) /\ s.unsel \in Seq(QueueEntries)
           /\ s.projects \in Seq(Entries) /\ Len(s.projects) \in Nat /\ DOMAIN s.projects = 1 .. Len(s.projects)
           /\ \A i \in 1 .. Len(s.projects) : s.projects[i] \in Entries
           /\ s.deps \in [Projects -> Seq(Dependency)]
           /\ \A p \in Projects : s.deps[p] \in Seq(Dependency) /\ DOMAIN s.deps[p] = 1 .. Len(s.deps[p])
                                  /\ Len(s.deps[p]) \in Nat
<1>1. /\ s = [projects |-> s.projects, deps |-> s.deps, unsel |-> s.unsel]
      /\ s.projects \in Seq(Entries) /\ s.deps \in [Projects -> Seq(Dependency)] /\ s.unsel \in Seq(QueueEntries)
  BY DEF Selections
<1>2. \A p \in Projects : s.deps[p] \in Seq(Dependency) /\ DOMAIN s.deps[p] = 1 .. Len(s.deps[p])
                          /\ Len(s.deps[p]) \in Nat
  BY <1>1, LenProperties
<1>3. Len(s.projects) \in Nat /\ DOMAIN s.projects = 1 .. Len(s.projects)
  BY <1>1, LenProperties
<1>4. \A i \in 1 .. Len(s.projects) : s.projects[i] \in Entries
  BY <1>1, ElementOfSeq
<1> QED
  BY <1>1, <1>2, <1>3, <1>4 DEF IsSolverState

\* A record of the right types is a selection.
LEMMA IsASelection ==
    ASSUME NEW s, IsSolverState(s), s.projects \in Seq(Entries), s.deps \in [Projects -> Seq(Dependency)]
    PROVE  s \in Selections
BY DEF IsSolverState, Selections

\* Taking the top off a stack.
LEMMA FrontFacts ==
    ASSUME NEW X, NEW q \in Seq(X), q # <<>>
    PROVE  /\ Front(q) \in Seq(X) /\ Len(Front(q)) = Len(q) - 1 /\ Len(q) \in Nat \ {0}
           /\ \A i \in 1 .. Len(q) - 1 : Front(q)[i] = q[i]
           /\ Last(q) = q[Len(q)] /\ Last(q) \in X
<1>1. Len(q) \in Nat \ {0} /\ \A i \in 1 .. Len(q) : q[i] \in X
  BY EmptySeq, ElementOfSeq
<1>2. \A i \in 1 .. Len(q) - 1 : q[i] \in X
  BY <1>1
<1>3. /\ SubSeq(q, 1, Len(q) - 1) \in Seq(X)
      /\ Len(SubSeq(q, 1, Len(q) - 1)) = IF 1 <= Len(q) - 1 THEN (Len(q) - 1) - 1 + 1 ELSE 0
      /\ \A i \in 1 .. (Len(q) - 1) - 1 + 1 : SubSeq(q, 1, Len(q) - 1)[i] = q[1 + i - 1]
  <2>1. 1 \in Int /\ Len(q) - 1 \in Int
    BY <1>1
  <2> QED
    BY <1>2, <2>1, SubSeqProperties
<1>4. Front(q) = SubSeq(q, 1, Len(q) - 1)
  BY DEF Front
<1> PICK n \in Nat \ {0} : n = Len(q)
  BY <1>1
<1>5. Len(Front(q)) = Len(q) - 1
  <2>1. Len(Front(q)) = IF 1 <= n - 1 THEN (n - 1) - 1 + 1 ELSE 0
    BY <1>3, <1>4
  <2> QED
    BY <2>1
<1>6. \A i \in 1 .. Len(q) - 1 : Front(q)[i] = q[i]
  <2>1. \A i \in 1 .. (n - 1) - 1 + 1 : Front(q)[i] = q[1 + i - 1]
    BY <1>3, <1>4
  <2>2. ASSUME NEW i \in 1 .. n - 1 PROVE Front(q)[i] = q[i]
    <3>1. i \in 1 .. (n - 1) - 1 + 1 /\ 1 + i - 1 = i
      OBVIOUS
    <3> QED
      BY <2>1, <3>1
  <2> QED
    BY <2>2
<1>7. Last(q) = q[Len(q)] /\ Last(q) \in X
  BY <1>1 DEF Last
<1> QED
  BY <1>1, <1>3, <1>4, <1>5, <1>6, <1>7

\* One dependency more on a project, or one less.
LEMMA DependencyAdded ==
    ASSUME NEW s, NEW t, NEW p, NEW d \in Dependency,
           s.deps[p] \in Seq(Dependency), t.deps[p] = Append(s.deps[p], d)
    PROVE  /\ \A v \in Versions : v \in GetConstraint(t, p) <=> v \in GetConstraint(s, p) /\ v \in d.allows
           /\ \A k : k \in RequiredPackagesIn(t, p) <=> k \in RequiredPackagesIn(s, p) \/ k \in d.pl
<1>1. PICK q \in Seq(Dependency) : q = s.deps[p]
  OBVIOUS
<1>2. PICK n \in Nat : n = Len(q)
  BY LenProperties
<1>3. PICK r \in Seq(Dependency) : r = t.deps[p]
  BY <1>1, AppendProperties
<1>4. /\ DOMAIN q = 1 .. n /\ DOMAIN r = 1 .. n + 1
      /\ r[n + 1] = d /\ \A i \in 1 .. n : r[i] = q[i]
  BY <1>1, <1>2, <1>3, AppendProperties, LenProperties
<1>5. \A i : i \in DOMAIN r <=> i \in DOMAIN q \/ i = n + 1
  BY <1>4
<1>6. ASSUME NEW v \in Versions
      PROVE  v \in GetConstraint(t, p) <=> v \in GetConstraint(s, p) /\ v \in d.allows
  BY <1>1, <1>3, <1>4, <1>5 DEF GetConstraint
<1>7. ASSUME NEW k PROVE k \in RequiredPackagesIn(t, p) <=> k \in RequiredPackagesIn(s, p) \/ k \in d.pl
  <2>1. k \in RequiredPackagesIn(t, p) <=> \E i \in DOMAIN r : k \in r[i].pl
    BY <1>3 DEF RequiredPackagesIn
  <2>2. k \in RequiredPackagesIn(s, p) <=> \E i \in DOMAIN q : k \in q[i].pl
    BY <1>1 DEF RequiredPackagesIn
  <2> QED
    BY <1>4, <1>5, <2>1, <2>2
<1> QED
  BY <1>6, <1>7

\* Taking a dependency off leaves what the others require and allow.
LEMMA DependencyRemoved ==
    ASSUME NEW s, NEW t, NEW p,
           s.deps[p] \in Seq(Dependency), s.deps[p] # <<>>, t.deps[p] = Front(s.deps[p])
    PROVE  /\ GetConstraint(s, p) \subseteq GetConstraint(t, p)
           /\ RequiredPackagesIn(t, p) \subseteq RequiredPackagesIn(s, p)
<1>1. PICK q \in Seq(Dependency) : q = s.deps[p]
  OBVIOUS
<1>2. PICK n \in Nat : n = Len(q) /\ n > 0
  BY <1>1, EmptySeq
<1>3. PICK r \in Seq(Dependency) : r = t.deps[p]
  BY <1>1, FrontFacts
<1>4. /\ DOMAIN q = 1 .. n /\ DOMAIN r = 1 .. n - 1
      /\ \A i \in 1 .. n - 1 : r[i] = q[i]
  BY <1>1, <1>2, <1>3, FrontFacts, LenProperties
<1>5. \A i \in DOMAIN r : i \in DOMAIN q /\ r[i] = q[i]
  BY <1>4
<1>6. ASSUME NEW v \in GetConstraint(s, p) PROVE v \in GetConstraint(t, p)
  BY <1>1, <1>3, <1>5 DEF GetConstraint
<1>7. ASSUME NEW k \in RequiredPackagesIn(t, p) PROVE k \in RequiredPackagesIn(s, p)
  <2>1. \E i \in DOMAIN r : k \in r[i].pl
    BY <1>3 DEF RequiredPackagesIn
  <2>2. k \in RequiredPackagesIn(s, p) <=> \E i \in DOMAIN q : k \in q[i].pl
    BY <1>1 DEF RequiredPackagesIn
  <2> QED
    BY <1>5, <2>1, <2>2
<1> QED
  BY <1>6, <1>7

\* The stack of dependencies on one project.
MatchesAt(s, p) ==
    /\ Len(s.deps[p]) = Cardinality(Dependers(s, p))
    /\ \A i \in Dependers(s, p) :
          s.deps[p][PlaceIn(Dependers(s, p), i)]
            = DependencyFrom(s.projects[i].a, AskedOf(DependenciesOfEntry(s.projects[i]), p))

\* The stacks match if each does.
LEMMA MatchesEverywhere ==
    ASSUME NEW s
    PROVE  DepsMatchSelection(s) <=> \A p \in Projects : MatchesAt(s, p)
BY DEF DepsMatchSelection, MatchesAt

\* s has one entry more than t.
IsOneShorter(s, t) ==
    /\ Len(t.projects) = Len(s.projects) + 1
    /\ \A i \in 1 .. Len(s.projects) : t.projects[i] = s.projects[i]

\* The dependers are those of the others, and the last.
LEMMA DependersOfShorter ==
    ASSUME NEW s, NEW t, s.projects \in Seq(Entries), t.projects \in Seq(Entries), IsOneShorter(s, t), NEW p
    PROVE  /\ Dependers(s, p) \subseteq 1 .. Len(s.projects)
           /\ IF IsAsked(DependenciesOfEntry(t.projects[Len(s.projects) + 1]), p)
              THEN Dependers(t, p) = Dependers(s, p) \cup {Len(s.projects) + 1}
              ELSE Dependers(t, p) = Dependers(s, p)
<1>1. PICK n \in Nat : n = Len(s.projects)
  BY LenProperties
<1>2. DOMAIN s.projects = 1 .. n /\ DOMAIN t.projects = 1 .. n + 1
  BY <1>1, LenProperties DEF IsOneShorter
<1>3. ASSUME NEW i PROVE i \in Dependers(s, p) <=> i \in 1 .. n /\ IsAsked(DependenciesOfEntry(s.projects[i]), p)
  BY <1>2 DEF Dependers
<1>4. ASSUME NEW i PROVE i \in Dependers(t, p) <=> i \in 1 .. n + 1 /\ IsAsked(DependenciesOfEntry(t.projects[i]), p)
  BY <1>2 DEF Dependers
<1>5. \A i : i \in 1 .. n + 1 <=> i \in 1 .. n \/ i = n + 1
  OBVIOUS
<1>6. \A i \in 1 .. n : t.projects[i] = s.projects[i]
  BY <1>1 DEF IsOneShorter
<1>7. ASSUME NEW i \in 1 .. n PROVE i \in Dependers(t, p) <=> i \in Dependers(s, p)
  BY <1>3, <1>4, <1>5, <1>6
<1>8. Dependers(s, p) \subseteq 1 .. n
  BY <1>3
<1>9. CASE IsAsked(DependenciesOfEntry(t.projects[n + 1]), p)
  <2>1. ASSUME NEW i PROVE i \in Dependers(t, p) <=> i \in Dependers(s, p) \cup {n + 1}
    BY <1>3, <1>4, <1>5, <1>7, <1>9
  <2>2. Dependers(t, p) = Dependers(s, p) \cup {n + 1}
    BY <2>1
  <2> QED
    BY <1>1, <1>8, <1>9, <2>2
<1>10. CASE ~IsAsked(DependenciesOfEntry(t.projects[n + 1]), p)
  <2>1. ASSUME NEW i PROVE i \in Dependers(t, p) <=> i \in Dependers(s, p)
    BY <1>3, <1>4, <1>5, <1>7, <1>10
  <2>2. Dependers(t, p) = Dependers(s, p)
    BY <2>1
  <2> QED
    BY <1>1, <1>8, <1>10, <2>2
<1> QED
  BY <1>9, <1>10

\* The stacks match still when an entry is pushed with its dependencies,
LEMMA MatchAdded ==
    ASSUME NEW s, NEW t, s.projects \in Seq(Entries), t.projects \in Seq(Entries), IsOneShorter(s, t),
           NEW p, s.deps[p] \in Seq(Dependency), MatchesAt(s, p),
           NEW e, e = t.projects[Len(s.projects) + 1],
           IF IsAsked(DependenciesOfEntry(e), p)
           THEN LET d == DependencyFrom(e.a, AskedOf(DependenciesOfEntry(e), p))
                IN  d \in Dependency /\ t.deps[p] = Append(s.deps[p], d)
           ELSE t.deps[p] = s.deps[p]
    PROVE  MatchesAt(t, p)
<1>1. PICK n \in Nat : n = Len(s.projects)
  BY LenProperties
<1>2. PICK D \in SUBSET (1 .. n) : D = Dependers(s, p)
  BY <1>1, DependersOfShorter
<1>3. /\ Cardinality(D) \in Nat /\ \A i \in D : PlaceIn(D, i) \in 1 .. Cardinality(D)
      /\ Cardinality(D \cup {n + 1}) = Cardinality(D) + 1
      /\ PlaceIn(D \cup {n + 1}, n + 1) = Cardinality(D) + 1
      /\ \A i \in D : PlaceIn(D \cup {n + 1}, i) = PlaceIn(D, i)
  BY PlaceFacts, PlaceOfNext
<1>4. PICK q \in Seq(Dependency) : q = s.deps[p]
  OBVIOUS
<1>5. /\ Len(q) = Cardinality(D)
      /\ \A i \in D : q[PlaceIn(D, i)]
                       = DependencyFrom(s.projects[i].a, AskedOf(DependenciesOfEntry(s.projects[i]), p))
  BY <1>2, <1>4 DEF MatchesAt
<1>6. \A i \in D : t.projects[i] = s.projects[i]
  BY <1>1 DEF IsOneShorter
<1>7. CASE IsAsked(DependenciesOfEntry(e), p)
  <2>1. PICK d \in Dependency : d = DependencyFrom(e.a, AskedOf(DependenciesOfEntry(e), p)) /\ t.deps[p] = Append(q, d)
    BY <1>4, <1>7
  <2>2. Dependers(t, p) = D \cup {n + 1}
    BY <1>1, <1>2, <1>7, DependersOfShorter
  <2>3. PICK r \in Seq(Dependency) : r = t.deps[p]
    BY <2>1, AppendProperties
  <2>4. Len(r) = Cardinality(D) + 1 /\ r[Cardinality(D) + 1] = d /\ \A i \in 1 .. Cardinality(D) : r[i] = q[i]
    BY <1>5, <2>1, <2>3, AppendProperties
  <2>5. ASSUME NEW i \in D \cup {n + 1}
        PROVE  r[PlaceIn(D \cup {n + 1}, i)]
               = DependencyFrom(t.projects[i].a, AskedOf(DependenciesOfEntry(t.projects[i]), p))
    <3>1. CASE i \in D
      BY <1>3, <1>5, <1>6, <2>4, <3>1
    <3>2. CASE i = n + 1
      BY <1>1, <1>3, <2>1, <2>4, <3>2
    <3> QED
      BY <3>1, <3>2
  <2>6. Len(r) = Cardinality(D \cup {n + 1})
    BY <1>3, <2>4
  <2> QED
    BY <2>2, <2>3, <2>5, <2>6 DEF MatchesAt
<1>8. CASE ~IsAsked(DependenciesOfEntry(e), p)
  <2>1. Dependers(t, p) = D
    BY <1>1, <1>2, <1>8, DependersOfShorter
  <2>2. t.deps[p] = q
    BY <1>4, <1>8
  <2> QED
    BY <1>5, <1>6, <2>1, <2>2 DEF MatchesAt
<1> QED
  BY <1>7, <1>8

\* and when it is popped with them.
LEMMA MatchRemoved ==
    ASSUME NEW s, NEW t, s.projects \in Seq(Entries), t.projects \in Seq(Entries), IsOneShorter(t, s),
           NEW p, s.deps[p] \in Seq(Dependency), MatchesAt(s, p),
           NEW e, e = s.projects[Len(t.projects) + 1],
           t.deps[p] = IF IsAsked(DependenciesOfEntry(e), p) THEN Front(s.deps[p]) ELSE s.deps[p]
    PROVE  /\ MatchesAt(t, p)
           /\ IsAsked(DependenciesOfEntry(e), p) => s.deps[p] # <<>>
<1>1. PICK n \in Nat : n = Len(t.projects)
  BY LenProperties
<1>2. PICK D \in SUBSET (1 .. n) : D = Dependers(t, p)
  BY <1>1, DependersOfShorter
<1>3. /\ Cardinality(D) \in Nat /\ \A i \in D : PlaceIn(D, i) \in 1 .. Cardinality(D)
      /\ Cardinality(D \cup {n + 1}) = Cardinality(D) + 1
      /\ \A i \in D : PlaceIn(D \cup {n + 1}, i) = PlaceIn(D, i)
  BY PlaceFacts, PlaceOfNext
<1>4. PICK q \in Seq(Dependency) : q = s.deps[p]
  OBVIOUS
<1>5. /\ Len(q) = Cardinality(Dependers(s, p))
      /\ \A i \in Dependers(s, p) :
            q[PlaceIn(Dependers(s, p), i)]
              = DependencyFrom(s.projects[i].a, AskedOf(DependenciesOfEntry(s.projects[i]), p))
  BY <1>4 DEF MatchesAt
<1>6. \A i \in D : t.projects[i] = s.projects[i]
  BY <1>1 DEF IsOneShorter
<1>7. CASE IsAsked(DependenciesOfEntry(e), p)
  <2>1. Dependers(s, p) = D \cup {n + 1}
    BY <1>1, <1>2, <1>7, DependersOfShorter
  <2>2. Len(q) = Cardinality(D) + 1 /\ q # <<>>
    BY <1>3, <1>5, <2>1, EmptySeq
  <2>3. PICK r \in Seq(Dependency) : r = t.deps[p] /\ r = Front(q)
    BY <1>4, <1>7, <2>2, FrontFacts
  <2>4. Len(r) = Cardinality(D) /\ \A i \in 1 .. Cardinality(D) : r[i] = q[i]
    <3>1. Len(r) = Len(q) - 1 /\ \A i \in 1 .. Len(q) - 1 : r[i] = q[i]
      BY <2>2, <2>3, FrontFacts
    <3>2. Len(q) - 1 = Cardinality(D)
      BY <1>3, <2>2
    <3> QED
      BY <3>1, <3>2
  <2>5. ASSUME NEW i \in D
        PROVE  r[PlaceIn(D, i)] = DependencyFrom(t.projects[i].a, AskedOf(DependenciesOfEntry(t.projects[i]), p))
    BY <1>3, <1>5, <1>6, <2>1, <2>4
  <2>6. MatchesAt(t, p)
    BY <1>2, <2>3, <2>4, <2>5 DEF MatchesAt
  <2> QED
    BY <1>4, <2>2, <2>6
<1>8. CASE ~IsAsked(DependenciesOfEntry(e), p)
  <2>1. Dependers(s, p) = D
    BY <1>1, <1>2, <1>8, DependersOfShorter
  <2>2. t.deps[p] = q
    BY <1>4, <1>8
  <2>3. MatchesAt(t, p)
    BY <1>2, <1>5, <1>6, <2>1, <2>2 DEF MatchesAt
  <2> QED
    BY <1>8, <2>3
<1> QED
  BY <1>7, <1>8

-----------------------------------------------------------------------------
(* GpsSelection: selectAtom.                                               *)

\* remove() takes out at most the entry that it was called with.
LEMMA RemoveBmiKeeps ==
    ASSUME NEW s, IsSolverState(s), NEW p, NEW pl
    PROVE  /\ RemoveBmi(s, p, pl).unsel \in Seq(QueueEntries)
           /\ \A e : IsQueued(s, e) /\ ~(e.id = p /\ e.pl = pl) => IsQueued(RemoveBmi(s, p, pl), e)
<1>1. PICK q \in Seq(QueueEntries) : q = s.unsel
  BY DEF IsSolverState
<1>2. PICK gone : gone = FirstBmi(s, p, pl)
  OBVIOUS
<1>3. PICK r : r = RemoveAll(q, gone)
  OBVIOUS
<1>4. /\ r \in Seq(QueueEntries)
      /\ \A i \in 1 .. Len(q) : i \notin gone => \E j \in DOMAIN r : r[j] = q[i]
  BY <1>3, RemoveAllKeeps
<1>5. RemoveBmi(s, p, pl).unsel = r
  BY <1>1, <1>2, <1>3 DEF RemoveBmi, IsSolverState
<1>6. DOMAIN q = 1 .. Len(q)
  BY LenProperties
<1>7. ASSUME NEW e, IsQueued(s, e), ~(e.id = p /\ e.pl = pl) PROVE IsQueued(RemoveBmi(s, p, pl), e)
  <2>1. PICK i \in 1 .. Len(q) : q[i] = e
    BY <1>1, <1>6, <1>7 DEF IsQueued
  <2>2. i \notin gone
    BY <1>1, <1>2, <1>7, <2>1 DEF FirstBmi, IsBmi
  <2> QED
    BY <1>4, <1>5, <2>1, <2>2 DEF IsQueued
<1> QED
  BY <1>4, <1>5, <1>7

\* What an atom newly requires is made into entries of the queue.
LEMMA NewlyRequiredFacts ==
    ASSUME IsWorld(world), NEW s, NEW a \in Atoms, NEW new, AreRequests(new)
    PROVE  /\ NewlyRequired(s, a, new) \subseteq QueueEntries /\ IsFiniteSet(NewlyRequired(s, a, new))
           /\ \A d \in new : d.pl \subseteq RequiredPackagesIn(s, d.to)
                 \/ \E e \in NewlyRequired(s, a, new) : e.id = d.to /\ e.pl = d.pl \ RequiredPackagesIn(s, d.to)
<1> DEFINE Queue(d) == Bmi(d.to, d.pl \ RequiredPackagesIn(s, d.to),
                           IF d.to \in DOMAIN world.lock[a] THEN world.lock[a][d.to] ELSE NoVersion)
           wanted == {d \in new : ~ d.pl \subseteq RequiredPackagesIn(s, d.to)}
           f == [d \in wanted |-> Queue(d)]
<1>1. PICK result : result = NewlyRequired(s, a, new)
  OBVIOUS
<1>2. ASSUME NEW e PROVE e \in result <=> \E d \in wanted : e = Queue(d)
  BY <1>1 DEF NewlyRequired
<1>3. ASSUME NEW d \in new PROVE d.to \in Projects /\ d.pl \in SUBSET Packages
  BY DEF AreRequests, Requests
<1>4. ASSUME NEW d \in wanted PROVE Queue(d) \in QueueEntries
  <2>1. d.to \in Projects /\ d.pl \in SUBSET Packages
    BY <1>3
  <2>2. (IF d.to \in DOMAIN world.lock[a] THEN world.lock[a][d.to] ELSE NoVersion) \in Versions \cup {NoVersion}
    BY DEF IsWorld
  <2>3. PICK v \in Versions \cup {NoVersion} :
           v = IF d.to \in DOMAIN world.lock[a] THEN world.lock[a][d.to] ELSE NoVersion
    BY <2>2
  <2>4. PICK x \in SUBSET Packages : x = d.pl \ RequiredPackagesIn(s, d.to)
    BY <2>1
  <2>5. Queue(d) = [id |-> d.to, pl |-> x, fromRoot |-> FALSE, prefv |-> v]
    BY <2>3, <2>4 DEF Bmi
  <2> HIDE DEF Queue, wanted
  <2>6. PICK p \in Projects : p = d.to
    BY <2>1
  <2> QED
    BY <2>5, <2>6 DEF QueueEntries
<1>5. result \subseteq QueueEntries
  BY <1>2, <1>4
<1>6. ASSUME NEW d \in new, ~ d.pl \subseteq RequiredPackagesIn(s, d.to)
      PROVE  \E e \in result : e.id = d.to /\ e.pl = d.pl \ RequiredPackagesIn(s, d.to)
  <2>1. PICK e : e = Queue(d)
    OBVIOUS
  <2>2. e \in result
    BY <1>2, <1>6, <2>1
  <2>3. e.id = d.to /\ e.pl = d.pl \ RequiredPackagesIn(s, d.to)
    BY <2>1 DEF Bmi
  <2> QED
    BY <2>2, <2>3
<1>7. IsFiniteSet(result)
  <2>1. IsFiniteSet(wanted)
    BY FS_Subset DEF AreRequests
  <2>2. f \in [wanted -> result] /\ \A e \in result : \E d \in wanted : f[d] = e
    BY <1>2
  <2> HIDE DEF f, wanted
  <2>3. f \in Surjection(wanted, result)
    BY <2>2 DEF Surjection
  <2> QED
    BY <2>1, <2>3, FS_Surjection
<1> QED
  BY <1>1, <1>5, <1>6, <1>7

\* What selectAtom leaves behind: one entry more, what it asks for on the stacks,
\* and what it newly requires in the queue.
LEMMA SelectAtomShape ==
    ASSUME IsWorld(world), NEW s \in Selections, NEW a \in Atoms, NEW pl \in SUBSET Reachable(a),
           NEW pkgonly \in BOOLEAN, NEW t \in SelectAtom(s, a, pl, pkgonly)
    PROVE  /\ t \in Selections
           /\ t.projects = Append(s.projects, [a |-> a, pl |-> WithInternal(a, pl), first |-> ~pkgonly])
           /\ [a |-> a, pl |-> WithInternal(a, pl), first |-> ~pkgonly] \in Entries
           /\ t.deps = PushDeps(s.deps, a, DependenciesOf(a, pl))
           /\ \A p \in Projects : IsAsked(DependenciesOf(a, pl), p) =>
                 DependencyFrom(a, AskedOf(DependenciesOf(a, pl), p)) \in Dependency
           /\ \A e : IsQueued(s, e) /\ ~(e.id = a[1] /\ e.pl = pl) => IsQueued(t, e)
           /\ \A e \in NewlyRequired(s, a, DependenciesOf(a, pl)) : IsQueued(t, e)
<1>1. PICK new : new = DependenciesOf(a, pl)
  OBVIOUS
<1>2. AreRequests(new)
  BY <1>1, DependencyFacts
<1>3. PICK e : e = [a |-> a, pl |-> WithInternal(a, pl), first |-> ~pkgonly]
  OBVIOUS
<1>4. e \in Entries
  BY <1>3, InternalFacts DEF Entries
<1>5. PICK q \in Seq(QueueEntries) :
        /\ q = RemoveBmi(s, a[1], pl).unsel
        /\ \A x : IsQueued(s, x) /\ ~(x.id = a[1] /\ x.pl = pl) => \E j \in DOMAIN q : q[j] = x
  <2>1. IsSolverState(s)
    BY SelectionFacts
  <2>2. PICK removed : removed = RemoveBmi(s, a[1], pl)
    OBVIOUS
  <2>3. /\ removed.unsel \in Seq(QueueEntries)
        /\ \A x : IsQueued(s, x) /\ ~(x.id = a[1] /\ x.pl = pl) => IsQueued(removed, x)
    BY <2>1, <2>2, RemoveBmiKeeps
  <2>4. \A x : IsQueued(removed, x) => \E j \in DOMAIN removed.unsel : removed.unsel[j] = x
    BY DEF IsQueued
  <2> QED
    BY <2>2, <2>3, <2>4
<1>6. PICK pushed : pushed = [projects |-> Append(s.projects, e), deps |-> PushDeps(s.deps, a, new), unsel |-> q]
  OBVIOUS
<1>7. PICK order \in SetToSeqs(NewlyRequired(s, a, new)) : t = HeapPushAll(pushed, order)
  BY <1>1, <1>3, <1>5, <1>6 DEF SelectAtom
<1>8. IsSolverState(pushed)
  BY <1>6 DEF IsSolverState
<1>9. NewlyRequired(s, a, new) \subseteq QueueEntries /\ IsFiniteSet(NewlyRequired(s, a, new))
  BY <1>2, NewlyRequiredFacts
<1>10. order \in Seq(NewlyRequired(s, a, new)) /\ {order[i] : i \in 1 .. Len(order)} = NewlyRequired(s, a, new)
  BY <1>9, OrdersAreComplete
<1>11. order \in Seq(QueueEntries)
  BY <1>9, <1>10, SeqMonotonic
<1>12. IsPushed(pushed, NewlyRequired(s, a, new), t)
  BY <1>7, <1>8, <1>10, <1>11, HeapPushAllKeeps
<1>13. IsSolverState(t) /\ t.projects = Append(s.projects, e) /\ t.deps = PushDeps(s.deps, a, new)
  BY <1>6, <1>12 DEF IsPushed
<1>14. ASSUME NEW p \in Projects, IsAsked(new, p) PROVE DependencyFrom(a, AskedOf(new, p)) \in Dependency
  <2>1. PICK d \in Requests : d = AskedOf(new, p)
    BY <1>2, <1>14 DEF AreRequests
  <2>2. d.pl \in SUBSET Packages /\ d.allows \in SUBSET Versions
    BY DEF Requests
  <2> QED
    BY <2>1, <2>2 DEF DependencyFrom, Dependency
<1>15. PushDeps(s.deps, a, new) \in [Projects -> Seq(Dependency)]
  <2>1. ASSUME NEW p \in Projects
        PROVE  (IF IsAsked(new, p) THEN Append(s.deps[p], DependencyFrom(a, AskedOf(new, p))) ELSE s.deps[p])
                 \in Seq(Dependency)
    <3>1. s.deps[p] \in Seq(Dependency)
      BY SelectionFacts
    <3>2. CASE IsAsked(new, p)
      BY <1>14, <3>1, <3>2, AppendProperties
    <3>3. CASE ~IsAsked(new, p)
      BY <3>1, <3>3
    <3> QED
      BY <3>2, <3>3
  <2> QED
    BY <2>1 DEF PushDeps
<1>16. Append(s.projects, e) \in Seq(Entries)
  BY <1>4, SelectionFacts, AppendProperties
<1>17. t \in Selections
  BY <1>13, <1>15, <1>16, IsASelection
<1>18. \A x : IsQueued(s, x) /\ ~(x.id = a[1] /\ x.pl = pl) => IsQueued(t, x)
  <2>1. ASSUME NEW x, IsQueued(s, x), ~(x.id = a[1] /\ x.pl = pl) PROVE IsQueued(t, x)
    <3>1. IsQueued(pushed, x)
      BY <1>5, <1>6, <2>1 DEF IsQueued
    <3> QED
      BY <1>12, <3>1 DEF IsPushed
  <2> QED
    BY <2>1
<1>19. \A x \in NewlyRequired(s, a, new) : IsQueued(t, x)
  BY <1>12 DEF IsPushed
<1> QED
  BY <1>1, <1>3, <1>4, <1>13, <1>14, <1>17, <1>18, <1>19

-----------------------------------------------------------------------------
(* GpsSelection: the selection.                                            *)

\* Entries have one atom per project, and the first of a project says so.
EntriesAreSound(s) ==
    /\ Len(s.projects) >= 1 /\ s.projects[1].a = RootAtom /\ s.projects[1].first
    /\ \A i \in 2 .. Len(s.projects) :
          LET e == s.projects[i]
          IN  /\ e.a \in Atoms /\ e.pl \subseteq Reachable(e.a)
              /\ e.first <=> \A j \in 2 .. i - 1 : s.projects[j].a[1] # e.a[1]
              /\ \A j \in 2 .. Len(s.projects) : s.projects[j].a[1] = e.a[1] => s.projects[j].a = e.a

\* Every selected version is allowed by all who ask for its project.
SelectedIsAllowed(s) ==
    \A i \in 2 .. Len(s.projects) : s.projects[i].a[2] \in GetConstraint(s, s.projects[i].a[1])

\* The invariant of a selection: all that the solver says of it between two steps.
IsSelection(s) ==
    /\ s \in Selections /\ EntriesAreSound(s) /\ SelectedIsAllowed(s)
    /\ DepsMatchSelection(s) /\ ConstraintsAgree(s) /\ IsNothingForgotten(s)

\* Where packages are selected, and queued.
LEMMA PackageFacts ==
    ASSUME NEW s
    PROVE  /\ \A p, k : k \in QueuedPackagesIn(s, p) <=> \E e : IsQueued(s, e) /\ e.id = p /\ k \in e.pl
           /\ \A p, k : k \in SelectedPackagesIn(s, p) <=> \E i \in IndicesOf(s, p) : k \in s.projects[i].pl
<1>1. ASSUME NEW p, NEW k
      PROVE  k \in QueuedPackagesIn(s, p) <=> \E e : IsQueued(s, e) /\ e.id = p /\ k \in e.pl
  <2>1. k \in QueuedPackagesIn(s, p) <=> \E i \in DOMAIN s.unsel : s.unsel[i].id = p /\ k \in s.unsel[i].pl
    BY DEF QueuedPackagesIn
  <2>2. ASSUME NEW i \in DOMAIN s.unsel PROVE IsQueued(s, s.unsel[i])
    BY DEF IsQueued
  <2>3. ASSUME NEW e, IsQueued(s, e) PROVE \E i \in DOMAIN s.unsel : s.unsel[i] = e
    BY <2>3 DEF IsQueued
  <2> QED
    BY <2>1, <2>2, <2>3
<1>2. ASSUME NEW p, NEW k
      PROVE  k \in SelectedPackagesIn(s, p) <=> \E i \in IndicesOf(s, p) : k \in s.projects[i].pl
  BY DEF SelectedPackagesIn
<1> QED
  BY <1>1, <1>2

\* Atoms are pairs, and the root's is none of them.
LEMMA AtomIsPair ==
    ASSUME NEW a \in Atoms
    PROVE  a[1] \in Projects /\ a[2] \in Versions /\ a = <<a[1], a[2]>> /\ a # RootAtom /\ a[1] # Root
BY GpsAssumption DEF Atoms, RootAtom

\* The atom of a selected project.
LEMMA SelectedFacts ==
    ASSUME NEW s \in Selections, EntriesAreSound(s), NEW p \in Projects
    PROVE  /\ \A i : i \in IndicesOf(s, p) <=> i \in 2 .. Len(s.projects) /\ s.projects[i].a[1] = p
           /\ IsSelected(s, p) <=> \E i \in 2 .. Len(s.projects) : s.projects[i].a[1] = p
           /\ \A i \in IndicesOf(s, p) : s.projects[i].a = SelectedAtom(s, p)
           /\ IsSelected(s, p) => /\ SelectedAtom(s, p) \in Atoms /\ SelectedAtom(s, p)[1] = p
                                  /\ \E i \in IndicesOf(s, p) : s.projects[i].a = SelectedAtom(s, p)
<1>1. PICK n \in Nat : n = Len(s.projects) /\ n >= 1 /\ DOMAIN s.projects = 1 .. n
  BY SelectionFacts DEF EntriesAreSound
<1>2. s.projects[1].a[1] # p
  BY GpsAssumption DEF EntriesAreSound, RootAtom
<1>3. ASSUME NEW i PROVE i \in IndicesOf(s, p) <=> i \in 2 .. n /\ s.projects[i].a[1] = p
  <2>1. i \in IndicesOf(s, p) <=> i \in 1 .. n /\ s.projects[i].a[1] = p
    BY <1>1 DEF IndicesOf
  <2>2. i \in 1 .. n <=> i = 1 \/ i \in 2 .. n
    BY <1>1
  <2> QED
    BY <1>2, <2>1, <2>2
<1>4. IsSelected(s, p) <=> \E i \in 2 .. n : s.projects[i].a[1] = p
  BY <1>3 DEF IsSelected
<1>5. ASSUME NEW i \in IndicesOf(s, p)
      PROVE  /\ s.projects[i].a = SelectedAtom(s, p) /\ SelectedAtom(s, p) \in Atoms /\ SelectedAtom(s, p)[1] = p
  <2>1. PICK m : m = Min(IndicesOf(s, p))
    OBVIOUS
  <2>2. IndicesOf(s, p) \in SUBSET Nat /\ IndicesOf(s, p) # {}
    BY <1>3
  <2>3. m \in IndicesOf(s, p)
    BY <2>1, <2>2, MinIsLeast
  <2>4. m \in 2 .. n /\ i \in 2 .. n /\ s.projects[m].a[1] = p /\ s.projects[i].a[1] = p
    BY <1>3, <2>3
  <2>5. s.projects[m].a = s.projects[i].a /\ s.projects[m].a \in Atoms
    BY <1>1, <2>4 DEF EntriesAreSound
  <2>6. SelectedAtom(s, p) = s.projects[m].a
    BY <2>1 DEF SelectedAtom
  <2> QED
    BY <2>4, <2>5, <2>6
<1>6. IsSelected(s, p) => \E i : i \in IndicesOf(s, p)
  BY DEF IsSelected
<1> QED
  BY <1>1, <1>3, <1>4, <1>5, <1>6

\* What passing all checks means.
LEMMA CheckFacts ==
    ASSUME NEW s, NEW a, NEW pl, NEW pkgonly \in BOOLEAN, Check(s, a, pl, pkgonly) = {}
    PROVE  /\ ~pkgonly => IsAllowed(s, a)
           /\ pl \subseteq Reachable(a)
           /\ \A d \in DependenciesOf(a, pl) :
                 ~IsDisjoint(s, d) /\ ~RejectsSelected(s, d) /\ ~LacksImports(s, d)
<1>1. ~(~pkgonly /\ ~IsAllowed(s, a))
  BY DEF Check
<1>2. HasPackages(s, a, pl)
  BY <1>1 DEF Check
<1>3. {FailedBy(s, d) : d \in {e \in DependenciesOf(a, pl) : IsBadDependency(s, e)}} = {}
  BY <1>1, <1>2 DEF Check
<1>4. \A d \in DependenciesOf(a, pl) : ~IsBadDependency(s, d)
  BY <1>3
<1> QED
  BY <1>1, <1>2, <1>4 DEF HasPackages, IsBadDependency

\* What an atom may be selected for: a new project, or more packages of one.
MaySelect(s, a, pkgonly) ==
    IF pkgonly THEN IsSelected(s, a[1]) /\ a = SelectedAtom(s, a[1]) ELSE ~IsSelected(s, a[1])

\* The project is asked for d, and for nothing else that is new.
AddsTo(s, t, p, d) ==
    /\ d.to = p
    /\ \A v \in Versions : v \in GetConstraint(t, p) <=> v \in GetConstraint(s, p) /\ v \in d.allows
    /\ \A k : k \in RequiredPackagesIn(t, p) <=> k \in RequiredPackagesIn(s, p) \/ k \in d.pl

\* selectAtom keeps a selection one, when the checks have passed.
LEMMA SelectAtomInv ==
    ASSUME IsWorld(world), NEW s, IsSelection(s), NEW a \in Atoms, NEW pl, NEW pkgonly \in BOOLEAN,
           Check(s, a, pl, pkgonly) = {}, MaySelect(s, a, pkgonly), NEW t \in SelectAtom(s, a, pl, pkgonly)
    PROVE  /\ IsSelection(t)
           /\ t.projects = Append(s.projects, [a |-> a, pl |-> WithInternal(a, pl), first |-> ~pkgonly])
           /\ [a |-> a, pl |-> WithInternal(a, pl), first |-> ~pkgonly] \in Entries
<1>1. s \in Selections /\ EntriesAreSound(s) /\ SelectedIsAllowed(s)
      /\ DepsMatchSelection(s) /\ ConstraintsAgree(s) /\ IsNothingForgotten(s)
  BY DEF IsSelection
<1>2. /\ ~pkgonly => IsAllowed(s, a)
      /\ pl \in SUBSET Reachable(a)
      /\ \A d \in DependenciesOf(a, pl) : ~IsDisjoint(s, d) /\ ~RejectsSelected(s, d)
  BY CheckFacts
<1>3. PICK new : new = DependenciesOf(a, pl)
  OBVIOUS
<1>4. PICK e \in Entries : e = [a |-> a, pl |-> WithInternal(a, pl), first |-> ~pkgonly]
  BY <1>1, <1>2, SelectAtomShape
<1>5. /\ t \in Selections /\ t.projects = Append(s.projects, e) /\ t.deps = PushDeps(s.deps, a, new)
      /\ \A p \in Projects : IsAsked(new, p) => DependencyFrom(a, AskedOf(new, p)) \in Dependency
      /\ \A x : IsQueued(s, x) /\ ~(x.id = a[1] /\ x.pl = pl) => IsQueued(t, x)
      /\ \A x \in NewlyRequired(s, a, new) : IsQueued(t, x)
  BY <1>1, <1>2, <1>3, <1>4, SelectAtomShape
<1>6. PICK n \in Nat : n = Len(s.projects) /\ n >= 1
  BY <1>1, SelectionFacts DEF EntriesAreSound
<1>7. /\ Len(t.projects) = n + 1 /\ t.projects[n + 1] = e /\ \A i \in 1 .. n : t.projects[i] = s.projects[i]
  BY <1>1, <1>5, <1>6, SelectionFacts, AppendProperties
<1>8. AreRequests(new) /\ \A d \in new : d.to # a[1]
  BY <1>3, DependencyFacts
<1>9. \A i : i \in 2 .. n + 1 <=> i \in 2 .. n \/ i = n + 1
  BY <1>6
<1>10. \A i \in 2 .. n : i \in 1 .. n
  OBVIOUS
<1>11. a[1] \in Projects /\ a # RootAtom
  BY AtomIsPair
<1>12. EntriesAreSound(t)
  <2>1. Len(t.projects) >= 1 /\ t.projects[1].a = RootAtom /\ t.projects[1].first
    BY <1>1, <1>6, <1>7 DEF EntriesAreSound
  <2>2. e.a = a /\ e.pl \subseteq Reachable(a)
    BY <1>2, <1>4, InternalFacts
  <2>3. ASSUME NEW i \in 2 .. n, s.projects[i].a[1] = a[1] PROVE s.projects[i].a = a
    BY <1>1, <1>6, <1>11, <2>3, SelectedFacts DEF MaySelect
  <2>4. e.first <=> \A j \in 2 .. n : s.projects[j].a[1] # a[1]
    <3>1. IsSelected(s, a[1]) <=> \E j \in 2 .. n : s.projects[j].a[1] = a[1]
      BY <1>1, <1>6, <1>11, SelectedFacts
    <3>2. e.first <=> ~pkgonly
      BY <1>4
    <3>3. ~pkgonly <=> ~IsSelected(s, a[1])
      BY DEF MaySelect
    <3> QED
      BY <3>1, <3>2, <3>3
  <2>5. ASSUME NEW i \in 2 .. n
        PROVE  /\ s.projects[i].a \in Atoms /\ s.projects[i].pl \subseteq Reachable(s.projects[i].a)
               /\ s.projects[i].first <=> \A j \in 2 .. i - 1 : s.projects[j].a[1] # s.projects[i].a[1]
               /\ \A j \in 2 .. n : s.projects[j].a[1] = s.projects[i].a[1] => s.projects[j].a = s.projects[i].a
    BY <1>1, <1>6 DEF EntriesAreSound
  <2>6. ASSUME NEW i \in 2 .. n
        PROVE  /\ t.projects[i].a \in Atoms /\ t.projects[i].pl \subseteq Reachable(t.projects[i].a)
               /\ t.projects[i].first <=> \A j \in 2 .. i - 1 : t.projects[j].a[1] # t.projects[i].a[1]
               /\ \A j \in 2 .. n + 1 : t.projects[j].a[1] = t.projects[i].a[1] => t.projects[j].a = t.projects[i].a
    <3>1. \A j \in 2 .. i - 1 : t.projects[j] = s.projects[j]
      BY <1>7
    <3>2. t.projects[i] = s.projects[i] /\ \A j \in 2 .. n : t.projects[j] = s.projects[j]
      BY <1>7, <1>10
    <3>3. ASSUME NEW j \in 2 .. n + 1, t.projects[j].a[1] = t.projects[i].a[1]
          PROVE  t.projects[j].a = t.projects[i].a
      <4>1. CASE j \in 2 .. n
        BY <2>5, <3>2, <3>3, <4>1
      <4>2. CASE j = n + 1
        <5>1. t.projects[j].a = a
          BY <1>7, <2>2, <4>2
        <5>2. s.projects[i].a[1] = a[1]
          BY <3>2, <3>3, <5>1
        <5> QED
          BY <2>3, <3>2, <5>1, <5>2
      <4> QED
        BY <1>9, <4>1, <4>2
    <3>4. t.projects[i].first <=> \A j \in 2 .. i - 1 : t.projects[j].a[1] # t.projects[i].a[1]
      BY <2>5, <3>1, <3>2
    <3> QED
      BY <2>5, <3>2, <3>3, <3>4
  <2>7. /\ e.a \in Atoms /\ e.pl \subseteq Reachable(e.a)
        /\ e.first <=> \A j \in 2 .. n : t.projects[j].a[1] # e.a[1]
        /\ \A j \in 2 .. n + 1 : t.projects[j].a[1] = e.a[1] => t.projects[j].a = e.a
    <3>1. \A j \in 2 .. n : t.projects[j] = s.projects[j]
      BY <1>7, <1>10
    <3> QED
      BY <1>7, <1>9, <2>2, <2>3, <2>4, <3>1
  <2>8. ASSUME NEW i \in 2 .. n + 1
        PROVE  /\ t.projects[i].a \in Atoms /\ t.projects[i].pl \subseteq Reachable(t.projects[i].a)
               /\ t.projects[i].first <=> \A j \in 2 .. i - 1 : t.projects[j].a[1] # t.projects[i].a[1]
               /\ \A j \in 2 .. n + 1 : t.projects[j].a[1] = t.projects[i].a[1] => t.projects[j].a = t.projects[i].a
    <3>1. CASE i \in 2 .. n
      BY <2>6, <3>1
    <3>2. CASE i = n + 1
      <4>1. i - 1 = n /\ t.projects[i] = e
        BY <1>7, <3>2
      <4> QED
        BY <2>7, <4>1
    <3> QED
      BY <1>9, <3>1, <3>2
  <2> QED
    BY <1>7, <2>1, <2>8 DEF EntriesAreSound
<1>13. \A p \in Projects : t.deps[p] = IF IsAsked(new, p) THEN Append(s.deps[p], DependencyFrom(a, AskedOf(new, p)))
                                       ELSE s.deps[p]
  BY <1>5 DEF PushDeps
\* What one project is asked for.
<1>14. ASSUME NEW p \in Projects, IsAsked(new, p)
       PROVE  \E d \in new : AddsTo(s, t, p, d)
  <2>1. PICK d \in new : d = AskedOf(new, p) /\ d.to = p
    BY <1>8, <1>14 DEF AreRequests
  <2>2. PICK x \in Dependency : x = DependencyFrom(a, d)
    BY <1>5, <1>14, <2>1
  <2>3. t.deps[p] = Append(s.deps[p], x) /\ s.deps[p] \in Seq(Dependency)
    BY <1>1, <1>13, <1>14, <2>1, <2>2, SelectionFacts
  <2>4. /\ \A v \in Versions : v \in GetConstraint(t, p) <=> v \in GetConstraint(s, p) /\ v \in x.allows
        /\ \A k : k \in RequiredPackagesIn(t, p) <=> k \in RequiredPackagesIn(s, p) \/ k \in x.pl
    BY <2>3, DependencyAdded
  <2>5. x.allows = d.allows /\ x.pl = d.pl
    BY <2>2 DEF DependencyFrom
  <2>6. AddsTo(s, t, p, d)
    BY <2>1, <2>4, <2>5 DEF AddsTo
  <2> QED
    BY <2>6
<1>15. ASSUME NEW p \in Projects, ~IsAsked(new, p)
       PROVE  GetConstraint(t, p) = GetConstraint(s, p) /\ RequiredPackagesIn(t, p) = RequiredPackagesIn(s, p)
  BY <1>13, <1>15 DEF GetConstraint, RequiredPackagesIn
<1>16. SelectedIsAllowed(t)
  <2>1. ASSUME NEW i \in 2 .. n + 1 PROVE t.projects[i].a[2] \in GetConstraint(t, t.projects[i].a[1])
    <3>1. PICK x \in Atoms : x = t.projects[i].a
      BY <1>7, <1>12 DEF EntriesAreSound
    <3>2. PICK p \in Projects : p = x[1]
      BY AtomIsPair
    <3>3. x[2] \in Versions
      BY AtomIsPair
    <3>4. x[2] \in GetConstraint(s, p)
      <4>1. CASE i \in 2 .. n
        BY <1>1, <1>6, <1>7, <1>10, <3>1, <3>2, <4>1 DEF SelectedIsAllowed
      <4>2. CASE i = n + 1 /\ ~pkgonly
        BY <1>2, <1>4, <1>7, <3>1, <3>2, <4>2 DEF IsAllowed
      <4>3. CASE i = n + 1 /\ pkgonly
        <5>1. x = a /\ IsSelected(s, p) /\ x = SelectedAtom(s, p)
          BY <1>4, <1>7, <3>1, <3>2, <4>3 DEF MaySelect
        <5>2. PICK j \in IndicesOf(s, p) : s.projects[j].a = x
          BY <1>1, <5>1, SelectedFacts
        <5>3. j \in 2 .. n
          BY <1>1, <1>6, <5>2, SelectedFacts
        <5> QED
          BY <1>1, <1>6, <3>2, <5>2, <5>3 DEF SelectedIsAllowed
      <4> QED
        BY <1>9, <4>1, <4>2, <4>3
    <3>5. CASE ~IsAsked(new, p)
      BY <1>15, <3>1, <3>2, <3>4, <3>5
    <3>6. CASE IsAsked(new, p)
      <4>1. PICK d \in new : AddsTo(s, t, p, d)
        BY <1>14, <3>6
      <4>2. p # a[1]
        BY <1>8, <4>1 DEF AddsTo
      <4>3. i \in 2 .. n
        BY <1>4, <1>7, <1>9, <3>1, <3>2, <4>2
      <4>4. s.projects[i].a = x
        BY <1>7, <1>10, <3>1, <4>3
      <4>5. IsSelected(s, p) /\ x = SelectedAtom(s, p)
        BY <1>1, <1>6, <3>2, <4>3, <4>4, SelectedFacts
      <4>6. x[2] \in d.allows
        BY <1>2, <1>3, <4>1, <4>5 DEF RejectsSelected, AddsTo
      <4> QED
        BY <3>1, <3>2, <3>3, <3>4, <4>1, <4>6 DEF AddsTo
    <3> QED
      BY <3>5, <3>6
  <2> QED
    BY <1>7, <2>1 DEF SelectedIsAllowed
<1>17. DepsMatchSelection(t)
  <2>1. DependenciesOfEntry(e) = new /\ e.a = a
    BY <1>2, <1>3, <1>4, <1>11, InternalFacts DEF DependenciesOfEntry
  <2>2. IsOneShorter(s, t)
    BY <1>6, <1>7 DEF IsOneShorter
  <2>3. s.projects \in Seq(Entries) /\ t.projects \in Seq(Entries)
    BY <1>1, <1>5, SelectionFacts
  <2>4. ASSUME NEW p \in Projects PROVE MatchesAt(t, p)
    <3>1. MatchesAt(s, p) /\ s.deps[p] \in Seq(Dependency)
      BY <1>1, SelectionFacts, MatchesEverywhere
    <3>2. e = t.projects[Len(s.projects) + 1]
      BY <1>6, <1>7
    <3>3. CASE IsAsked(new, p)
      <4>1. PICK x \in Dependency : x = DependencyFrom(e.a, AskedOf(DependenciesOfEntry(e), p)) /\ t.deps[p] = Append(s.deps[p], x)
        BY <1>5, <1>13, <2>1, <3>3
      <4>2. IsAsked(DependenciesOfEntry(e), p)
        BY <2>1, <3>3
      <4> QED
        BY <2>2, <2>3, <3>1, <3>2, <4>1, <4>2, MatchAdded
    <3>4. CASE ~IsAsked(new, p)
      <4>1. ~IsAsked(DependenciesOfEntry(e), p) /\ t.deps[p] = s.deps[p]
        BY <1>13, <2>1, <3>4
      <4> QED
        BY <2>2, <2>3, <3>1, <3>2, <4>1, MatchAdded
    <3> QED
      BY <3>3, <3>4
  <2> QED
    BY <2>4, MatchesEverywhere
<1>18. ConstraintsAgree(t)
  <2>1. ASSUME NEW p \in Projects PROVE GetConstraint(t, p) # {}
    <3>1. GetConstraint(s, p) # {} /\ GetConstraint(s, p) \subseteq Versions
      BY <1>1 DEF ConstraintsAgree, GetConstraint
    <3>2. CASE IsAsked(new, p)
      <4>1. PICK d \in new : AddsTo(s, t, p, d)
        BY <1>14, <3>2
      <4>2. GetConstraint(s, p) \cap d.allows # {}
        BY <1>2, <1>3, <4>1 DEF IsDisjoint, AddsTo
      <4> QED
        BY <3>1, <4>1, <4>2 DEF AddsTo
    <3>3. CASE ~IsAsked(new, p)
      BY <1>15, <3>1, <3>3
    <3> QED
      BY <3>2, <3>3
  <2> QED
    BY <2>1 DEF ConstraintsAgree
<1>19. IsNothingForgotten(t)
  <2>1. ASSUME NEW p \in Projects, NEW k \in RequiredPackagesIn(t, p)
        PROVE  k \in SelectedPackagesIn(t, p) \cup QueuedPackagesIn(t, p)
    <3>1. CASE k \in RequiredPackagesIn(s, p)
      <4>1. CASE k \in SelectedPackagesIn(s, p)
        <5>1. PICK i \in IndicesOf(s, p) : k \in s.projects[i].pl
          BY <4>1, PackageFacts
        <5>2. i \in 2 .. n /\ s.projects[i].a[1] = p
          BY <1>1, <1>6, <5>1, SelectedFacts
        <5>3. i \in 2 .. n + 1 /\ t.projects[i] = s.projects[i]
          BY <1>7, <1>9, <1>10, <5>2
        <5>4. i \in IndicesOf(t, p)
          BY <1>5, <1>7, <1>12, <5>2, <5>3, SelectedFacts
        <5> QED
          BY <5>1, <5>3, <5>4, PackageFacts
      <4>2. CASE k \in QueuedPackagesIn(s, p)
        <5>1. PICK x : IsQueued(s, x) /\ x.id = p /\ k \in x.pl
          BY <4>2, PackageFacts
        <5>2. CASE x.id = a[1] /\ x.pl = pl
          <6>1. k \in e.pl /\ e.a[1] = p
            BY <1>2, <1>4, <5>1, <5>2, InternalFacts
          <6>2. n + 1 \in 2 .. n + 1
            BY <1>6
          <6>3. n + 1 \in IndicesOf(t, p)
            BY <1>5, <1>7, <1>12, <6>1, <6>2, SelectedFacts
          <6> QED
            BY <1>7, <6>1, <6>3, PackageFacts
        <5>3. CASE ~(x.id = a[1] /\ x.pl = pl)
          BY <1>5, <5>1, <5>3, PackageFacts
        <5> QED
          BY <5>2, <5>3
      <4> QED
        BY <1>1, <3>1, <4>1, <4>2 DEF IsNothingForgotten
    <3>2. CASE k \notin RequiredPackagesIn(s, p)
      <4>1. IsAsked(new, p)
        BY <1>15, <2>1, <3>2
      <4>2. PICK d \in new : d.to = p /\ k \in d.pl
        <5>1. PICK d \in new : AddsTo(s, t, p, d)
          BY <1>14, <4>1
        <5> QED
          BY <2>1, <3>2, <5>1 DEF AddsTo
      <4>3. PICK x \in NewlyRequired(s, a, new) : x.id = p /\ x.pl = d.pl \ RequiredPackagesIn(s, p)
        BY <1>8, <3>2, <4>2, NewlyRequiredFacts
      <4> QED
        BY <1>5, <3>2, <4>2, <4>3, PackageFacts
    <3> QED
      BY <3>1, <3>2
  <2> QED
    BY <2>1 DEF IsNothingForgotten
<1>20. IsSelection(t)
  BY <1>5, <1>12, <1>16, <1>17, <1>18, <1>19 DEF IsSelection
<1> QED
  BY <1>4, <1>5, <1>20

-----------------------------------------------------------------------------
(* GpsSelection: unselectLast and unselectProject.                         *)

\* What unselectLast leaves behind.
LEMMA UnselectLastShape ==
    ASSUME IsWorld(world), NEW s, IsSelection(s), Len(s.projects) > 1, NEW t, t = UnselectLast(s),
           NEW e, e = Last(s.projects)
    PROVE  /\ t \in Selections /\ t.projects = Front(s.projects)
           /\ e = s.projects[Len(s.projects)] /\ e.a \in Atoms
           /\ \A p \in Projects :
                 t.deps[p] = IF IsAsked(DependenciesOfEntry(e), p) THEN Front(s.deps[p]) ELSE s.deps[p]
           /\ \A p \in Projects : IsAsked(DependenciesOfEntry(e), p) => s.deps[p] # <<>>
           /\ \A x : IsQueued(s, x) /\ t.deps[x.id] # <<>> => IsQueued(t, x)
           /\ t.deps[e.a[1]] # <<>> => IsQueued(t, Bmi(e.a[1], e.pl, NoVersion))
<1>1. s \in Selections /\ EntriesAreSound(s) /\ DepsMatchSelection(s)
  BY DEF IsSelection
<1>2. PICK n \in Nat : n + 1 = Len(s.projects) /\ n >= 1
  <2>1. Len(s.projects) \in Nat
    BY <1>1, SelectionFacts
  <2>2. Len(s.projects) - 1 \in Nat
    BY <2>1
  <2> QED
    BY <2>1, <2>2
<1>3. s.projects \in Seq(Entries) /\ s.projects # <<>>
  BY <1>1, <1>2, SelectionFacts, EmptySeq
<1>4. e = s.projects[n + 1] /\ e \in Entries
  BY <1>2, <1>3, FrontFacts
<1>5. e.a \in Atoms /\ e.a # RootAtom /\ e.a[1] \in Projects
  <2>1. n + 1 \in 2 .. Len(s.projects)
    BY <1>2
  <2>2. e.a \in Atoms
    BY <1>1, <1>4, <2>1 DEF EntriesAreSound
  <2> QED
    BY <2>2, AtomIsPair
<1>6. PICK old : old = DependenciesOf(e.a, e.pl)
  OBVIOUS
<1>7. old = DependenciesOfEntry(e)
  BY <1>5, <1>6 DEF DependenciesOfEntry
<1>8. PICK front : front \in Seq(Entries) /\ front = Front(s.projects) /\ Len(front) = n
                   /\ \A i \in 1 .. n : front[i] = s.projects[i]
  BY <1>2, <1>3, FrontFacts
<1>9. PICK item \in QueueEntries : item = Bmi(e.a[1], e.pl, NoVersion)
  <2>1. e.pl \in SUBSET Packages
    BY <1>4 DEF Entries
  <2> QED
    BY <1>5, <2>1 DEF Bmi, QueueEntries
<1>10. PICK shorter : shorter = [s EXCEPT !.projects = front]
  OBVIOUS
<1>11. IsSolverState(shorter) /\ shorter.unsel = s.unsel /\ shorter.projects = front
  <2>1. IsSolverState(s)
    BY <1>1, SelectionFacts
  <2> QED
    BY <1>10, <2>1 DEF IsSolverState
<1>12. PICK popped : popped = HeapPush(shorter, item) /\ IsPushed(shorter, {item}, popped)
  BY <1>11, HeapPushKeeps
<1>13. IsSolverState(popped) /\ popped.projects = front /\ IsQueued(popped, item)
       /\ \A x : IsQueued(shorter, x) => IsQueued(popped, x)
  BY <1>11, <1>12 DEF IsPushed
<1>14. PICK fewer : fewer = [popped EXCEPT !.deps = PopDeps(s.deps, old)]
  OBVIOUS
<1>15. /\ IsSolverState(fewer) /\ fewer.projects = front /\ fewer.deps = PopDeps(s.deps, old)
       /\ fewer.unsel = popped.unsel
  BY <1>13, <1>14 DEF IsSolverState
<1>16. PICK q \in Seq(QueueEntries) : q = fewer.unsel
  BY <1>15 DEF IsSolverState
<1>17. PICK gone : gone = Orphans(fewer, old)
  OBVIOUS
<1>18. t = [fewer EXCEPT !.unsel = RemoveAll(q, gone)]
  <2>1. t = [fewer EXCEPT !.unsel = RemoveAll(@, gone)]
    BY <1>4, <1>6, <1>8, <1>9, <1>10, <1>12, <1>14, <1>17 DEF UnselectLast
  <2> QED
    BY <1>15, <1>16, <2>1 DEF IsSolverState
<1>19. PICK r \in Seq(QueueEntries) :
         r = RemoveAll(q, gone) /\ \A i \in 1 .. Len(q) : i \notin gone => \E j \in DOMAIN r : r[j] = q[i]
  <2>1. PICK r : r = RemoveAll(q, gone)
    OBVIOUS
  <2>2. r \in Seq(QueueEntries) /\ \A i \in 1 .. Len(q) : i \notin gone => \E j \in DOMAIN r : r[j] = q[i]
    BY <2>1, RemoveAllKeeps
  <2> QED
    BY <2>1, <2>2
<1>20. /\ IsSolverState(t) /\ t.projects = front /\ t.deps = PopDeps(s.deps, old) /\ t.unsel = r
  BY <1>15, <1>18, <1>19 DEF IsSolverState
<1>21. \A p \in Projects : t.deps[p] = IF IsAsked(old, p) THEN Front(s.deps[p]) ELSE s.deps[p]
  BY <1>20 DEF PopDeps
<1>22. \A p \in Projects : s.deps[p] \in Seq(Dependency)
  BY <1>1, SelectionFacts
<1>23. ASSUME NEW p \in Projects, IsAsked(old, p) PROVE s.deps[p] # <<>>
  <2>1. MatchesAt(s, p)
    BY <1>1, MatchesEverywhere
  <2>2. IsOneShorter(t, s)
    BY <1>2, <1>8, <1>20 DEF IsOneShorter
  <2>3. e = s.projects[Len(t.projects) + 1]
    BY <1>4, <1>8, <1>20
  <2>4. t.deps[p] = IF IsAsked(DependenciesOfEntry(e), p) THEN Front(s.deps[p]) ELSE s.deps[p]
    BY <1>7, <1>21
  <2>5. t.projects \in Seq(Entries)
    BY <1>8, <1>20
  <2> QED
    BY <1>3, <1>7, <1>22, <1>23, <2>1, <2>2, <2>3, <2>4, <2>5, MatchRemoved
<1>24. t.deps \in [Projects -> Seq(Dependency)]
  <2>1. ASSUME NEW p \in Projects
        PROVE  (IF IsAsked(old, p) THEN Front(s.deps[p]) ELSE s.deps[p]) \in Seq(Dependency)
    BY <1>22, <1>23, FrontFacts
  <2> QED
    BY <1>20, <2>1 DEF PopDeps
<1>25. t \in Selections
  BY <1>8, <1>20, <1>24, IsASelection
<1>26. ASSUME NEW x, IsQueued(popped, x), t.deps[x.id] # <<>> PROVE IsQueued(t, x)
  <2>1. DOMAIN q = 1 .. Len(q)
    BY LenProperties
  <2>2. PICK i \in 1 .. Len(q) : q[i] = x
    BY <1>15, <1>16, <1>26, <2>1 DEF IsQueued
  <2>3. i \notin gone
    <3>1. ASSUME NEW d \in old, fewer.deps[d.to] = <<>>, i \in FirstBmi(fewer, d.to, d.pl) PROVE FALSE
      <4>1. x.id = d.to
        BY <1>16, <2>2, <3>1 DEF FirstBmi, IsBmi
      <4> QED
        BY <1>15, <1>20, <1>26, <3>1, <4>1
    <3> QED
      BY <1>17, <3>1 DEF Orphans
  <2> QED
    BY <1>19, <1>20, <2>2, <2>3 DEF IsQueued
<1>27. \A x : IsQueued(s, x) => IsQueued(shorter, x)
  BY <1>11 DEF IsQueued
<1>28. t.deps[e.a[1]] # <<>> => IsQueued(t, Bmi(e.a[1], e.pl, NoVersion))
  <2>1. item.id = e.a[1]
    BY <1>9 DEF Bmi
  <2> QED
    BY <1>9, <1>13, <1>26, <2>1
<1> QED
  BY <1>2, <1>4, <1>5, <1>7, <1>8, <1>13, <1>20, <1>21, <1>23, <1>25, <1>26, <1>27, <1>28

\* unselectLast keeps a selection one.
LEMMA UnselectLastInv ==
    ASSUME IsWorld(world), NEW s, IsSelection(s), Len(s.projects) > 1, NEW t, t = UnselectLast(s)
    PROVE  IsSelection(t) /\ IsOneShorter(t, s)
<1>1. s \in Selections /\ EntriesAreSound(s) /\ SelectedIsAllowed(s)
      /\ DepsMatchSelection(s) /\ ConstraintsAgree(s) /\ IsNothingForgotten(s)
  BY DEF IsSelection
<1>2. PICK e : e = Last(s.projects)
  OBVIOUS
<1>3. /\ t \in Selections /\ t.projects = Front(s.projects)
      /\ e = s.projects[Len(s.projects)] /\ e.a \in Atoms
      /\ \A p \in Projects :
            t.deps[p] = IF IsAsked(DependenciesOfEntry(e), p) THEN Front(s.deps[p]) ELSE s.deps[p]
      /\ \A p \in Projects : IsAsked(DependenciesOfEntry(e), p) => s.deps[p] # <<>>
      /\ \A x : IsQueued(s, x) /\ t.deps[x.id] # <<>> => IsQueued(t, x)
      /\ t.deps[e.a[1]] # <<>> => IsQueued(t, Bmi(e.a[1], e.pl, NoVersion))
  BY <1>2, UnselectLastShape
<1>4. PICK n \in Nat : n + 1 = Len(s.projects) /\ n >= 1
  <2>1. Len(s.projects) \in Nat
    BY <1>1, SelectionFacts
  <2>2. Len(s.projects) - 1 \in Nat
    BY <2>1
  <2> QED
    BY <2>1, <2>2
<1>5. s.projects \in Seq(Entries) /\ s.projects # <<>>
  BY <1>1, <1>4, SelectionFacts, EmptySeq
<1>6. Len(t.projects) = n /\ \A i \in 1 .. n : t.projects[i] = s.projects[i]
  BY <1>3, <1>4, <1>5, FrontFacts
<1>7. IsOneShorter(t, s)
  BY <1>4, <1>6 DEF IsOneShorter
<1>8. \A i : i \in 2 .. n => i \in 1 .. n /\ i \in 2 .. n + 1
  OBVIOUS
<1>9. \A i \in 2 .. n : t.projects[i] = s.projects[i]
  BY <1>6, <1>8
<1>10. EntriesAreSound(t)
  <2>1. Len(t.projects) >= 1 /\ t.projects[1].a = RootAtom /\ t.projects[1].first
    BY <1>1, <1>4, <1>6 DEF EntriesAreSound
  <2>2. ASSUME NEW i \in 2 .. n
        PROVE  /\ t.projects[i].a \in Atoms /\ t.projects[i].pl \subseteq Reachable(t.projects[i].a)
               /\ t.projects[i].first <=> \A j \in 2 .. i - 1 : t.projects[j].a[1] # t.projects[i].a[1]
               /\ \A j \in 2 .. n : t.projects[j].a[1] = t.projects[i].a[1] => t.projects[j].a = t.projects[i].a
    <3>1. /\ s.projects[i].a \in Atoms /\ s.projects[i].pl \subseteq Reachable(s.projects[i].a)
          /\ s.projects[i].first <=> \A j \in 2 .. i - 1 : s.projects[j].a[1] # s.projects[i].a[1]
          /\ \A j \in 2 .. n + 1 : s.projects[j].a[1] = s.projects[i].a[1] => s.projects[j].a = s.projects[i].a
      <4>1. i \in 2 .. Len(s.projects)
        BY <1>4, <1>8
      <4> QED
        BY <1>1, <1>4, <4>1 DEF EntriesAreSound
    <3>2. \A j \in 2 .. i - 1 : t.projects[j] = s.projects[j]
      BY <1>6
    <3>3. t.projects[i] = s.projects[i]
      BY <1>9
    <3>4. t.projects[i].first <=> \A j \in 2 .. i - 1 : t.projects[j].a[1] # t.projects[i].a[1]
      BY <3>1, <3>2, <3>3
    <3>5. \A j \in 2 .. n : t.projects[j].a[1] = t.projects[i].a[1] => t.projects[j].a = t.projects[i].a
      BY <1>8, <1>9, <3>1, <3>3
    <3> QED
      BY <3>1, <3>3, <3>4, <3>5
  <2> QED
    BY <1>6, <2>1, <2>2 DEF EntriesAreSound
<1>11. ASSUME NEW p \in Projects
       PROVE  /\ GetConstraint(s, p) \subseteq GetConstraint(t, p)
              /\ RequiredPackagesIn(t, p) \subseteq RequiredPackagesIn(s, p)
  <2>1. s.deps[p] \in Seq(Dependency)
    BY <1>1, SelectionFacts
  <2>2. CASE IsAsked(DependenciesOfEntry(e), p)
    BY <1>3, <2>1, <2>2, DependencyRemoved
  <2>3. CASE ~IsAsked(DependenciesOfEntry(e), p)
    <3>1. t.deps[p] = s.deps[p]
      BY <1>3, <2>3
    <3> QED
      BY <3>1 DEF GetConstraint, RequiredPackagesIn
  <2> QED
    BY <2>2, <2>3
<1>12. SelectedIsAllowed(t)
  <2>1. ASSUME NEW i \in 2 .. n PROVE t.projects[i].a[2] \in GetConstraint(t, t.projects[i].a[1])
    <3>1. s.projects[i].a[2] \in GetConstraint(s, s.projects[i].a[1])
      <4>1. i \in 2 .. Len(s.projects)
        BY <1>4, <1>8
      <4> QED
        BY <1>1, <4>1 DEF SelectedIsAllowed
    <3>2. t.projects[i].a \in Atoms /\ t.projects[i] = s.projects[i]
      BY <1>6, <1>9, <1>10 DEF EntriesAreSound
    <3> QED
      BY <1>11, <3>1, <3>2, AtomIsPair
  <2> QED
    BY <1>6, <2>1 DEF SelectedIsAllowed
<1>13. DepsMatchSelection(t)
  <2>1. ASSUME NEW p \in Projects PROVE MatchesAt(t, p)
    <3>1. MatchesAt(s, p) /\ s.deps[p] \in Seq(Dependency) /\ t.projects \in Seq(Entries)
      BY <1>1, <1>3, SelectionFacts, MatchesEverywhere
    <3>2. e = s.projects[Len(t.projects) + 1]
      BY <1>3, <1>4, <1>6
    <3>3. t.deps[p] = IF IsAsked(DependenciesOfEntry(e), p) THEN Front(s.deps[p]) ELSE s.deps[p]
      BY <1>3
    <3> QED
      BY <1>5, <1>7, <3>1, <3>2, <3>3, MatchRemoved
  <2> QED
    BY <2>1, MatchesEverywhere
<1>14. ConstraintsAgree(t)
  BY <1>1, <1>11 DEF ConstraintsAgree
<1>15. IsNothingForgotten(t)
  <2>1. ASSUME NEW p \in Projects, NEW k \in RequiredPackagesIn(t, p)
        PROVE  k \in SelectedPackagesIn(t, p) \cup QueuedPackagesIn(t, p)
    <3>1. k \in RequiredPackagesIn(s, p)
      BY <1>11
    <3>2. t.deps[p] # <<>>
      BY <2>1 DEF RequiredPackagesIn
    <3>3. CASE k \in SelectedPackagesIn(s, p)
      <4>1. PICK i \in IndicesOf(s, p) : k \in s.projects[i].pl
        BY <3>3, PackageFacts
      <4>2. i \in 2 .. n + 1 /\ s.projects[i].a[1] = p
        BY <1>1, <1>4, <4>1, SelectedFacts
      <4>3. CASE i \in 2 .. n
        <5>1. t.projects[i] = s.projects[i]
          BY <1>9, <4>3
        <5>2. i \in IndicesOf(t, p)
          BY <1>3, <1>6, <1>10, <4>2, <4>3, <5>1, SelectedFacts
        <5> QED
          BY <4>1, <5>1, <5>2, PackageFacts
      <4>4. CASE i = n + 1
        <5>1. e = s.projects[i] /\ e.a[1] = p
          BY <1>3, <1>4, <4>2, <4>4
        <5>2. PICK x : x = Bmi(e.a[1], e.pl, NoVersion)
          OBVIOUS
        <5>3. IsQueued(t, x) /\ x.id = p /\ x.pl = e.pl
          BY <1>3, <3>2, <5>1, <5>2 DEF Bmi
        <5> QED
          BY <4>1, <5>1, <5>3, PackageFacts
      <4>5. i \in 2 .. n \/ i = n + 1
        BY <4>2
      <4> QED
        BY <4>3, <4>4, <4>5
    <3>4. CASE k \in QueuedPackagesIn(s, p)
      <4>1. PICK x : IsQueued(s, x) /\ x.id = p /\ k \in x.pl
        BY <3>4, PackageFacts
      <4>2. IsQueued(t, x)
        BY <1>3, <3>2, <4>1
      <4> QED
        BY <4>1, <4>2, PackageFacts
    <3> QED
      BY <1>1, <3>1, <3>3, <3>4 DEF IsNothingForgotten
  <2> QED
    BY <2>1 DEF IsNothingForgotten
<1>16. IsSelection(t)
  BY <1>3, <1>10, <1>12, <1>13, <1>14, <1>15 DEF IsSelection
<1> QED
  BY <1>7, <1>16

\* Behind the last first entry of a project, there are only additions.
LEMMA LastProject ==
    ASSUME NEW s \in Selections, EntriesAreSound(s), Len(s.projects) > 1, NEW m, m = FirstOfLast(s)
    PROVE  /\ m \in 2 .. Len(s.projects) /\ s.projects[m].first /\ s.projects[m].a \in Atoms
           /\ \A i \in 2 .. Len(s.projects) : s.projects[i].first => i <= m
           /\ \A i \in 2 .. m - 1 : s.projects[i].a[1] # s.projects[m].a[1]
<1>1. PICK n \in Nat : n = Len(s.projects) /\ n > 1 /\ DOMAIN s.projects = 1 .. n
  BY SelectionFacts
<1>2. PICK F : F = {i \in DOMAIN s.projects : s.projects[i].first}
  OBVIOUS
<1>3. 2 \in F
  <2>1. 2 \in 2 .. n
    BY <1>1
  <2>2. s.projects[2].first <=> \A j \in 2 .. 2 - 1 : s.projects[j].a[1] # s.projects[2].a[1]
    BY <1>1, <2>1 DEF EntriesAreSound
  <2>3. s.projects[2].first
    BY <2>2
  <2> QED
    BY <1>1, <1>2, <2>3
<1>4. F \in SUBSET (0 .. n)
  BY <1>1, <1>2
<1>5. m = Max(F)
  BY <1>2 DEF FirstOfLast
<1>6. m \in F /\ \A i \in F : m >= i
  BY <1>3, <1>4, <1>5, MaxIsGreatest
<1>7. m \in 2 .. n /\ s.projects[m].first
  BY <1>1, <1>2, <1>3, <1>6
<1>8. \A i \in 2 .. n : s.projects[i].first => i <= m
  BY <1>1, <1>2, <1>4, <1>6
<1>9. s.projects[m].a \in Atoms /\ \A i \in 2 .. m - 1 : s.projects[i].a[1] # s.projects[m].a[1]
  BY <1>1, <1>7 DEF EntriesAreSound
<1> QED
  BY <1>1, <1>7, <1>8, <1>9

\* UnselectProject is what its recursion says: down to the project's first entry.
LEMMA UnselectProjectIsDefined ==
    ASSUME NEW s, NEW entries \in Nat, entries = Len(s.projects) - FirstOfLast(s) + 1
    PROVE  \E after : /\ UnselectProject(s) = after[entries]
                      /\ after[0] = s
                      /\ \A n \in 1 .. entries : after[n] = UnselectLast(after[n - 1])
<1> DEFINE N == entries
           Rec(k, n) == k = [i \in 0 .. n |-> IF i = 0 THEN s ELSE UnselectLast(k[i - 1])]
           T == {n \in 0 .. N : \E k : Rec(k, n)}
<1>2. 0 \in T
  <2>1. \E k : k = [i \in 0 .. 0 |-> IF i = 0 THEN s ELSE UnselectLast(k[i - 1])]
    <3>1. PICK k : k = [i \in 0 .. 0 |-> s]
      OBVIOUS
    <3>2. \A i \in 0 .. 0 : i = 0
      OBVIOUS
    <3>3. k = [i \in 0 .. 0 |-> IF i = 0 THEN s ELSE UnselectLast(k[i - 1])]
      BY <3>1, <3>2
    <3> QED
      BY <3>3
  <2>2. \E k : Rec(k, 0)
    BY <2>1
  <2> HIDE DEF Rec
  <2> QED
    BY <2>2
<1>3. ASSUME NEW n \in 1 .. N, n - 1 \in T PROVE n \in T
  <2>1. PICK k : Rec(k, n - 1)
    BY <1>3
  <2> DEFINE h == [i \in 0 .. n |-> IF i = n THEN UnselectLast(k[n - 1]) ELSE k[i]]
  <2>2. \A i \in 0 .. n - 1 : h[i] = k[i]
    OBVIOUS
  <2>3. ASSUME NEW i \in 0 .. n PROVE h[i] = IF i = 0 THEN s ELSE UnselectLast(h[i - 1])
    <3>1. CASE i = n
      BY <2>2, <3>1
    <3>2. CASE i # n
      <4>1. i \in 0 .. n - 1 /\ (i # 0 => i - 1 \in 0 .. n - 1)
        BY <3>2
      <4>2. k[i] = IF i = 0 THEN s ELSE UnselectLast(k[i - 1])
        BY <2>1, <4>1
      <4> HIDE DEF h
      <4> QED
        BY <2>2, <4>1, <4>2
    <3> QED
      BY <3>1, <3>2
  <2>4. h = [i \in 0 .. n |-> h[i]]
    OBVIOUS
  <2> HIDE DEF h
  <2>5. Rec(h, n)
    BY <2>3, <2>4
  <2> QED
    BY <2>5
<1>4. N \in T
  <2> HIDE DEF T
  <2>1. 0 .. N \subseteq T
    BY <1>2, <1>3, IndexInduction
  <2> QED
    BY <2>1
<1> DEFINE after == CHOOSE k : Rec(k, N)
<1>5. Rec(after, N)
  BY <1>4
<1>6. UnselectProject(s) = after[N]
  BY DEF UnselectProject
<1> HIDE DEF after
<1>7. \A n \in 0 .. N : after[n] = IF n = 0 THEN s ELSE UnselectLast(after[n - 1])
  BY <1>5
<1>8. after[0] = s
  BY <1>7
<1>9. ASSUME NEW n \in 1 .. N PROVE after[n] = UnselectLast(after[n - 1])
  <2>1. n \in 0 .. N /\ n # 0
    OBVIOUS
  <2> QED
    BY <1>7, <2>1
<1> QED
  BY <1>6, <1>8, <1>9

\* The selection that was there before the project.
LEMMA UnselectProjectInv ==
    ASSUME IsWorld(world), NEW s, IsSelection(s), Len(s.projects) > 1,
           NEW t, t = UnselectProject(s), NEW m, m = FirstOfLast(s)
    PROVE  /\ IsSelection(t) /\ Len(t.projects) = m - 1
           /\ \A i \in 1 .. m - 1 : t.projects[i] = s.projects[i]
           /\ ~IsSelected(t, s.projects[m].a[1])
<1>1. s \in Selections /\ EntriesAreSound(s)
  BY DEF IsSelection
<1>2. PICK n \in Nat : n = Len(s.projects) /\ n > 1
  BY <1>1, SelectionFacts
<1>3. m \in 2 .. n /\ s.projects[m].a \in Atoms /\ \A i \in 2 .. m - 1 : s.projects[i].a[1] # s.projects[m].a[1]
  BY <1>1, <1>2, LastProject
<1>4. PICK entries \in Nat : entries = n - m + 1
  BY <1>3
<1>5. PICK after : /\ t = after[entries] /\ after[0] = s
                   /\ \A k \in 1 .. entries : after[k] = UnselectLast(after[k - 1])
  BY <1>2, <1>4, UnselectProjectIsDefined
<1> DEFINE Holds(k) == /\ IsSelection(after[k]) /\ Len(after[k].projects) = n - k
                       /\ \A i \in 1 .. n - k : after[k].projects[i] = s.projects[i]
           T == {k \in 0 .. entries : Holds(k)}
<1>6. 0 \in T
  <2>1. n - 0 = n
    OBVIOUS
  <2>2. Holds(0)
    BY <1>2, <1>5, <2>1
  <2> QED
    BY <2>2
<1>7. ASSUME NEW k \in 1 .. entries, k - 1 \in T PROVE k \in T
  <2>1. PICK u : u = after[k - 1]
    OBVIOUS
  <2>2. IsSelection(u) /\ Len(u.projects) = n - (k - 1) /\ \A i \in 1 .. n - (k - 1) : u.projects[i] = s.projects[i]
    BY <1>7, <2>1
  <2>3. Len(u.projects) > 1
    BY <1>3, <1>4, <2>2
  <2>4. PICK w : w = after[k] /\ w = UnselectLast(u)
    BY <1>5, <2>1
  <2>5. IsSelection(w) /\ IsOneShorter(w, u)
    BY <2>2, <2>3, <2>4, UnselectLastInv
  <2>6. Len(w.projects) \in Nat
    BY <2>5, SelectionFacts DEF IsSelection
  <2>7. Len(w.projects) = n - k
    <3> HIDE DEF Holds, T
    <3>1. PICK c \in Nat : c = Len(w.projects)
      BY <2>6
    <3>2. n - (k - 1) = c + 1
      BY <2>2, <2>5, <3>1 DEF IsOneShorter
    <3> QED
      BY <3>1, <3>2
  <2>8. \A i \in 1 .. n - k : w.projects[i] = s.projects[i]
    <3>1. \A i \in 1 .. n - k : w.projects[i] = u.projects[i]
      BY <2>5, <2>7 DEF IsOneShorter
    <3>2. \A i \in 1 .. n - k : i \in 1 .. n - (k - 1)
      OBVIOUS
    <3> QED
      BY <2>2, <3>1, <3>2
  <2>9. Holds(k)
    BY <2>4, <2>5, <2>7, <2>8
  <2> QED
    BY <2>9
<1>8. Holds(entries)
  <2> HIDE DEF Holds
  <2>1. 0 .. entries \subseteq T
    <3> HIDE DEF T
    <3> QED
      BY <1>6, <1>7, IndexInduction
  <2> QED
    BY <2>1
<1> HIDE DEF Holds, T
<1>9. n - entries = m - 1
  BY <1>3, <1>4
<1>10. IsSelection(t) /\ Len(t.projects) = m - 1 /\ \A i \in 1 .. m - 1 : t.projects[i] = s.projects[i]
  BY <1>5, <1>8, <1>9 DEF Holds
<1>11. ~IsSelected(t, s.projects[m].a[1])
  <2>1. PICK p \in Projects : p = s.projects[m].a[1]
    BY <1>3, AtomIsPair
  <2>2. ASSUME NEW i \in 2 .. m - 1 PROVE t.projects[i].a[1] # p
    <3>1. i \in 1 .. m - 1
      OBVIOUS
    <3>2. t.projects[i] = s.projects[i]
      BY <1>10, <3>1
    <3> QED
      BY <1>3, <2>1, <3>2
  <2>3. t \in Selections /\ EntriesAreSound(t)
    BY <1>10 DEF IsSelection
  <2>4. IsSelected(t, p) <=> \E i \in 2 .. m - 1 : t.projects[i].a[1] = p
    BY <1>10, <2>3, SelectedFacts
  <2> QED
    BY <2>1, <2>2, <2>4
<1> QED
  BY <1>10, <1>11

-----------------------------------------------------------------------------
(* GpsSolver: version queues.                                              *)

\* What version queues are made of.
VersionQueues == [id : Projects, lockv : Versions \cup {NoVersion}, prefv : Versions \cup {NoVersion},
                  failed : BOOLEAN, pi : Seq(Versions), allLoaded : BOOLEAN]

\* The types of what NewVersionQueue is made of.
LEMMA KnownIsSeq == ASSUME NEW v \in Versions \cup {NoVersion} PROVE Known(v) \in Seq(Versions)
<1>1. CASE v = NoVersion
  BY <1>1, EmptySeq DEF Known
<1>2. CASE v # NoVersion
  BY <1>2 DEF Known
<1> QED
  BY <1>1, <1>2

\* The types of a version queue.
LEMMA VersionQueueFacts ==
    ASSUME NEW q \in VersionQueues
    PROVE  /\ q.id \in Projects /\ q.lockv \in Versions \cup {NoVersion} /\ q.prefv \in Versions \cup {NoVersion}
           /\ q.failed \in BOOLEAN /\ q.pi \in Seq(Versions) /\ q.allLoaded \in BOOLEAN
           /\ q = [id |-> q.id, lockv |-> q.lockv, prefv |-> q.prefv, failed |-> q.failed, pi |-> q.pi,
                   allLoaded |-> q.allLoaded]
BY DEF VersionQueues

\* A locked version is one.
LEMMA LockVersionType == ASSUME IsWorld(world), NEW p PROVE LockVersion(p) \in Versions \cup {NoVersion}
BY DEF LockVersion, IsWorld

\* A preferred version is one.
LEMMA PreferredVersionType ==
    ASSUME IsWorld(world), sel \in Selections, NEW bmi \in QueueEntries
    PROVE  PreferredVersion(bmi) \in Versions \cup {NoVersion}
<1>1. bmi.id \in Projects /\ bmi.prefv \in Versions \cup {NoVersion}
  BY DEF QueueEntries
<1>2. PICK q \in Seq(Dependency) : q = sel.deps[bmi.id]
  BY <1>1, SelectionFacts
<1>3. PICK n \in Nat : n = Len(q) /\ DOMAIN q = 1 .. n
  BY LenProperties
<1>4. \A i \in 1 .. n : q[i].depender \in Atoms \cup {RootAtom}
  <2>1. \A i \in 1 .. n : q[i] \in Dependency
    BY <1>3, ElementOfSeq
  <2> QED
    BY <2>1 DEF Dependency
<1>5. PICK locks : locks = [i \in DOMAIN q |-> IF q[i].depender = RootAtom THEN <<>> ELSE world.lock[q[i].depender]]
  OBVIOUS
<1>6. PICK named : named = {i \in DOMAIN locks : bmi.id \in DOMAIN locks[i]}
  OBVIOUS
<1>7. ASSUME NEW i \in named PROVE locks[i][bmi.id] \in Versions
  <2>1. i \in 1 .. n /\ bmi.id \in DOMAIN locks[i]
    BY <1>3, <1>5, <1>6
  <2>2. q[i].depender # RootAtom
    <3>1. DOMAIN <<>> = {}
      OBVIOUS
    <3> QED
      BY <1>3, <1>5, <2>1, <3>1
  <2>3. q[i].depender \in Atoms /\ locks[i] = world.lock[q[i].depender]
    BY <1>3, <1>4, <1>5, <2>1, <2>2
  <2>4. locks[i] \in [DOMAIN locks[i] -> Versions]
    BY <2>3 DEF IsWorld
  <2> QED
    BY <2>1, <2>4
<1>8. named # {} => Max(named) \in named
  <2>1. named \in SUBSET (0 .. n)
    BY <1>3, <1>5, <1>6
  <2> QED
    BY <2>1, MaxIsGreatest
<1>9. PreferredVersion(bmi)
      = IF ~bmi.fromRoot THEN bmi.prefv ELSE IF named = {} THEN NoVersion ELSE locks[Max(named)][bmi.id]
  BY <1>2, <1>5, <1>6 DEF PreferredVersion
<1> QED
  BY <1>1, <1>7, <1>8, <1>9

\* A new version queue is one, of the project that it is made for.
LEMMA NewVersionQueueType ==
    ASSUME IsWorld(world), sel \in Selections, NEW bmi \in QueueEntries
    PROVE  NewVersionQueue(bmi) \in VersionQueues /\ NewVersionQueue(bmi).id = bmi.id
<1>1. PICK p \in Projects : p = bmi.id
  BY DEF QueueEntries
<1>2. PICK lockv \in Versions \cup {NoVersion} : lockv = LockVersion(bmi.id)
  BY LockVersionType
<1>3. PICK prefv \in Versions \cup {NoVersion} : prefv = PreferredVersion(bmi)
  BY PreferredVersionType
<1>4. PICK known \in Seq(Versions) : known = Known(lockv) \o Known(prefv)
  BY KnownIsSeq, ConcatProperties
<1>5. PICK all \in Seq(Versions) : all = world.versions[bmi.id]
  BY <1>1 DEF IsWorld
<1>6. NewVersionQueue(bmi)
      = [id |-> p, lockv |-> lockv, prefv |-> prefv, failed |-> FALSE,
         pi |-> IF known = <<>> THEN all ELSE known, allLoaded |-> known = <<>>]
  BY <1>1, <1>2, <1>3, <1>4, <1>5 DEF NewVersionQueue
<1>7. PICK pi \in Seq(Versions) : pi = IF known = <<>> THEN all ELSE known
  OBVIOUS
<1>8. PICK loaded \in BOOLEAN : loaded = (known = <<>>)
  OBVIOUS
<1>9. NewVersionQueue(bmi)
      = [id |-> p, lockv |-> lockv, prefv |-> prefv, failed |-> FALSE, pi |-> pi, allLoaded |-> loaded]
  BY <1>6, <1>7, <1>8
<1> QED
  BY <1>1, <1>9 DEF VersionQueues

\* What is loaded are versions.
LEMMA UnloadedIsSeq ==
    ASSUME IsWorld(world), NEW q \in VersionQueues
    PROVE  Unloaded(q) \in Seq(Versions)
<1>1. PICK all \in Seq(Versions) : all = world.versions[q.id]
  BY VersionQueueFacts DEF IsWorld
<1>2. PICK gone : gone = {i \in DOMAIN all : all[i] \in {q.lockv, q.prefv}}
  OBVIOUS
<1>3. RemoveAll(all, gone) \in Seq(Versions)
  BY RemoveAllKeeps
<1>4. Unloaded(q) = IF q.allLoaded THEN <<>> ELSE RemoveAll(all, gone)
  BY <1>1, <1>2 DEF Unloaded
<1> QED
  BY <1>3, <1>4, EmptySeq

\* The rest of a sequence is one of the same set.
LEMMA RestOfSeq ==
    ASSUME NEW q \in Seq(Versions), NEW n \in Nat
    PROVE  /\ SubSeq(q, n + 1, Len(q)) \in Seq(Versions)
           /\ n < Len(q) => SubSeq(q, n + 1, Len(q)) # <<>>
<1>1. PICK m \in Nat : m = Len(q) /\ \A i \in 1 .. m : q[i] \in Versions
  BY LenProperties, ElementOfSeq
<1>2. \A i \in n + 1 .. m : q[i] \in Versions
  BY <1>1
<1>3. /\ SubSeq(q, n + 1, m) \in Seq(Versions)
      /\ Len(SubSeq(q, n + 1, m)) = IF n + 1 <= m THEN m - (n + 1) + 1 ELSE 0
  <2>1. n + 1 \in Int /\ m \in Int
    OBVIOUS
  <2> QED
    BY <1>2, <2>1, SubSeqProperties
<1>4. n < m => Len(SubSeq(q, n + 1, m)) # 0
  BY <1>3
<1> QED
  BY <1>1, <1>3, <1>4, EmptySeq

\* A queue that advances stays one, of the same project.
LEMMA AdvancedFacts ==
    ASSUME IsWorld(world), NEW q \in VersionQueues, NEW n \in Nat
    PROVE  /\ Tries(q) \in Nat /\ Advanced(q, n) \in VersionQueues /\ Advanced(q, n).id = q.id
           /\ n < Tries(q) => Advanced(q, n).pi # <<>>
<1>1. PICK rest \in Seq(Versions) : rest = Unloaded(q)
  BY UnloadedIsSeq
<1>2. PICK pi \in Seq(Versions) : pi = q.pi
  BY VersionQueueFacts
<1>3. Len(rest) \in Nat /\ Len(pi) \in Nat /\ Len(pi \o rest) = Len(pi) + Len(rest)
  BY LenProperties, ConcatProperties
<1>4. Tries(q) = Len(pi) + Len(rest)
  BY <1>1, <1>2, <1>3 DEF Tries
<1>5. CASE n < Len(pi)
  <2>1. PICK left \in Seq(Versions) : left = SubSeq(pi, n + 1, Len(pi)) /\ left # <<>>
    BY <1>5, RestOfSeq
  <2>2. PICK failed \in BOOLEAN : failed = (q.failed /\ n = 0)
    OBVIOUS
  <2>3. Advanced(q, n) = [q EXCEPT !.pi = left, !.failed = failed]
    BY <1>2, <1>5, <2>1, <2>2 DEF Advanced
  <2>4. Advanced(q, n) \in VersionQueues /\ Advanced(q, n).id = q.id /\ Advanced(q, n).pi = left
    BY <2>3 DEF VersionQueues
  <2> QED
    BY <1>3, <1>4, <2>1, <2>4
<1>6. CASE n >= Len(pi)
  <2>1. PICK k \in Nat : k = n - Len(pi)
    BY <1>3, <1>6
  <2>2. PICK left \in Seq(Versions) : left = SubSeq(rest, k + 1, Len(rest)) /\ (k < Len(rest) => left # <<>>)
    BY RestOfSeq
  <2>3. Advanced(q, n) = [q EXCEPT !.pi = left, !.allLoaded = TRUE, !.failed = FALSE]
    <3>1. ~(n < Len(pi))
      BY <1>3, <1>6
    <3> QED
      BY <1>1, <1>2, <2>1, <2>2, <3>1 DEF Advanced
  <2>4. Advanced(q, n) \in VersionQueues /\ Advanced(q, n).id = q.id /\ Advanced(q, n).pi = left
    BY <2>3 DEF VersionQueues
  <2>5. n < Tries(q) => k < Len(rest)
    BY <1>3, <1>4, <2>1
  <2> QED
    BY <1>3, <1>4, <2>2, <2>4, <2>5
<1> QED
  BY <1>3, <1>5, <1>6

\* A version that was found can be selected.
LEMMA FoundFacts ==
    ASSUME IsWorld(world), NEW t, NEW q \in VersionQueues, NEW pl, FindsVersion(t, q, pl)
    PROVE  /\ Found(t, q, pl) \in VersionQueues /\ Found(t, q, pl).id = q.id /\ Found(t, q, pl).pi # <<>>
           /\ <<q.id, Current(Found(t, q, pl))>> \in Atoms
           /\ Check(t, <<q.id, Current(Found(t, q, pl))>>, pl, FALSE) = {}
<1>1. Tries(q) \in Nat
  <2>1. 0 \in Nat
    OBVIOUS
  <2> QED
    BY <2>1, AdvancedFacts
<1>2. ValidAt(t, q, pl) \in SUBSET Nat /\ ValidAt(t, q, pl) # {}
  BY <1>1 DEF ValidAt, FindsVersion
<1>3. PICK n \in ValidAt(t, q, pl) : n = Min(ValidAt(t, q, pl))
  BY <1>2, MinIsLeast
<1>4. n \in Nat /\ n < Tries(q) /\ CheckAt(t, q, n, pl) = {}
  BY <1>1, <1>3 DEF ValidAt
<1>5. PICK r : r = Found(t, q, pl) /\ r = Advanced(q, n)
  BY <1>3 DEF Found
<1>6. r \in VersionQueues /\ r.id = q.id /\ r.pi # <<>>
  BY <1>4, <1>5, AdvancedFacts
<1>7. Current(r) \in Versions
  <2>1. r.pi \in Seq(Versions)
    BY <1>6, VersionQueueFacts
  <2>2. 1 \in 1 .. Len(r.pi)
    BY <1>6, <2>1, EmptySeq
  <2> QED
    BY <2>1, <2>2, ElementOfSeq DEF Current
<1>8. <<q.id, Current(r)>> \in Atoms
  BY <1>7, VersionQueueFacts DEF Atoms
<1>9. Check(t, <<q.id, Current(r)>>, pl, FALSE) = {}
  BY <1>4, <1>5 DEF CheckAt
<1> QED
  BY <1>5, <1>6, <1>8, <1>9

\* The entries that a version queue was made for, the queues matching them.
FirstsOf(s) == {i \in DOMAIN s.projects : i > 1 /\ s.projects[i].first}
QueuesMatch(s, queues) ==
    /\ Len(queues) = Cardinality(FirstsOf(s))
    /\ \A i \in FirstsOf(s) :
          LET q == queues[PlaceIn(FirstsOf(s), i)]
          IN  q.pi # <<>> /\ s.projects[i].a = <<q.id, Current(q)>>

\* fail() marks queues and changes nothing else.
LEMMA FailKeeps ==
    ASSUME NEW queues \in Seq(VersionQueues), NEW ids
    PROVE  /\ Fail(queues, ids) \in Seq(VersionQueues) /\ Len(Fail(queues, ids)) = Len(queues)
           /\ \A i \in 1 .. Len(queues) :
                 Fail(queues, ids)[i].id = queues[i].id /\ Fail(queues, ids)[i].pi = queues[i].pi
<1>1. PICK n \in Nat : n = Len(queues) /\ DOMAIN queues = 1 .. n
  BY LenProperties
<1>2. PICK f : f = Fail(queues, ids)
  OBVIOUS
<1>3. f = [i \in 1 .. n |-> IF queues[i].id \in ids /\ \A j \in 1..(i - 1) : queues[j].id # queues[i].id
                            THEN [queues[i] EXCEPT !.failed = TRUE] ELSE queues[i]]
  BY <1>1, <1>2 DEF Fail
<1>4. ASSUME NEW i \in 1 .. n
      PROVE  f[i] \in VersionQueues /\ f[i].id = queues[i].id /\ f[i].pi = queues[i].pi
  <2>1. PICK q \in VersionQueues : q = queues[i]
    BY <1>1, ElementOfSeq
  <2>2. f[i] = q \/ f[i] = [q EXCEPT !.failed = TRUE]
    BY <1>3, <2>1
  <2>3. [q EXCEPT !.failed = TRUE] \in VersionQueues
        /\ [q EXCEPT !.failed = TRUE].id = q.id /\ [q EXCEPT !.failed = TRUE].pi = q.pi
    BY DEF VersionQueues
  <2> QED
    BY <2>1, <2>2, <2>3
<1>5. f \in [1 .. n -> VersionQueues]
  BY <1>3, <1>4
<1>6. f \in Seq(VersionQueues) /\ Len(f) = n
  BY <1>5
<1> QED
  BY <1>1, <1>2, <1>4, <1>6

\* The first entries are indices.
LEMMA FirstsFacts ==
    ASSUME NEW s \in Selections, NEW n \in Nat, n = Len(s.projects)
    PROVE  /\ FirstsOf(s) \in SUBSET (1 .. n)
           /\ \A i : i \in FirstsOf(s) <=> i \in 2 .. n /\ s.projects[i].first
<1>1. DOMAIN s.projects = 1 .. n
  BY SelectionFacts
<1>2. \A i : i \in 1 .. n /\ i > 1 <=> i \in 2 .. n
  OBVIOUS
<1> QED
  BY <1>1, <1>2 DEF FirstsOf

\* Marked queues match what they matched.
LEMMA FailMatches ==
    ASSUME NEW s \in Selections, NEW queues \in Seq(VersionQueues), QueuesMatch(s, queues), NEW ids
    PROVE  QueuesMatch(s, Fail(queues, ids))
<1>1. PICK f : f = Fail(queues, ids)
  OBVIOUS
<1>2. Len(f) = Len(queues) /\ \A i \in 1 .. Len(queues) : f[i].id = queues[i].id /\ f[i].pi = queues[i].pi
  BY <1>1, FailKeeps
<1>3. PICK n \in Nat : n = Len(s.projects)
  BY SelectionFacts
<1>4. PICK F \in SUBSET (1 .. n) : F = FirstsOf(s)
  BY <1>3, FirstsFacts
<1>5. Len(queues) = Cardinality(F) /\ \A i \in F : PlaceIn(F, i) \in 1 .. Cardinality(F)
  BY <1>4, PlaceFacts DEF QueuesMatch
<1>6. ASSUME NEW i \in F
      PROVE  f[PlaceIn(F, i)].pi # <<>> /\ s.projects[i].a = <<f[PlaceIn(F, i)].id, Current(f[PlaceIn(F, i)])>>
  BY <1>2, <1>4, <1>5 DEF QueuesMatch, Current
<1>7. QueuesMatch(s, f)
  BY <1>2, <1>4, <1>5, <1>6 DEF QueuesMatch
<1> QED
  BY <1>1, <1>7

\* The queues match still when a project is selected with its queue,
LEMMA SelectedMatches ==
    ASSUME NEW s \in Selections, NEW t \in Selections, Len(s.projects) >= 1,
           NEW queues \in Seq(VersionQueues), QueuesMatch(s, queues), NEW q \in VersionQueues, q.pi # <<>>,
           NEW e \in Entries, e.first, e.a = <<q.id, Current(q)>>, t.projects = Append(s.projects, e)
    PROVE  QueuesMatch(t, Append(queues, q))
<1>1. PICK n \in Nat : n = Len(s.projects) /\ n >= 1
  BY SelectionFacts
<1>2. /\ Len(t.projects) = n + 1 /\ t.projects[n + 1] = e /\ \A i \in 1 .. n : t.projects[i] = s.projects[i]
  BY <1>1, SelectionFacts, AppendProperties
<1>3. PICK F \in SUBSET (1 .. n) : F = FirstsOf(s) /\ \A i : i \in F <=> i \in 2 .. n /\ s.projects[i].first
  BY <1>1, FirstsFacts
<1>4. FirstsOf(t) = F \cup {n + 1}
  <2>1. \A i : i \in FirstsOf(t) <=> i \in 2 .. n + 1 /\ t.projects[i].first
    BY <1>2, FirstsFacts
  <2>2. \A i : i \in 2 .. n + 1 <=> i \in 2 .. n \/ i = n + 1
    BY <1>1
  <2>3. \A i \in 2 .. n : i \in 1 .. n
    OBVIOUS
  <2>4. n + 1 \notin 2 .. n
    OBVIOUS
  <2>5. ASSUME NEW i PROVE i \in FirstsOf(t) <=> i \in F \/ i = n + 1
    BY <1>2, <1>3, <2>1, <2>2, <2>3, <2>4
  <2> QED
    BY <2>5
<1>5. /\ Cardinality(F) \in Nat /\ \A i \in F : PlaceIn(F, i) \in 1 .. Cardinality(F)
      /\ Cardinality(F \cup {n + 1}) = Cardinality(F) + 1
      /\ PlaceIn(F \cup {n + 1}, n + 1) = Cardinality(F) + 1
      /\ \A i \in F : PlaceIn(F \cup {n + 1}, i) = PlaceIn(F, i)
  BY PlaceFacts, PlaceOfNext
<1>6. Len(queues) = Cardinality(F)
  BY <1>3 DEF QueuesMatch
<1>7. PICK r : r = Append(queues, q)
  OBVIOUS
<1>8. Len(r) = Cardinality(F) + 1 /\ r[Cardinality(F) + 1] = q /\ \A i \in 1 .. Cardinality(F) : r[i] = queues[i]
  BY <1>6, <1>7, AppendProperties
<1>9. ASSUME NEW i \in F \cup {n + 1}, NEW x, x = r[PlaceIn(F \cup {n + 1}, i)]
      PROVE  x.pi # <<>> /\ t.projects[i].a = <<x.id, Current(x)>>
  <2>1. CASE i \in F
    <3>1. x = queues[PlaceIn(F, i)]
      BY <1>5, <1>8, <1>9, <2>1
    <3>2. t.projects[i] = s.projects[i]
      BY <1>2, <2>1
    <3> QED
      BY <1>3, <2>1, <3>1, <3>2 DEF QueuesMatch
  <2>2. CASE i = n + 1
    <3>1. x = q
      BY <1>5, <1>8, <1>9, <2>2
    <3> QED
      BY <1>2, <2>2, <3>1
  <2> QED
    BY <2>1, <2>2
<1>10. QueuesMatch(t, r)
  BY <1>4, <1>5, <1>8, <1>9 DEF QueuesMatch
<1> QED
  BY <1>7, <1>10

\* when packages of a selected project are,
LEMMA AddedMatches ==
    ASSUME NEW s \in Selections, NEW t \in Selections, NEW queues, QueuesMatch(s, queues),
           NEW e \in Entries, ~e.first, t.projects = Append(s.projects, e)
    PROVE  QueuesMatch(t, queues)
<1>1. PICK n \in Nat : n = Len(s.projects)
  BY SelectionFacts
<1>2. /\ Len(t.projects) = n + 1 /\ t.projects[n + 1] = e /\ \A i \in 1 .. n : t.projects[i] = s.projects[i]
  BY <1>1, SelectionFacts, AppendProperties
<1>3. PICK F : F = FirstsOf(s)
  OBVIOUS
<1>4. \A i : i \in F <=> i \in 2 .. n /\ s.projects[i].first
  BY <1>1, <1>3, FirstsFacts
<1>5. ASSUME NEW i PROVE i \in FirstsOf(t) <=> i \in F
  <2>1. i \in FirstsOf(t) <=> i \in 2 .. n + 1 /\ t.projects[i].first
    BY <1>2, FirstsFacts
  <2>2. i \in 2 .. n + 1 /\ i # n + 1 => i \in 2 .. n
    OBVIOUS
  <2>3. i \in 2 .. n => i \in 1 .. n /\ i \in 2 .. n + 1
    OBVIOUS
  <2> QED
    BY <1>2, <1>4, <2>1, <2>2, <2>3
<1>6. FirstsOf(t) = F
  BY <1>5
<1>7. \A i \in F : t.projects[i] = s.projects[i]
  <2>1. \A i \in F : i \in 1 .. n
    BY <1>4
  <2> QED
    BY <1>2, <2>1
<1> QED
  BY <1>3, <1>6, <1>7 DEF QueuesMatch

\* and when the last project is unselected, with its queue.
LEMMA UnselectedMatches ==
    ASSUME NEW s \in Selections, NEW t \in Selections, EntriesAreSound(s), Len(s.projects) > 1,
           NEW queues \in Seq(VersionQueues), QueuesMatch(s, queues), NEW m, m = FirstOfLast(s),
           Len(t.projects) = m - 1, \A i \in 1 .. m - 1 : t.projects[i] = s.projects[i]
    PROVE  /\ queues # <<>> /\ QueuesMatch(t, Front(queues))
           /\ s.projects[m].a[1] = Last(queues).id /\ Last(queues).pi # <<>>
<1>1. PICK n \in Nat : n = Len(s.projects) /\ n > 1
  BY SelectionFacts
<1>2. /\ m \in 2 .. n /\ s.projects[m].first /\ s.projects[m].a \in Atoms
      /\ \A i \in 2 .. n : s.projects[i].first => i <= m
  BY <1>1, LastProject
<1>3. PICK k \in Nat : k = m - 1
  BY <1>2
<1>4. m = k + 1
  BY <1>2, <1>3
<1>5. PICK F \in SUBSET (1 .. k) : F = FirstsOf(t) /\ \A i : i \in F <=> i \in 2 .. k /\ t.projects[i].first
  BY <1>3, FirstsFacts
<1>6. FirstsOf(s) = F \cup {k + 1}
  <2>1. \A i : i \in FirstsOf(s) <=> i \in 2 .. n /\ s.projects[i].first
    BY <1>1, FirstsFacts
  <2>2. ASSUME NEW i PROVE i \in FirstsOf(s) <=> i \in F \/ i = k + 1
    <3>1. CASE i \in 2 .. k
      <4>1. i \in 2 .. n /\ i \in 1 .. m - 1 /\ i # k + 1
        BY <1>2, <1>3, <3>1
      <4>2. t.projects[i] = s.projects[i]
        BY <4>1
      <4> QED
        BY <1>5, <2>1, <3>1, <4>1, <4>2
    <3>2. CASE i = k + 1
      BY <1>2, <1>4, <2>1, <3>2
    <3>3. CASE i \notin 2 .. k /\ i # k + 1
      <4>1. i \in 2 .. n => ~(i <= m)
        BY <1>3, <1>4, <3>3
      <4> QED
        BY <1>2, <1>5, <2>1, <3>3, <4>1
    <3> QED
      BY <3>1, <3>2, <3>3
  <2> QED
    BY <2>2
<1>7. /\ Cardinality(F) \in Nat /\ \A i \in F : PlaceIn(F, i) \in 1 .. Cardinality(F)
      /\ Cardinality(F \cup {k + 1}) = Cardinality(F) + 1
      /\ PlaceIn(F \cup {k + 1}, k + 1) = Cardinality(F) + 1
      /\ \A i \in F : PlaceIn(F \cup {k + 1}, i) = PlaceIn(F, i)
  BY PlaceFacts, PlaceOfNext
<1>8. Len(queues) = Cardinality(F) + 1
  BY <1>6, <1>7 DEF QueuesMatch
<1>9. queues # <<>>
  BY <1>7, <1>8, EmptySeq
<1>10. PICK r : r = Front(queues)
  OBVIOUS
<1>11. /\ Len(r) = Cardinality(F) /\ \A i \in 1 .. Cardinality(F) : r[i] = queues[i]
       /\ Last(queues) = queues[Cardinality(F) + 1]
  <2>1. Len(r) = Len(queues) - 1 /\ (\A i \in 1 .. Len(queues) - 1 : r[i] = queues[i])
        /\ Last(queues) = queues[Len(queues)]
    BY <1>9, <1>10, FrontFacts
  <2>2. Len(queues) - 1 = Cardinality(F)
    BY <1>7, <1>8
  <2> QED
    BY <1>8, <2>1, <2>2
<1>12. ASSUME NEW i \in F, NEW x, x = r[PlaceIn(F, i)]
       PROVE  x.pi # <<>> /\ t.projects[i].a = <<x.id, Current(x)>>
  <2>1. x = queues[PlaceIn(F \cup {k + 1}, i)]
    BY <1>7, <1>11, <1>12
  <2>2. t.projects[i] = s.projects[i]
    BY <1>3
  <2> QED
    BY <1>6, <2>1, <2>2 DEF QueuesMatch
<1>13. QueuesMatch(t, r)
  BY <1>5, <1>11, <1>12 DEF QueuesMatch
<1>14. Last(queues).pi # <<>> /\ s.projects[m].a = <<Last(queues).id, Current(Last(queues))>>
  <2>1. PICK x : x = Last(queues)
    OBVIOUS
  <2>2. m \in FirstsOf(s) /\ x = queues[PlaceIn(FirstsOf(s), m)]
    BY <1>4, <1>6, <1>7, <1>11, <2>1
  <2>3. x.pi # <<>> /\ s.projects[m].a = <<x.id, Current(x)>>
    BY <2>2 DEF QueuesMatch
  <2> QED
    BY <2>1, <2>3
<1> QED
  BY <1>9, <1>10, <1>13, <1>14

\* Where there is a queue there is a project to unselect.
LEMMA QueuesHaveProjects ==
    ASSUME NEW s \in Selections, NEW queues \in Seq(VersionQueues), QueuesMatch(s, queues), queues # <<>>
    PROVE  Len(s.projects) > 1
<1>1. PICK n \in Nat : n = Len(s.projects)
  BY SelectionFacts
<1>2. Len(queues) # 0
  BY EmptySeq
<1>3. FirstsOf(s) # {}
  BY <1>2, FS_EmptySet DEF QueuesMatch
<1>4. PICK i : i \in 2 .. n
  BY <1>1, <1>3, FirstsFacts
<1> QED
  BY <1>1, <1>4

-----------------------------------------------------------------------------
(* GpsSolver: the invariant and the steps.                                 *)

\* The inductive invariant of the solver: the selection is one, and the version
\* queues match it.
SolverInv ==
    /\ world \in Worlds /\ IsSelection(sel)
    /\ vqs \in Seq(VersionQueues) /\ QueuesMatchSelection
    /\ phase \in {"solving", "backtracking", "solved", "failed", "panicked"}
    /\ phase = "solved" => sel.unsel = <<>>

\* The world stays, and with it all that is computed from it,
LEMMA SameWorld ==
    ASSUME world' = world
    PROVE  /\ \A a : Reachable(a)' = Reachable(a)
           /\ \A a, pl : DependenciesOf(a, pl)' = DependenciesOf(a, pl)
           /\ RootDependencies' = RootDependencies
<1>1. ASSUME NEW a PROVE Reachable(a)' = Reachable(a)
  BY DEF Reachable
<1>2. ASSUME NEW a, NEW pl PROVE DependenciesOf(a, pl)' = DependenciesOf(a, pl)
  BY <1>1 DEF DependenciesOf
<1>3. RootDependencies' = RootDependencies
  BY DEF RootDependencies
<1> QED
  BY <1>1, <1>2, <1>3

\* such as whether a selection is one.
LEMMA SameSelection ==
    ASSUME world' = world, NEW t, sel' = t, IsSelection(t)
    PROVE  IsSelection(sel)'
<1>1. ASSUME NEW e PROVE DependenciesOfEntry(e)' = DependenciesOfEntry(e)
  BY SameWorld DEF DependenciesOfEntry
<1>2. ASSUME NEW p PROVE Dependers(t, p)' = Dependers(t, p)
  BY <1>1 DEF Dependers
<1>3. DepsMatchSelection(t)' = DepsMatchSelection(t)
  BY <1>1, <1>2 DEF DepsMatchSelection
<1>4. EntriesAreSound(t)' = EntriesAreSound(t)
  BY SameWorld DEF EntriesAreSound
<1>5. IsSelection(t)'
  BY <1>3, <1>4 DEF IsSelection
<1>6. IsSelection(sel)' = IsSelection(t)'
  BY DEF IsSelection
<1> QED
  BY <1>5, <1>6

\* Where the search may be.
Phases == {"solving", "backtracking", "solved", "failed", "panicked"}

\* The invariant of the next state, from what that state is.
LEMMA NextState ==
    ASSUME world \in Worlds, world' = world, NEW t, NEW queues, NEW ph \in Phases,
           sel' = t, vqs' = queues, phase' = ph,
           IsSelection(t), queues \in Seq(VersionQueues), QueuesMatch(t, queues), ph = "solved" => t.unsel = <<>>
    PROVE  SolverInv'
<1>1. IsSelection(sel)'
  BY SameSelection
<1>2. QueuesMatchSelection'
  <2>1. Firsts' = FirstsOf(t)
    BY DEF Firsts, FirstsOf
  <2> QED
    BY <2>1 DEF QueuesMatchSelection, QueuesMatch
<1> QED
  BY <1>1, <1>2 DEF SolverInv, Phases

\* The parts of the invariant.
LEMMA InvFacts ==
    ASSUME SolverInv
    PROVE  /\ world \in Worlds /\ IsWorld(world) /\ IsSelection(sel) /\ sel \in Selections /\ EntriesAreSound(sel)
           /\ sel.unsel \in Seq(QueueEntries)
           /\ vqs \in Seq(VersionQueues) /\ QueuesMatch(sel, vqs) /\ phase \in Phases
           /\ phase = "solved" => sel.unsel = <<>>
<1>1. QueuesMatch(sel, vqs)
  BY DEF SolverInv, QueuesMatchSelection, QueuesMatch, Firsts, FirstsOf
<1>2. IsWorld(world)
  BY WorldsAssumption DEF SolverInv
<1>3. sel \in Selections /\ EntriesAreSound(sel)
  BY DEF SolverInv, IsSelection
<1> QED
  BY <1>1, <1>2, <1>3, SelectionFacts DEF SolverInv, Phases

\* The entry in front of the queue of the unselected.
LEMMA ForemostFacts ==
    ASSUME SolverInv, sel.unsel # <<>>
    PROVE  Foremost \in QueueEntries /\ Foremost.id \in Projects
<1>1. sel.unsel \in Seq(QueueEntries)
  BY InvFacts
<1>2. 1 \in 1 .. Len(sel.unsel)
  BY <1>1, EmptySeq
<1>3. Foremost \in QueueEntries
  BY <1>1, <1>2, ElementOfSeq DEF Foremost
<1> QED
  BY <1>3 DEF QueueEntries

\* A version for a new project.
LEMMA SelectedInv ==
    ASSUME IsWorld(world), NEW s, IsSelection(s), NEW queues \in Seq(VersionQueues), QueuesMatch(s, queues),
           NEW q \in VersionQueues, NEW pl, FindsVersion(s, q, pl), ~IsSelected(s, q.id),
           NEW t \in SelectAtom(s, <<q.id, Current(Found(s, q, pl))>>, pl, FALSE)
    PROVE  IsSelection(t) /\ QueuesMatch(t, Append(queues, Found(s, q, pl)))
           /\ Append(queues, Found(s, q, pl)) \in Seq(VersionQueues)
<1>1. PICK r \in VersionQueues : r = Found(s, q, pl) /\ r.id = q.id /\ r.pi # <<>>
                                 /\ <<q.id, Current(r)>> \in Atoms /\ Check(s, <<q.id, Current(r)>>, pl, FALSE) = {}
  BY FoundFacts
<1>2. PICK a \in Atoms : a = <<q.id, Current(r)>>
  BY <1>1
<1>3. a[1] = q.id /\ Check(s, a, pl, FALSE) = {} /\ t \in SelectAtom(s, a, pl, FALSE)
  BY <1>1, <1>2
<1>4. MaySelect(s, a, FALSE)
  BY <1>3 DEF MaySelect
<1>5. PICK e : e = [a |-> a, pl |-> WithInternal(a, pl), first |-> ~FALSE]
  OBVIOUS
<1>6. IsSelection(t) /\ t.projects = Append(s.projects, e) /\ e \in Entries
  <2>1. FALSE \in BOOLEAN
    OBVIOUS
  <2> QED
    BY <1>3, <1>4, <1>5, <2>1, SelectAtomInv
<1>7. e.first /\ e.a = <<r.id, Current(r)>>
  BY <1>1, <1>2, <1>5
<1>8. s \in Selections /\ t \in Selections /\ Len(s.projects) >= 1
  BY <1>6 DEF IsSelection, EntriesAreSound
<1>9. QueuesMatch(t, Append(queues, r))
  BY <1>1, <1>6, <1>7, <1>8, SelectedMatches
<1>10. Append(queues, r) \in Seq(VersionQueues)
  BY AppendProperties
<1> QED
  BY <1>1, <1>6, <1>9, <1>10

\* A project is selected.
LEMMA SelectProjectInv == ASSUME SolverInv, SelectProject PROVE SolverInv'
<1>1. /\ phase = "solving" /\ sel.unsel # <<>> /\ ~IsSelected(sel, Foremost.id)
      /\ world' = world /\ phase' = phase
  BY DEF SelectProject, IsNewProject
<1>2. PICK bmi \in QueueEntries : bmi = Foremost /\ bmi.id \in Projects
  BY <1>1, ForemostFacts
<1>3. PICK q \in VersionQueues : q = NewVersionQueue(bmi) /\ q.id = bmi.id
  BY InvFacts, NewVersionQueueType
<1>4. PICK marked : vqs' = Append(Fail(vqs, marked), Found(sel, q, bmi.pl))
  BY <1>2, <1>3 DEF SelectProject
<1>5. PICK t \in SelectAtom(sel, <<q.id, Current(Found(sel, q, bmi.pl))>>, bmi.pl, FALSE) : sel' = t
  BY <1>2, <1>3 DEF SelectProject
<1>6. FindsVersion(sel, q, bmi.pl) /\ ~IsSelected(sel, q.id)
  BY <1>1, <1>2, <1>3 DEF SelectProject
<1>7. PICK queues \in Seq(VersionQueues) : queues = Fail(vqs, marked) /\ QueuesMatch(sel, queues)
  BY InvFacts, FailKeeps, FailMatches
<1>8. PICK more : more = Append(queues, Found(sel, q, bmi.pl))
  OBVIOUS
<1>9. IsSelection(t) /\ QueuesMatch(t, more) /\ more \in Seq(VersionQueues)
  BY <1>5, <1>6, <1>7, <1>8, InvFacts, SelectedInv
<1>10. vqs' = more /\ phase' = "solving" /\ world \in Worlds
  BY <1>1, <1>4, <1>7, <1>8, InvFacts
<1> QED
  BY <1>1, <1>5, <1>9, <1>10, NextState DEF Phases

\* Packages of a selected project are selected.
LEMMA AddPackagesInv == ASSUME SolverInv, AddPackages PROVE SolverInv'
<1>1. /\ phase = "solving" /\ sel.unsel # <<>> /\ IsSelected(sel, Foremost.id)
      /\ world' = world /\ phase' = phase /\ vqs' = vqs
  BY DEF AddPackages, IsAddition
<1>2. PICK p \in Projects : p = Foremost.id
  BY <1>1, ForemostFacts
<1>3. PICK a \in Atoms : a = SelectedAtom(sel, p) /\ a[1] = p
  BY <1>1, <1>2, InvFacts, SelectedFacts
<1>4. PICK pl : pl = Foremost.pl
  OBVIOUS
<1>5. Check(sel, a, pl, TRUE) = {}
  BY <1>2, <1>3, <1>4 DEF AddPackages
<1>6. PICK t \in SelectAtom(sel, a, pl, TRUE) : sel' = t
  BY <1>2, <1>3, <1>4 DEF AddPackages
<1>7. MaySelect(sel, a, TRUE)
  BY <1>1, <1>2, <1>3 DEF MaySelect
<1>8. PICK e : e = [a |-> a, pl |-> WithInternal(a, pl), first |-> ~TRUE]
  OBVIOUS
<1>9. IsSelection(t) /\ t.projects = Append(sel.projects, e) /\ e \in Entries
  <2>1. TRUE \in BOOLEAN
    OBVIOUS
  <2> QED
    BY <1>5, <1>6, <1>7, <1>8, <2>1, InvFacts, SelectAtomInv
<1>10. ~e.first
  BY <1>8
<1>11. PICK queues : queues = vqs /\ queues \in Seq(VersionQueues) /\ QueuesMatch(sel, queues)
  BY InvFacts
<1>12. QueuesMatch(t, queues)
  BY <1>9, <1>10, <1>11, InvFacts, AddedMatches DEF IsSelection
<1>13. vqs' = queues /\ phase' = "solving" /\ world \in Worlds
  BY <1>1, <1>11, InvFacts
<1> QED
  BY <1>1, <1>6, <1>9, <1>11, <1>12, <1>13, NextState DEF Phases

\* Queues are marked as failed, and nothing else.
LEMMA FailedInv ==
    ASSUME SolverInv, world' = world, sel' = sel, NEW marked, vqs' = Fail(vqs, marked), phase' = "backtracking"
    PROVE  SolverInv'
<1>1. PICK t : t = sel /\ IsSelection(t)
  BY InvFacts
<1>2. PICK queues : queues = Fail(vqs, marked) /\ queues \in Seq(VersionQueues) /\ QueuesMatch(t, queues)
  BY <1>1, InvFacts, FailKeeps, FailMatches
<1> QED
  BY <1>1, <1>2, InvFacts, NextState DEF Phases

\* Only the phase changes.
LEMMA PhaseInv ==
    ASSUME SolverInv, world' = world, sel' = sel, vqs' = vqs, phase' \in Phases, phase' = "solved" => sel.unsel = <<>>
    PROVE  SolverInv'
<1>1. PICK t : t = sel /\ IsSelection(t)
  BY InvFacts
<1>2. PICK queues : queues = vqs /\ queues \in Seq(VersionQueues) /\ QueuesMatch(t, queues)
  BY <1>1, InvFacts
<1>3. PICK ph \in Phases : ph = phase'
  OBVIOUS
<1> QED
  BY <1>1, <1>2, <1>3, InvFacts, NextState

\* What backtrack has when it has unselected a project.
LEMMA UnselectedFacts ==
    ASSUME SolverInv, vqs # <<>>, NEW t, t = UnselectProject(sel), NEW queues, queues = Front(vqs),
           NEW q, q = Last(vqs)
    PROVE  /\ IsSelection(t) /\ queues \in Seq(VersionQueues) /\ QueuesMatch(t, queues)
           /\ q \in VersionQueues /\ ~IsSelected(t, q.id)
<1>1. Len(sel.projects) > 1
  BY InvFacts, QueuesHaveProjects
<1>2. PICK m : m = FirstOfLast(sel)
  OBVIOUS
<1>3. /\ IsSelection(t) /\ Len(t.projects) = m - 1 /\ \A i \in 1 .. m - 1 : t.projects[i] = sel.projects[i]
      /\ ~IsSelected(t, sel.projects[m].a[1])
  BY <1>1, <1>2, InvFacts, UnselectProjectInv
<1>4. t \in Selections
  BY <1>3 DEF IsSelection
<1>5. QueuesMatch(t, queues) /\ sel.projects[m].a[1] = q.id
  BY <1>1, <1>2, <1>3, <1>4, InvFacts, UnselectedMatches
<1>6. queues \in Seq(VersionQueues) /\ q \in VersionQueues
  BY InvFacts, FrontFacts
<1> QED
  BY <1>3, <1>5, <1>6

\* A queue that nothing has marked is popped.
LEMMA PopQueueInv == ASSUME SolverInv, PopQueue PROVE SolverInv'
<1>1. vqs # <<>> /\ world' = world /\ phase' = phase /\ phase = "backtracking"
  BY DEF PopQueue
<1>2. PICK t : t = UnselectProject(sel) /\ sel' = t
  BY DEF PopQueue
<1>3. PICK queues : queues = Front(vqs) /\ vqs' = queues
  BY DEF PopQueue
<1>4. IsSelection(t) /\ queues \in Seq(VersionQueues) /\ QueuesMatch(t, queues)
  BY <1>1, <1>2, <1>3, UnselectedFacts
<1> QED
  BY <1>1, <1>2, <1>3, <1>4, InvFacts, NextState DEF Phases

\* A queue is popped that has no version left.
LEMMA NothingToRetryInv == ASSUME SolverInv, NothingToRetry PROVE SolverInv'
<1>1. vqs # <<>> /\ world' = world /\ phase' = phase /\ phase = "backtracking"
  BY DEF NothingToRetry, IsRetry
<1>2. PICK t : t = UnselectProject(sel) /\ sel' = t
  BY DEF NothingToRetry, Unselected
<1>3. PICK queues : queues = Front(vqs) /\ vqs' = queues
  BY DEF NothingToRetry
<1>4. IsSelection(t) /\ queues \in Seq(VersionQueues) /\ QueuesMatch(t, queues)
  BY <1>1, <1>2, <1>3, UnselectedFacts
<1> QED
  BY <1>1, <1>2, <1>3, <1>4, InvFacts, NextState DEF Phases

\* No version that is left can be selected.
LEMMA RetryFailsInv == ASSUME SolverInv, RetryFails PROVE SolverInv'
<1>1. vqs # <<>> /\ world' = world /\ phase' = phase /\ phase = "backtracking"
  BY DEF RetryFails, IsRetry
<1>2. PICK t : t = UnselectProject(sel) /\ sel' = t
  BY DEF RetryFails, Unselected
<1>3. PICK marked : vqs' = Fail(Front(vqs), marked)
  BY DEF RetryFails
<1>4. PICK older : older = Front(vqs)
  OBVIOUS
<1>5. IsSelection(t) /\ older \in Seq(VersionQueues) /\ QueuesMatch(t, older)
  BY <1>1, <1>2, <1>4, UnselectedFacts
<1>6. t \in Selections
  BY <1>5 DEF IsSelection
<1>7. PICK queues : queues = Fail(older, marked) /\ queues \in Seq(VersionQueues) /\ QueuesMatch(t, queues)
  BY <1>5, <1>6, FailKeeps, FailMatches
<1> QED
  BY <1>1, <1>2, <1>3, <1>4, <1>5, <1>7, InvFacts, NextState DEF Phases

\* Another version is selected.
LEMMA RetryQueueInv == ASSUME SolverInv, RetryQueue PROVE SolverInv'
<1>1. vqs # <<>> /\ world' = world /\ phase' = "solving"
  BY DEF RetryQueue, IsRetry
<1>2. PICK s : s = UnselectProject(sel)
  OBVIOUS
<1>3. PICK older : older = Front(vqs)
  OBVIOUS
<1>4. PICK last : last = Last(vqs)
  OBVIOUS
<1>5. IsSelection(s) /\ older \in Seq(VersionQueues) /\ QueuesMatch(s, older)
      /\ last \in VersionQueues /\ ~IsSelected(s, last.id)
  BY <1>1, <1>2, <1>3, <1>4, UnselectedFacts
<1>6. PICK q \in VersionQueues : q = RetryFrom(last) /\ q.id = last.id
  <2>1. 1 \in Nat
    OBVIOUS
  <2> QED
    BY <1>5, <2>1, InvFacts, AdvancedFacts DEF RetryFrom
<1>7. PICK pl : pl = Again
  OBVIOUS
<1>8. FindsVersion(s, q, pl)
  BY <1>2, <1>4, <1>6, <1>7 DEF RetryQueue, Unselected
<1>9. PICK marked : vqs' = Append(Fail(older, marked), Found(s, q, pl))
  BY <1>2, <1>3, <1>4, <1>6, <1>7 DEF RetryQueue, Unselected
<1>10. PICK t \in SelectAtom(s, <<q.id, Current(Found(s, q, pl))>>, pl, FALSE) : sel' = t
  BY <1>2, <1>4, <1>6, <1>7 DEF RetryQueue, Unselected
<1>11. s \in Selections
  BY <1>5 DEF IsSelection
<1>12. PICK queues \in Seq(VersionQueues) : queues = Fail(older, marked) /\ QueuesMatch(s, queues)
  BY <1>5, <1>11, FailKeeps, FailMatches
<1>13. PICK more : more = Append(queues, Found(s, q, pl))
  OBVIOUS
<1>14. IsSelection(t) /\ QueuesMatch(t, more) /\ more \in Seq(VersionQueues)
  BY <1>5, <1>6, <1>8, <1>10, <1>12, <1>13, InvFacts, SelectedInv
<1>15. vqs' = more
  BY <1>9, <1>12, <1>13
<1> QED
  BY <1>1, <1>10, <1>14, <1>15, InvFacts, NextState DEF Phases

\* Every step keeps the invariant.
LEMMA SolverNextInv == SolverInv /\ [SolverNext]_solverVars => SolverInv'
<1> SUFFICES ASSUME SolverInv, [SolverNext]_solverVars PROVE SolverInv'
  OBVIOUS
<1>1. CASE SelectProject
  BY <1>1, SelectProjectInv
<1>2. CASE ProjectFails
  <2>1. PICK marked : vqs' = Fail(vqs, marked)
    BY <1>2 DEF ProjectFails
  <2> QED
    BY <1>2, <2>1, FailedInv DEF ProjectFails
<1>3. CASE ProjectIsMissing
  BY <1>3, PhaseInv DEF ProjectIsMissing, Phases
<1>4. CASE AddPackages
  BY <1>4, AddPackagesInv
<1>5. CASE AdditionFails
  <2>1. PICK marked : vqs' = Fail(vqs, marked)
    BY <1>5 DEF AdditionFails
  <2> QED
    BY <1>5, <2>1, FailedInv DEF AdditionFails
<1>6. CASE Solve
  BY <1>6, PhaseInv DEF Solve, Phases
<1>7. CASE PopQueue
  BY <1>7, PopQueueInv
<1>8. CASE RetryQueue
  BY <1>8, RetryQueueInv
<1>9. CASE RetryFails
  BY <1>9, RetryFailsInv
<1>10. CASE NothingToRetry
  BY <1>10, NothingToRetryInv
<1>11. CASE GiveUp
  BY <1>11, PhaseInv DEF GiveUp, Phases
<1>12. CASE SelectPanics
  BY <1>12, PhaseInv DEF SelectPanics, Phases
<1>13. CASE RetryPanics
  BY <1>13, PhaseInv DEF RetryPanics, Phases
<1>14. CASE UNCHANGED solverVars
  BY <1>14, PhaseInv, InvFacts DEF solverVars
<1> QED
  BY <1>1, <1>2, <1>3, <1>4, <1>5, <1>6, <1>7, <1>8, <1>9, <1>10, <1>11, <1>12, <1>13, <1>14
     DEF SolverNext, Finished

-----------------------------------------------------------------------------
\* The entry of the queue for a dependency of the root.
LEMMA FromRootOf ==
    ASSUME NEW p, NEW pl, NEW v, NEW from, NEW other, NEW b, b = [id |-> p, pl |-> pl, fromRoot |-> from, prefv |-> v]
    PROVE  [b EXCEPT !.fromRoot = other] = [id |-> p, pl |-> pl, fromRoot |-> other, prefv |-> v]
OBVIOUS

\* The queue that the root's dependencies make.
LEMMA RootQueueFacts ==
    ASSUME IsWorld(world)
    PROVE  /\ RootQueue \subseteq QueueEntries /\ IsFiniteSet(RootQueue)
           /\ \A d \in RootDependencies : \E e \in RootQueue : e.id = d.to /\ e.pl = d.pl
<1> DEFINE Queue(d) == [Bmi(d.to, d.pl, NoVersion) EXCEPT !.fromRoot = TRUE]
           f == [d \in RootDependencies |-> Queue(d)]
<1>1. PICK new : new = RootDependencies
  OBVIOUS
<1>2. AreRequests(new)
  BY <1>1, RootRequests
<1>3. PICK result : result = RootQueue
  OBVIOUS
<1>4. ASSUME NEW e PROVE e \in result <=> \E d \in new : e = Queue(d)
  BY <1>1, <1>3 DEF RootQueue
<1>5. ASSUME NEW d \in new
      PROVE  Queue(d) \in QueueEntries /\ Queue(d).id = d.to /\ Queue(d).pl = d.pl
  <2>1. PICK p \in Projects : p = d.to
    BY <1>2 DEF AreRequests, Requests
  <2>2. PICK pl \in SUBSET Packages : pl = d.pl
    BY <1>2 DEF AreRequests, Requests
  <2>3. Queue(d) = [id |-> p, pl |-> pl, fromRoot |-> TRUE, prefv |-> NoVersion]
    <3>1. PICK b : b = Bmi(d.to, d.pl, NoVersion)
      OBVIOUS
    <3>2. b = [id |-> p, pl |-> pl, fromRoot |-> FALSE, prefv |-> NoVersion]
      BY <2>1, <2>2, <3>1 DEF Bmi
    <3>3. PICK true \in BOOLEAN : true = TRUE
      OBVIOUS
    <3>4. [b EXCEPT !.fromRoot = true] = [id |-> p, pl |-> pl, fromRoot |-> true, prefv |-> NoVersion]
      BY <3>2, FromRootOf
    <3> QED
      BY <3>1, <3>3, <3>4
  <2> HIDE DEF Queue, f
  <2> QED
    BY <2>1, <2>2, <2>3 DEF QueueEntries
<1>6. IsFiniteSet(result)
  <2>1. IsFiniteSet(new)
    BY <1>2 DEF AreRequests
  <2>2. f \in [new -> result] /\ \A e \in result : \E d \in new : f[d] = e
    BY <1>1, <1>4
  <2> HIDE DEF f
  <2>3. f \in Surjection(new, result)
    BY <2>2 DEF Surjection
  <2> QED
    BY <2>1, <2>3, FS_Surjection
<1>7. ASSUME NEW d \in new PROVE \E e \in result : e.id = d.to /\ e.pl = d.pl
  <2>1. Queue(d) \in result
    BY <1>4
  <2> QED
    BY <1>5, <2>1
<1>8. result \subseteq QueueEntries
  BY <1>4, <1>5
<1> QED
  BY <1>1, <1>3, <1>6, <1>7, <1>8

\* selectRoot establishes the invariant.
LEMMA SolverInitInv == SolverInit => SolverInv
<1> SUFFICES ASSUME SolverInit PROVE SolverInv
  OBVIOUS
<1>1. IsWorld(world) /\ world \in Worlds /\ vqs = <<>> /\ phase = "solving"
  BY WorldsAssumption DEF SolverInit
<1>2. PICK new : new = RootDependencies
  OBVIOUS
<1>3. AreRequests(new)
  BY <1>1, <1>2, RootRequests
<1>4. PICK pushed : pushed = [Nothing EXCEPT !.deps = PushDeps(@, RootAtom, RootDependencies)]
  OBVIOUS
<1>5. PICK order \in SetToSeqs(RootQueue) : sel = HeapPushAll(pushed, order)
  BY <1>4 DEF SolverInit
<1>6. PICK e : e = [a |-> RootAtom, pl |-> {}, first |-> TRUE]
  OBVIOUS
<1>7. e \in Entries /\ e.a = RootAtom /\ e.first /\ <<e>> \in Seq(Entries) /\ Len(<<e>>) = 1 /\ <<e>>[1] = e
  <2>1. e \in Entries
    BY <1>6 DEF Entries
  <2> QED
    BY <1>6, <2>1
<1>8. PICK empty : empty = [p \in Projects |-> <<>>]
  OBVIOUS
<1>9. pushed = [projects |-> <<e>>, deps |-> PushDeps(empty, RootAtom, new), unsel |-> <<>>]
  BY <1>2, <1>4, <1>6, <1>8 DEF Nothing
<1>10. ASSUME NEW p \in Projects, IsAsked(new, p)
       PROVE  /\ DependencyFrom(RootAtom, AskedOf(new, p)) \in Dependency
              /\ AskedOf(new, p) \in new /\ AskedOf(new, p).to = p
  <2>1. PICK d \in Requests : d = AskedOf(new, p) /\ d \in new /\ d.to = p
    BY <1>3, <1>10 DEF AreRequests
  <2>2. d.pl \in SUBSET Packages /\ d.allows \in SUBSET Versions
    BY DEF Requests
  <2> QED
    BY <2>1, <2>2 DEF DependencyFrom, Dependency
<1>11. ASSUME NEW p \in Projects
       PROVE  PushDeps(empty, RootAtom, new)[p]
              = IF IsAsked(new, p) THEN Append(<<>>, DependencyFrom(RootAtom, AskedOf(new, p))) ELSE <<>>
  BY <1>8 DEF PushDeps
<1>12. PushDeps(empty, RootAtom, new) \in [Projects -> Seq(Dependency)]
  <2>1. ASSUME NEW p \in Projects PROVE PushDeps(empty, RootAtom, new)[p] \in Seq(Dependency)
    <3>1. <<>> \in Seq(Dependency)
      BY EmptySeq
    <3>2. CASE IsAsked(new, p)
      <4>1. PICK x \in Dependency : x = DependencyFrom(RootAtom, AskedOf(new, p))
        BY <1>10, <3>2
      <4>2. PushDeps(empty, RootAtom, new)[p] = Append(<<>>, x)
        BY <1>11, <3>2, <4>1
      <4> QED
        BY <3>1, <4>1, <4>2, AppendProperties
    <3>3. CASE ~IsAsked(new, p)
      BY <1>11, <3>1, <3>3
    <3> QED
      BY <3>2, <3>3
  <2>2. PICK pushedDeps : pushedDeps = PushDeps(empty, RootAtom, new)
    OBVIOUS
  <2>3. pushedDeps = [p \in Projects |-> pushedDeps[p]]
    BY <2>2 DEF PushDeps
  <2> QED
    BY <2>1, <2>2, <2>3
<1>13. IsSolverState(pushed)
  BY <1>9, EmptySeq DEF IsSolverState
<1>14. RootQueue \subseteq QueueEntries /\ IsFiniteSet(RootQueue)
  BY <1>1, RootQueueFacts
<1>15. order \in Seq(QueueEntries) /\ {order[i] : i \in 1 .. Len(order)} = RootQueue
  BY <1>14, OrdersAreComplete, SeqMonotonic
<1>16. IsPushed(pushed, RootQueue, sel)
  BY <1>5, <1>13, <1>15, HeapPushAllKeeps
<1>17. IsSolverState(sel) /\ sel.projects = <<e>> /\ sel.deps = PushDeps(empty, RootAtom, new)
       /\ \A x \in RootQueue : IsQueued(sel, x)
  BY <1>9, <1>16 DEF IsPushed
<1>18. ASSUME NEW p \in Projects
       PROVE  sel.deps[p] = IF IsAsked(new, p) THEN Append(<<>>, DependencyFrom(RootAtom, AskedOf(new, p))) ELSE <<>>
  BY <1>11, <1>17
<1>19. sel \in Selections
  BY <1>7, <1>12, <1>17, IsASelection
<1>20. Len(sel.projects) = 1 /\ sel.projects[1] = e /\ 2 .. 1 = {}
  BY <1>7, <1>17
<1>21. EntriesAreSound(sel) /\ SelectedIsAllowed(sel)
  BY <1>7, <1>20 DEF EntriesAreSound, SelectedIsAllowed
<1>22. DepsMatchSelection(sel)
  <2>1. PICK s : s = [projects |-> <<>>, deps |-> empty, unsel |-> <<>>]
    OBVIOUS
  <2>2. s.projects = <<>> /\ s.projects \in Seq(Entries) /\ Len(s.projects) = 0 /\ DOMAIN s.projects = {}
    BY <2>1, EmptySeq
  <2>3. IsOneShorter(s, sel)
    BY <1>20, <2>2 DEF IsOneShorter
  <2>4. DependenciesOfEntry(e) = new
    BY <1>2, <1>7 DEF DependenciesOfEntry
  <2>5. ASSUME NEW p \in Projects PROVE MatchesAt(sel, p)
    <3>1. s.deps[p] = <<>> /\ s.deps[p] \in Seq(Dependency) /\ Len(s.deps[p]) = 0
      BY <1>8, <2>1, EmptySeq
    <3>2. Dependers(s, p) = {}
      BY <2>2 DEF Dependers
    <3>3. MatchesAt(s, p)
      BY <3>1, <3>2, FS_EmptySet DEF MatchesAt
    <3>4. e = sel.projects[Len(s.projects) + 1] /\ sel.projects \in Seq(Entries)
      BY <1>7, <1>17, <1>20, <2>2
    <3>5. CASE IsAsked(new, p)
      <4>1. PICK x \in Dependency : x = DependencyFrom(e.a, AskedOf(DependenciesOfEntry(e), p)) /\ sel.deps[p] = Append(s.deps[p], x)
        <5>1. PICK x \in Dependency : x = DependencyFrom(RootAtom, AskedOf(new, p))
          BY <1>10, <3>5
        <5>2. sel.deps[p] = Append(s.deps[p], x)
          BY <1>18, <3>1, <3>5, <5>1
        <5>3. x = DependencyFrom(e.a, AskedOf(DependenciesOfEntry(e), p))
          BY <1>7, <2>4, <5>1
        <5> QED
          BY <5>2, <5>3
      <4>2. IsAsked(DependenciesOfEntry(e), p)
        BY <2>4, <3>5
      <4> QED
        BY <2>2, <2>3, <3>1, <3>3, <3>4, <4>1, <4>2, MatchAdded
    <3>6. CASE ~IsAsked(new, p)
      <4>1. ~IsAsked(DependenciesOfEntry(e), p) /\ sel.deps[p] = s.deps[p]
        BY <1>18, <2>4, <3>1, <3>6
      <4> QED
        BY <2>2, <2>3, <3>1, <3>3, <3>4, <4>1, MatchAdded
    <3> QED
      BY <3>5, <3>6
  <2> QED
    BY <2>5, MatchesEverywhere
\* What one project is asked for.
<1>23. ASSUME NEW p \in Projects, IsAsked(new, p)
       PROVE  /\ \A v \in Versions : v \in GetConstraint(sel, p) <=> v \in AskedOf(new, p).allows
              /\ \A k : k \in RequiredPackagesIn(sel, p) <=> k \in AskedOf(new, p).pl
  <2>1. PICK x \in Dependency : x = DependencyFrom(RootAtom, AskedOf(new, p))
    BY <1>10, <1>23
  <2>2. PICK s : s = [projects |-> <<>>, deps |-> empty, unsel |-> <<>>]
    OBVIOUS
  <2>3. s.deps[p] = <<>> /\ s.deps[p] \in Seq(Dependency) /\ DOMAIN s.deps[p] = {}
    BY <1>8, <2>2, EmptySeq
  <2>4. sel.deps[p] = Append(s.deps[p], x)
    BY <1>18, <1>23, <2>1, <2>3
  <2>5. /\ \A v \in Versions : v \in GetConstraint(sel, p) <=> v \in GetConstraint(s, p) /\ v \in x.allows
        /\ \A k : k \in RequiredPackagesIn(sel, p) <=> k \in RequiredPackagesIn(s, p) \/ k \in x.pl
    BY <2>3, <2>4, DependencyAdded
  <2>6. (\A v \in Versions : v \in GetConstraint(s, p)) /\ \A k : k \notin RequiredPackagesIn(s, p)
    BY <2>3 DEF GetConstraint, RequiredPackagesIn
  <2>7. x.allows = AskedOf(new, p).allows /\ x.pl = AskedOf(new, p).pl
    BY <2>1 DEF DependencyFrom
  <2> QED
    BY <2>5, <2>6, <2>7
<1>24. ASSUME NEW p \in Projects, ~IsAsked(new, p)
       PROVE  (\A v \in Versions : v \in GetConstraint(sel, p)) /\ \A k : k \notin RequiredPackagesIn(sel, p)
  <2>1. sel.deps[p] = <<>>
    BY <1>18, <1>24, <1>8
  <2>2. DOMAIN sel.deps[p] = {}
    BY <2>1
  <2> QED
    BY <2>2 DEF GetConstraint, RequiredPackagesIn
<1>25. ConstraintsAgree(sel)
  <2>1. ASSUME NEW p \in Projects PROVE GetConstraint(sel, p) # {}
    <3>1. CASE IsAsked(new, p)
      <4>1. world.rootConstraints \in [Projects -> SUBSET Versions] /\ world.rootImports \in SUBSET Packages
            /\ world.rootConstraints[p] \in SUBSET Versions /\ world.rootConstraints[p] # {}
        BY <1>1 DEF IsWorld
      <4>2. \A d \in new : d.allows = world.rootConstraints[d.to]
        BY <1>2, <4>1, RequestFacts DEF RootDependencies
      <4>3. AskedOf(new, p).allows = world.rootConstraints[p]
        BY <1>10, <3>1, <4>2
      <4> QED
        BY <1>23, <3>1, <4>1, <4>3
    <3>2. CASE ~IsAsked(new, p)
      BY <1>24, <3>2, GpsAssumption
    <3> QED
      BY <3>1, <3>2
  <2> QED
    BY <2>1 DEF ConstraintsAgree
<1>26. IsNothingForgotten(sel)
  <2>1. ASSUME NEW p \in Projects, NEW k \in RequiredPackagesIn(sel, p) PROVE k \in QueuedPackagesIn(sel, p)
    <3>1. IsAsked(new, p)
      BY <1>24, <2>1
    <3>2. PICK d \in new : d = AskedOf(new, p) /\ d.to = p /\ k \in d.pl
      BY <1>10, <1>23, <2>1, <3>1
    <3>3. PICK x \in RootQueue : x.id = p /\ x.pl = d.pl
      BY <1>1, <1>2, <3>2, RootQueueFacts
    <3> QED
      BY <1>17, <3>2, <3>3, PackageFacts
  <2> QED
    BY <2>1 DEF IsNothingForgotten
<1>27. IsSelection(sel)
  BY <1>19, <1>21, <1>22, <1>25, <1>26 DEF IsSelection
<1>28. vqs \in Seq(VersionQueues) /\ QueuesMatchSelection
  <2>1. Firsts = {}
    <3>1. ASSUME NEW i \in Firsts PROVE FALSE
      <4>1. i \in 1 .. 1 /\ i > 1
        BY <1>17, <1>7, <3>1 DEF Firsts
      <4> QED
        BY <4>1
    <3> QED
      BY <3>1
  <2>2. vqs = <<>> /\ Len(vqs) = 0 /\ vqs \in Seq(VersionQueues)
    BY <1>1, EmptySeq
  <2>3. Cardinality(Firsts) = 0
    BY <2>1, FS_EmptySet
  <2> QED
    BY <2>1, <2>2, <2>3 DEF QueuesMatchSelection
<1> QED
  BY <1>1, <1>27, <1>28 DEF SolverInv

\* What the solver says of its selection holds from selectRoot to the end, whatever
\* is selected, unselected and put back, and whatever the queues are marked with
\* (gps/solver.go:483).
THEOREM SolverInvariance == SolverSpec => []SolverInv
<1>1. SolverInit => SolverInv
  BY SolverInitInv
<1>2. SolverInv /\ [SolverNext]_solverVars => SolverInv'
  BY SolverNextInv
<1> QED
  BY <1>1, <1>2, PTL DEF SolverSpec

-----------------------------------------------------------------------------
(* GpsSolver: what the invariant says of the selection.                    *)

\* What an entry of the selection asks for is in the stacks of dependencies.
LEMMA EntryIsRequired ==
    ASSUME IsWorld(world), NEW s, IsSelection(s), NEW i \in 1 .. Len(s.projects),
           NEW d \in DependenciesOfEntry(s.projects[i])
    PROVE  /\ d.to \in Projects /\ d.pl # {} /\ d.pl \subseteq RequiredPackagesIn(s, d.to)
           /\ \A v \in GetConstraint(s, d.to) : v \in d.allows
<1>1. s \in Selections /\ EntriesAreSound(s) /\ DepsMatchSelection(s)
  BY DEF IsSelection
<1>2. PICK n \in Nat : n = Len(s.projects) /\ DOMAIN s.projects = 1 .. n
  BY <1>1, SelectionFacts
<1>3. PICK e \in Entries : e = s.projects[i]
  BY <1>1, <1>2, SelectionFacts
<1>4. PICK new : new = DependenciesOfEntry(e)
  OBVIOUS
<1>5. AreRequests(new)
  <2>1. CASE e.a = RootAtom
    BY <1>4, <2>1, RootRequests DEF DependenciesOfEntry
  <2>2. CASE e.a # RootAtom
    <3>1. e.a \in Atoms
      BY <2>2 DEF Entries
    <3>2. new = DependenciesOf(e.a, e.pl)
      BY <1>4, <2>2 DEF DependenciesOfEntry
    <3> QED
      BY <3>1, <3>2, DependencyFacts
  <2> QED
    BY <2>1, <2>2
<1>6. PICK p \in Projects : p = d.to
  BY <1>3, <1>4, <1>5 DEF AreRequests, Requests
<1>7. IsAsked(new, p) /\ AskedOf(new, p) = d /\ d.pl # {}
  BY <1>3, <1>4, <1>5, <1>6 DEF AreRequests
<1>8. PICK D \in SUBSET (1 .. n) : D = Dependers(s, p)
  BY <1>2 DEF Dependers
<1>9. i \in D
  BY <1>2, <1>3, <1>4, <1>7, <1>8 DEF Dependers
<1>10. PICK j : j = PlaceIn(D, i)
  OBVIOUS
<1>11. j \in 1 .. Len(s.deps[p]) /\ s.deps[p][j] = DependencyFrom(e.a, d)
  <2>1. MatchesAt(s, p)
    BY <1>1, MatchesEverywhere
  <2>2. Len(s.deps[p]) = Cardinality(D)
    BY <1>8, <2>1 DEF MatchesAt
  <2>3. j \in 1 .. Cardinality(D)
    BY <1>9, <1>10, PlaceFacts
  <2>4. s.deps[p][j] = DependencyFrom(e.a, AskedOf(new, p))
    BY <1>3, <1>4, <1>8, <1>9, <1>10, <2>1 DEF MatchesAt
  <2> QED
    BY <1>7, <2>2, <2>3, <2>4
<1>12. j \in DOMAIN s.deps[p]
  BY <1>1, <1>11, SelectionFacts
<1>13. s.deps[p][j].pl = d.pl /\ s.deps[p][j].allows = d.allows
  BY <1>11 DEF DependencyFrom
<1>14. d.pl \subseteq RequiredPackagesIn(s, p)
  BY <1>12, <1>13 DEF RequiredPackagesIn
<1>15. \A v \in GetConstraint(s, p) : v \in d.allows
  BY <1>12, <1>13 DEF GetConstraint
<1> QED
  BY <1>6, <1>7, <1>14, <1>15

\* Once the queue is empty, it is selected, at a version that is allowed.
LEMMA EntryIsSatisfied ==
    ASSUME IsWorld(world), NEW s, IsSelection(s), s.unsel = <<>>, NEW i \in 1 .. Len(s.projects),
           NEW d \in DependenciesOfEntry(s.projects[i])
    PROVE  /\ d.to \in Projects /\ IsSelected(s, d.to) /\ SelectedAtom(s, d.to)[2] \in d.allows
           /\ d.pl \subseteq SelectedPackagesIn(s, d.to)
<1>1. s \in Selections /\ EntriesAreSound(s) /\ SelectedIsAllowed(s) /\ IsNothingForgotten(s)
  BY DEF IsSelection
<1>2. /\ d.to \in Projects /\ d.pl # {} /\ d.pl \subseteq RequiredPackagesIn(s, d.to)
      /\ \A v \in GetConstraint(s, d.to) : v \in d.allows
  BY EntryIsRequired
<1>3. PICK p \in Projects : p = d.to
  BY <1>2
<1>4. \A e : ~IsQueued(s, e)
  <2>1. DOMAIN s.unsel = {}
    OBVIOUS
  <2> QED
    BY <2>1 DEF IsQueued
<1>5. \A k : k \notin QueuedPackagesIn(s, p)
  BY <1>4, PackageFacts
<1>6. d.pl \subseteq SelectedPackagesIn(s, p)
  BY <1>1, <1>2, <1>3, <1>5 DEF IsNothingForgotten
<1>7. IsSelected(s, p)
  <2>1. PICK k \in d.pl : k \in SelectedPackagesIn(s, p)
    BY <1>2, <1>6
  <2>2. \E j \in IndicesOf(s, p) : k \in s.projects[j].pl
    BY <2>1, PackageFacts
  <2> QED
    BY <2>2 DEF IsSelected
<1>8. PICK j : j \in IndicesOf(s, p) /\ s.projects[j].a = SelectedAtom(s, p) /\ SelectedAtom(s, p)[1] = p
  BY <1>1, <1>7, SelectedFacts
<1>9. j \in 2 .. Len(s.projects)
  BY <1>1, <1>8, SelectedFacts
<1>10. SelectedAtom(s, p)[2] \in GetConstraint(s, p)
  BY <1>1, <1>8, <1>9 DEF SelectedIsAllowed
<1> QED
  BY <1>2, <1>3, <1>6, <1>7, <1>10

\* The packages selected of a project, over all its entries.
LEMMA SelectedPackagesAreReached ==
    ASSUME IsWorld(world), NEW s, IsSelection(s), s.unsel = <<>>, NEW p \in Projects, IsSelected(s, p),
           NEW a \in Atoms, a = SelectedAtom(s, p)
    PROVE  /\ SelectedPackagesIn(s, p) \subseteq Reachable(a)
           /\ \A d \in DependenciesOf(a, SelectedPackagesIn(s, p)) :
                 /\ d.to \in Projects /\ IsSelected(s, d.to) /\ SelectedAtom(s, d.to)[2] \in d.allows
                 /\ d.pl \subseteq SelectedPackagesIn(s, d.to)
<1>1. s \in Selections /\ EntriesAreSound(s)
  BY DEF IsSelection
<1>2. PICK pkgs : pkgs = SelectedPackagesIn(s, p)
  OBVIOUS
<1>3. ASSUME NEW k \in pkgs
      PROVE  \E i \in 2 .. Len(s.projects) : s.projects[i].a = a /\ k \in s.projects[i].pl
  BY <1>1, <1>2, PackageFacts, SelectedFacts
<1>4. pkgs \subseteq Reachable(a)
  BY <1>1, <1>3 DEF EntriesAreSound
<1>5. ASSUME NEW d \in DependenciesOf(a, pkgs), NEW k \in d.pl
      PROVE  /\ d.to \in Projects /\ IsSelected(s, d.to) /\ SelectedAtom(s, d.to)[2] \in d.allows
             /\ k \in SelectedPackagesIn(s, d.to)
  <2>1. k \in ReachOf(a, pkgs) /\ ProjectOf[k] = d.to /\ d.allows = world.constraints[a][d.to]
    BY DependencyFacts
  <2>2. PICK x \in pkgs : x \in Reachable(a) /\ k \in world.external[a][x]
    BY <2>1 DEF ReachOf
  <2>3. PICK i \in 2 .. Len(s.projects) : s.projects[i].a = a /\ x \in s.projects[i].pl
    BY <1>3
  <2>4. PICK pl : pl = s.projects[i].pl
    OBVIOUS
  <2>5. k \in ReachOf(a, pl)
    BY <2>2, <2>3, <2>4 DEF ReachOf
  <2>6. PICK c \in DependenciesOf(a, pl) : c.to = ProjectOf[k] /\ k \in c.pl
    BY <2>5, DependencyFacts
  <2>7. c.allows = d.allows /\ c.to = d.to
    BY <2>1, <2>6, DependencyFacts
  <2>8. c \in DependenciesOfEntry(s.projects[i])
    BY <2>3, <2>4, <2>6, AtomIsPair DEF DependenciesOfEntry
  <2>9. i \in 1 .. Len(s.projects)
    BY <1>1, SelectionFacts
  <2>10. /\ c.to \in Projects /\ IsSelected(s, c.to) /\ SelectedAtom(s, c.to)[2] \in c.allows
         /\ c.pl \subseteq SelectedPackagesIn(s, c.to)
    BY <2>8, <2>9, EntryIsSatisfied
  <2> QED
    BY <2>6, <2>7, <2>10
<1>6. ASSUME NEW d \in DependenciesOf(a, pkgs) PROVE d.pl # {}
  BY DependencyFacts DEF AreRequests
<1> QED
  BY <1>2, <1>4, <1>5, <1>6

\* A project is selected at one version.
LEMMA OneAtomPerProject ==
    ASSUME NEW s \in Selections, EntriesAreSound(s),
           NEW i \in DOMAIN s.projects, NEW j \in DOMAIN s.projects, s.projects[i].a[1] = s.projects[j].a[1]
    PROVE  s.projects[i].a = s.projects[j].a
<1>1. PICK n \in Nat : n = Len(s.projects) /\ DOMAIN s.projects = 1 .. n
  BY SelectionFacts
<1>2. s.projects[1].a = RootAtom /\ s.projects[1].a[1] = Root
  BY DEF EntriesAreSound, RootAtom
<1>3. ASSUME NEW k \in 1 .. n, k # 1 PROVE k \in 2 .. Len(s.projects) /\ s.projects[k].a[1] # Root
  <2>1. k \in 2 .. Len(s.projects)
    BY <1>1, <1>3
  <2>2. s.projects[k].a \in Atoms
    BY <2>1 DEF EntriesAreSound
  <2> QED
    BY <2>1, <2>2, AtomIsPair
<1>4. CASE i = 1 \/ j = 1
  BY <1>1, <1>2, <1>3, <1>4
<1>5. CASE i # 1 /\ j # 1
  BY <1>1, <1>3, <1>5 DEF EntriesAreSound
<1> QED
  BY <1>4, <1>5

\* A selection from which nothing is left to do is a solution.
LEMMA SelectionSolves ==
    ASSUME IsWorld(world), NEW s, IsSelection(s), s.unsel = <<>>,
           NEW selected, selected = {p \in Projects : IsSelected(s, p)},
           NEW version, version = [p \in selected |-> SelectedAtom(s, p)[2]],
           NEW pkgs, pkgs = [p \in selected |-> SelectedPackagesIn(s, p)]
    PROVE  IsSolution(version, pkgs)
<1>1. s \in Selections /\ EntriesAreSound(s)
  BY DEF IsSelection
<1>2. ASSUME NEW d,
             /\ d.to \in Projects /\ IsSelected(s, d.to) /\ SelectedAtom(s, d.to)[2] \in d.allows
             /\ d.pl \subseteq SelectedPackagesIn(s, d.to)
      PROVE  Satisfies(version, pkgs, d)
  BY <1>2 DEF Satisfies
<1>3. ASSUME NEW d \in RootDependencies PROVE Satisfies(version, pkgs, d)
  <2>1. 1 \in 1 .. Len(s.projects) /\ s.projects[1].a = RootAtom
    BY <1>1, SelectionFacts DEF EntriesAreSound
  <2>2. d \in DependenciesOfEntry(s.projects[1])
    BY <2>1 DEF DependenciesOfEntry
  <2>3. /\ d.to \in Projects /\ IsSelected(s, d.to) /\ SelectedAtom(s, d.to)[2] \in d.allows
        /\ d.pl \subseteq SelectedPackagesIn(s, d.to)
    BY <2>1, <2>2, EntryIsSatisfied
  <2> QED
    BY <1>2, <2>3
<1>4. ASSUME NEW p \in selected
      PROVE  /\ pkgs[p] \subseteq Reachable(<<p, version[p]>>)
             /\ \A d \in DependenciesOf(<<p, version[p]>>, pkgs[p]) : Satisfies(version, pkgs, d)
  <2>1. p \in Projects /\ IsSelected(s, p)
    OBVIOUS
  <2>2. PICK a \in Atoms : a = SelectedAtom(s, p) /\ a[1] = p
    BY <1>1, <2>1, SelectedFacts
  <2>3. version[p] = a[2] /\ pkgs[p] = SelectedPackagesIn(s, p)
    BY <2>2
  <2>4. <<p, version[p]>> = a
    BY <2>2, <2>3, AtomIsPair
  <2>5. /\ SelectedPackagesIn(s, p) \subseteq Reachable(a)
        /\ \A d \in DependenciesOf(a, SelectedPackagesIn(s, p)) :
              /\ d.to \in Projects /\ IsSelected(s, d.to) /\ SelectedAtom(s, d.to)[2] \in d.allows
              /\ d.pl \subseteq SelectedPackagesIn(s, d.to)
    BY <2>1, <2>2, SelectedPackagesAreReached
  <2> QED
    BY <1>2, <2>3, <2>4, <2>5
<1>5. DOMAIN version = selected
  OBVIOUS
<1> QED
  BY <1>3, <1>4, <1>5 DEF IsSolution

\* What the solver returns is a solution: the loop of solve ends with the queue
\* of the unselected empty, and then every package that the root or a selected
\* package asks for is selected, at a version that everybody who asks allows,
\* through whatever was selected, unselected and put back before
\* (gps/solver.go:597).
THEOREM SolutionsAreSound == SolverSpec => []SolutionIsSound
<1>1. SolverInv => SolutionIsSound
  <2>1. SUFFICES ASSUME SolverInv, phase = "solved" PROVE SolutionIsSound
    BY DEF SolutionIsSound
  <2>2. IsWorld(world) /\ IsSelection(sel) /\ sel \in Selections /\ EntriesAreSound(sel) /\ sel.unsel = <<>>
    BY <2>1, InvFacts
  <2>3. \A i, j \in DOMAIN sel.projects :
           sel.projects[i].a[1] = sel.projects[j].a[1] => sel.projects[i].a = sel.projects[j].a
    BY <2>2, OneAtomPerProject
  <2>4. PICK selected, version, pkgs :
           /\ selected = {p \in Projects : IsSelected(sel, p)}
           /\ version = [p \in selected |-> SelectedAtom(sel, p)[2]]
           /\ pkgs = [p \in selected |-> SelectedPackagesIn(sel, p)]
    OBVIOUS
  <2>5. IsSolution(version, pkgs)
    BY <2>2, <2>4, SelectionSolves
  <2> QED
    BY <2>3, <2>4, <2>5 DEF SolutionIsSound
<1> QED
  BY <1>1, SolverInvariance, PTL

\* A package that somebody requires is selected or queued: selectAtom queues
\* what it newly requires, unselectLast puts back what it unselects and takes out
\* only what nobody asks for any more, and remove() only what is being selected
\* (gps/solver.go:1247 and 1363).
THEOREM NothingIsForgotten == SolverSpec => []NothingForgotten
<1>1. SolverInv => NothingForgotten
  BY DEF SolverInv, IsSelection, NothingForgotten
<1> QED
  BY <1>1, SolverInvariance, PTL

\* The stacks and queues stay types of what they hold, and they match: each stack
\* of dependencies has what the selected atoms ask for, in the order of their
\* selection; each version queue has the version selected of the project that it
\* was made for; and the constraints on a project leave it a version
\* (gps/solver.go:147, gps/selection.go:154).
THEOREM SelectionStaysConsistent == SolverSpec => []SelectionIsConsistent
<1>1. SolverInv => SelectionIsConsistent
  <2>1. SUFFICES ASSUME SolverInv PROVE SelectionIsConsistent
    OBVIOUS
  <2>2. /\ sel.projects \in Seq(Entries) /\ sel.deps \in [Projects -> Seq(Dependency)]
        /\ sel.unsel \in Seq(QueueEntries) /\ vqs \in Seq(VersionQueues) /\ phase \in Phases
    BY <2>1, InvFacts, SelectionFacts
  <2>3. SolverTypes
    BY <2>2 DEF SolverTypes, Entries, QueueEntries, VersionQueues, Phases
  <2>4. DepsMatchSelection(sel) /\ QueuesMatchSelection /\ ConstraintsAgree(sel)
    BY <2>1 DEF SolverInv, IsSelection
  <2> QED
    BY <2>3, <2>4 DEF SelectionIsConsistent
<1> QED
  BY <1>1, SolverInvariance, PTL

-----------------------------------------------------------------------------
(* GpsSolver: the search ends.  What is left to try.                       *)

\* What RemoveAll takes out, and no more.
LEMMA RemoveAllShortens ==
    ASSUME NEW X, NEW seq \in Seq(X), NEW gone
    PROVE  /\ Len(RemoveAll(seq, gone)) \in Nat /\ Len(RemoveAll(seq, gone)) <= Len(seq)
           /\ \A i \in 1 .. Len(seq) : gone = {i} => Len(RemoveAll(seq, gone)) = Len(seq) - 1
<1>1. PICK kept : /\ RemoveAll(seq, gone) = kept[Len(seq)]
                  /\ kept[0] = <<>>
                  /\ \A n \in 1 .. Len(seq) :
                        kept[n] = IF n \in gone THEN kept[n - 1] ELSE Append(kept[n - 1], seq[n])
  BY RemoveAllIsDefined
<1>2. PICK m \in Nat : m = Len(seq) /\ \A n \in 1 .. m : seq[n] \in X
  BY LenProperties, ElementOfSeq
<1> DEFINE Counted(n) == /\ kept[n] \in Seq(X) /\ Len(kept[n]) \in Nat /\ Len(kept[n]) <= n
                         /\ \A i \in 1 .. m : gone = {i} => Len(kept[n]) = IF n < i THEN n ELSE n - 1
           T == {n \in 0 .. m : Counted(n)}
<1>3. 0 \in T
  <2>1. kept[0] \in Seq(X) /\ Len(kept[0]) = 0
    BY <1>1, EmptySeq
  <2>2. \A i \in 1 .. m : 0 < i
    BY <1>2
  <2>3. Counted(0)
    BY <2>1, <2>2
  <2> QED
    BY <1>2, <2>3
<1>4. ASSUME NEW n \in 1 .. m, n - 1 \in T PROVE n \in T
  <2>1. PICK k \in Nat : k = n - 1 /\ n = k + 1 /\ n \in 0 .. m
    BY <1>2
  <2>2. PICK q \in Seq(X) : q = kept[k]
    BY <1>4, <2>1
  <2>3. /\ Len(q) \in Nat /\ Len(q) <= k
        /\ \A i \in 1 .. m : gone = {i} => Len(q) = IF k < i THEN k ELSE k - 1
    BY <1>4, <2>1, <2>2
  <2>4. CASE n \in gone
    <3>1. kept[n] = q
      BY <1>1, <1>2, <2>1, <2>2, <2>4
    <3>2. ASSUME NEW i \in 1 .. m, gone = {i} PROVE Len(q) = IF n < i THEN n ELSE n - 1
      <4>1. i = n
        BY <2>4, <3>2
      <4>2. k < i /\ ~(n < i)
        BY <2>1, <4>1
      <4> QED
        BY <2>1, <2>3, <3>2, <4>2
    <3>3. Len(q) <= n
      BY <2>1, <2>3
    <3>4. Counted(n)
      BY <2>3, <3>1, <3>2, <3>3
    <3> QED
      BY <2>1, <3>4
  <2>5. CASE n \notin gone
    <3>1. kept[n] = Append(q, seq[n])
      BY <1>1, <1>2, <2>1, <2>2, <2>5
    <3>2. kept[n] \in Seq(X) /\ Len(kept[n]) = Len(q) + 1
      BY <1>2, <3>1, AppendProperties
    <3>3. ASSUME NEW i \in 1 .. m, gone = {i} PROVE Len(q) + 1 = IF n < i THEN n ELSE n - 1
      <4>1. i # n
        BY <2>5, <3>3
      <4>2. Len(q) = IF k < i THEN k ELSE k - 1
        BY <2>3, <3>3
      <4>3. i \in Nat
        BY <1>2
      <4> QED
        BY <2>1, <2>3, <4>1, <4>2, <4>3
    <3>4. Len(q) + 1 <= n /\ Len(q) + 1 \in Nat
      BY <2>1, <2>3
    <3>5. Counted(n)
      BY <3>2, <3>3, <3>4
    <3> QED
      BY <2>1, <3>5
  <2> QED
    BY <2>4, <2>5
<1>5. m \in T
  <2> HIDE DEF T
  <2>1. 0 .. m \subseteq T
    BY <1>2, <1>3, <1>4, IndexInduction
  <2> QED
    BY <1>2, <2>1
<1>6. \A i \in 1 .. m : ~(m < i)
  BY <1>2
<1>7. Counted(m)
  BY <1>5
<1> QED
  BY <1>1, <1>2, <1>6, <1>7

-----------------------------------------------------------------------------
\* The length of the rest of a sequence.
LEMMA RestLength ==
    ASSUME NEW q \in Seq(Versions), NEW n \in Nat, n <= Len(q)
    PROVE  Len(SubSeq(q, n + 1, Len(q))) = Len(q) - n
<1>1. PICK m \in Nat : m = Len(q) /\ \A i \in 1 .. m : q[i] \in Versions
  BY LenProperties, ElementOfSeq
<1>2. \A i \in n + 1 .. m : q[i] \in Versions
  BY <1>1
<1>3. Len(SubSeq(q, n + 1, m)) = IF n + 1 <= m THEN m - (n + 1) + 1 ELSE 0
  <2>1. n + 1 \in Int /\ m \in Int
    OBVIOUS
  <2> QED
    BY <1>2, <2>1, SubSeqProperties
<1> QED
  BY <1>1, <1>3

\* How many versions a queue has left.
LEMMA TriesAreCounted ==
    ASSUME IsWorld(world), NEW q \in VersionQueues
    PROVE  Len(q.pi) \in Nat /\ Len(Unloaded(q)) \in Nat /\ Tries(q) = Len(q.pi) + Len(Unloaded(q))
<1>1. PICK rest \in Seq(Versions) : rest = Unloaded(q)
  BY UnloadedIsSeq
<1>2. PICK pi \in Seq(Versions) : pi = q.pi
  BY VersionQueueFacts
<1>3. Len(rest) \in Nat /\ Len(pi) \in Nat /\ Len(pi \o rest) = Len(pi) + Len(rest)
  BY LenProperties, ConcatProperties
<1> QED
  BY <1>1, <1>2, <1>3 DEF Tries

\* advance() takes what it skips from what is left to try.
LEMMA AdvanceTakes ==
    ASSUME IsWorld(world), NEW q \in VersionQueues, NEW n \in Nat, n <= Tries(q)
    PROVE  Tries(Advanced(q, n)) = Tries(q) - n
<1>1. PICK rest \in Seq(Versions) : rest = Unloaded(q)
  BY UnloadedIsSeq
<1>2. PICK pi \in Seq(Versions) : pi = q.pi
  BY VersionQueueFacts
<1>3. Len(rest) \in Nat /\ Len(pi) \in Nat /\ Tries(q) = Len(pi) + Len(rest)
  BY <1>1, <1>2, TriesAreCounted
<1>4. PICK r \in VersionQueues : r = Advanced(q, n)
  BY AdvancedFacts
<1>5. CASE n < Len(pi)
  <2>1. PICK left \in Seq(Versions) : left = SubSeq(pi, n + 1, Len(pi)) /\ Len(left) = Len(pi) - n
    <3>1. n <= Len(pi)
      BY <1>3, <1>5
    <3> QED
      BY <3>1, RestOfSeq, RestLength
  <2>2. PICK failed \in BOOLEAN : failed = (q.failed /\ n = 0)
    OBVIOUS
  <2>3. r = [q EXCEPT !.pi = left, !.failed = failed]
    BY <1>2, <1>4, <1>5, <2>1, <2>2 DEF Advanced
  <2>4. r.pi = left /\ r.id = q.id /\ r.lockv = q.lockv /\ r.prefv = q.prefv /\ r.allLoaded = q.allLoaded
    BY <2>3 DEF VersionQueues
  <2>5. Unloaded(r) = rest
    BY <1>1, <2>4 DEF Unloaded
  <2>6. Tries(r) = Len(left) + Len(rest)
    BY <2>4, <2>5, TriesAreCounted
  <2> QED
    BY <1>3, <1>4, <2>1, <2>6
<1>6. CASE n >= Len(pi)
  <2>1. PICK k \in Nat : k = n - Len(pi) /\ k <= Len(rest)
    <3>1. PICK m \in Nat, more \in Nat : m = Len(pi) /\ more = Len(rest)
      BY <1>3
    <3>2. n - m \in Nat /\ n - m <= more
      BY <1>3, <1>6, <3>1
    <3> QED
      BY <3>1, <3>2
  <2>2. PICK left \in Seq(Versions) : left = SubSeq(rest, k + 1, Len(rest)) /\ Len(left) = Len(rest) - k
    BY <2>1, RestOfSeq, RestLength
  <2>3. r = [q EXCEPT !.pi = left, !.allLoaded = TRUE, !.failed = FALSE]
    <3>1. ~(n < Len(pi))
      BY <1>3, <1>6
    <3> QED
      BY <1>1, <1>2, <1>4, <2>1, <2>2, <3>1 DEF Advanced
  <2>4. r.pi = left /\ r.allLoaded
    BY <2>3 DEF VersionQueues
  <2>5. Unloaded(r) = <<>> /\ Len(<<>>) = 0
    BY <2>4 DEF Unloaded
  <2>6. Tries(r) = Len(left) + 0
    BY <2>4, <2>5, TriesAreCounted
  <2> QED
    BY <1>3, <1>4, <2>1, <2>2, <2>6
<1> QED
  BY <1>3, <1>5, <1>6

\* Finding a version leaves no more to try.
LEMMA FoundTakes ==
    ASSUME IsWorld(world), NEW t, NEW q \in VersionQueues, NEW pl, FindsVersion(t, q, pl)
    PROVE  Tries(Found(t, q, pl)) \in Nat /\ Tries(Found(t, q, pl)) <= Tries(q)
<1>1. Tries(q) \in Nat
  BY TriesAreCounted
<1>2. ValidAt(t, q, pl) \in SUBSET Nat /\ ValidAt(t, q, pl) # {}
  BY <1>1 DEF ValidAt, FindsVersion
<1>3. PICK n \in ValidAt(t, q, pl) : n = Min(ValidAt(t, q, pl))
  BY <1>2, MinIsLeast
<1>4. n \in Nat /\ n <= Tries(q)
  BY <1>1, <1>3 DEF ValidAt
<1>5. Found(t, q, pl) = Advanced(q, n)
  BY <1>3 DEF Found
<1>6. Tries(Advanced(q, n)) = Tries(q) - n
  BY <1>4, AdvanceTakes
<1> QED
  BY <1>1, <1>4, <1>5, <1>6

\* At most one version is known of each kind.
LEMMA KnownIsShort == ASSUME NEW v PROVE Len(Known(v)) \in Nat /\ Len(Known(v)) <= 1
<1>1. CASE v = NoVersion
  BY <1>1 DEF Known
<1>2. CASE v # NoVersion
  BY <1>2 DEF Known
<1> QED
  BY <1>1, <1>2

\* A new queue has the versions of its project, and two more at most.
LEMMA NewQueueIsShort ==
    ASSUME IsWorld(world), sel \in Selections, NEW bmi \in QueueEntries
    PROVE  Tries(NewVersionQueue(bmi)) <= Cardinality(Versions) + 2
<1>1. PICK q \in VersionQueues : q = NewVersionQueue(bmi) /\ q.id = bmi.id
  BY NewVersionQueueType
<1>2. PICK all \in Seq(Versions) : all = world.versions[q.id] /\ IsInjective(all)
  BY VersionQueueFacts DEF IsWorld
<1>3. Len(all) \in Nat /\ Cardinality(Versions) \in Nat /\ Len(all) <= Cardinality(Versions)
  <2>1. PICK n \in Nat : n = Len(all) /\ DOMAIN all = 1 .. n /\ all \in [1 .. n -> Versions]
    BY LenProperties
  <2>2. all \in Injection(1 .. n, Versions)
    BY <1>2, <2>1 DEF Injection, IsInjective
  <2>3. Cardinality(1 .. n) <= Cardinality(Versions) /\ Cardinality(Versions) \in Nat
    BY <2>2, GpsAssumption, FS_Injection, FS_CardinalityType
  <2>4. Cardinality(1 .. n) = n
    <3>1. 1 \in Int /\ n \in Int
      OBVIOUS
    <3>2. Cardinality(1 .. n) = IF 1 > n THEN 0 ELSE n - 1 + 1
      BY <3>1, FS_Interval
    <3> QED
      BY <3>2
  <2> QED
    BY <2>1, <2>3, <2>4
<1>4. PICK locked \in Seq(Versions) : locked = Known(LockVersion(bmi.id)) /\ Len(locked) <= 1 /\ Len(locked) \in Nat
  <2>1. LockVersion(bmi.id) \in Versions \cup {NoVersion}
    BY LockVersionType
  <2>2. Known(LockVersion(bmi.id)) \in Seq(Versions) /\ Len(Known(LockVersion(bmi.id))) \in Nat /\ Len(Known(LockVersion(bmi.id))) <= 1
    BY <2>1, KnownIsSeq, KnownIsShort
  <2> QED
    BY <2>2
<1>5. PICK preferred \in Seq(Versions) : /\ preferred = Known(PreferredVersion(bmi))
                                         /\ Len(preferred) <= 1 /\ Len(preferred) \in Nat
  <2>1. PreferredVersion(bmi) \in Versions \cup {NoVersion}
    BY PreferredVersionType
  <2>2. /\ Known(PreferredVersion(bmi)) \in Seq(Versions)
        /\ Len(Known(PreferredVersion(bmi))) \in Nat /\ Len(Known(PreferredVersion(bmi))) <= 1
    BY <2>1, KnownIsSeq, KnownIsShort
  <2> QED
    BY <2>2
<1>6. PICK known \in Seq(Versions) : known = locked \o preferred /\ Len(known) = Len(locked) + Len(preferred)
  BY ConcatProperties
<1>7. CASE known = <<>>
  <2>1. q.pi = all /\ q.allLoaded
    BY <1>1, <1>2, <1>4, <1>5, <1>6, <1>7 DEF NewVersionQueue
  <2>2. Unloaded(q) = <<>> /\ Len(<<>>) = 0
    BY <2>1 DEF Unloaded
  <2> QED
    BY <1>1, <1>3, <2>1, <2>2, TriesAreCounted
<1>8. CASE known # <<>>
  <2>1. q.pi = known /\ ~q.allLoaded
    BY <1>1, <1>2, <1>4, <1>5, <1>6, <1>8 DEF NewVersionQueue
  <2>2. PICK gone : gone = {i \in DOMAIN all : all[i] \in {q.lockv, q.prefv}}
    OBVIOUS
  <2>3. Unloaded(q) = RemoveAll(all, gone)
    BY <1>2, <2>1, <2>2 DEF Unloaded
  <2>4. Len(Unloaded(q)) <= Len(all) /\ Len(Unloaded(q)) \in Nat
    BY <2>3, RemoveAllShortens
  <2>5. Tries(q) = Len(known) + Len(Unloaded(q))
    BY <2>1, TriesAreCounted
  <2> QED
    BY <1>1, <1>3, <1>4, <1>5, <1>6, <2>4, <2>5
<1> QED
  BY <1>7, <1>8

\* fail() leaves as much to try.
LEMMA FailTakesNothing ==
    ASSUME IsWorld(world), NEW queues \in Seq(VersionQueues), NEW ids, NEW i \in 1 .. Len(queues)
    PROVE  Tries(Fail(queues, ids)[i]) = Tries(queues[i])
<1>1. PICK q \in VersionQueues : q = queues[i]
  BY ElementOfSeq
<1>2. i \in DOMAIN queues
  BY LenProperties
<1>3. PICK r : r = Fail(queues, ids)[i]
  OBVIOUS
<1>4. r = q \/ r = [q EXCEPT !.failed = TRUE]
  BY <1>1, <1>2, <1>3 DEF Fail
<1>5. /\ [q EXCEPT !.failed = TRUE].pi = q.pi /\ [q EXCEPT !.failed = TRUE].id = q.id
      /\ [q EXCEPT !.failed = TRUE].lockv = q.lockv /\ [q EXCEPT !.failed = TRUE].prefv = q.prefv
      /\ [q EXCEPT !.failed = TRUE].allLoaded = q.allLoaded
  BY DEF VersionQueues
<1>6. r.pi = q.pi /\ r.id = q.id /\ r.lockv = q.lockv /\ r.prefv = q.prefv /\ r.allLoaded = q.allLoaded
  BY <1>4, <1>5
<1> QED
  BY <1>1, <1>3, <1>6 DEF Tries, Unloaded

-----------------------------------------------------------------------------
(* GpsSolver: the search ends.  The rank.                                  *)

\* The rank of any state of the search.
VersionsLeftOf(queues, ph, i) ==
    IF i > Len(queues) THEN 2 * Cardinality(Versions) + 5
    ELSE 2 * Tries(queues[i]) - (IF i = Len(queues) /\ ph = "backtracking" THEN 1 ELSE 0)
SearchesLeftOf(queues, ph) ==
    IF ph = "solving" \/ (ph = "backtracking" /\ queues # <<>>) THEN 2
    ELSE IF ph = "backtracking" THEN 1 ELSE 0
PackagesLeftOf(s) == {x \in Projects \X Packages : x[2] \notin SelectedPackagesIn(s, x[1])}
RankFrom(searches, versions, packages, entries) == <<searches>> \o versions \o <<packages, entries>>
RankOf(s, queues, ph) ==
    RankFrom(SearchesLeftOf(queues, ph), [i \in 1..Cardinality(Projects) |-> VersionsLeftOf(queues, ph, i)],
             Cardinality(PackagesLeftOf(s)), Len(s.unsel))

\* The rank of the search is that of its state, now and next.
LEMMA RankNow == SearchRank = RankOf(sel, vqs, phase)
<1>1. SearchesLeft = SearchesLeftOf(vqs, phase)
  BY DEF SearchesLeft, SearchesLeftOf
<1>2. \A i : VersionsLeft(i) = VersionsLeftOf(vqs, phase, i)
  BY DEF VersionsLeft, VersionsLeftOf
<1>3. PackagesLeft = PackagesLeftOf(sel)
  BY DEF PackagesLeft, PackagesLeftOf
<1> QED
  BY <1>1, <1>2, <1>3 DEF SearchRank, RankOf, RankFrom

LEMMA RankNext ==
    ASSUME world' = world, NEW t, NEW queues, NEW ph, sel' = t, vqs' = queues, phase' = ph
    PROVE  SearchRank' = RankOf(t, queues, ph)
<1>1. SearchesLeft' = SearchesLeftOf(queues, ph)
  BY DEF SearchesLeft, SearchesLeftOf
<1>2. ASSUME NEW q PROVE Tries(q)' = Tries(q)
  BY DEF Tries, Unloaded
<1>3. ASSUME NEW i PROVE VersionsLeft(i)' = VersionsLeftOf(queues, ph, i)
  <2>1. Tries(vqs[i])' = Tries(queues[i])
    BY DEF Tries, Unloaded
  <2> QED
    BY <2>1 DEF VersionsLeft, VersionsLeftOf
<1>4. PackagesLeft' = PackagesLeftOf(t)
  BY DEF PackagesLeft, PackagesLeftOf
<1> QED
  BY <1>1, <1>3, <1>4 DEF SearchRank, RankOf, RankFrom

\* What ranks are made of, and what is where.
IsRankFrom(n, a, f, c, d) == n \in Nat /\ a \in Int /\ f \in [1 .. n -> Int] /\ c \in Int /\ d \in Int

\* Where a rank has what.
IsRankAt(x, n, a, f, c, d) ==
    /\ DOMAIN x = 1 .. n + 3 /\ x[1] = a /\ x[n + 2] = c /\ x[n + 3] = d
    /\ \A i \in 1 .. n : x[i + 1] = f[i]

\* The places of a rank.
LEMMA RankPlaces ==
    ASSUME NEW n, NEW a, NEW f, NEW c, NEW d, IsRankFrom(n, a, f, c, d), NEW x, x = RankFrom(a, f, c, d)
    PROVE  IsRankAt(x, n, a, f, c, d)
<1> n \in Nat /\ a \in Int /\ f \in [1 .. n -> Int] /\ c \in Int /\ d \in Int
  BY DEF IsRankFrom
<1>1. f \in Seq(Int) /\ Len(f) = n
  OBVIOUS
<1>2. <<a>> \in Seq(Int) /\ Len(<<a>>) = 1 /\ <<a>>[1] = a
  OBVIOUS
<1>3. <<c, d>> \in Seq(Int) /\ Len(<<c, d>>) = 2 /\ <<c, d>>[1] = c /\ <<c, d>>[2] = d
  OBVIOUS
<1>4. PICK first : first = <<a>>
  OBVIOUS
<1>5. PICK rest : rest = <<c, d>>
  OBVIOUS
<1>6. PICK y \in Seq(Int) : y = first \o f
  BY <1>1, <1>2, <1>4, ConcatProperties
<1>7. Len(y) = 1 + n /\ \A i \in 1 .. 1 + n : y[i] = IF i <= 1 THEN first[i] ELSE f[i - 1]
  BY <1>1, <1>2, <1>4, <1>6, ConcatProperties
<1>8. x = y \o rest
  BY <1>4, <1>5, <1>6 DEF RankFrom
<1>9. /\ x \in Seq(Int) /\ Len(x) = 1 + n + 2
      /\ \A i \in 1 .. 1 + n + 2 : x[i] = IF i <= 1 + n THEN y[i] ELSE rest[i - (1 + n)]
  BY <1>3, <1>5, <1>7, <1>8, ConcatProperties
<1>10. DOMAIN x = 1 .. n + 3
  <2>1. 1 + n + 2 = n + 3
    OBVIOUS
  <2> QED
    BY <1>9, <2>1, LenProperties
<1>11. x[1] = a
  <2>1. 1 \in 1 .. 1 + n + 2 /\ 1 <= 1 + n /\ 1 \in 1 .. 1 + n
    OBVIOUS
  <2> QED
    BY <1>2, <1>4, <1>7, <1>9, <2>1
<1>12. x[n + 2] = c /\ x[n + 3] = d
  <2>1. PICK k \in 1 .. 1 + n + 2 : k = n + 2
    OBVIOUS
  <2>2. PICK m \in 1 .. 1 + n + 2 : m = n + 3
    OBVIOUS
  <2>3. ~(k <= 1 + n) /\ k - (1 + n) = 1 /\ ~(m <= 1 + n) /\ m - (1 + n) = 2
    BY <2>1, <2>2
  <2>4. x[k] = rest[k - (1 + n)] /\ x[m] = rest[m - (1 + n)]
    BY <1>9, <2>3
  <2> QED
    BY <1>3, <1>5, <2>1, <2>2, <2>3, <2>4
<1>13. ASSUME NEW i \in 1 .. n PROVE x[i + 1] = f[i]
  <2>1. i + 1 \in 1 .. 1 + n + 2 /\ i + 1 <= 1 + n /\ i + 1 \in 1 .. 1 + n /\ ~(i + 1 <= 1) /\ i + 1 - 1 = i
    OBVIOUS
  <2>2. x[i + 1] = y[i + 1]
    BY <1>9, <2>1
  <2>3. y[i + 1] = f[i + 1 - 1]
    BY <1>7, <2>1
  <2> QED
    BY <2>1, <2>2, <2>3
<1> QED
  BY <1>10, <1>11, <1>12, <1>13 DEF IsRankAt

\* The ways in which a rank gets lower.
LEMMA LowerRank ==
    ASSUME NEW n, NEW a, NEW f, NEW c, NEW d, IsRankFrom(n, a, f, c, d),
           NEW b, NEW g, NEW e, NEW h, IsRankFrom(n, b, g, e, h),
           \/ a < b
           \/ /\ a = b
              /\ \/ \E i \in 1 .. n : f[i] < g[i] /\ \A j \in 1 .. i - 1 : f[j] = g[j]
                 \/ /\ \A j \in 1 .. n : f[j] = g[j]
                    /\ c < e \/ (c = e /\ d < h)
    PROVE  LexBelow(RankFrom(a, f, c, d), RankFrom(b, g, e, h))
<1> n \in Nat /\ a \in Int /\ c \in Int /\ d \in Int /\ b \in Int /\ e \in Int /\ h \in Int
    /\ (\A i \in 1 .. n : f[i] \in Int /\ g[i] \in Int)
  BY DEF IsRankFrom
<1> PICK x : x = RankFrom(a, f, c, d)
  OBVIOUS
<1> PICK y : y = RankFrom(b, g, e, h)
  OBVIOUS
<1>1. /\ DOMAIN x = 1 .. n + 3 /\ x[1] = a /\ x[n + 2] = c /\ x[n + 3] = d
      /\ \A i \in 1 .. n : x[i + 1] = f[i]
  <2>1. IsRankAt(x, n, a, f, c, d)
    BY RankPlaces
  <2> QED
    BY <2>1 DEF IsRankAt
<1>2. /\ DOMAIN y = 1 .. n + 3 /\ y[1] = b /\ y[n + 2] = e /\ y[n + 3] = h
      /\ \A i \in 1 .. n : y[i + 1] = g[i]
  <2>1. IsRankAt(y, n, b, g, e, h)
    BY RankPlaces
  <2> QED
    BY <2>1 DEF IsRankAt
<1>3. ASSUME NEW k \in 1 .. n + 3, x[k] < y[k], \A j \in 1 .. k - 1 : x[j] = y[j] PROVE LexBelow(x, y)
  BY <1>1, <1>3 DEF LexBelow
<1>4. CASE a < b
  <2>1. 1 \in 1 .. n + 3 /\ \A j \in 1 .. 1 - 1 : x[j] = y[j]
    OBVIOUS
  <2> QED
    BY <1>1, <1>2, <1>3, <1>4, <2>1
<1>5. CASE a = b /\ \E i \in 1 .. n : f[i] < g[i] /\ \A j \in 1 .. i - 1 : f[j] = g[j]
  <2>1. PICK i \in 1 .. n : f[i] < g[i] /\ \A j \in 1 .. i - 1 : f[j] = g[j]
    BY <1>5
  <2>2. PICK k \in 1 .. n + 3 : k = i + 1
    OBVIOUS
  <2>3. x[k] < y[k]
    BY <1>1, <1>2, <2>1, <2>2
  <2>4. ASSUME NEW j \in 1 .. k - 1 PROVE x[j] = y[j]
    <3>1. CASE j = 1
      BY <1>1, <1>2, <1>5, <3>1
    <3>2. CASE j # 1
      <4>1. PICK m \in 1 .. n : j = m + 1 /\ m \in 1 .. i - 1
        <5>1. j - 1 \in 1 .. n /\ j = (j - 1) + 1 /\ j - 1 \in 1 .. i - 1
          BY <2>2, <3>2
        <5> QED
          BY <5>1
      <4> QED
        BY <1>1, <1>2, <2>1, <4>1
    <3> QED
      BY <3>1, <3>2
  <2> QED
    BY <1>3, <2>3, <2>4
<1>6. ASSUME a = b, \A j \in 1 .. n : f[j] = g[j], NEW j \in 1 .. n + 1 PROVE x[j] = y[j]
  <2>1. CASE j = 1
    BY <1>1, <1>2, <1>6, <2>1
  <2>2. CASE j # 1
    <3>1. PICK m \in 1 .. n : j = m + 1
      <4>1. j - 1 \in 1 .. n /\ j = (j - 1) + 1
        BY <2>2
      <4> QED
        BY <4>1
    <3> QED
      BY <1>1, <1>2, <1>6, <3>1
  <2> QED
    BY <2>1, <2>2
<1>7. CASE a = b /\ (\A j \in 1 .. n : f[j] = g[j]) /\ c < e
  <2>1. PICK k \in 1 .. n + 3 : k = n + 2
    OBVIOUS
  <2>2. x[k] < y[k]
    BY <1>1, <1>2, <1>7, <2>1
  <2>3. \A j \in 1 .. k - 1 : j \in 1 .. n + 1
    BY <2>1
  <2>4. \A j \in 1 .. k - 1 : x[j] = y[j]
    BY <1>6, <1>7, <2>3
  <2> QED
    BY <1>3, <2>2, <2>4
<1>8. CASE a = b /\ (\A j \in 1 .. n : f[j] = g[j]) /\ c = e /\ d < h
  <2>1. PICK k \in 1 .. n + 3 : k = n + 3
    OBVIOUS
  <2>2. x[k] < y[k]
    BY <1>1, <1>2, <1>8, <2>1
  <2>3. \A j \in 1 .. k - 1 : j \in 1 .. n + 1 \/ j = n + 2
    BY <2>1
  <2>4. \A j \in 1 .. k - 1 : x[j] = y[j]
    BY <1>1, <1>2, <1>6, <1>8, <2>3
  <2> QED
    BY <1>3, <2>2, <2>4
<1> QED
  BY <1>4, <1>5, <1>7, <1>8

\* What a rank takes for granted: there are no more queues than projects.
IsBounded(s, queues) ==
    s \in Selections /\ queues \in Seq(VersionQueues) /\ Len(queues) <= Cardinality(Projects)

\* No project has two queues.
LEMMA QueuesAreFew ==
    ASSUME NEW s, IsSelection(s), NEW queues \in Seq(VersionQueues), QueuesMatch(s, queues)
    PROVE  IsBounded(s, queues)
<1>1. s \in Selections /\ EntriesAreSound(s)
  BY DEF IsSelection
<1>2. PICK n \in Nat : n = Len(s.projects)
  BY <1>1, SelectionFacts
<1>3. PICK D \in SUBSET (1 .. n) : D = FirstsOf(s) /\ \A i : i \in D <=> i \in 2 .. n /\ s.projects[i].first
  BY <1>1, <1>2, FirstsFacts
<1>4. ASSUME NEW i \in D
      PROVE  s.projects[i].a[1] \in Projects /\ i \in 2 .. n /\ \A j \in 2 .. i - 1 : s.projects[j].a[1] # s.projects[i].a[1]
  <2>1. i \in 2 .. n /\ s.projects[i].first
    BY <1>3
  <2>2. s.projects[i].a \in Atoms
    BY <1>1, <1>2, <2>1 DEF EntriesAreSound
  <2>3. \A j \in 2 .. i - 1 : s.projects[j].a[1] # s.projects[i].a[1]
    BY <1>1, <1>2, <2>1 DEF EntriesAreSound
  <2> QED
    BY <2>1, <2>2, <2>3, AtomIsPair
<1>5. PICK f : f = [i \in D |-> s.projects[i].a[1]]
  OBVIOUS
<1>6. f \in [D -> Projects]
  BY <1>4, <1>5
<1>7. ASSUME NEW i \in D, NEW j \in D, f[i] = f[j] PROVE i = j
  <2>1. i \in 2 .. n /\ j \in 2 .. n /\ s.projects[i].a[1] = s.projects[j].a[1]
    BY <1>4, <1>5, <1>7
  <2>2. ~(i \in 2 .. j - 1) /\ ~(j \in 2 .. i - 1)
    BY <1>4, <2>1
  <2> QED
    BY <2>1, <2>2
<1>8. f \in Injection(D, Projects)
  BY <1>6, <1>7 DEF Injection, IsInjective
<1>9. Cardinality(D) <= Cardinality(Projects)
  BY <1>8, GpsAssumption, FS_Injection
<1> QED
  BY <1>1, <1>3, <1>9 DEF QueuesMatch, IsBounded

\* What ranks count is finite.
LEMMA RankTypes ==
    ASSUME IsWorld(world), NEW s, NEW queues, NEW ph, IsBounded(s, queues)
    PROVE  /\ Cardinality(Projects) \in Nat /\ Len(queues) \in Nat /\ Len(queues) <= Cardinality(Projects)
           /\ SearchesLeftOf(queues, ph) \in Int
           /\ \A i \in 1 .. Cardinality(Projects) : VersionsLeftOf(queues, ph, i) \in Int
           /\ IsFiniteSet(PackagesLeftOf(s)) /\ Cardinality(PackagesLeftOf(s)) \in Int
           /\ Len(s.unsel) \in Nat
           /\ \A i \in 1 .. Len(queues) : Tries(queues[i]) \in Nat
           /\ Cardinality(Versions) \in Nat
<1>1. Cardinality(Projects) \in Nat /\ Cardinality(Versions) \in Nat
  BY GpsAssumption, FS_CardinalityType
<1>2. Len(queues) \in Nat /\ Len(queues) <= Cardinality(Projects) /\ \A i \in 1 .. Len(queues) : queues[i] \in VersionQueues
  BY LenProperties, ElementOfSeq DEF IsBounded
<1>3. \A i \in 1 .. Len(queues) : Tries(queues[i]) \in Nat
  <2>1. ASSUME NEW i \in 1 .. Len(queues) PROVE Tries(queues[i]) \in Nat
    <3>1. PICK q \in VersionQueues : q = queues[i]
      BY <1>2
    <3> QED
      BY <3>1, TriesAreCounted
  <2> QED
    BY <2>1
<1>4. SearchesLeftOf(queues, ph) \in Int
  BY DEF SearchesLeftOf
<1>5. ASSUME NEW i \in 1 .. Cardinality(Projects) PROVE VersionsLeftOf(queues, ph, i) \in Int
  <2>1. CASE i > Len(queues)
    BY <1>1, <2>1 DEF VersionsLeftOf
  <2>2. CASE ~(i > Len(queues))
    <3>1. i \in 1 .. Len(queues)
      BY <1>1, <1>2, <2>2
    <3>2. PICK k \in Nat : k = Tries(queues[i])
      BY <1>3, <3>1
    <3> QED
      BY <2>2, <3>2 DEF VersionsLeftOf
  <2> QED
    BY <2>1, <2>2
<1>6. IsFiniteSet(PackagesLeftOf(s)) /\ Cardinality(PackagesLeftOf(s)) \in Int
  <2>1. IsFiniteSet(Projects \X Packages)
    BY GpsAssumption, FS_Product
  <2>2. PackagesLeftOf(s) \in SUBSET (Projects \X Packages)
    BY DEF PackagesLeftOf
  <2> QED
    BY <2>1, <2>2, FS_Subset, FS_CardinalityType
<1>7. Len(s.unsel) \in Nat
  <2>1. s.unsel \in Seq(QueueEntries)
    BY SelectionFacts DEF IsBounded
  <2> QED
    BY <2>1, LenProperties
<1> QED
  BY <1>1, <1>2, <1>3, <1>4, <1>5, <1>6, <1>7

\* Fewer searches, or as many and fewer packages or entries, with the same queues.
LEMMA LowerSearch ==
    ASSUME IsWorld(world), NEW s, NEW queues, NEW ph, IsBounded(s, queues),
           NEW t, NEW more, NEW next, IsBounded(t, more),
           \/ SearchesLeftOf(more, next) < SearchesLeftOf(queues, ph)
           \/ /\ SearchesLeftOf(more, next) = SearchesLeftOf(queues, ph)
              /\ \/ \E i \in 1 .. Cardinality(Projects) :
                       /\ VersionsLeftOf(more, next, i) < VersionsLeftOf(queues, ph, i)
                       /\ \A j \in 1 .. i - 1 : VersionsLeftOf(more, next, j) = VersionsLeftOf(queues, ph, j)
                 \/ /\ \A j \in 1 .. Cardinality(Projects) : VersionsLeftOf(more, next, j) = VersionsLeftOf(queues, ph, j)
                    /\ \/ Cardinality(PackagesLeftOf(t)) < Cardinality(PackagesLeftOf(s))
                       \/ /\ Cardinality(PackagesLeftOf(t)) = Cardinality(PackagesLeftOf(s))
                          /\ Len(t.unsel) < Len(s.unsel)
    PROVE  LexBelow(RankOf(t, more, next), RankOf(s, queues, ph))
<1>1. PICK n \in Nat : n = Cardinality(Projects)
  BY RankTypes
<1>2. PICK f : f = [i \in 1 .. n |-> VersionsLeftOf(more, next, i)]
  OBVIOUS
<1>3. PICK g : g = [i \in 1 .. n |-> VersionsLeftOf(queues, ph, i)]
  OBVIOUS
<1>4. f \in [1 .. n -> Int] /\ g \in [1 .. n -> Int]
  BY <1>1, <1>2, <1>3, RankTypes
<1>5. PICK a \in Int, c \in Int, d \in Int :
         a = SearchesLeftOf(more, next) /\ c = Cardinality(PackagesLeftOf(t)) /\ d = Len(t.unsel)
  BY RankTypes
<1>6. PICK b \in Int, e \in Int, h \in Int :
         b = SearchesLeftOf(queues, ph) /\ e = Cardinality(PackagesLeftOf(s)) /\ h = Len(s.unsel)
  BY RankTypes
<1>7. PICK x : x = RankOf(t, more, next) /\ x = RankFrom(a, f, c, d)
  BY <1>1, <1>2, <1>5 DEF RankOf
<1>8. PICK y : y = RankOf(s, queues, ph) /\ y = RankFrom(b, g, e, h)
  BY <1>1, <1>3, <1>6 DEF RankOf
<1>9. \A i \in 1 .. n : f[i] = VersionsLeftOf(more, next, i) /\ g[i] = VersionsLeftOf(queues, ph, i)
  BY <1>2, <1>3
<1>10. \/ a < b
       \/ /\ a = b
          /\ \/ \E i \in 1 .. n : f[i] < g[i] /\ \A j \in 1 .. i - 1 : f[j] = g[j]
             \/ /\ \A j \in 1 .. n : f[j] = g[j]
                /\ c < e \/ (c = e /\ d < h)
  <2>1. CASE a < b
    BY <2>1
  <2>2. CASE a = b /\ \E i \in 1 .. n :
                         /\ VersionsLeftOf(more, next, i) < VersionsLeftOf(queues, ph, i)
                         /\ \A j \in 1 .. i - 1 : VersionsLeftOf(more, next, j) = VersionsLeftOf(queues, ph, j)
    <3>1. PICK i \in 1 .. n : /\ VersionsLeftOf(more, next, i) < VersionsLeftOf(queues, ph, i)
                              /\ \A j \in 1 .. i - 1 : VersionsLeftOf(more, next, j) = VersionsLeftOf(queues, ph, j)
      BY <2>2
    <3>2. \A j \in 1 .. i - 1 : j \in 1 .. n
      OBVIOUS
    <3>3. f[i] < g[i] /\ \A j \in 1 .. i - 1 : f[j] = g[j]
      BY <1>9, <3>1, <3>2
    <3> QED
      BY <2>2, <3>3
  <2>3. CASE /\ a = b /\ \A j \in 1 .. n : VersionsLeftOf(more, next, j) = VersionsLeftOf(queues, ph, j)
             /\ c < e \/ (c = e /\ d < h)
    BY <1>9, <2>3
  <2> QED
    BY <1>1, <1>5, <1>6, <2>1, <2>2, <2>3
<1>11. IsRankFrom(n, a, f, c, d) /\ IsRankFrom(n, b, g, e, h)
  BY <1>4 DEF IsRankFrom
<1>12. LexBelow(x, y)
  BY <1>7, <1>8, <1>10, <1>11, LowerRank
<1> QED
  BY <1>7, <1>8, <1>12

\* A queue is given up, or the current version of the newest one.
LEMMA BacktrackingLowers ==
    ASSUME IsWorld(world), NEW s, NEW queues, NEW ph, IsBounded(s, queues), NEW t, NEW more, IsBounded(t, more),
           \/ ph = "solving" /\ Len(more) = Len(queues)
           \/ ph = "backtracking" /\ queues # <<>> /\ Len(more) = Len(queues) - 1,
           \A i \in 1 .. Len(more) : Tries(more[i]) = Tries(queues[i])
    PROVE  LexBelow(RankOf(t, more, "backtracking"), RankOf(s, queues, ph))
<1>1. PICK n \in Nat : n = Cardinality(Projects)
  BY RankTypes
<1>2. PICK m \in Nat : m = Len(more) /\ m <= n /\ \A i \in 1 .. m : Tries(more[i]) \in Nat
  BY <1>1, RankTypes
<1>3. PICK k \in Nat : k = Len(queues) /\ k <= n
  BY <1>1, RankTypes
<1>4. more \in Seq(VersionQueues) /\ queues \in Seq(VersionQueues)
  BY DEF IsBounded
<1>5. SearchesLeftOf(queues, ph) = 2
  BY DEF SearchesLeftOf
<1>6. CASE m = 0
  <2>1. more = <<>>
    BY <1>2, <1>4, <1>6, EmptySeq
  <2>2. SearchesLeftOf(more, "backtracking") = 1
    BY <2>1 DEF SearchesLeftOf
  <2> QED
    BY <1>5, <2>2, LowerSearch
<1>7. CASE m # 0
  <2>1. more # <<>>
    BY <1>2, <1>4, <1>7, EmptySeq
  <2>2. SearchesLeftOf(more, "backtracking") = 2
    BY <2>1 DEF SearchesLeftOf
  <2>3. PICK v \in Nat : v = Tries(more[m]) /\ v = Tries(queues[m])
    BY <1>2, <1>7
  <2>4. VersionsLeftOf(more, "backtracking", m) = 2 * v - 1
    BY <1>2, <2>3 DEF VersionsLeftOf
  <2>5. VersionsLeftOf(queues, ph, m) = 2 * v
    <3>1. ~(m > k) /\ ~(m = k /\ ph = "backtracking")
      BY <1>2, <1>3
    <3> QED
      BY <1>3, <2>3, <3>1 DEF VersionsLeftOf
  <2>6. ASSUME NEW j \in 1 .. m - 1
        PROVE  VersionsLeftOf(more, "backtracking", j) = VersionsLeftOf(queues, ph, j)
    <3>1. j \in 1 .. m /\ ~(j > m) /\ j # m /\ ~(j > k) /\ ~(j = k)
      BY <1>2, <1>3
    <3>2. PICK w \in Nat : w = Tries(more[j]) /\ w = Tries(queues[j])
      BY <1>2, <3>1
    <3>3. VersionsLeftOf(more, "backtracking", j) = 2 * w
      BY <1>2, <3>1, <3>2 DEF VersionsLeftOf
    <3>4. VersionsLeftOf(queues, ph, j) = 2 * w
      BY <1>3, <3>1, <3>2 DEF VersionsLeftOf
    <3> QED
      BY <3>3, <3>4
  <2>7. m \in 1 .. Cardinality(Projects) /\ VersionsLeftOf(more, "backtracking", m) < VersionsLeftOf(queues, ph, m)
    BY <1>1, <1>2, <1>7, <2>4, <2>5
  <2> QED
    BY <1>5, <2>2, <2>6, <2>7, LowerSearch
<1> QED
  BY <1>6, <1>7

\* There is a queue more, or the newest one has fewer versions left.
LEMMA SelectingLowers ==
    ASSUME IsWorld(world), NEW s, NEW queues, NEW ph, IsBounded(s, queues), NEW t, NEW more, IsBounded(t, more),
           NEW m \in Nat, m = Len(more), m > 0,
           \/ ph = "solving" /\ m = Len(queues) + 1 /\ Tries(more[m]) <= Cardinality(Versions) + 2
           \/ ph = "backtracking" /\ m = Len(queues) /\ Tries(more[m]) < Tries(queues[m]),
           \A i \in 1 .. m - 1 : Tries(more[i]) = Tries(queues[i])
    PROVE  LexBelow(RankOf(t, more, "solving"), RankOf(s, queues, ph))
<1>1. PICK n \in Nat : n = Cardinality(Projects) /\ m <= n
  BY RankTypes
<1>2. PICK k \in Nat : k = Len(queues) /\ \A i \in 1 .. k : Tries(queues[i]) \in Nat
  BY RankTypes
<1>3. PICK all \in Nat : all = Cardinality(Versions)
  BY RankTypes
<1>4. PICK v \in Nat : v = Tries(more[m])
  <2>1. m \in 1 .. m
    OBVIOUS
  <2> QED
    BY <2>1, RankTypes
<1>5. SearchesLeftOf(queues, ph) = 2 /\ SearchesLeftOf(more, "solving") = 2
  <2>1. ph = "backtracking" => queues # <<>>
    BY EmptySeq DEF IsBounded
  <2> QED
    BY <2>1 DEF SearchesLeftOf
<1>6. VersionsLeftOf(more, "solving", m) = 2 * v
  BY <1>4 DEF VersionsLeftOf
<1>7. VersionsLeftOf(more, "solving", m) < VersionsLeftOf(queues, ph, m)
  <2>1. CASE ph = "solving"
    <3>1. m > k /\ v <= all + 2
      BY <1>2, <1>3, <1>4, <2>1
    <3>2. VersionsLeftOf(queues, ph, m) = 2 * all + 5
      BY <1>2, <1>3, <3>1 DEF VersionsLeftOf
    <3> QED
      BY <1>6, <3>1, <3>2
  <2>2. CASE ph = "backtracking"
    <3>1. m = k /\ m \in 1 .. k
      BY <1>2, <2>2
    <3>2. PICK w \in Nat : w = Tries(queues[m]) /\ v < w
      BY <1>2, <1>4, <2>2, <3>1
    <3>3. VersionsLeftOf(queues, ph, m) = 2 * w - 1
      BY <1>2, <2>2, <3>1, <3>2 DEF VersionsLeftOf
    <3> QED
      BY <1>6, <3>2, <3>3
  <2> QED
    BY <2>1, <2>2
<1>8. ASSUME NEW j \in 1 .. m - 1 PROVE VersionsLeftOf(more, "solving", j) = VersionsLeftOf(queues, ph, j)
  <2>1. j \in 1 .. k /\ ~(j > m) /\ ~(j > k) /\ ~(j = k /\ ph = "backtracking")
    BY <1>2
  <2>2. PICK w \in Nat : w = Tries(queues[j]) /\ w = Tries(more[j])
    BY <1>2, <2>1
  <2>3. VersionsLeftOf(more, "solving", j) = 2 * w
    BY <2>1, <2>2 DEF VersionsLeftOf
  <2>4. VersionsLeftOf(queues, ph, j) = 2 * w
    BY <1>2, <2>1, <2>2 DEF VersionsLeftOf
  <2> QED
    BY <2>3, <2>4
<1>9. m \in 1 .. Cardinality(Projects)
  BY <1>1
<1> QED
  BY <1>5, <1>7, <1>8, <1>9, LowerSearch

-----------------------------------------------------------------------------
(* GpsSolver: the search ends.  The steps.                                 *)

\* The packages of an entry are as good as required, so that packages that are
\* selected already ask for nothing new.
LEMMA NothingNewlyRequired ==
    ASSUME IsWorld(world), NEW s, IsSelection(s), NEW a \in Atoms, IsSelected(s, a[1]), a = SelectedAtom(s, a[1]),
           NEW pl, pl \subseteq SelectedPackagesIn(s, a[1])
    PROVE  NewlyRequired(s, a, DependenciesOf(a, pl)) = {}
<1>1. s \in Selections /\ EntriesAreSound(s) /\ a[1] \in Projects
  BY AtomIsPair DEF IsSelection
<1>2. PICK new : new = DependenciesOf(a, pl)
  OBVIOUS
<1>3. ASSUME NEW d \in new, NEW k \in d.pl PROVE k \in RequiredPackagesIn(s, d.to)
  <2>1. k \in ReachOf(a, pl) /\ ProjectOf[k] = d.to
    BY <1>2, DependencyFacts
  <2>2. PICK x \in pl : x \in Reachable(a) /\ k \in world.external[a][x]
    BY <2>1 DEF ReachOf
  <2>3. PICK i \in IndicesOf(s, a[1]) : x \in s.projects[i].pl
    BY <2>2, PackageFacts
  <2>4. i \in 1 .. Len(s.projects) /\ s.projects[i].a = a
    BY <1>1, <2>3, SelectedFacts, SelectionFacts
  <2>5. PICK some : some = s.projects[i].pl
    OBVIOUS
  <2>6. k \in ReachOf(a, some)
    BY <2>2, <2>3, <2>5 DEF ReachOf
  <2>7. PICK c \in DependenciesOf(a, some) : c.to = ProjectOf[k] /\ k \in c.pl
    BY <2>6, DependencyFacts
  <2>8. c \in DependenciesOfEntry(s.projects[i])
    BY <2>4, <2>5, <2>7, AtomIsPair DEF DependenciesOfEntry
  <2>9. c.pl \subseteq RequiredPackagesIn(s, c.to)
    BY <2>4, <2>8, EntryIsRequired
  <2> QED
    BY <2>1, <2>7, <2>9
<1>4. \A d \in new : d.pl \subseteq RequiredPackagesIn(s, d.to)
  BY <1>3
<1>5. {e \in new : ~ e.pl \subseteq RequiredPackagesIn(s, e.to)} = {}
  BY <1>4
<1>6. NewlyRequired(s, a, new) = {}
  BY <1>5 DEF NewlyRequired
<1> QED
  BY <1>2, <1>6

\* remove() finds what was queued.
LEMMA OneIsRemoved ==
    ASSUME NEW s, NEW q \in Seq(QueueEntries), s.unsel = q, q # <<>>, NEW p, p = q[1].id, NEW pl, pl = q[1].pl
    PROVE  Len(RemoveAll(q, FirstBmi(s, p, pl))) = Len(q) - 1
<1>1. 1 \in 1 .. Len(q) /\ DOMAIN q = 1 .. Len(q)
  BY EmptySeq
<1>2. IsBmi(s, 1, p, pl)
  BY DEF IsBmi
<1>3. 1 \in FirstBmi(s, p, pl)
  <2>1. \A j \in 1 .. 1 - 1 : ~IsBmi(s, j, p, pl)
    OBVIOUS
  <2> QED
    BY <1>1, <1>2, <2>1 DEF FirstBmi
<1>4. ASSUME NEW i \in FirstBmi(s, p, pl) PROVE i = 1
  <2>1. i \in 1 .. Len(q) /\ \A j \in 1 .. i - 1 : ~IsBmi(s, j, p, pl)
    BY <1>1 DEF FirstBmi
  <2>2. ~(1 \in 1 .. i - 1)
    BY <1>2, <2>1
  <2> QED
    BY <2>1, <2>2
<1>5. FirstBmi(s, p, pl) = {1}
  BY <1>3, <1>4
<1> QED
  BY <1>1, <1>5, RemoveAllShortens

\* Pushing nothing leaves the selection as it is.
LEMMA HeapPushNone == ASSUME NEW s PROVE HeapPushAll(s, <<>>) = s
<1>1. PICK order \in Seq(QueueEntries) : order = <<>>
  BY EmptySeq
<1>2. PICK n \in Nat : n = Len(order) /\ n = 0
  BY <1>1, EmptySeq
<1>3. PICK after : HeapPushAll(s, order) = after[Len(order)] /\ after[0] = s
  BY HeapPushAllIsDefined
<1> QED
  BY <1>1, <1>2, <1>3

\* Packages that are selected already leave the queue one entry shorter.
LEMMA AdditionShortens ==
    ASSUME IsWorld(world), NEW s, IsSelection(s), s.unsel # <<>>, NEW p \in Projects, p = s.unsel[1].id,
           NEW a \in Atoms, a[1] = p, IsSelected(s, p), a = SelectedAtom(s, p),
           NEW pl, pl = s.unsel[1].pl, pl \subseteq SelectedPackagesIn(s, p),
           NEW t \in SelectAtom(s, a, pl, TRUE)
    PROVE  Len(t.unsel) < Len(s.unsel)
<1>1. NewlyRequired(s, a, DependenciesOf(a, pl)) = {}
  BY NothingNewlyRequired
<1>2. PICK pushed : pushed = [projects |-> Append(s.projects, [a |-> a, pl |-> WithInternal(a, pl), first |-> ~TRUE]),
                              deps |-> PushDeps(s.deps, a, DependenciesOf(a, pl)),
                              unsel |-> RemoveBmi(s, a[1], pl).unsel]
  OBVIOUS
<1>3. PICK order \in SetToSeqs({}) : t = HeapPushAll(pushed, order)
  BY <1>1, <1>2 DEF SelectAtom
<1>4. order = <<>>
  <2>1. IsFiniteSet({})
    BY FS_EmptySet
  <2>2. order \in Seq({})
    BY <2>1, OrdersAreComplete
  <2> QED
    BY <2>2
<1>5. t = pushed
  BY <1>3, <1>4, HeapPushNone
<1>6. PICK q \in Seq(QueueEntries) : q = s.unsel /\ IsSolverState(s)
  BY SelectionFacts DEF IsSelection
<1>7. t.unsel = RemoveAll(q, FirstBmi(s, p, pl))
  <2>1. t.unsel = RemoveBmi(s, a[1], pl).unsel
    BY <1>2, <1>5
  <2> QED
    BY <1>6, <2>1 DEF RemoveBmi, IsSolverState
<1>8. Len(t.unsel) = Len(q) - 1
  BY <1>6, <1>7, OneIsRemoved
<1>9. Len(q) \in Nat
  BY LenProperties
<1> QED
  BY <1>6, <1>8, <1>9

\* An addition leaves fewer packages to select, or fewer entries in the queue.
LEMMA AddingLowers ==
    ASSUME IsWorld(world), NEW s, IsSelection(s), s.unsel # <<>>, NEW p \in Projects, p = s.unsel[1].id,
           NEW a \in Atoms, a[1] = p, IsSelected(s, p), a = SelectedAtom(s, p), NEW pl, pl = s.unsel[1].pl,
           NEW t \in SelectAtom(s, a, pl, TRUE), NEW e, t.projects = Append(s.projects, e), e.a = a,
           pl \subseteq e.pl, e \in Entries, t \in Selections, NEW queues, IsBounded(s, queues), IsBounded(t, queues)
    PROVE  LexBelow(RankOf(t, queues, "solving"), RankOf(s, queues, "solving"))
<1>1. s.projects \in Seq(Entries)
  BY SelectionFacts DEF IsSelection
<1>2. PICK n \in Nat : n = Len(s.projects) /\ DOMAIN s.projects = 1 .. n
  BY <1>1, LenProperties
<1>3. DOMAIN t.projects = 1 .. n + 1 /\ t.projects[n + 1] = e /\ \A i \in 1 .. n : t.projects[i] = s.projects[i]
  BY <1>1, <1>2, AppendProperties, LenProperties
<1>4. ASSUME NEW q, NEW k \in SelectedPackagesIn(s, q) PROVE k \in SelectedPackagesIn(t, q)
  <2>1. PICK i \in IndicesOf(s, q) : k \in s.projects[i].pl
    BY PackageFacts
  <2>2. i \in 1 .. n /\ s.projects[i].a[1] = q
    BY <1>2, <2>1 DEF IndicesOf
  <2>3. i \in IndicesOf(t, q) /\ t.projects[i] = s.projects[i]
    BY <1>2, <1>3, <2>2 DEF IndicesOf
  <2> QED
    BY <2>1, <2>3, PackageFacts
<1>5. ASSUME NEW k \in pl PROVE k \in SelectedPackagesIn(t, p)
  <2>1. n + 1 \in IndicesOf(t, p)
    BY <1>2, <1>3 DEF IndicesOf
  <2> QED
    BY <1>3, <2>1, PackageFacts
<1>6. PICK before : before = PackagesLeftOf(s)
  OBVIOUS
<1>7. PICK after : after = PackagesLeftOf(t)
  OBVIOUS
<1>8. after \subseteq before
  BY <1>4, <1>6, <1>7 DEF PackagesLeftOf
<1>9. IsFiniteSet(before) /\ Cardinality(before) \in Int /\ Cardinality(after) \in Int
  BY <1>6, <1>7, RankTypes
<1>10. Cardinality(after) <= Cardinality(before) /\ (Cardinality(after) = Cardinality(before) => after = before)
  BY <1>8, <1>9, FS_Subset
<1>11. /\ SearchesLeftOf(queues, "solving") = SearchesLeftOf(queues, "solving")
       /\ \A j \in 1 .. Cardinality(Projects) :
             VersionsLeftOf(queues, "solving", j) = VersionsLeftOf(queues, "solving", j)
  OBVIOUS
<1>12. CASE pl \subseteq SelectedPackagesIn(s, p)
  <2>1. Len(t.unsel) < Len(s.unsel)
    BY <1>12, AdditionShortens
  <2>2. Cardinality(after) < Cardinality(before) \/ Cardinality(after) = Cardinality(before)
    BY <1>9, <1>10
  <2> QED
    BY <1>6, <1>7, <1>11, <2>1, <2>2, LowerSearch
<1>13. CASE ~(pl \subseteq SelectedPackagesIn(s, p))
  <2>1. PICK k \in pl : k \notin SelectedPackagesIn(s, p)
    BY <1>13
  <2>2. k \in Packages
    BY DEF Entries
  <2>3. PICK x : x = <<p, k>>
    OBVIOUS
  <2>4. x \in before /\ x \notin after
    BY <1>5, <1>6, <1>7, <2>1, <2>2, <2>3 DEF PackagesLeftOf
  <2>5. Cardinality(after) < Cardinality(before)
    BY <1>9, <1>10, <2>4
  <2> QED
    BY <1>6, <1>7, <1>11, <2>5, LowerSearch
<1> QED
  BY <1>12, <1>13

\* Lowering the rank of the state lowers that of the search.
LEMMA StepLowers ==
    ASSUME SolverInv, world' = world, NEW t, NEW more, NEW next, sel' = t, vqs' = more, phase' = next,
           LexBelow(RankOf(t, more, next), RankOf(sel, vqs, phase))
    PROVE  LexBelow(SearchRank', SearchRank)
BY RankNow, RankNext

\* The invariant bounds the queues.
LEMMA InvIsBounded == ASSUME SolverInv PROVE IsBounded(sel, vqs)
BY InvFacts, QueuesAreFew

\* A queue whose project is selected still holds the version that is selected.
LEMMA QueuesAreFilled == ASSUME SolverInv, vqs # <<>> PROVE Last(vqs).pi # <<>>
<1>1. Len(sel.projects) > 1
  BY InvFacts, QueuesHaveProjects
<1>2. PICK t, m : t = UnselectProject(sel) /\ m = FirstOfLast(sel)
  OBVIOUS
<1>3. IsSelection(t) /\ Len(t.projects) = m - 1 /\ \A i \in 1 .. m - 1 : t.projects[i] = sel.projects[i]
  BY <1>1, <1>2, InvFacts, UnselectProjectInv
<1>4. t \in Selections
  BY <1>3 DEF IsSelection
<1> QED
  BY <1>1, <1>2, <1>3, <1>4, InvFacts, UnselectedMatches

\* One queue more, and a shorter one than none.
LEMMA SelectProjectLowers ==
    ASSUME SolverInv, IsBounded(sel, vqs), IsBounded(sel, vqs)', SelectProject
    PROVE  LexBelow(SearchRank', SearchRank)
<1>1. phase = "solving" /\ sel.unsel # <<>> /\ world' = world /\ phase' = "solving"
  BY DEF SelectProject, IsNewProject
<1>2. PICK bmi \in QueueEntries : bmi = Foremost /\ bmi.id \in Projects
  BY <1>1, ForemostFacts
<1>3. PICK q \in VersionQueues : q = NewVersionQueue(bmi) /\ q.id = bmi.id
  BY InvFacts, NewVersionQueueType
<1>4. PICK marked : vqs' = Append(Fail(vqs, marked), Found(sel, q, bmi.pl))
  BY <1>2, <1>3 DEF SelectProject
<1>5. FindsVersion(sel, q, bmi.pl)
  BY <1>2, <1>3 DEF SelectProject
<1>6. PICK r \in VersionQueues : r = Found(sel, q, bmi.pl) /\ Tries(r) <= Cardinality(Versions) + 2
  <2>1. PICK tries \in Nat : tries = Tries(q) /\ tries <= Cardinality(Versions) + 2
    BY <1>3, InvFacts, NewQueueIsShort, TriesAreCounted
  <2>2. PICK left \in Nat : left = Tries(Found(sel, q, bmi.pl)) /\ left <= tries
    BY <1>5, <2>1, InvFacts, FoundTakes
  <2>3. Cardinality(Versions) \in Nat
    BY GpsAssumption, FS_CardinalityType
  <2>4. Found(sel, q, bmi.pl) \in VersionQueues
    BY <1>5, InvFacts, FoundFacts
  <2>5. left <= Cardinality(Versions) + 2
    BY <2>1, <2>2, <2>3
  <2> QED
    BY <2>2, <2>4, <2>5
<1>7. PICK queues \in Seq(VersionQueues) : /\ queues = Fail(vqs, marked) /\ Len(queues) = Len(vqs)
                                           /\ \A i \in 1 .. Len(vqs) : Tries(queues[i]) = Tries(vqs[i])
  BY InvFacts, FailKeeps, FailTakesNothing
<1>8. PICK k \in Nat : k = Len(vqs)
  BY InvFacts, LenProperties
<1>9. PICK more : more = Append(queues, r)
  OBVIOUS
<1>10. Len(more) = k + 1 /\ more[k + 1] = r /\ \A i \in 1 .. k : more[i] = queues[i]
  BY <1>7, <1>8, <1>9, AppendProperties
<1>11. PICK m \in Nat : m = k + 1
  OBVIOUS
<1>12. PICK t : t = sel'
  OBVIOUS
<1>13. vqs' = more /\ IsBounded(t, more)
  BY <1>4, <1>6, <1>7, <1>9, <1>12 DEF IsBounded
<1>14. \A i \in 1 .. m - 1 : Tries(more[i]) = Tries(vqs[i])
  BY <1>7, <1>8, <1>10, <1>11
<1>15. m = Len(more) /\ m > 0 /\ m = Len(vqs) + 1 /\ Tries(more[m]) <= Cardinality(Versions) + 2
  BY <1>6, <1>8, <1>10, <1>11
<1>16. LexBelow(RankOf(t, more, "solving"), RankOf(sel, vqs, phase))
  BY <1>1, <1>13, <1>14, <1>15, InvFacts, SelectingLowers
<1> QED
  BY <1>1, <1>12, <1>13, <1>16, StepLowers

\* The last queue has fewer versions to try.
LEMMA RetryQueueLowers ==
    ASSUME SolverInv, IsBounded(sel, vqs), IsBounded(sel, vqs)', RetryQueue
    PROVE  LexBelow(SearchRank', SearchRank)
<1>1. vqs # <<>> /\ world' = world /\ phase = "backtracking" /\ phase' = "solving"
  BY DEF RetryQueue, IsRetry
<1>2. PICK s : s = UnselectProject(sel)
  OBVIOUS
<1>3. PICK older \in Seq(VersionQueues) : older = Front(vqs) /\ Len(older) = Len(vqs) - 1 /\ Len(vqs) \in Nat \ {0}
                                          /\ \A i \in 1 .. Len(vqs) - 1 : older[i] = vqs[i]
  BY <1>1, InvFacts, FrontFacts
<1>4. PICK last \in VersionQueues : last = Last(vqs) /\ last = vqs[Len(vqs)]
  BY <1>1, InvFacts, FrontFacts
<1>5. PICK tries \in Nat : tries = Tries(last) /\ tries > 0
  <2>1. last.pi # <<>>
    BY <1>1, <1>4, QueuesAreFilled
  <2>2. Len(last.pi) # 0
    BY <2>1, VersionQueueFacts, EmptySeq
  <2> QED
    BY <2>2, InvFacts, TriesAreCounted
<1>6. PICK q \in VersionQueues : q = RetryFrom(last) /\ Tries(q) = tries - 1
  <2>1. 1 \in Nat /\ 1 <= Tries(last)
    BY <1>5
  <2> QED
    BY <1>5, <2>1, InvFacts, AdvancedFacts, AdvanceTakes DEF RetryFrom
<1>7. PICK pl : pl = Again
  OBVIOUS
<1>8. FindsVersion(s, q, pl)
  BY <1>2, <1>4, <1>6, <1>7 DEF RetryQueue, Unselected
<1>9. PICK marked : vqs' = Append(Fail(older, marked), Found(s, q, pl))
  BY <1>2, <1>3, <1>4, <1>6, <1>7 DEF RetryQueue, Unselected
<1>10. PICK r \in VersionQueues : r = Found(s, q, pl) /\ Tries(r) \in Nat /\ Tries(r) <= tries - 1
  <2>1. Found(s, q, pl) \in VersionQueues
    BY <1>8, InvFacts, FoundFacts
  <2>2. Tries(Found(s, q, pl)) \in Nat /\ Tries(Found(s, q, pl)) <= tries - 1
    BY <1>6, <1>8, InvFacts, FoundTakes
  <2> QED
    BY <2>1, <2>2
<1>11. PICK queues \in Seq(VersionQueues) : /\ queues = Fail(older, marked) /\ Len(queues) = Len(older)
                                            /\ \A i \in 1 .. Len(older) : Tries(queues[i]) = Tries(older[i])
  BY InvFacts, FailKeeps, FailTakesNothing
<1>12. PICK m \in Nat : m = Len(vqs) /\ m > 0 /\ Len(queues) = m - 1
  BY <1>3, <1>11
<1>13. PICK more : more = Append(queues, r)
  OBVIOUS
<1>14. Len(more) = m /\ more[m] = r /\ \A i \in 1 .. m - 1 : more[i] = queues[i]
  <2>1. PICK k \in Nat : k = m - 1 /\ m = k + 1
    BY <1>12
  <2>2. Len(queues) = k
    BY <1>12, <2>1
  <2>3. Len(more) = k + 1 /\ more[k + 1] = r /\ \A i \in 1 .. k : more[i] = queues[i]
    BY <1>13, <2>2, AppendProperties
  <2> QED
    BY <2>1, <2>3
<1>15. PICK t : t = sel'
  OBVIOUS
<1>16. vqs' = more /\ IsBounded(t, more)
  BY <1>9, <1>10, <1>11, <1>13, <1>15 DEF IsBounded
<1>17. \A i \in 1 .. m - 1 : Tries(more[i]) = Tries(vqs[i])
  BY <1>3, <1>11, <1>12, <1>14
<1>18. Tries(more[m]) < Tries(vqs[m])
  BY <1>4, <1>5, <1>10, <1>12, <1>14
<1>19. LexBelow(RankOf(t, more, "solving"), RankOf(sel, vqs, phase))
  BY <1>1, <1>12, <1>14, <1>16, <1>17, <1>18, InvFacts, SelectingLowers
<1> QED
  BY <1>1, <1>15, <1>16, <1>19, StepLowers

\* The steps that give something up.
LEMMA FailingLowers ==
    ASSUME SolverInv, IsBounded(sel, vqs), IsBounded(sel, vqs)', world' = world, phase' = "backtracking",
           \/ phase = "solving" /\ (vqs' = vqs \/ \E marked : vqs' = Fail(vqs, marked))
           \/ phase = "backtracking" /\ vqs # <<>>
              /\ (vqs' = Front(vqs) \/ \E marked : vqs' = Fail(Front(vqs), marked))
    PROVE  LexBelow(SearchRank', SearchRank)
<1>1. PICK t, more : t = sel' /\ more = vqs'
  OBVIOUS
<1>2. IsBounded(t, more)
  BY <1>1 DEF IsBounded
<1>3. PICK queues \in Seq(VersionQueues) :
        /\ \/ phase = "solving" /\ queues = vqs /\ Len(queues) = Len(vqs)
           \/ phase = "backtracking" /\ vqs # <<>> /\ queues = Front(vqs) /\ Len(queues) = Len(vqs) - 1
        /\ more = queues \/ \E marked : more = Fail(queues, marked)
        /\ \A i \in 1 .. Len(queues) : queues[i] = vqs[i]
  <2>1. CASE phase = "solving"
    BY <1>1, <2>1, InvFacts
  <2>2. CASE phase = "backtracking" /\ vqs # <<>>
    <3>1. PICK older \in Seq(VersionQueues) :
            /\ older = Front(vqs) /\ Len(older) = Len(vqs) - 1
            /\ \A i \in 1 .. Len(vqs) - 1 : older[i] = vqs[i]
      BY <2>2, InvFacts, FrontFacts
    <3> QED
      BY <1>1, <2>2, <3>1
  <2> QED
    BY <2>1, <2>2
<1>4. Len(more) = Len(queues) /\ \A i \in 1 .. Len(queues) : Tries(more[i]) = Tries(queues[i])
  <2>1. CASE more = queues
    BY <2>1
  <2>2. CASE \E marked : more = Fail(queues, marked)
    BY <2>2, InvFacts, FailKeeps, FailTakesNothing
  <2> QED
    BY <1>3, <2>1, <2>2
<1>5. /\ \/ phase = "solving" /\ Len(more) = Len(vqs)
         \/ phase = "backtracking" /\ vqs # <<>> /\ Len(more) = Len(vqs) - 1
      /\ \A i \in 1 .. Len(more) : Tries(more[i]) = Tries(vqs[i])
  BY <1>3, <1>4
<1>6. LexBelow(RankOf(t, more, "backtracking"), RankOf(sel, vqs, phase))
  BY <1>2, <1>5, InvFacts, BacktrackingLowers
<1> QED
  BY <1>1, <1>6, StepLowers

\* Packages are selected, or their entry was all there was to do.
LEMMA AddPackagesLowers ==
    ASSUME SolverInv, IsBounded(sel, vqs), IsBounded(sel, vqs)', AddPackages
    PROVE  LexBelow(SearchRank', SearchRank)
<1>1. /\ phase = "solving" /\ sel.unsel # <<>> /\ IsSelected(sel, Foremost.id)
      /\ world' = world /\ phase' = "solving" /\ vqs' = vqs
  BY DEF AddPackages, IsAddition
<1>2. PICK p \in Projects : p = Foremost.id
  BY <1>1, ForemostFacts
<1>3. PICK a \in Atoms : a = SelectedAtom(sel, p) /\ a[1] = p
  BY <1>1, <1>2, InvFacts, SelectedFacts
<1>4. PICK pl : pl = Foremost.pl
  OBVIOUS
<1>5. Check(sel, a, pl, TRUE) = {}
  BY <1>2, <1>3, <1>4 DEF AddPackages
<1>6. pl \subseteq Reachable(a)
  <2>1. TRUE \in BOOLEAN
    OBVIOUS
  <2> QED
    BY <1>5, <2>1, CheckFacts
<1>7. PICK t \in SelectAtom(sel, a, pl, TRUE) : sel' = t
  BY <1>2, <1>3, <1>4 DEF AddPackages
<1>8. PICK e : t.projects = Append(sel.projects, e) /\ e \in Entries /\ e.a = a /\ e.pl = WithInternal(a, pl)
  <2>1. PICK only \in BOOLEAN : only = TRUE
    OBVIOUS
  <2>2. t \in SelectAtom(sel, a, pl, only)
    BY <1>7, <2>1
  <2>3. PICK e : e = [a |-> a, pl |-> WithInternal(a, pl), first |-> ~only]
    OBVIOUS
  <2>4. t.projects = Append(sel.projects, e) /\ e \in Entries
    BY <1>6, <2>2, <2>3, InvFacts, SelectAtomShape
  <2> QED
    BY <2>3, <2>4
<1>9. pl \subseteq e.pl
  BY <1>8 DEF WithInternal
<1>10. PICK queues : queues = vqs
  OBVIOUS
<1>11. IsBounded(sel, queues) /\ IsBounded(t, queues) /\ t \in Selections
  BY <1>1, <1>7, <1>10 DEF IsBounded
<1>12. p = sel.unsel[1].id /\ pl = sel.unsel[1].pl /\ IsSelected(sel, p)
  BY <1>1, <1>2, <1>4 DEF Foremost
<1>13. LexBelow(RankOf(t, queues, "solving"), RankOf(sel, queues, "solving"))
  BY <1>1, <1>3, <1>7, <1>8, <1>9, <1>11, <1>12, InvFacts, AddingLowers
<1> QED
  BY <1>1, <1>7, <1>10, <1>13, StepLowers

\* The search is over.
LEMMA EndingLowers ==
    ASSUME SolverInv, IsBounded(sel, vqs), IsBounded(sel, vqs)', world' = world, sel' = sel, vqs' = vqs,
           \/ phase = "solving" /\ phase' \in {"solved", "panicked"}
           \/ phase = "backtracking" /\ vqs = <<>> /\ phase' = "failed"
           \/ phase = "backtracking" /\ vqs # <<>> /\ phase' = "panicked"
    PROVE  LexBelow(SearchRank', SearchRank)
<1>1. PICK next : next = phase'
  OBVIOUS
<1>2. SearchesLeftOf(vqs, next) = 0 /\ SearchesLeftOf(vqs, phase) \in {1, 2}
  BY <1>1 DEF SearchesLeftOf
<1>3. SearchesLeftOf(vqs, next) < SearchesLeftOf(vqs, phase)
  BY <1>2
<1>4. LexBelow(RankOf(sel, vqs, next), RankOf(sel, vqs, phase))
  BY <1>3, InvFacts, LowerSearch
<1>5. PICK t, more : t = sel /\ more = vqs
  OBVIOUS
<1> QED
  BY <1>1, <1>4, <1>5, StepLowers

\* The search always ends: a turn of the loop of solve or of that of backtrack
\* that does not end it leaves an older queue fewer versions to try, or adds a
\* queue, or selects packages that were not selected, or shortens the queue of the
\* unselected without putting anything back (gps/solver.go:483 and 1035).
THEOREM SearchAdvances == SolverSpec => AlwaysAdvances
<1>1. SolverInv => IsBounded(sel, vqs)
  BY InvIsBounded
<1>2. ASSUME SolverInv, IsBounded(sel, vqs), IsBounded(sel, vqs)', [SolverNext]_solverVars
      PROVE  [LexBelow(SearchRank', SearchRank)]_solverVars
  <2>1. CASE SelectProject
    BY <1>2, <2>1, SelectProjectLowers
  <2>2. CASE ProjectFails
    BY <1>2, <2>2, FailingLowers DEF ProjectFails, IsNewProject
  <2>3. CASE ProjectIsMissing
    BY <1>2, <2>3, FailingLowers DEF ProjectIsMissing, IsNewProject
  <2>4. CASE AddPackages
    BY <1>2, <2>4, AddPackagesLowers
  <2>5. CASE AdditionFails
    BY <1>2, <2>5, FailingLowers DEF AdditionFails, IsAddition
  <2>6. CASE Solve
    BY <1>2, <2>6, EndingLowers DEF Solve
  <2>7. CASE PopQueue
    BY <1>2, <2>7, FailingLowers DEF PopQueue
  <2>8. CASE RetryQueue
    BY <1>2, <2>8, RetryQueueLowers
  <2>9. CASE RetryFails
    BY <1>2, <2>9, FailingLowers DEF RetryFails, IsRetry
  <2>10. CASE NothingToRetry
    BY <1>2, <2>10, FailingLowers DEF NothingToRetry, IsRetry
  <2>11. CASE GiveUp
    BY <1>2, <2>11, EndingLowers DEF GiveUp
  <2>12. CASE SelectPanics
    BY <1>2, <2>12, EndingLowers DEF SelectPanics, IsNewProject
  <2>13. CASE RetryPanics
    BY <1>2, <2>13, EndingLowers DEF RetryPanics, IsRetry
  <2>14. CASE Finished \/ UNCHANGED solverVars
    BY <2>14 DEF Finished
  <2> QED
    BY <1>2, <2>1, <2>2, <2>3, <2>4, <2>5, <2>6, <2>7, <2>8, <2>9, <2>10, <2>11, <2>12, <2>13, <2>14 DEF SolverNext
<1> QED
  BY <1>1, <1>2, SolverInvariance, PTL DEF SolverSpec, AlwaysAdvances
=============================================================================
