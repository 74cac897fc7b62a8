----------------------- MODULE SourceCoordinatorProofs -----------------------
(***************************************************************************)
(* Proofs about the supervisor, the deduction of project roots and the     *)
(* coordinator of sources, for any finite set of callers, any paths and    *)
(* URLs and any number of calls.                                           *)
(***************************************************************************)
EXTENDS SourceCoordinator, FiniteSetTheorems, SequenceTheorems, WellFoundedInduction, TLAPS

-----------------------------------------------------------------------------
(* Maps and sequences.                                                     *)

LEMMA PutFacts ==
    ASSUME NEW m, NEW k, NEW v
    PROVE  /\ DOMAIN Put(m, k, v) = DOMAIN m \cup {k}
           /\ Put(m, k, v)[k] = v
           /\ \A x \in DOMAIN m : x # k => Put(m, k, v)[x] = m[x]
  BY DEF Put

LEMMA DeleteFacts ==
    ASSUME NEW m, NEW k
    PROVE  /\ DOMAIN Delete(m, k) = DOMAIN m \ {k}
           /\ \A x \in DOMAIN m \ {k} : Delete(m, k)[x] = m[x]
  BY DEF Delete, Restrict

LEMMA EmptyMapFacts == DOMAIN EmptyMap = {}
  BY DEF EmptyMap

LEMMA AppendFacts ==
    ASSUME NEW S, NEW s \in Seq(S), NEW e \in S
    PROVE  /\ Append(s, e) \in Seq(S) /\ Len(Append(s, e)) = Len(s) + 1
           /\ DOMAIN Append(s, e) = DOMAIN s \cup {Len(s) + 1}
           /\ Len(s) + 1 \notin DOMAIN s
           /\ Append(s, e)[Len(s) + 1] = e
           /\ \A i \in DOMAIN s : Append(s, e)[i] = s[i]
  OBVIOUS

LEMMA SeqFacts ==
    ASSUME NEW S, NEW s \in Seq(S)
    PROVE  Len(s) \in Nat /\ DOMAIN s = 1 .. Len(s) /\ \A i \in DOMAIN s : s[i] \in S
  OBVIOUS

LEMMA LeastOf ==
    ASSUME NEW S, S \subseteq Nat, S # {}
    PROVE  \E i \in S : \A j \in S : i <= j
<1>1. \E i \in S : \A j \in S : ~(<<j, i>> \in OpToRel(<, Nat))
  BY NatLessThanWellFounded, WFMin
<1>2. \A i, j \in Nat : j < i => <<j, i>> \in OpToRel(<, Nat)
  BY DEF OpToRel
<1>3. PICK i \in S : \A j \in S : ~(<<j, i>> \in OpToRel(<, Nat))
  BY <1>1, Zenon
<1>4. \A j \in S : ~(j < i)
  BY <1>2, <1>3
<1> QED
  BY <1>4

-----------------------------------------------------------------------------
(* The supervisor.                                                         *)

InCall(ci) == {c \in Callers : inside[c] = ci}

LEMMA CallersFinite == \A ci : IsFiniteSet(InCall(ci)) /\ Cardinality(InCall(ci)) \in Nat
  BY CallsAssumption, FS_Subset, FS_CardinalityType DEF InCall

\* What running[ci] counts goes up by one.
LEMMA EnterCall ==
    ASSUME NEW c \in Callers, NEW ci \in CallInfos, SupInv, inside[c] = Outside,
           inside' = [inside EXCEPT ![c] = ci]
    PROVE  /\ Cardinality(InCall(ci)') = Cardinality(InCall(ci)) + 1
           /\ \A k \in CallInfos \ {ci} : InCall(k)' = InCall(k)
           /\ inside' \in [Callers -> CallInfos \cup {Outside}]
<1>1. inside \in [Callers -> CallInfos \cup {Outside}] /\ ci # Outside
  BY CallsAssumption DEF SupInv, SupTypeOK
<1>2. InCall(ci)' = InCall(ci) \cup {c} /\ c \notin InCall(ci)
  BY <1>1 DEF InCall
<1>3. \A k \in CallInfos \ {ci} : InCall(k)' = InCall(k)
  BY <1>1, CallsAssumption DEF InCall
<1>4. Cardinality(InCall(ci) \cup {c}) = Cardinality(InCall(ci)) + 1
  BY <1>2, CallersFinite, FS_AddElement
<1> QED
  BY <1>1, <1>2, <1>3, <1>4

LEMMA StartStep ==
    ASSUME NEW c \in Callers, NEW ci \in CallInfos, SupInv, inside[c] = Outside, Start(c, ci)
    PROVE  SupInv' /\ inside' = [inside EXCEPT ![c] = ci]
<1>1. /\ ~cancelled /\ inside' = [inside EXCEPT ![c] = ci]
      /\ running' = Put(running, ci, IF ci \in DOMAIN running THEN running[ci] + 1 ELSE 1)
      /\ UNCHANGED <<cancelled, release, locked>>
  BY DEF Start
<1>2. /\ Cardinality(InCall(ci)') = Cardinality(InCall(ci)) + 1
      /\ \A k \in CallInfos \ {ci} : InCall(k)' = InCall(k)
      /\ inside' \in [Callers -> CallInfos \cup {Outside}]
  BY <1>1, EnterCall
<1>3. /\ DOMAIN running = {inside[d] : d \in Callers} \ {Outside}
      /\ \A k \in DOMAIN running : running[k] = Cardinality(InCall(k))
      /\ inside \in [Callers -> CallInfos \cup {Outside}]
  BY DEF SupInv, CountsAreRight, SupTypeOK, InCall
<1>4. DOMAIN running' = DOMAIN running \cup {ci}
  BY <1>1, PutFacts
<1>5. DOMAIN running' = {inside'[d] : d \in Callers} \ {Outside}
  BY <1>1, <1>3, <1>4, CallsAssumption
<1>9. \A v : running' = Put(running, ci, v) =>
          running'[ci] = v /\ \A k \in DOMAIN running : k # ci => running'[k] = running[k]
  BY DEF Put
<1>6. ASSUME NEW k \in DOMAIN running'
      PROVE  running'[k] = Cardinality(InCall(k)')
  <2>1. CASE k # ci
    <3>1. k \in DOMAIN running /\ k \in CallInfos
      BY <1>3, <1>4, <2>1
    <3>2. running'[k] = running[k]
      BY <1>1, <1>9, <2>1, <3>1
    <3> QED
      BY <1>2, <1>3, <2>1, <3>1, <3>2
  <2>2. CASE k = ci /\ ci \in DOMAIN running
    <3>1. running'[ci] = running[ci] + 1
      BY <1>1, <1>9, <2>2
    <3> QED
      BY <1>2, <1>3, <2>2, <3>1
  <2>3. CASE k = ci /\ ci \notin DOMAIN running
    <3>1. InCall(ci) = {}
      BY <1>3, <2>3, CallsAssumption DEF InCall
    <3>2. running'[ci] = 1
      BY <1>1, <1>9, <2>3
    <3> QED
      BY <1>2, <2>3, <3>1, <3>2, FS_EmptySet
  <2> QED
    BY <2>1, <2>2, <2>3
<1>7. CountsAreRight'
  BY <1>5, <1>6 DEF CountsAreRight, InCall
<1>8. SupTypeOK' /\ LockCoversCalls' /\ SleepsForACall' /\ (~locked => release = "released")'
  BY <1>1, <1>2 DEF SupInv, SupTypeOK, LockCoversCalls, SleepsForACall
<1> QED
  BY <1>1, <1>7, <1>8 DEF SupInv

LEMMA DoneStep ==
    ASSUME NEW c \in Callers, SupInv, inside[c] # Outside, Done(c)
    PROVE  SupInv' /\ inside' = [inside EXCEPT ![c] = Outside]
<1> DEFINE ci == inside[c]
<1>1. /\ inside' = [inside EXCEPT ![c] = Outside]
      /\ running' = IF running[ci] > 1 THEN [running EXCEPT ![ci] = @ - 1] ELSE Delete(running, ci)
      /\ release' = IF DOMAIN running' = {} /\ release = "asleep" THEN "waiting" ELSE release
      /\ UNCHANGED <<cancelled, locked>>
  BY DEF Done
<1>3. /\ DOMAIN running = {inside[d] : d \in Callers} \ {Outside}
      /\ \A k \in DOMAIN running : running[k] = Cardinality(InCall(k))
      /\ inside \in [Callers -> CallInfos \cup {Outside}]
  BY DEF SupInv, CountsAreRight, SupTypeOK, InCall
<1>2. PICK k0 \in CallInfos : k0 = ci
  BY <1>3
<1>4. /\ c \in InCall(k0) /\ k0 \in DOMAIN running /\ running[k0] = Cardinality(InCall(k0))
      /\ Cardinality(InCall(k0)) \in Nat /\ IsFiniteSet(InCall(k0)) /\ k0 # Outside
  BY <1>2, <1>3, CallersFinite DEF InCall
<1>5. InCall(k0)' = InCall(k0) \ {c} /\ \A k \in CallInfos \ {k0} : InCall(k)' = InCall(k)
  BY <1>1, <1>2, <1>3, CallsAssumption DEF InCall
<1>6. Cardinality(InCall(k0)') = Cardinality(InCall(k0)) - 1 /\ IsFiniteSet(InCall(k0)')
  BY <1>4, <1>5, FS_RemoveElement
<1>9. DOMAIN running' = {inside'[d] : d \in Callers} \ {Outside}
      /\ \A k \in DOMAIN running' : running'[k] = Cardinality(InCall(k)')
  <2>7. CASE running[ci] > 1
    <3>1. DOMAIN running' = DOMAIN running /\ running'[k0] = running[k0] - 1
          /\ \A k \in DOMAIN running : k # k0 => running'[k] = running[k]
      BY <1>1, <1>2, <1>4, <2>7
    <3>2. InCall(k0)' # {}
      BY <1>2, <1>4, <1>6, <2>7, FS_EmptySet
    <3>3. k0 \in {inside'[d] : d \in Callers}
      BY <3>2 DEF InCall
    <3>4. DOMAIN running' = {inside'[d] : d \in Callers} \ {Outside}
      BY <1>1, <1>2, <1>3, <3>1, <3>3
    <3>5. \A k \in DOMAIN running' : running'[k] = Cardinality(InCall(k)')
      BY <1>3, <1>4, <1>5, <1>6, <3>1
    <3> QED
      BY <3>4, <3>5
  <2>8. CASE ~(running[ci] > 1)
    <3>1. DOMAIN running' = DOMAIN running \ {k0} /\ \A k \in DOMAIN running' : running'[k] = running[k]
      BY <1>1, <1>2, <2>8, DeleteFacts
    <3>2. Cardinality(InCall(k0)') = 0
      <4>1. Cardinality(InCall(k0)) <= 1
        BY <1>2, <1>4, <2>8
      <4>2. Cardinality(InCall(k0)) # 0
        BY <1>4, FS_EmptySet
      <4> QED
        BY <1>4, <1>6, <4>1, <4>2
    <3>3. InCall(k0)' = {}
      BY <1>6, <3>2, FS_EmptySet
    <3>4. DOMAIN running' = {inside'[d] : d \in Callers} \ {Outside}
      <4>1. k0 \notin {inside'[d] : d \in Callers}
        BY <3>3 DEF InCall
      <4> QED
        BY <1>1, <1>2, <1>3, <3>1, <4>1
    <3>5. \A k \in DOMAIN running' : running'[k] = Cardinality(InCall(k)')
      BY <1>3, <1>5, <3>1
    <3> QED
      BY <3>4, <3>5
  <2> QED
    BY <2>7, <2>8
<1>10. CountsAreRight'
  BY <1>9 DEF CountsAreRight, InCall
<1>11. inside' \in [Callers -> CallInfos \cup {Outside}]
  BY <1>1, <1>3
<1>12. release \notin {"waited", "released"} /\ locked
  BY DEF SupInv, LockCoversCalls
<1>13. SupTypeOK' /\ LockCoversCalls' /\ SleepsForACall' /\ (~locked => release = "released")'
  BY <1>1, <1>11, <1>12 DEF SupInv, SupTypeOK, LockCoversCalls, SleepsForACall
<1> QED
  BY <1>1, <1>10, <1>13 DEF SupInv

LEMMA ReleaseKeeps == SupInv /\ (BeginRelease \/ Release) => SupInv' /\ UNCHANGED inside
<1> SUFFICES ASSUME SupInv, BeginRelease \/ Release
             PROVE  SupInv' /\ UNCHANGED inside
  OBVIOUS
<1>1. UNCHANGED <<running, inside>>
  BY DEF BeginRelease, Release, CancelAll, Wait, Unlock
<1>2. CountsAreRight'
  BY <1>1 DEF SupInv, CountsAreRight
<1>3. DOMAIN running = {} => \A c \in Callers : inside[c] = Outside
  BY DEF SupInv, CountsAreRight
<1> USE <1>1, <1>3 DEF SupInv, SupTypeOK, LockCoversCalls, SleepsForACall
<1>4. SupTypeOK' /\ LockCoversCalls' /\ SleepsForACall' /\ (~locked => release = "released")'
  <2>1. CASE BeginRelease
    BY <2>1 DEF BeginRelease
  <2>2. CASE CancelAll
    BY <2>2 DEF CancelAll
  <2>3. CASE Wait
    BY <2>3 DEF Wait
  <2>4. CASE Unlock
    BY <2>4 DEF Unlock
  <2> QED
    BY <2>1, <2>2, <2>3, <2>4 DEF Release
<1> QED
  BY <1>1, <1>2, <1>4 DEF SupInv

LEMMA SupStutter == SupInv /\ UNCHANGED supVars => SupInv'
  BY DEF SupInv, SupTypeOK, CountsAreRight, LockCoversCalls, SleepsForACall, supVars

LEMMA SupInitInv == SupInit => SupInv
<1> SUFFICES ASSUME SupInit
             PROVE  SupInv
  OBVIOUS
<1>1. CountsAreRight
  BY EmptyMapFacts DEF SupInit, CountsAreRight
<1>2. SupTypeOK /\ LockCoversCalls /\ SleepsForACall /\ (~locked => release = "released")
  BY DEF SupInit, SupTypeOK, LockCoversCalls, SleepsForACall
<1> QED
  BY <1>1, <1>2 DEF SupInv

-----------------------------------------------------------------------------
(* The deduction.                                                          *)

DeducerRecords ==
    [once : {"new", "running", "done"},
     pd : {NotDeduced} \cup {Deduced(RootOf[p], SourcesOf[p]) : p \in Paths}]

LEMMA DeducedFacts ==
    /\ NotDeduced.ok = FALSE
    /\ \A root, mb : Deduced(root, mb).ok = TRUE /\ Deduced(root, mb).root = root /\ Deduced(root, mb).mb = mb
    /\ \A mb : Sources(mb).hmd = 0 /\ Sources(mb).mb = mb
    /\ \A i : Deducer(i).hmd = i
  BY DEF NotDeduced, Deduced, Sources, Deducer

LEMMA DeductionTypes ==
    ASSUME DeductionInv
    PROVE  /\ hmds \in Seq(DeducerRecords) /\ Len(hmds) \in Nat /\ DOMAIN hmds = 1 .. Len(hmds)
           /\ path \in [Callers -> Paths \cup {""}]
           /\ hmd \in [Callers -> 0 .. Len(hmds)]
           /\ deduced \in [Callers -> Deductions]
           /\ \A c \in Callers : at[c] \in Requesting => hmd[c] \in 1 .. Len(hmds)
           /\ \A c \in Callers : at[c] # "idle" => path[c] \in Paths
           /\ \A i \in 1 .. Len(hmds) : hmds[i] \in DeducerRecords
<1>1. hmds \in Seq(DeducerRecords)
  BY DEF DeductionInv, DeductionTypeOK, DeducerRecords
<1>2. Len(hmds) \in Nat /\ DOMAIN hmds = 1 .. Len(hmds) /\ \A i \in 1 .. Len(hmds) : hmds[i] \in DeducerRecords
  BY <1>1
<1>3. hmd \in [Callers -> 0 .. Len(hmds)]
  BY DEF DeductionInv, DeductionTypeOK
<1>4. \A c \in Callers : at[c] \in Requesting => hmd[c] # 0
  BY DEF DeductionInv, DeducingOK
<1>5. \A c \in Callers : at[c] \in Requesting => hmd[c] \in 1 .. Len(hmds)
  BY <1>2, <1>3, <1>4
<1> QED
  BY <1>1, <1>2, <1>3, <1>5 DEF DeductionInv, DeductionTypeOK, DeducingOK

\* A deducer is done, or its request is made.
LEMMA OnceFacts ==
    ASSUME hmds \in Seq(DeducerRecords), NEW i \in 1 .. Len(hmds), NEW o \in {"new", "running", "done"},
           hmds' = [hmds EXCEPT ![i].once = o]
    PROVE  /\ hmds' \in Seq(DeducerRecords) /\ Len(hmds') = Len(hmds)
           /\ \A j \in 1 .. Len(hmds) : hmds'[j].pd = hmds[j].pd
<1>1. hmds[i] \in DeducerRecords
  OBVIOUS
<1>2. [hmds[i] EXCEPT !.once = o] \in DeducerRecords /\ [hmds[i] EXCEPT !.once = o].pd = hmds[i].pd
  BY <1>1 DEF DeducerRecords
<1>3. hmds' = [hmds EXCEPT ![i] = [hmds[i] EXCEPT !.once = o]]
  OBVIOUS
<1> DEFINE e == [hmds[i] EXCEPT !.once = o]
<1> HIDE DEF e
<1>4. /\ [hmds EXCEPT ![i] = e] \in Seq(DeducerRecords) /\ Len([hmds EXCEPT ![i] = e]) = Len(hmds)
      /\ \A j \in 1 .. Len(hmds) : [hmds EXCEPT ![i] = e][j] = IF j = i THEN e ELSE hmds[j]
  BY <1>2, ExceptSeq DEF e
<1> QED
  BY <1>2, <1>3, <1>4 DEF e

LEMMA PdFacts ==
    ASSUME hmds \in Seq(DeducerRecords), NEW i \in 1 .. Len(hmds), NEW p \in Paths,
           hmds' = [hmds EXCEPT ![i].pd = Deduced(RootOf[p], SourcesOf[p])]
    PROVE  /\ hmds' \in Seq(DeducerRecords) /\ Len(hmds') = Len(hmds)
           /\ hmds'[i].pd = Deduced(RootOf[p], SourcesOf[p])
           /\ \A j \in 1 .. Len(hmds) : j # i => hmds'[j] = hmds[j]
<1> DEFINE pd == Deduced(RootOf[p], SourcesOf[p])
           e == [hmds[i] EXCEPT !.pd = pd]
<1>1. hmds[i] \in DeducerRecords
  OBVIOUS
<1>2. e \in DeducerRecords /\ e.pd = pd
  <2>1. pd \in {NotDeduced} \cup {Deduced(RootOf[q], SourcesOf[q]) : q \in Paths}
    OBVIOUS
  <2> HIDE DEF pd
  <2> QED
    BY <1>1, <2>1 DEF DeducerRecords
<1>3. hmds' = [hmds EXCEPT ![i] = e]
  OBVIOUS
<1> HIDE DEF e, pd
<1>4. /\ [hmds EXCEPT ![i] = e] \in Seq(DeducerRecords) /\ Len([hmds EXCEPT ![i] = e]) = Len(hmds)
      /\ \A j \in 1 .. Len(hmds) : [hmds EXCEPT ![i] = e][j] = IF j = i THEN e ELSE hmds[j]
  BY <1>2, ExceptSeq
<1> QED
  BY <1>2, <1>3, <1>4 DEF pd

\* What has nothing to do with the deduction leaves it as it is.
LEMMA DeductionFrame ==
    ASSUME DeductionInv, NEW c \in Callers, UNCHANGED <<rootxt, hmds>>,
           \A d \in Callers \ {c} : /\ at'[d] = at[d] /\ path'[d] = path[d]
                                    /\ hmd'[d] = hmd[d] /\ deduced'[d] = deduced[d],
           path' \in [Callers -> Paths \cup {""}], hmd' \in [Callers -> 0 .. Len(hmds)],
           deduced' \in [Callers -> Deductions],
           at'[c] \notin Requesting \cup {"deduced"}, at'[c] = "idle" \/ path'[c] \in Paths
    PROVE  DeductionInv'
<1>1. DeductionTypeOK' /\ EntriesOK'
  BY DEF DeductionInv, DeductionTypeOK, EntriesOK
<1>2. RootsAreRight'
  BY DEF DeductionInv, RootsAreRight
<1>3. (\A d \in Callers : DeducingOK(d))'
  BY DEF DeductionInv, DeducingOK, Requesting
<1>4. (\A i \in 1 .. Len(hmds) : IsOfOneRoot(i))'
  <2> SUFFICES ASSUME NEW i \in 1 .. Len(hmds)
               PROVE  IsOfOneRoot(i)'
    OBVIOUS
  <2>1. PICK p \in Paths :
            /\ \A d \in Callers : at[d] \in Requesting /\ hmd[d] = i => RootOf[path[d]] = RootOf[p]
            /\ \A x \in DOMAIN rootxt : rootxt[x].hmd = i => RootOf[x] = RootOf[p]
            /\ hmds[i].pd.ok => hmds[i].pd.root = RootOf[p]
    BY DEF DeductionInv, IsOfOneRoot
  <2>2. \A d \in Callers : at'[d] \in Requesting /\ hmd'[d] = i => RootOf[path'[d]] = RootOf[p]
    BY <2>1
  <2> QED
    BY <2>1, <2>2 DEF IsOfOneRoot
<1> QED
  BY <1>1, <1>2, <1>3, <1>4 DEF DeductionInv

\* deduceRootPath returns pd to c.
LEMMA ReturnStep ==
    ASSUME DeductionInv, NEW c \in Callers, NEW pd \in Deductions, at[c] # "idle",
           DOMAIN at = Callers, Return(c, pd),
           pd.ok => pd.root = RootOf[path[c]],
           UNCHANGED <<path, hmd>>,
           hmds' \in Seq(DeducerRecords), Len(hmds') = Len(hmds),
           \A i \in 1 .. Len(hmds) : hmds'[i].pd = hmds[i].pd,
           \A x \in DOMAIN rootxt' :
               \/ x \in DOMAIN rootxt /\ rootxt'[x] = rootxt[x]
               \/ /\ rootxt'[x].hmd = 0
                  /\ \E p, q \in Paths : x = RootOf[p] /\ rootxt'[x].mb = SourcesOf[q]
    PROVE  DeductionInv'
<1>1. /\ at' = [at EXCEPT ![c] = "deduced"] /\ deduced' = [deduced EXCEPT ![c] = pd]
      /\ deduced \in [Callers -> Deductions] /\ path[c] \in Paths
  BY DeductionTypes DEF Return, GoTo
<1>2. DeductionTypeOK'
  <2>1. \A x \in DOMAIN rootxt : rootxt[x].hmd \in 0 .. Len(hmds)
    BY DEF DeductionInv, DeductionTypeOK
  <2>2. Len(hmds) \in Nat
    BY DeductionTypes
  <2>3. \A x \in DOMAIN rootxt' : rootxt'[x].hmd \in 0 .. Len(hmds')
    BY <2>1, <2>2
  <2> QED
    BY <2>3, DeductionTypes DEF DeductionTypeOK, DeducerRecords
<1>3. EntriesOK'
  BY DEF DeductionInv, EntriesOK
<1>4. RootsAreRight' /\ deduced' \in [Callers -> Deductions]
  BY <1>1 DEF DeductionInv, RootsAreRight
<1>5. (\A d \in Callers : DeducingOK(d))'
  <2>1. \A d \in Callers : at[d] \in Requesting => hmd[d] \in 1 .. Len(hmds)
    BY DeductionTypes
  <2> QED
    BY <1>1, <2>1 DEF DeductionInv, DeducingOK, Requesting
<1>6. (\A i \in 1 .. Len(hmds) : IsOfOneRoot(i))'
  <2> SUFFICES ASSUME NEW i \in 1 .. Len(hmds)
               PROVE  IsOfOneRoot(i)'
    OBVIOUS
  <2>1. PICK p \in Paths :
            /\ \A d \in Callers : at[d] \in Requesting /\ hmd[d] = i => RootOf[path[d]] = RootOf[p]
            /\ \A x \in DOMAIN rootxt : rootxt[x].hmd = i => RootOf[x] = RootOf[p]
            /\ hmds[i].pd.ok => hmds[i].pd.root = RootOf[p]
    BY DEF DeductionInv, IsOfOneRoot
  <2>2. \A d \in Callers : at'[d] \in Requesting /\ hmd'[d] = i => RootOf[path'[d]] = RootOf[p]
    BY <1>1, <2>1 DEF Requesting
  <2>3. \A x \in DOMAIN rootxt' : rootxt'[x].hmd = i => RootOf[x] = RootOf[p]
    BY <2>1
  <2> QED
    BY <2>1, <2>2, <2>3 DEF IsOfOneRoot
<1> QED
  BY <1>2, <1>3, <1>4, <1>5, <1>6 DEF DeductionInv

\* The entry that is found for a path is for its root, or for a path that has it.
LEMMA PrefixFacts ==
    ASSUME DeductionInv, NEW p \in Paths, Known(p) # {}
    PROVE  /\ LongestPrefix(p) \in DOMAIN rootxt
           /\ rootxt[LongestPrefix(p)].hmd \in 0 .. Len(hmds)
           /\ rootxt[LongestPrefix(p)].hmd = 0 =>
                 /\ LongestPrefix(p) = RootOf[p]
                 /\ \E q \in Paths : rootxt[LongestPrefix(p)].mb = SourcesOf[q]
           /\ rootxt[LongestPrefix(p)].hmd # 0 => RootOf[LongestPrefix(p)] = RootOf[p]
<1> DEFINE i == CHOOSE i \in Known(p) : \A j \in Known(p) : i <= j
<1>1. Known(p) \subseteq Nat
  BY DeductionAssumption DEF Known
<1>2. i \in Known(p)
  BY <1>1, LeastOf
<1>3. LongestPrefix(p) = Above[p][i]
  BY DEF LongestPrefix
<1> HIDE DEF i
<1>4. i \in DOMAIN Above[p] /\ LongestPrefix(p) \in DOMAIN rootxt
  BY <1>2, <1>3 DEF Known
<1>5. rootxt[LongestPrefix(p)].hmd \in 0 .. Len(hmds)
  BY <1>4 DEF DeductionInv, DeductionTypeOK
<1>6. ASSUME rootxt[LongestPrefix(p)].hmd = 0
      PROVE  LongestPrefix(p) = RootOf[p] /\ \E q \in Paths : rootxt[LongestPrefix(p)].mb = SourcesOf[q]
  <2>1. PICK p1, q \in Paths : LongestPrefix(p) = RootOf[p1] /\ rootxt[LongestPrefix(p)].mb = SourcesOf[q]
    BY <1>4, <1>6 DEF DeductionInv, EntriesOK
  <2>2. RootOf[p1] = RootOf[p]
    BY <1>3, <1>4, <2>1, DeductionAssumption
  <2> QED
    BY <2>1, <2>2
<1>7. ASSUME rootxt[LongestPrefix(p)].hmd # 0
      PROVE  RootOf[LongestPrefix(p)] = RootOf[p]
  <2>1. LongestPrefix(p) \in Paths
    BY <1>4, <1>7 DEF DeductionInv, EntriesOK
  <2> QED
    BY <1>3, <1>4, <2>1, DeductionAssumption
<1> QED
  BY <1>4, <1>5, <1>6, <1>7

LEMMA FindEntryStep ==
    ASSUME DeductionInv, NEW c \in Callers, DOMAIN at = Callers, FindEntry(c)
    PROVE  DeductionInv'
<1> DEFINE prefix == LongestPrefix(path[c])
           entry == rootxt[prefix]
<1>1. /\ at[c] = "looking" /\ Known(path[c]) # {} /\ UNCHANGED <<rootxt, hmds, path>>
      /\ \/ entry.hmd = 0 /\ Return(c, Deduced(prefix, entry.mb)) /\ UNCHANGED hmd
         \/ entry.hmd # 0 /\ GoTo(c, "once") /\ hmd' = [hmd EXCEPT ![c] = entry.hmd] /\ UNCHANGED deduced
  BY DEF FindEntry
<1>2. path[c] \in Paths
  BY <1>1, DeductionTypes
<1>3. /\ prefix \in DOMAIN rootxt /\ entry.hmd \in 0 .. Len(hmds)
      /\ entry.hmd = 0 => prefix = RootOf[path[c]] /\ \E q \in Paths : entry.mb = SourcesOf[q]
      /\ entry.hmd # 0 => RootOf[prefix] = RootOf[path[c]]
  BY <1>1, <1>2, PrefixFacts
<1> HIDE DEF prefix
<1>4. CASE entry.hmd = 0
  <2>1. Deduced(prefix, entry.mb) \in Deductions
    BY <1>2, <1>3, <1>4 DEF Deductions
  <2>2. Deduced(prefix, entry.mb).root = RootOf[path[c]]
    BY <1>3, <1>4, DeducedFacts
  <2>3. /\ hmds' \in Seq(DeducerRecords) /\ Len(hmds') = Len(hmds)
        /\ \A i \in 1 .. Len(hmds) : hmds'[i].pd = hmds[i].pd
    BY <1>1, DeductionTypes
  <2>4. at[c] # "idle" /\ Return(c, Deduced(prefix, entry.mb)) /\ UNCHANGED <<path, hmd>>
    BY <1>1, <1>4
  <2>5. \A x \in DOMAIN rootxt' :
            \/ x \in DOMAIN rootxt /\ rootxt'[x] = rootxt[x]
            \/ /\ rootxt'[x].hmd = 0
               /\ \E p, q \in Paths : x = RootOf[p] /\ rootxt'[x].mb = SourcesOf[q]
    BY <1>1
  <2> HIDE DEF entry
  <2> QED
    BY <2>1, <2>2, <2>3, <2>4, <2>5, ReturnStep
<1>5. CASE entry.hmd # 0
  <2>1. /\ at' = [at EXCEPT ![c] = "once"] /\ hmd' = [hmd EXCEPT ![c] = entry.hmd]
        /\ UNCHANGED <<rootxt, hmds, path, deduced>>
    BY <1>1, <1>5 DEF GoTo
  <2>2. hmd' \in [Callers -> 0 .. Len(hmds)] /\ hmd'[c] = entry.hmd
    BY <1>3, <2>1, DeductionTypes
  <2> HIDE DEF entry
  <2>7. DeductionTypeOK'
    BY <2>1, <2>2 DEF DeductionInv, DeductionTypeOK
  <2>8. EntriesOK'
    BY <2>1 DEF DeductionInv, EntriesOK
  <2>9. RootsAreRight'
    BY <1>1, <2>1 DEF DeductionInv, RootsAreRight
  <2>4. (\A d \in Callers : DeducingOK(d))'
    BY <1>2, <1>5, <2>1, <2>2 DEF DeductionInv, DeducingOK, Requesting
  <2>5. (\A i \in 1 .. Len(hmds) : IsOfOneRoot(i))'
    <3> SUFFICES ASSUME NEW i \in 1 .. Len(hmds)
                 PROVE  IsOfOneRoot(i)'
      BY <2>1
    <3>1. PICK p \in Paths :
              /\ \A d \in Callers : at[d] \in Requesting /\ hmd[d] = i => RootOf[path[d]] = RootOf[p]
              /\ \A x \in DOMAIN rootxt : rootxt[x].hmd = i => RootOf[x] = RootOf[p]
              /\ hmds[i].pd.ok => hmds[i].pd.root = RootOf[p]
      BY DEF DeductionInv, IsOfOneRoot
    <3>2. \A d \in Callers : at'[d] \in Requesting /\ hmd'[d] = i => RootOf[path'[d]] = RootOf[p]
      BY <1>3, <1>5, <2>1, <2>2, <3>1 DEF entry
    <3> QED
      BY <2>1, <3>1, <3>2 DEF IsOfOneRoot
  <2>6. deduced' \in [Callers -> Deductions]
    BY <2>1, DeductionTypes
  <2> QED
    BY <2>1, <2>4, <2>5, <2>6, <2>7, <2>8, <2>9 DEF DeductionInv
<1> QED
  BY <1>4, <1>5

LEMMA NewDeducerStep ==
    ASSUME DeductionInv, NEW c \in Callers, DOMAIN at = Callers, NewDeducer(c)
    PROVE  DeductionInv'
<1> DEFINE new == [once |-> "new", pd |-> NotDeduced]
           n == Len(hmds) + 1
<1>1. /\ at[c] = "unknown" /\ path[c] \in Paths
      /\ hmds' = Append(hmds, new) /\ rootxt' = Put(rootxt, path[c], Deducer(Len(hmds')))
      /\ hmd' = [hmd EXCEPT ![c] = Len(hmds')] /\ at' = [at EXCEPT ![c] = "once"]
      /\ UNCHANGED <<path, deduced>>
  BY DeductionAssumption DEF NewDeducer, GoTo
<1>2. hmds \in Seq(DeducerRecords) /\ Len(hmds) \in Nat /\ DOMAIN hmds = 1 .. Len(hmds)
  BY DeductionTypes
<1>3. new \in DeducerRecords
  BY DEF DeducerRecords
<1> HIDE DEF new
<1>4. /\ hmds' \in Seq(DeducerRecords) /\ Len(hmds') = n /\ n \in Nat
      /\ hmds'[n] = new /\ \A i \in 1 .. Len(hmds) : hmds'[i] = hmds[i]
  BY <1>1, <1>2, <1>3, AppendFacts
<1>5. /\ DOMAIN rootxt' = DOMAIN rootxt \cup {path[c]}
      /\ rootxt'[path[c]].hmd = n
      /\ \A x \in DOMAIN rootxt : x # path[c] => rootxt'[x] = rootxt[x]
  BY <1>1, <1>4, DeducedFacts DEF Put
<1>6. /\ \A x \in DOMAIN rootxt : rootxt[x].hmd \in 0 .. Len(hmds)
      /\ hmd \in [Callers -> 0 .. Len(hmds)] /\ 0 .. Len(hmds) \subseteq 0 .. n
      /\ n \notin 0 .. Len(hmds) /\ n \in 0 .. n
  <2>1. \A x \in DOMAIN rootxt : rootxt[x].hmd \in 0 .. Len(hmds)
    BY DEF DeductionInv, DeductionTypeOK
  <2>2. /\ 0 .. Len(hmds) \subseteq 0 .. n
        /\ n \notin 0 .. Len(hmds) /\ n \in 0 .. n
    BY <1>2
  <2> QED
    BY <2>1, <2>2, DeductionTypes
<1> HIDE DEF n
<1>7. hmd' \in [Callers -> 0 .. n] /\ hmd'[c] = n /\ \A d \in Callers \ {c} : hmd'[d] = hmd[d]
  BY <1>1, <1>4, <1>6
<1>8. DeductionTypeOK'
  <2>1. \A x \in DOMAIN rootxt' : rootxt'[x].hmd \in 0 .. n
    BY <1>5, <1>6
  <2> QED
    BY <1>1, <1>4, <1>7, <2>1 DEF DeductionInv, DeductionTypeOK, DeducerRecords
<1>9. EntriesOK'
  <2>1. n # 0
    BY <1>2 DEF n
  <2> QED
    BY <1>1, <1>5, <2>1 DEF DeductionInv, EntriesOK
<1>10. RootsAreRight' /\ deduced' \in [Callers -> Deductions]
  BY <1>1, DeductionTypes DEF DeductionInv, RootsAreRight
<1>11. (\A d \in Callers : DeducingOK(d))'
  <2>1. n # 0
    BY <1>2 DEF n
  <2>2. \A d \in Callers : at[d] \in Requesting => hmd[d] \in 1 .. Len(hmds)
    BY DeductionTypes
  <2> QED
    BY <1>1, <1>4, <1>7, <2>1, <2>2 DEF DeductionInv, DeducingOK, Requesting
<1>12. ASSUME NEW i \in 1 .. n
       PROVE  IsOfOneRoot(i)'
  <2>1. CASE i = n
    <3>1. \A d \in Callers : at'[d] \in Requesting /\ hmd'[d] = n => d = c
      BY <1>6, <1>7
    <3>2. \A x \in DOMAIN rootxt' : rootxt'[x].hmd = n => x = path[c]
      BY <1>5, <1>6
    <3>3. hmds'[n].pd.ok = FALSE
      BY <1>4, DeducedFacts DEF new
    <3> QED
      BY <1>1, <2>1, <3>1, <3>2, <3>3 DEF IsOfOneRoot
  <2>2. CASE i # n
    <3>1. i \in 1 .. Len(hmds)
      BY <1>2, <2>2 DEF n
    <3>2. PICK p \in Paths :
              /\ \A d \in Callers : at[d] \in Requesting /\ hmd[d] = i => RootOf[path[d]] = RootOf[p]
              /\ \A x \in DOMAIN rootxt : rootxt[x].hmd = i => RootOf[x] = RootOf[p]
              /\ hmds[i].pd.ok => hmds[i].pd.root = RootOf[p]
      BY <3>1 DEF DeductionInv, IsOfOneRoot
    <3>3. \A d \in Callers : at'[d] \in Requesting /\ hmd'[d] = i => RootOf[path'[d]] = RootOf[p]
      BY <1>1, <1>7, <2>2, <3>2
    <3>4. \A x \in DOMAIN rootxt' : rootxt'[x].hmd = i => RootOf[x] = RootOf[p]
      BY <1>5, <2>2, <3>2
    <3> QED
      BY <1>4, <3>1, <3>2, <3>3, <3>4 DEF IsOfOneRoot
  <2> QED
    BY <2>1, <2>2
<1> QED
  BY <1>4, <1>8, <1>9, <1>10, <1>11, <1>12 DEF DeductionInv

\* The request begins, or its answer is there.
LEMMA RequestStep ==
    ASSUME DeductionInv, NEW c \in Callers, DOMAIN at = Callers,
           \/ /\ at[c] = "once" /\ GoTo(c, "asking")
              /\ hmds' = [hmds EXCEPT ![hmd[c]].once = "running"]
           \/ /\ at[c] = "asking" /\ GoTo(c, "storing")
              /\ hmds' = [hmds EXCEPT ![hmd[c]].pd = Deduced(RootOf[path[c]], SourcesOf[path[c]])],
           UNCHANGED <<rootxt, path, hmd, deduced>>
    PROVE  DeductionInv'
<1>1. /\ at[c] \in Requesting /\ at'[c] \in Requesting /\ \A d \in Callers \ {c} : at'[d] = at[d]
      /\ at'[c] \in {"asking", "storing"}
  BY DEF GoTo, Requesting
<1>2. hmds \in Seq(DeducerRecords) /\ path[c] \in Paths /\ hmd[c] \in 1 .. Len(hmds)
  BY <1>1, DeductionTypes DEF Requesting
<1>3. /\ hmds' \in Seq(DeducerRecords) /\ Len(hmds') = Len(hmds)
      /\ \A j \in 1 .. Len(hmds) : j # hmd[c] => hmds'[j].pd = hmds[j].pd
      /\ \/ hmds'[hmd[c]].pd = hmds[hmd[c]].pd /\ at'[c] = "asking"
         \/ hmds'[hmd[c]].pd = Deduced(RootOf[path[c]], SourcesOf[path[c]])
  <2>1. CASE hmds' = [hmds EXCEPT ![hmd[c]].once = "running"] /\ GoTo(c, "asking")
    BY <1>1, <1>2, <2>1, OnceFacts DEF GoTo
  <2>2. CASE hmds' = [hmds EXCEPT ![hmd[c]].pd = Deduced(RootOf[path[c]], SourcesOf[path[c]])]
    BY <1>1, <1>2, <2>2, PdFacts
  <2> QED
    BY <2>1, <2>2
<1>4. DeductionTypeOK' /\ EntriesOK' /\ deduced' \in [Callers -> Deductions]
  BY <1>3 DEF DeductionInv, DeductionTypeOK, EntriesOK, DeducerRecords
<1>5. RootsAreRight'
  BY <1>1 DEF DeductionInv, RootsAreRight
<1>6. (\A d \in Callers : DeducingOK(d))'
  <2>1. \A d \in Callers : at[d] \in Requesting => hmd[d] \in 1 .. Len(hmds)
    BY DeductionTypes
  <2>2. \A j \in 1 .. Len(hmds) : hmds[j].pd.ok => hmds'[j].pd.ok
    BY <1>3, DeducedFacts
  <2>3. at'[c] = "storing" => hmds'[hmd[c]].pd.ok
    BY <1>3, DeducedFacts
  <2> QED
    BY <1>1, <1>2, <2>1, <2>2, <2>3 DEF DeductionInv, DeducingOK, Requesting
<1>7. ASSUME NEW i \in 1 .. Len(hmds)
      PROVE  IsOfOneRoot(i)'
  <2>1. PICK p \in Paths :
            /\ \A d \in Callers : at[d] \in Requesting /\ hmd[d] = i => RootOf[path[d]] = RootOf[p]
            /\ \A x \in DOMAIN rootxt : rootxt[x].hmd = i => RootOf[x] = RootOf[p]
            /\ hmds[i].pd.ok => hmds[i].pd.root = RootOf[p]
    BY DEF DeductionInv, IsOfOneRoot
  <2>2. hmds'[i].pd.ok => hmds'[i].pd.root = RootOf[p]
    BY <1>1, <1>3, <2>1, DeducedFacts
  <2> QED
    BY <1>1, <2>1, <2>2 DEF IsOfOneRoot
<1> QED
  BY <1>3, <1>4, <1>5, <1>6, <1>7 DEF DeductionInv

\* A path that a rule knows.
LEMMA KnownPathStep ==
    ASSUME DeductionInv, NEW c \in Callers, DOMAIN at = Callers, DeduceKnownPath(c)
    PROVE  DeductionInv'
<1> DEFINE p == path[c]
           pd == Deduced(RootOf[p], SourcesOf[p])
<1>1. p \in Paths /\ at[c] # "idle" /\ UNCHANGED <<hmds, path, hmd>>
  BY DeductionTypes DEF DeduceKnownPath
<1>2. /\ hmds' \in Seq(DeducerRecords) /\ Len(hmds') = Len(hmds)
      /\ \A i \in 1 .. Len(hmds) : hmds'[i].pd = hmds[i].pd
  BY <1>1, DeductionTypes
<1>3. CASE Return(c, NotDeduced) /\ UNCHANGED rootxt
  <2>1. NotDeduced \in Deductions /\ ~NotDeduced.ok
    BY DeducedFacts DEF Deductions
  <2>2. \A x \in DOMAIN rootxt' : x \in DOMAIN rootxt /\ rootxt'[x] = rootxt[x]
    BY <1>3
  <2> QED
    BY <1>1, <1>2, <1>3, <2>1, <2>2, ReturnStep
<1>4. CASE Return(c, pd) /\ rootxt' = Put(rootxt, RootOf[p], Sources(SourcesOf[p]))
  <2>1. pd \in Deductions /\ pd.root = RootOf[path[c]]
    BY <1>1, DeducedFacts DEF Deductions
  <2>2. /\ DOMAIN rootxt' = DOMAIN rootxt \cup {RootOf[p]}
        /\ rootxt'[RootOf[p]] = Sources(SourcesOf[p])
        /\ \A x \in DOMAIN rootxt : x # RootOf[p] => rootxt'[x] = rootxt[x]
    BY <1>4 DEF Put
  <2>3. rootxt'[RootOf[p]].hmd = 0 /\ rootxt'[RootOf[p]].mb = SourcesOf[p]
    BY <2>2, DeducedFacts
  <2>4. \A x \in DOMAIN rootxt' :
            \/ x \in DOMAIN rootxt /\ rootxt'[x] = rootxt[x]
            \/ /\ rootxt'[x].hmd = 0
               /\ \E p1, q \in Paths : x = RootOf[p1] /\ rootxt'[x].mb = SourcesOf[q]
    BY <1>1, <2>2, <2>3
  <2> HIDE DEF pd
  <2> QED
    BY <1>1, <1>2, <1>4, <2>1, <2>4, ReturnStep
<1> QED
  BY <1>3, <1>4 DEF DeduceKnownPath

\* What a deducer has found is of the root of whoever uses it.
LEMMA FoundFacts ==
    ASSUME DeductionInv, NEW c \in Callers, at[c] \in Requesting
    PROVE  /\ hmd[c] \in 1 .. Len(hmds) /\ hmds[hmd[c]].pd \in Deductions
           /\ hmds[hmd[c]].pd.ok =>
                 /\ hmds[hmd[c]].pd.root = RootOf[path[c]]
                 /\ \E p \in Paths : hmds[hmd[c]].pd = Deduced(RootOf[p], SourcesOf[p])
<1>1. hmd[c] \in 1 .. Len(hmds) /\ hmds[hmd[c]] \in DeducerRecords
  BY DeductionTypes
<1>2. hmds[hmd[c]].pd \in {NotDeduced} \cup {Deduced(RootOf[p], SourcesOf[p]) : p \in Paths}
  BY <1>1 DEF DeducerRecords
<1>3. hmds[hmd[c]].pd.ok => \E p \in Paths : hmds[hmd[c]].pd = Deduced(RootOf[p], SourcesOf[p])
  BY <1>2, DeducedFacts
<1>4. hmds[hmd[c]].pd \in Deductions
  BY <1>2 DEF Deductions
<1>5. IsOfOneRoot(hmd[c])
  BY <1>1 DEF DeductionInv
<1>6. hmds[hmd[c]].pd.ok => hmds[hmd[c]].pd.root = RootOf[path[c]]
  BY <1>5 DEF IsOfOneRoot
<1> QED
  BY <1>1, <1>3, <1>4, <1>6

LEMMA JoinOnceStep ==
    ASSUME DeductionInv, NEW c \in Callers, DOMAIN at = Callers, JoinOnce(c)
    PROVE  DeductionInv'
<1> DEFINE pd == hmds[hmd[c]].pd
<1>1. at[c] # "idle" /\ at[c] \in Requesting /\ Return(c, pd) /\ UNCHANGED <<rootxt, hmds, path, hmd>>
  BY DEF JoinOnce, Requesting
<1>2. pd \in Deductions /\ (pd.ok => pd.root = RootOf[path[c]])
  BY <1>1, FoundFacts
<1>3. /\ hmds' \in Seq(DeducerRecords) /\ Len(hmds') = Len(hmds)
      /\ \A i \in 1 .. Len(hmds) : hmds'[i].pd = hmds[i].pd
  BY <1>1, DeductionTypes
<1>4. \A x \in DOMAIN rootxt' : x \in DOMAIN rootxt /\ rootxt'[x] = rootxt[x]
  BY <1>1
<1> HIDE DEF pd
<1> QED
  BY <1>1, <1>2, <1>3, <1>4, ReturnStep

LEMMA StoreRootStep ==
    ASSUME DeductionInv, NEW c \in Callers, DOMAIN at = Callers, StoreRoot(c)
    PROVE  DeductionInv'
<1> DEFINE pd == hmds[hmd[c]].pd
<1>1. /\ at[c] = "storing" /\ at[c] \in Requesting /\ Return(c, pd) /\ UNCHANGED <<path, hmd>>
      /\ rootxt' = Put(rootxt, pd.root, Sources(pd.mb))
      /\ hmds' = [hmds EXCEPT ![hmd[c]].once = "done"]
  BY DEF StoreRoot, Requesting
<1>2. pd \in Deductions /\ hmd[c] \in 1 .. Len(hmds) /\ (pd.ok => pd.root = RootOf[path[c]])
  BY <1>1, FoundFacts
<1>3. pd.ok
  BY <1>1 DEF DeductionInv, DeducingOK
<1>4. PICK p \in Paths : pd = Deduced(RootOf[p], SourcesOf[p])
  BY <1>1, <1>3, FoundFacts
<1>5. pd.root = RootOf[p] /\ pd.mb = SourcesOf[p]
  BY <1>4, DeducedFacts
<1>6. hmds \in Seq(DeducerRecords)
  BY DeductionTypes
<1>7. /\ hmds' \in Seq(DeducerRecords) /\ Len(hmds') = Len(hmds)
      /\ \A i \in 1 .. Len(hmds) : hmds'[i].pd = hmds[i].pd
  BY <1>1, <1>2, <1>6, OnceFacts
<1> HIDE DEF pd
<1>8. /\ DOMAIN rootxt' = DOMAIN rootxt \cup {RootOf[p]}
      /\ rootxt'[RootOf[p]] = Sources(SourcesOf[p])
      /\ \A x \in DOMAIN rootxt : x # RootOf[p] => rootxt'[x] = rootxt[x]
  BY <1>1, <1>5 DEF Put
<1>9. rootxt'[RootOf[p]].hmd = 0 /\ rootxt'[RootOf[p]].mb = SourcesOf[p]
  BY <1>8, DeducedFacts
<1>10. \A x \in DOMAIN rootxt' :
            \/ x \in DOMAIN rootxt /\ rootxt'[x] = rootxt[x]
            \/ /\ rootxt'[x].hmd = 0
               /\ \E p1, q \in Paths : x = RootOf[p1] /\ rootxt'[x].mb = SourcesOf[q]
  BY <1>8, <1>9
<1>11. at[c] # "idle"
  BY <1>1
<1> QED
  BY <1>1, <1>2, <1>7, <1>10, <1>11, ReturnStep

\* An error goes to the caller, whether the deducer has been used up or not.
LEMMA NotDeducedStep ==
    ASSUME DeductionInv, NEW c \in Callers, DOMAIN at = Callers, at[c] # "idle", Return(c, NotDeduced),
           UNCHANGED <<rootxt, path, hmd>>,
           UNCHANGED hmds \/ (at[c] \in Requesting /\ hmds' = [hmds EXCEPT ![hmd[c]].once = "done"])
    PROVE  DeductionInv'
<1>1. NotDeduced \in Deductions /\ ~NotDeduced.ok
  BY DeducedFacts DEF Deductions
<1>2. /\ hmds' \in Seq(DeducerRecords) /\ Len(hmds') = Len(hmds)
      /\ \A i \in 1 .. Len(hmds) : hmds'[i].pd = hmds[i].pd
  <2>1. CASE UNCHANGED hmds
    BY <2>1, DeductionTypes
  <2>2. CASE at[c] \in Requesting /\ hmds' = [hmds EXCEPT ![hmd[c]].once = "done"]
    <3>1. hmds \in Seq(DeducerRecords) /\ hmd[c] \in 1 .. Len(hmds)
      BY <2>2, DeductionTypes
    <3> QED
      BY <2>2, <3>1, OnceFacts
  <2> QED
    BY <2>1, <2>2
<1>3. \A x \in DOMAIN rootxt' : x \in DOMAIN rootxt /\ rootxt'[x] = rootxt[x]
  OBVIOUS
<1> QED
  BY <1>1, <1>2, <1>3, ReturnStep

DeducePlaces == {"looking", "unknown", "once", "asking", "storing", "deduced"}

\* Of a step of deduceRootPath the coordinator sees where the caller is, whether
\* it is in a supervised call, and what has been deduced for it.
LEMMA DeduceStep ==
    ASSUME SupInv, DeductionInv, at \in [Callers -> Stages], NEW c \in Callers, Deduce(c),
           inside[c] # Outside <=> at[c] \in {"asking", "opening", "listing"}
    PROVE  /\ SupInv' /\ DeductionInv'
           /\ at[c] \in DeducePlaces /\ at'[c] \in DeducePlaces
           /\ at' = [at EXCEPT ![c] = at'[c]] /\ UNCHANGED path
           /\ \A d \in Callers \ {c} : inside'[d] = inside[d] /\ deduced'[d] = deduced[d]
           /\ inside'[c] # Outside <=> at'[c] = "asking"
<1>1. DOMAIN at = Callers /\ deduced \in [Callers -> Deductions] /\ DOMAIN inside = Callers
  BY DeductionTypes DEF SupInv, SupTypeOK
<1>2. ASSUME NEW w \in DeducePlaces \ {"asking"}, at[c] \in DeducePlaces \ {"asking"},
             UNCHANGED supVars, at' = [at EXCEPT ![c] = w]
      PROVE  SupInv' /\ at'[c] = w /\ UNCHANGED inside /\ inside'[c] = Outside
  <2>1. UNCHANGED inside
    BY <1>2 DEF supVars
  <2> QED
    BY <1>1, <1>2, <2>1, SupStutter DEF DeducePlaces
<1>3. ASSUME NEW w \in DeducePlaces, at' = [at EXCEPT ![c] = w]
      PROVE  at'[c] = w
  BY <1>1, <1>3
<1>4. CASE DeduceIsRefused(c)
  <2>1. /\ at[c] = "looking" /\ Return(c, NotDeduced) /\ UNCHANGED <<supVars, rootxt, hmds, path, hmd>>
        /\ at[c] # "idle"
    BY <1>4 DEF DeduceIsRefused
  <2>3. /\ at[c] # "idle" /\ Return(c, NotDeduced) /\ UNCHANGED <<rootxt, path, hmd>>
        /\ UNCHANGED hmds
    BY <2>1
  <2>2. DeductionInv'
    BY <1>1, <2>3, NotDeducedStep
  <2> QED
    BY <1>1, <1>2, <2>1, <2>2 DEF Return, GoTo, DeducePlaces
<1>5. CASE FindEntry(c)
  <2>1. DeductionInv'
    BY <1>1, <1>5, FindEntryStep
  <2>2. /\ at[c] = "looking" /\ UNCHANGED <<supVars, path>>
        /\ at' = [at EXCEPT ![c] = "deduced"] \/ at' = [at EXCEPT ![c] = "once"]
        /\ UNCHANGED deduced \/ \E pd : deduced' = [deduced EXCEPT ![c] = pd]
    BY <1>5 DEF FindEntry, Return, GoTo
  <2> QED
    BY <1>1, <1>2, <2>1, <2>2 DEF DeducePlaces
<1>6. CASE FindNothing(c)
  <2>1. /\ at[c] = "looking" /\ at' = [at EXCEPT ![c] = "unknown"]
        /\ UNCHANGED <<supVars, rootxt, hmds, path, hmd, deduced>>
    BY <1>6 DEF FindNothing, GoTo
  <2>2. DeductionInv'
    <3>1. /\ path[c] \in Paths /\ path \in [Callers -> Paths \cup {""}]
          /\ hmd \in [Callers -> 0 .. Len(hmds)]
      BY <2>1, DeductionTypes
    <3>2. at'[c] = "unknown" /\ at'[c] \notin Requesting \cup {"deduced"}
      BY <1>1, <2>1 DEF Requesting
    <3> QED
      BY <1>1, <2>1, <3>1, <3>2, DeductionFrame
  <2> QED
    BY <1>1, <1>2, <2>1, <2>2 DEF DeducePlaces
<1>7. CASE DeduceKnownPath(c)
  <2>1. DeductionInv'
    BY <1>1, <1>7, KnownPathStep
  <2>2. /\ at[c] = "unknown" /\ UNCHANGED <<supVars, path>> /\ at' = [at EXCEPT ![c] = "deduced"]
        /\ \E pd : deduced' = [deduced EXCEPT ![c] = pd]
    BY <1>7 DEF DeduceKnownPath, Return, GoTo
  <2> QED
    BY <1>1, <1>2, <2>1, <2>2 DEF DeducePlaces
<1>8. CASE NewDeducer(c)
  <2>1. DeductionInv'
    BY <1>1, <1>8, NewDeducerStep
  <2>2. at[c] = "unknown" /\ UNCHANGED <<supVars, path, deduced>> /\ at' = [at EXCEPT ![c] = "once"]
    BY <1>8 DEF NewDeducer, GoTo
  <2> QED
    BY <1>1, <1>2, <2>1, <2>2 DEF DeducePlaces
<1>9. CASE Ask(c)
  <2>1. /\ at[c] = "once" /\ Start(c, Metadata(path[c])) /\ at' = [at EXCEPT ![c] = "asking"]
        /\ hmds' = [hmds EXCEPT ![hmd[c]].once = "running"]
        /\ GoTo(c, "asking") /\ UNCHANGED <<rootxt, path, hmd, deduced>>
    BY <1>9 DEF Ask, GoTo
  <2>2. DeductionInv'
    BY <1>1, <2>1, RequestStep
  <2>3. Metadata(path[c]) \in CallInfos /\ inside[c] = Outside
    BY <2>1, DeductionTypes, DeductionAssumption
  <2>4. SupInv' /\ inside' = [inside EXCEPT ![c] = Metadata(path[c])]
    BY <2>1, <2>3, StartStep
  <2> QED
    BY <1>1, <2>1, <2>2, <2>3, <2>4, CallsAssumption DEF DeducePlaces
<1>10. CASE AskIsRefused(c)
  <2>1. /\ at[c] = "once" /\ Return(c, NotDeduced) /\ UNCHANGED <<supVars, rootxt, path, hmd>>
        /\ hmds' = [hmds EXCEPT ![hmd[c]].once = "done"]
    BY <1>10 DEF AskIsRefused
  <2>2. DeductionInv'
    BY <1>1, <2>1, NotDeducedStep DEF Requesting
  <2> QED
    BY <1>1, <1>2, <2>1, <2>2 DEF Return, GoTo, DeducePlaces
<1>11. CASE JoinOnce(c)
  <2>1. DeductionInv'
    BY <1>1, <1>11, JoinOnceStep
  <2>2. /\ at[c] = "once" /\ UNCHANGED <<supVars, path>> /\ at' = [at EXCEPT ![c] = "deduced"]
        /\ \E pd : deduced' = [deduced EXCEPT ![c] = pd]
    BY <1>11 DEF JoinOnce, Return, GoTo
  <2> QED
    BY <1>1, <1>2, <2>1, <2>2 DEF DeducePlaces
<1>12. CASE MetadataArrives(c)
  <2>1. /\ at[c] = "asking" /\ Done(c) /\ at' = [at EXCEPT ![c] = "storing"]
        /\ hmds' = [hmds EXCEPT ![hmd[c]].pd = Deduced(RootOf[path[c]], SourcesOf[path[c]])]
        /\ GoTo(c, "storing") /\ UNCHANGED <<rootxt, path, hmd, deduced>>
    BY <1>12 DEF MetadataArrives, GoTo
  <2>2. DeductionInv'
    BY <1>1, <2>1, RequestStep
  <2>3. SupInv' /\ inside' = [inside EXCEPT ![c] = Outside]
    BY <2>1, DoneStep
  <2> QED
    BY <1>1, <2>1, <2>2, <2>3 DEF DeducePlaces
<1>13. CASE MetadataFails(c)
  <2>1. /\ at[c] = "asking" /\ Done(c) /\ Return(c, NotDeduced) /\ UNCHANGED <<rootxt, path, hmd>>
        /\ hmds' = [hmds EXCEPT ![hmd[c]].once = "done"]
    BY <1>13 DEF MetadataFails
  <2>2. DeductionInv'
    BY <1>1, <2>1, NotDeducedStep DEF Requesting
  <2>3. SupInv' /\ inside' = [inside EXCEPT ![c] = Outside]
    BY <2>1, DoneStep
  <2> QED
    BY <1>1, <2>1, <2>2, <2>3 DEF Return, GoTo, DeducePlaces
<1>14. CASE StoreRoot(c)
  <2>1. DeductionInv'
    BY <1>1, <1>14, StoreRootStep
  <2>2. /\ at[c] = "storing" /\ UNCHANGED <<supVars, path>> /\ at' = [at EXCEPT ![c] = "deduced"]
        /\ \E pd : deduced' = [deduced EXCEPT ![c] = pd]
    BY <1>14 DEF StoreRoot, Return, GoTo
  <2> QED
    BY <1>1, <1>2, <2>1, <2>2 DEF DeducePlaces
<1> QED
  BY <1>4, <1>5, <1>6, <1>7, <1>8, <1>9, <1>10, <1>11, <1>12, <1>13, <1>14 DEF Deduce

LEMMA DeductionInitInv == DeductionInit => DeductionInv
<1> SUFFICES ASSUME DeductionInit
             PROVE  DeductionInv
  OBVIOUS
<1>1. DOMAIN rootxt = {}
  BY EmptyMapFacts DEF DeductionInit
<1>2. hmds = <<>> /\ Len(hmds) = 0
  BY DEF DeductionInit
<1>3. NotDeduced \in Deductions
  BY DEF Deductions
<1>4. deduced \in [Callers -> Deductions]
  BY <1>3 DEF DeductionInit
<1>5. /\ \A c \in Callers : at[c] = "idle" /\ path[c] = "" /\ hmd[c] = 0
      /\ path \in [Callers -> Paths \cup {""}] /\ hmd \in [Callers -> {0}]
  BY DEF DeductionInit
<1>6. DeductionTypeOK
  <2>1. hmd \in [Callers -> 0 .. Len(hmds)] /\ \A S : hmds \in Seq(S)
    <3>1. 0 .. Len(hmds) = {0} /\ \A S : <<>> \in Seq(S)
      BY <1>2
    <3> QED
      BY <1>2, <1>5, <3>1
  <2> QED
    BY <1>1, <1>5, <2>1 DEF DeductionTypeOK
<1>7. RootsAreRight /\ EntriesOK /\ \A c \in Callers : DeducingOK(c)
  BY <1>1, <1>5 DEF RootsAreRight, EntriesOK, DeducingOK, Requesting
<1>8. 1 .. Len(hmds) = {}
  BY <1>2
<1> QED
  BY <1>4, <1>6, <1>7, <1>8 DEF DeductionInv

-----------------------------------------------------------------------------
(* The coordinator: what its steps leave alone.                            *)

LEMMA FoldFacts ==
    /\ \A n \in Names : Fold[Fold[n]] = Fold[n] /\ (Fold[n] \in URLs <=> n \in URLs)
    /\ \A p \in Paths : p \in Names /\ Fold[p] \in Names
    /\ \A u \in URLs : u \in Names /\ Fold[u] \in URLs
  BY CoordinatorAssumption DEF Names

LEMMA WholeFacts ==
    ASSUME WholeInv
    PROVE  /\ SupInv /\ DeductionInv /\ CoordTypeOK /\ GatewaysOK /\ NamesOK /\ JoiningOK /\ AnswersOK
           /\ \A c \in Callers : CallOK(c)
           /\ at \in [Callers -> Stages] /\ DOMAIN at = Callers
           /\ \A c \in Callers : at[c] # "idle" => path[c] \in Paths
           /\ path \in [Callers -> Paths \cup {""}] /\ hmd \in [Callers -> 0 .. Len(hmds)]
           /\ deduced \in [Callers -> Deductions]
           /\ inside \in [Callers -> CallInfos \cup {Outside}]
           /\ gateways \in Seq(URLs) /\ Len(gateways) \in Nat /\ DOMAIN gateways = 1 .. Len(gateways)
<1>1. /\ SupInv /\ DeductionInv /\ CoordTypeOK /\ GatewaysOK /\ NamesOK /\ JoiningOK /\ AnswersOK
      /\ \A c \in Callers : CallOK(c)
  BY DEF WholeInv
<1>2. at \in [Callers -> Stages] /\ DOMAIN at = Callers /\ gateways \in Seq(URLs)
  BY <1>1 DEF CoordTypeOK
<1>3. inside \in [Callers -> CallInfos \cup {Outside}]
  BY <1>1 DEF SupInv, SupTypeOK
<1>4. Len(gateways) \in Nat /\ DOMAIN gateways = 1 .. Len(gateways)
  BY <1>2
<1> QED
  BY <1>1, <1>2, <1>3, <1>4, DeductionTypes

\* Whoever has a gateway of a name has it for good.
LEMMA GatewayStays ==
    ASSUME NamesOK, Stays, DOMAIN gateways \subseteq DOMAIN gateways',
           NEW p \in Paths, NEW g, IsGatewayOf(p, g)
    PROVE  IsGatewayOf(p, g)'
<1>1. CASE p \in URLs
  BY <1>1 DEF IsGatewayOf
<1>2. CASE p \notin URLs
  <2>1. Fold[p] \in DOMAIN nameToURL \ URLs /\ g = srcs[nameToURL[Fold[p]]] /\ g \in DOMAIN gateways
    BY <1>2, FoldFacts DEF IsGatewayOf
  <2>2. nameToURL[Fold[p]] \in DOMAIN srcs
    BY <2>1 DEF NamesOK
  <2>3. /\ Fold[p] \in DOMAIN nameToURL' /\ nameToURL'[Fold[p]] = nameToURL[Fold[p]]
        /\ srcs'[nameToURL[Fold[p]]] = srcs[nameToURL[Fold[p]]]
    BY <2>1, <2>2 DEF Stays
  <2> QED
    BY <2>1, <2>3 DEF IsGatewayOf
<1> QED
  BY <1>1, <1>2

LEMMA AnswersStay ==
    ASSUME NamesOK, AnswersOK, Stays, DOMAIN gateways \subseteq DOMAIN gateways', UNCHANGED answers
    PROVE  AnswersOK'
<1> SUFFICES ASSUME NEW a \in answers
             PROVE  \E p \in Paths, g \in DOMAIN gateways' : a = <<p, g>> /\ IsGatewayOf(p, g)'
  BY DEF AnswersOK
<1>1. PICK p \in Paths, g \in DOMAIN gateways : a = <<p, g>> /\ IsGatewayOf(p, g)
  BY DEF AnswersOK
<1>2. IsGatewayOf(p, g)'
  BY <1>1, GatewayStays
<1> QED
  BY <1>1, <1>2

LEMMA MapsStay ==
    ASSUME WholeInv, UNCHANGED <<srcs, nameToURL, gateways>>
    PROVE  GatewaysOK' /\ NamesOK' /\ Stays
  BY DEF WholeInv, GatewaysOK, NamesOK, Stays, Names

\* The calls of others, while a caller takes a step.
Same(d) ==
    /\ at'[d] = at[d] /\ path'[d] = path[d] /\ asked'[d] = asked[d] /\ deduced'[d] = deduced[d]
    /\ gate'[d] = gate[d] /\ inside'[d] = inside[d]

LEMMA CallStays ==
    ASSUME WholeInv, Stays, DOMAIN gateways \subseteq DOMAIN gateways',
           DOMAIN nameToURL \subseteq DOMAIN nameToURL',
           NEW d \in Callers, Same(d),
           writer' = d <=> writer = d,
           writer = d => UNCHANGED <<candidate, srcs>>,
           at[d] \in Setting /\ path[d] \notin URLs => Folded(d) \notin DOMAIN nameToURL',
           \/ mail'[d] = mail[d]
           \/ \E g : /\ at[d] = "waiting" /\ mail'[d] = <<g>>
                     /\ g = NoGateway \/ IsGatewayOf(path[d], g)'
    PROVE  CallOK(d)'
<1>1. /\ CallOK(d) /\ NamesOK /\ (at[d] # "idle" => path[d] \in Paths)
  BY WholeFacts
<1>2. /\ at'[d] = at[d] /\ path'[d] = path[d] /\ asked'[d] = asked[d] /\ deduced'[d] = deduced[d]
      /\ gate'[d] = gate[d] /\ inside'[d] = inside[d]
  BY DEF Same
<1>3. /\ (at[d] \in {"entering", "reading", "joining"} => asked[d] = "source")'
      /\ (at[d] \in Setting \cup {"rechecking"} => asked[d] = "source" /\ deduced[d].ok)'
      /\ (at[d] \in {"trying", "opening"} <=> writer = d)'
      /\ (inside[d] # Outside <=> at[d] \in {"asking", "opening", "listing"})'
  BY <1>1, <1>2 DEF CallOK
<1>4. (at[d] \in Setting /\ path[d] \notin URLs => Folded(d) \notin DOMAIN nameToURL)'
  BY <1>2 DEF Folded
<1>5. (writer = d => candidate \in 1 .. Len(deduced[d].mb))'
  BY <1>1, <1>2 DEF CallOK
<1>6. (at[d] = "opening" => Key(d) \notin DOMAIN srcs)'
  <2>1. at[d] = "opening" => writer = d /\ Key(d) \notin DOMAIN srcs
    BY <1>1 DEF CallOK
  <2> QED
    BY <1>2, <2>1 DEF Key, Candidate, NotFolded, Folded
<1>7. (at[d] \in Serving => IsGatewayOf(path[d], gate[d]))'
  <2> SUFFICES ASSUME at[d] \in Serving
               PROVE  IsGatewayOf(path[d], gate[d])'
    BY <1>2
  <2>1. PICK p, g : p \in Paths /\ p = path[d] /\ g = gate[d]
    BY <1>1 DEF Serving
  <2>2. IsGatewayOf(p, g)
    BY <1>1, <2>1 DEF CallOK
  <2>3. IsGatewayOf(p, g)'
    BY <1>1, <2>1, <2>2, GatewayStays
  <2> QED
    BY <1>2, <2>1, <2>3
<1>8. (at[d] = "upgrading" => Folded(d) \in DOMAIN nameToURL)'
  BY <1>1, <1>2 DEF CallOK, Folded
<1>9. (mail[d] # <<>> => /\ at[d] = "waiting" /\ Len(mail[d]) = 1
                         /\ Head(mail[d]) # NoGateway => IsGatewayOf(path[d], Head(mail[d])))'
  <2>1. CASE mail'[d] = mail[d] /\ mail[d] # <<>>
    <3>1. /\ at[d] = "waiting" /\ Len(mail[d]) = 1
          /\ Head(mail[d]) # NoGateway => IsGatewayOf(path[d], Head(mail[d]))
      BY <1>1, <2>1 DEF CallOK
    <3>2. PICK p, g : p \in Paths /\ p = path[d] /\ g = Head(mail[d])
      BY <1>1, <3>1
    <3>3. g # NoGateway => IsGatewayOf(p, g)'
      BY <1>1, <3>1, <3>2, GatewayStays
    <3> QED
      BY <1>2, <2>1, <3>1, <3>2, <3>3
  <2>2. CASE mail'[d] # mail[d]
    <3>1. PICK g : at[d] = "waiting" /\ mail'[d] = <<g>> /\ (g = NoGateway \/ IsGatewayOf(path[d], g)')
      BY <2>2
    <3>2. Len(<<g>>) = 1 /\ Head(<<g>>) = g
      OBVIOUS
    <3>3. Len(mail'[d]) = 1 /\ Head(mail'[d]) = g
      BY <3>1, <3>2, Zenon
    <3> QED
      BY <1>2, <3>1, <3>3
  <2> QED
    BY <2>1, <2>2
<1> QED
  BY <1>3, <1>4, <1>5, <1>6, <1>7, <1>8, <1>9 DEF CallOK

Pending(d) == at[d] = "waiting" /\ mail[d] = <<>>

LEMMA JoiningStays ==
    ASSUME JoiningOK, UNCHANGED protoSrcs,
           \A d \in Callers : /\ IsFirst(d)' <=> IsFirst(d)
                              /\ Pending(d)' <=> Pending(d)
                              /\ IsFirst(d) \/ Pending(d) => path'[d] = path[d]
    PROVE  JoiningOK'
<1>1. \A d \in Callers : IsFirst(d) \/ Pending(d) => Folded(d)' = Folded(d)
  BY DEF Folded
<1>2. /\ \A n \in DOMAIN protoSrcs :
            /\ protoSrcs[n] \in Seq(Callers)
            /\ \A i \in DOMAIN protoSrcs[n] : Pending(protoSrcs[n][i]) /\ Folded(protoSrcs[n][i]) = n
            /\ \E c \in Callers : IsFirst(c) /\ Folded(c) = n
      /\ \A c \in Callers : IsFirst(c) => Folded(c) \in DOMAIN protoSrcs
      /\ \A c, d \in Callers : IsFirst(c) /\ IsFirst(d) /\ Folded(c) = Folded(d) => c = d
      /\ \A c \in Callers : Pending(c) =>
            Folded(c) \in DOMAIN protoSrcs /\ \E i \in DOMAIN protoSrcs[Folded(c)] : protoSrcs[Folded(c)][i] = c
  BY DEF JoiningOK, Pending
<1>3. \A n \in DOMAIN protoSrcs : \A i \in DOMAIN protoSrcs[n] : protoSrcs[n][i] \in Callers
  BY <1>2, SeqFacts
<1>4. ASSUME NEW n \in DOMAIN protoSrcs, NEW i \in DOMAIN protoSrcs[n]
      PROVE  LET d == protoSrcs'[n][i] IN at'[d] = "waiting" /\ mail'[d] = <<>> /\ Fold[path'[d]] = n
  <2>1. PICK d \in Callers : d = protoSrcs[n][i] /\ Pending(d) /\ Folded(d) = n
    BY <1>2, <1>3
  <2>2. Pending(d)' /\ Folded(d)' = n
    BY <1>1, <2>1
  <2> QED
    BY <2>1, <2>2 DEF Pending, Folded
<1>5. \A n \in DOMAIN protoSrcs' : \E c \in Callers : IsFirst(c)' /\ Folded(c)' = n
  BY <1>1, <1>2
<1>6. /\ \A c \in Callers : IsFirst(c)' => Folded(c)' \in DOMAIN protoSrcs'
      /\ \A c, d \in Callers : IsFirst(c)' /\ IsFirst(d)' /\ Folded(c)' = Folded(d)' => c = d
  BY <1>1, <1>2
<1>7. \A c \in Callers : Pending(c)' =>
          Folded(c)' \in DOMAIN protoSrcs' /\ \E i \in DOMAIN protoSrcs'[Folded(c)'] : protoSrcs'[Folded(c)'][i] = c
  BY <1>1, <1>2
<1> QED
  BY <1>2, <1>4, <1>5, <1>6, <1>7 DEF JoiningOK, Pending, Folded

\* A step of c that touches neither the maps nor the lists.
LEMMA PlainStep ==
    ASSUME WholeInv, NEW c \in Callers, SupInv', DeductionInv', CoordTypeOK',
           UNCHANGED <<srcs, nameToURL, gateways, protoSrcs>>,
           answers' = answers \/ (at[c] = "served" /\ answers' = answers \cup {<<path[c], gate[c]>>}),
           \A d \in Callers \ {c} : /\ Same(d) /\ mail'[d] = mail[d]
                                    /\ writer' = d <=> writer = d
                                    /\ writer = d => candidate' = candidate,
           IsFirst(c)' <=> IsFirst(c), IsFirst(c) => path'[c] = path[c],
           ~Pending(c), ~Pending(c)', CallOK(c)'
    PROVE  WholeInv' /\ Stays
<1>1. GatewaysOK' /\ NamesOK' /\ Stays
  BY MapsStay
<1>2. \A d \in Callers \ {c} : /\ at'[d] = at[d] /\ path'[d] = path[d] /\ asked'[d] = asked[d]
                               /\ IsFirst(d)' <=> IsFirst(d)
                               /\ Pending(d)' <=> Pending(d)
  BY DEF Same, IsFirst, Pending
<1>3. JoiningOK'
  <2>1. \A d \in Callers : /\ IsFirst(d)' <=> IsFirst(d)
                           /\ Pending(d)' <=> Pending(d)
                           /\ IsFirst(d) \/ Pending(d) => path'[d] = path[d]
    BY <1>2
  <2> QED
    BY <2>1, WholeFacts, JoiningStays
<1>4. AnswersOK'
  <2>1. CASE answers' = answers
    BY <1>1, <2>1, WholeFacts, AnswersStay
  <2>2. CASE at[c] = "served" /\ answers' = answers \cup {<<path[c], gate[c]>>}
    <3>1. path[c] \in Paths /\ IsGatewayOf(path[c], gate[c])
      BY <2>2, WholeFacts DEF CallOK, Serving
    <3>2. PICK p, g : p \in Paths /\ p = path[c] /\ g = gate[c] /\ IsGatewayOf(p, g) /\ g \in DOMAIN gateways
      BY <3>1 DEF IsGatewayOf
    <3>3. \A q, h : IsGatewayOf(q, h)' <=> IsGatewayOf(q, h)
      BY DEF IsGatewayOf
    <3>4. \A a \in answers' : \E q \in Paths, h \in DOMAIN gateways : a = <<q, h>> /\ IsGatewayOf(q, h)
      BY <2>2, <3>2, WholeFacts DEF AnswersOK
    <3> QED
      BY <3>3, <3>4 DEF AnswersOK
  <2> QED
    BY <2>1, <2>2
<1>5. ASSUME NEW d \in Callers \ {c}
      PROVE  CallOK(d)'
  <2>1. /\ DOMAIN gateways \subseteq DOMAIN gateways' /\ DOMAIN nameToURL \subseteq DOMAIN nameToURL'
        /\ Same(d) /\ mail'[d] = mail[d] /\ (writer' = d <=> writer = d)
        /\ writer = d => UNCHANGED <<candidate, srcs>>
    OBVIOUS
  <2>2. at[d] \in Setting /\ path[d] \notin URLs => Folded(d) \notin DOMAIN nameToURL'
    BY WholeFacts DEF CallOK
  <2> QED
    BY <1>1, <2>1, <2>2, CallStays
<1>6. \A d \in Callers : CallOK(d)'
  BY <1>5
<1> QED
  BY <1>1, <1>3, <1>4, <1>6 DEF WholeInv

\* Of these, the ones that change only where c is, and perhaps its gateway.
LEMMA MoveStep ==
    ASSUME WholeInv, NEW c \in Callers, SupInv',
           NEW w \in Stages \ (Requesting \cup {"deduced", "waiting", "idle"}), at' = [at EXCEPT ![c] = w],
           at[c] \notin {"waiting", "idle"},
           UNCHANGED <<rootxt, hmds, path, hmd, deduced, srcs, nameToURL, gateways, protoSrcs, mail,
                       asked, answers>>,
           gate' \in [Callers -> Nat], candidate' \in Nat, writer' \in Callers \cup {NoCaller},
           \A d \in Callers \ {c} : /\ gate'[d] = gate[d] /\ inside'[d] = inside[d]
                                    /\ writer' = d <=> writer = d
                                    /\ writer = d => candidate' = candidate,
           IsFirst(c)' <=> IsFirst(c), CallOK(c)'
    PROVE  WholeInv' /\ Stays
<1>1. /\ at'[c] = w /\ \A d \in Callers \ {c} : at'[d] = at[d]
      /\ at' \in [Callers -> Stages]
  BY WholeFacts
<1>2. CoordTypeOK'
  BY <1>1, WholeFacts DEF CoordTypeOK
<1>3. DeductionInv'
  <2>1. /\ path' \in [Callers -> Paths \cup {""}] /\ hmd' \in [Callers -> 0 .. Len(hmds)]
        /\ deduced' \in [Callers -> Deductions] /\ path'[c] \in Paths
    BY WholeFacts
  <2>2. at'[c] \notin Requesting \cup {"deduced"}
    BY <1>1
  <2>3. \A d \in Callers \ {c} : /\ at'[d] = at[d] /\ path'[d] = path[d]
                                 /\ hmd'[d] = hmd[d] /\ deduced'[d] = deduced[d]
    BY <1>1
  <2> QED
    BY <2>1, <2>2, <2>3, WholeFacts, DeductionFrame
<1>4. \A d \in Callers \ {c} : Same(d) /\ mail'[d] = mail[d]
  BY <1>1 DEF Same
<1>5. ~Pending(c) /\ ~Pending(c)'
  BY <1>1 DEF Pending
<1> QED
  BY <1>2, <1>3, <1>4, <1>5, PlainStep

-----------------------------------------------------------------------------
(* The coordinator: the steps of a caller by itself.                       *)

\* What the map has for a path, or for its folded form, is its gateway.
LEMMA NamedGateway ==
    ASSUME WholeInv, NEW p \in Paths, NEW n \in {p, Fold[p]}, Has(n)
    PROVE  ~Panics(n) /\ GatewayOf(n) \in Nat \ {NoGateway} /\ IsGatewayOf(p, GatewayOf(n))
<1>1. n \in DOMAIN nameToURL /\ nameToURL[n] \in DOMAIN srcs
  BY WholeFacts DEF Has, NamesOK
<1>2. GatewayOf(n) \in DOMAIN gateways
  BY <1>1, WholeFacts DEF GatewayOf, GatewaysOK
<1>3. p \notin URLs => Fold[p] \in DOMAIN nameToURL /\ nameToURL[Fold[p]] = nameToURL[n]
  BY <1>1, WholeFacts, FoldFacts DEF NamesOK
<1>4. GatewayOf(n) \in Nat \ {NoGateway}
  <2>1. DOMAIN gateways = 1 .. Len(gateways) /\ Len(gateways) \in Nat
    BY WholeFacts
  <2> QED
    BY <1>2, <2>1 DEF NoGateway
<1> QED
  BY <1>1, <1>2, <1>3, <1>4 DEF Panics, GatewayOf, IsGatewayOf

\* A caller moves on, in no supervised call and without the lock.
LEMMA QuietMove ==
    ASSUME WholeInv, NEW c \in Callers,
           NEW w \in Stages \ (Requesting \cup {"deduced", "waiting", "idle", "trying", "opening", "listing"}),
           at' = [at EXCEPT ![c] = w],
           at[c] \notin {"waiting", "idle", "asking", "opening", "listing", "trying"},
           UNCHANGED <<supVars, rootxt, hmds, path, hmd, deduced, srcs, nameToURL, gateways, protoSrcs,
                       mail, asked, answers, writer, candidate>>,
           NEW g \in Nat, gate' = gate \/ gate' = [gate EXCEPT ![c] = g],
           IsFirst(c)' <=> IsFirst(c),
           w \in {"entering", "reading", "joining"} => asked[c] = "source",
           w \in {"rechecking", "locking"} => asked[c] = "source" /\ deduced[c].ok,
           w = "locking" /\ path[c] \notin URLs => Folded(c) \notin DOMAIN nameToURL,
           w \in Serving => IsGatewayOf(path[c], gate'[c]),
           w = "upgrading" => Folded(c) \in DOMAIN nameToURL
    PROVE  WholeInv' /\ Stays
<1>1. SupInv' /\ UNCHANGED inside
  BY WholeFacts, SupStutter DEF supVars
<1>2. at'[c] = w /\ CallOK(c) /\ inside[c] = Outside /\ writer # c /\ mail[c] = <<>>
  BY WholeFacts DEF CallOK
<1>3. (at[c] \in Serving => IsGatewayOf(path[c], gate[c]))'
  BY <1>2 DEF IsGatewayOf
<1>8. /\ (at[c] \in {"entering", "reading", "joining"} => asked[c] = "source")'
      /\ (at[c] \in Setting \cup {"rechecking"} => asked[c] = "source" /\ deduced[c].ok)'
      /\ (at[c] \in Setting /\ path[c] \notin URLs => Folded(c) \notin DOMAIN nameToURL)'
      /\ (at[c] = "upgrading" => Folded(c) \in DOMAIN nameToURL)'
  BY <1>2 DEF Setting, Folded
<1>9. /\ (at[c] \in {"trying", "opening"} <=> writer = c)'
      /\ writer' # c /\ at'[c] # "opening" /\ mail'[c] = <<>>
      /\ (inside[c] # Outside <=> at[c] \in {"asking", "opening", "listing"})'
  BY <1>1, <1>2 DEF Requesting
<1>4. CallOK(c)'
  BY <1>3, <1>8, <1>9 DEF CallOK
<1>5. gate' \in [Callers -> Nat] /\ candidate' \in Nat /\ writer' \in Callers \cup {NoCaller}
      /\ \A d \in Callers \ {c} : gate'[d] = gate[d]
  <2>1. gate \in [Callers -> Nat] /\ candidate \in Nat /\ writer \in Callers \cup {NoCaller}
    BY WholeFacts DEF CoordTypeOK
  <2> QED
    BY <2>1
<1>6. \A d \in Callers \ {c} : /\ gate'[d] = gate[d] /\ inside'[d] = inside[d]
                               /\ writer' = d <=> writer = d
                               /\ writer = d => candidate' = candidate
  BY <1>1, <1>5
<1>7. w \in Stages \ (Requesting \cup {"deduced", "waiting", "idle"}) /\ at[c] \notin {"waiting", "idle"}
  OBVIOUS
<1> QED
  BY <1>1, <1>4, <1>5, <1>6, <1>7, MoveStep

LEMMA EnterStep == ASSUME WholeInv, NEW c \in Callers, Enter(c) PROVE WholeInv' /\ Stays
<1>1. /\ at[c] = "entering"
      /\ UNCHANGED <<supVars, rootxt, hmds, path, hmd, deduced, srcs, nameToURL, gateways, protoSrcs,
                     mail, asked, answers, writer, candidate>>
      /\ gate' = gate \/ gate' = [gate EXCEPT ![c] = NoGateway]
  BY DEF Enter, Got
<1>2. PICK w \in {"failed", "reading"} : at' = [at EXCEPT ![c] = w]
  BY DEF Enter, Got, GoTo
<1>3. at'[c] = w /\ asked[c] = "source" /\ NoGateway \in Nat
  BY <1>1, <1>2, WholeFacts DEF CallOK, NoGateway
<1>4. IsFirst(c)' <=> IsFirst(c)
  BY <1>1, <1>2, <1>3 DEF IsFirst
<1>5. /\ w \in Stages \ (Requesting \cup {"deduced", "waiting", "idle", "trying", "opening", "listing"})
      /\ w \notin {"rechecking", "locking", "upgrading"} /\ w \notin Serving
      /\ at[c] \notin {"waiting", "idle", "asking", "opening", "listing", "trying"}
  BY <1>1, <1>2 DEF Stages, Requesting, Serving
<1> QED
  BY <1>1, <1>2, <1>3, <1>4, <1>5, QuietMove

LEMMA ReadStep == ASSUME WholeInv, NEW c \in Callers, Read(c) PROVE WholeInv' /\ Stays
<1>1. /\ at[c] = "reading"
      /\ UNCHANGED <<supVars, rootxt, hmds, path, hmd, deduced, srcs, nameToURL, gateways, protoSrcs,
                     mail, asked, answers, writer, candidate>>
  BY DEF Read
<1>2. path[c] \in Paths /\ Folded(c) = Fold[path[c]] /\ asked[c] = "source"
  BY <1>1, WholeFacts DEF Folded, CallOK
<1>3. \A n \in {path[c], Folded(c)} : Has(n) =>
          ~Panics(n) /\ GatewayOf(n) \in Nat \ {NoGateway} /\ IsGatewayOf(path[c], GatewayOf(n))
  BY <1>2, NamedGateway
<1>4. \E w \in {"using", "upgrading", "joining"}, g \in Nat :
          /\ at' = [at EXCEPT ![c] = w]
          /\ w \in {"using", "upgrading"} => gate' = [gate EXCEPT ![c] = g] /\ IsGatewayOf(path[c], g)
          /\ w = "joining" => gate' = gate
          /\ w = "upgrading" => Folded(c) \in DOMAIN nameToURL
  <2>1. CASE Has(path[c])
    <3>1. Got(c, GatewayOf(path[c])) /\ GatewayOf(path[c]) # NoGateway
      BY <1>3, <2>1 DEF Read, Panic
    <3> QED
      BY <1>3, <2>1, <3>1 DEF Got, GoTo
  <2>2. CASE ~Has(path[c]) /\ Has(Folded(c))
    <3>1. gate' = [gate EXCEPT ![c] = GatewayOf(Folded(c))] /\ GoTo(c, "upgrading")
      BY <1>3, <2>2 DEF Read, Panic
    <3> QED
      BY <1>3, <2>2, <3>1 DEF GoTo, Has
  <2>3. CASE ~Has(path[c]) /\ ~Has(Folded(c))
    <3>1. GoTo(c, "joining") /\ gate' = gate
      BY <2>3 DEF Read, Panic
    <3> QED
      BY <3>1 DEF GoTo
  <2> QED
    BY <2>1, <2>2, <2>3
<1>5. PICK w \in {"using", "upgrading", "joining"}, g \in Nat :
          /\ at' = [at EXCEPT ![c] = w]
          /\ w \in {"using", "upgrading"} => gate' = [gate EXCEPT ![c] = g] /\ IsGatewayOf(path[c], g)
          /\ w = "joining" => gate' = gate
          /\ w = "upgrading" => Folded(c) \in DOMAIN nameToURL
  BY <1>4
<1>6. at'[c] = w /\ (IsFirst(c)' <=> IsFirst(c))
  BY <1>1, <1>5, WholeFacts DEF IsFirst
<1>7. gate \in [Callers -> Nat]
  BY WholeFacts DEF CoordTypeOK
<1>8. /\ w \in Stages \ (Requesting \cup {"deduced", "waiting", "idle", "trying", "opening", "listing"})
      /\ w \notin {"rechecking", "locking"}
      /\ w \in Serving => IsGatewayOf(path[c], gate'[c])
      /\ at[c] \notin {"waiting", "idle", "asking", "opening", "listing", "trying"}
      /\ gate' = gate \/ gate' = [gate EXCEPT ![c] = g]
  BY <1>1, <1>5, <1>7 DEF Stages, Requesting, Serving
<1> QED
  BY <1>1, <1>2, <1>5, <1>6, <1>8, QuietMove

LEMMA UseIsRefusedStep == ASSUME WholeInv, NEW c \in Callers, UseIsRefused(c) PROVE WholeInv' /\ Stays
<1>1. /\ at[c] = "using" /\ at' = [at EXCEPT ![c] = "served"]
      /\ UNCHANGED <<supVars, rootxt, hmds, path, hmd, deduced, srcs, nameToURL, gateways, protoSrcs,
                     mail, asked, answers, writer, candidate>>
      /\ gate' = gate
  BY DEF UseIsRefused, GoTo, coordVars
<1>2. at'[c] = "served" /\ IsGatewayOf(path[c], gate[c]) /\ 0 \in Nat
  BY <1>1, WholeFacts DEF CallOK, Serving
<1>3. IsFirst(c)' <=> IsFirst(c)
  BY <1>1, <1>2 DEF IsFirst
<1>4. /\ "served" \in Stages \ (Requesting \cup {"deduced", "waiting", "idle", "trying", "opening", "listing"})
      /\ at[c] \notin {"waiting", "idle", "asking", "opening", "listing", "trying"}
  BY <1>1 DEF Stages, Requesting
<1> QED
  BY <1>1, <1>2, <1>3, <1>4, QuietMove

\* Use, and Try: a supervised call begins, with what the caller knows unchanged.
LEMMA BeginCall ==
    ASSUME WholeInv, NEW c \in Callers, NEW ci \in CallInfos, Start(c, ci),
           \/ at[c] = "using" /\ at' = [at EXCEPT ![c] = "listing"]
           \/ at[c] = "trying" /\ Key(c) \notin DOMAIN srcs /\ at' = [at EXCEPT ![c] = "opening"],
           UNCHANGED <<rootxt, hmds, path, hmd, deduced, coordVars>>
    PROVE  WholeInv' /\ Stays
<1>1. UNCHANGED <<rootxt, hmds, path, hmd, deduced, srcs, nameToURL, gateways, protoSrcs, mail,
                  asked, answers, gate, candidate, writer>>
  BY DEF coordVars
<1>2. CallOK(c) /\ inside[c] = Outside /\ SupInv
  BY WholeFacts DEF CallOK
<1>3. SupInv' /\ inside' = [inside EXCEPT ![c] = ci]
  BY <1>2, StartStep
<1>4. inside'[c] # Outside /\ \A d \in Callers \ {c} : inside'[d] = inside[d]
  BY <1>3, WholeFacts, CallsAssumption
<1>5. PICK w \in {"listing", "opening"} :
          /\ at' = [at EXCEPT ![c] = w]
          /\ \/ w = "listing" /\ at[c] = "using"
             \/ w = "opening" /\ at[c] = "trying" /\ Key(c) \notin DOMAIN srcs
  OBVIOUS
<1>6. at'[c] = w
  BY <1>5, WholeFacts
<1>7. IsFirst(c)' <=> IsFirst(c)
  BY <1>1, <1>5, <1>6 DEF IsFirst
<1>8. (at[c] \in Serving => IsGatewayOf(path[c], gate[c]))'
  <2>1. IsGatewayOf(path[c], gate[c])' <=> IsGatewayOf(path[c], gate[c])
    BY <1>1 DEF IsGatewayOf
  <2> QED
    BY <1>2, <1>5, <1>6, <2>1 DEF CallOK, Serving
<1>9. /\ (at[c] \in {"entering", "reading", "joining"} => asked[c] = "source")'
      /\ (at[c] \in Setting \cup {"rechecking"} => asked[c] = "source" /\ deduced[c].ok)'
      /\ (at[c] \in Setting /\ path[c] \notin URLs => Folded(c) \notin DOMAIN nameToURL)'
      /\ at'[c] # "upgrading"
  BY <1>1, <1>2, <1>5, <1>6 DEF CallOK, Setting, Folded
<1>10. /\ (at[c] \in {"trying", "opening"} <=> writer = c)'
       /\ (writer = c => candidate \in 1 .. Len(deduced[c].mb))'
       /\ mail'[c] = <<>>
       /\ (inside[c] # Outside <=> at[c] \in {"asking", "opening", "listing"})'
  BY <1>1, <1>2, <1>4, <1>5, <1>6 DEF CallOK
<1>11. (at[c] = "opening" => Key(c) \notin DOMAIN srcs)'
  BY <1>1, <1>5, <1>6 DEF Key, Candidate, NotFolded, Folded
<1>12. CallOK(c)'
  BY <1>8, <1>9, <1>10, <1>11 DEF CallOK
<1>13. gate' \in [Callers -> Nat] /\ candidate' \in Nat /\ writer' \in Callers \cup {NoCaller}
  BY <1>1, WholeFacts DEF CoordTypeOK
<1>14. /\ w \in Stages \ (Requesting \cup {"deduced", "waiting", "idle"})
       /\ at[c] \notin {"waiting", "idle"}
  BY <1>5 DEF Stages, Requesting
<1>15. \A d \in Callers \ {c} : /\ gate'[d] = gate[d] /\ inside'[d] = inside[d]
                                /\ writer' = d <=> writer = d
                                /\ writer = d => candidate' = candidate
  BY <1>1, <1>4
<1> QED
  BY <1>1, <1>3, <1>5, <1>7, <1>12, <1>13, <1>14, <1>15, MoveStep

LEMMA UseStep == ASSUME WholeInv, NEW c \in Callers, Use(c) PROVE WholeInv' /\ Stays
  BY CoordinatorAssumption, BeginCall DEF Use, GoTo

\* What the writer is at is a URL.
LEMMA CandidateFacts ==
    ASSUME WholeInv, NEW c \in Callers, writer = c
    PROVE  /\ candidate \in 1 .. Len(deduced[c].mb) /\ Len(deduced[c].mb) \in Nat
           /\ Candidate(c) \in URLs /\ Key(c) \in URLs
           /\ Key(c) \in {Candidate(c), Fold[Candidate(c)]}
<1>1. CallOK(c) /\ deduced[c] \in Deductions
  BY WholeFacts
<1>2. deduced[c].ok /\ candidate \in 1 .. Len(deduced[c].mb)
  BY <1>1 DEF CallOK, Setting
<1>3. PICK p, q \in Paths : deduced[c] = Deduced(RootOf[p], SourcesOf[q])
  BY <1>1, <1>2, DeducedFacts DEF Deductions
<1>4. deduced[c].mb \in Seq(URLs)
  BY <1>3, DeducedFacts, CoordinatorAssumption
<1>5. Len(deduced[c].mb) \in Nat /\ Candidate(c) \in URLs
  BY <1>2, <1>4 DEF Candidate
<1> QED
  BY <1>2, <1>5, FoldFacts DEF Key

LEMMA TryStep == ASSUME WholeInv, NEW c \in Callers, Try(c) PROVE WholeInv' /\ Stays
<1>1. /\ at[c] = "trying" /\ Key(c) \notin DOMAIN srcs /\ at' = [at EXCEPT ![c] = "opening"]
      /\ UNCHANGED <<rootxt, hmds, path, hmd, deduced, coordVars>>
  BY DEF Try, GoTo
<1>2. PICK ci \in {<<Candidate(c), "ctValidateLocal">>, <<"git", "ctListVersions">>} : Start(c, ci)
  BY DEF Try
<1>3. writer = c
  BY <1>1, WholeFacts DEF CallOK
<1>4. ci \in CallInfos
  BY <1>2, <1>3, CandidateFacts, CoordinatorAssumption
<1> QED
  BY <1>1, <1>2, <1>4, BeginCall

LEMMA ListedStep == ASSUME WholeInv, NEW c \in Callers, Listed(c) PROVE WholeInv' /\ Stays
<1>1. /\ at[c] = "listing" /\ Done(c) /\ at' = [at EXCEPT ![c] = "served"]
      /\ UNCHANGED <<rootxt, hmds, path, hmd, deduced, srcs, nameToURL, gateways, protoSrcs, mail,
                     asked, answers, gate, candidate, writer>>
  BY DEF Listed, GoTo, coordVars
<1>2. CallOK(c) /\ inside[c] # Outside /\ SupInv
  BY <1>1, WholeFacts DEF CallOK
<1>3. SupInv' /\ inside' = [inside EXCEPT ![c] = Outside]
  BY <1>1, <1>2, DoneStep
<1>4. /\ inside'[c] = Outside /\ \A d \in Callers \ {c} : inside'[d] = inside[d]
      /\ at'[c] = "served" /\ mail'[c] = <<>> /\ writer' # c
  BY <1>1, <1>2, <1>3, WholeFacts DEF CallOK
<1>5. (at[c] \in Serving => IsGatewayOf(path[c], gate[c]))'
  <2>1. IsGatewayOf(path[c], gate[c])' <=> IsGatewayOf(path[c], gate[c])
    BY <1>1 DEF IsGatewayOf
  <2> QED
    BY <1>1, <1>2, <2>1 DEF CallOK, Serving
<1>6. CallOK(c)'
  BY <1>4, <1>5 DEF CallOK, Setting
<1>7. IsFirst(c)' <=> IsFirst(c)
  BY <1>1, <1>4 DEF IsFirst
<1>8. gate' \in [Callers -> Nat] /\ candidate' \in Nat /\ writer' \in Callers \cup {NoCaller}
  BY <1>1, WholeFacts DEF CoordTypeOK
<1>9. "served" \in Stages \ (Requesting \cup {"deduced", "waiting", "idle"}) /\ at[c] \notin {"waiting", "idle"}
  BY <1>1 DEF Stages, Requesting
<1>10. \A d \in Callers \ {c} : /\ gate'[d] = gate[d] /\ inside'[d] = inside[d]
                                /\ writer' = d <=> writer = d
                                /\ writer = d => candidate' = candidate
  BY <1>1, <1>4
<1> QED
  BY <1>1, <1>3, <1>6, <1>7, <1>8, <1>9, <1>10, MoveStep

LEMMA CallStep == ASSUME WholeInv, NEW c \in Callers, Call(c) PROVE WholeInv' /\ Stays
<1>1. /\ at[c] = "idle"
      /\ UNCHANGED <<supVars, rootxt, hmds, hmd, deduced, srcs, nameToURL, protoSrcs, mail,
                     writer, candidate, gateways, gate, answers>>
  BY DEF Call
<1>2. PICK p \in Paths, what \in {"root", "source"}, w \in {"looking", "entering"} :
          /\ path' = [path EXCEPT ![c] = p] /\ asked' = [asked EXCEPT ![c] = what]
          /\ at' = [at EXCEPT ![c] = w] /\ w = IF what = "root" THEN "looking" ELSE "entering"
  BY DEF Call, GoTo
<1>3. asked \in [Callers -> {"root", "source"}] /\ CallOK(c)
  BY WholeFacts DEF CoordTypeOK
<1>4. /\ at'[c] = w /\ asked'[c] = what /\ path'[c] = p
      /\ \A d \in Callers \ {c} : at'[d] = at[d] /\ asked'[d] = asked[d] /\ path'[d] = path[d]
      /\ at' \in [Callers -> Stages] /\ asked' \in [Callers -> {"root", "source"}]
      /\ path' \in [Callers -> Paths \cup {""}]
  BY <1>2, <1>3, WholeFacts DEF Stages
<1>5. SupInv' /\ UNCHANGED inside
  BY <1>1, WholeFacts, SupStutter DEF supVars
<1>6. CoordTypeOK'
  BY <1>1, <1>4, WholeFacts DEF CoordTypeOK
<1>7. DeductionInv'
  <2>1. at'[c] \notin Requesting \cup {"deduced"} /\ path'[c] \in Paths
    BY <1>2, <1>4 DEF Requesting
  <2>2. hmd' \in [Callers -> 0 .. Len(hmds)] /\ deduced' \in [Callers -> Deductions]
    BY <1>1, WholeFacts
  <2>3. \A d \in Callers \ {c} : /\ at'[d] = at[d] /\ path'[d] = path[d]
                                 /\ hmd'[d] = hmd[d] /\ deduced'[d] = deduced[d]
    BY <1>1, <1>4
  <2> QED
    BY <1>1, <1>4, <2>1, <2>2, <2>3, WholeFacts, DeductionFrame
<1>8. inside'[c] = Outside /\ mail'[c] = <<>> /\ writer' # c
  BY <1>1, <1>3, <1>5 DEF CallOK
<1>9. CallOK(c)'
  BY <1>2, <1>4, <1>8 DEF CallOK, Setting, Serving
<1>10. ~IsFirst(c) /\ ~IsFirst(c)' /\ ~Pending(c) /\ ~Pending(c)'
  BY <1>1, <1>2, <1>4 DEF IsFirst, Pending
<1>11. \A d \in Callers \ {c} : /\ Same(d) /\ mail'[d] = mail[d]
                                /\ writer' = d <=> writer = d
                                /\ writer = d => candidate' = candidate
  BY <1>1, <1>4, <1>5 DEF Same
<1> QED
  BY <1>1, <1>5, <1>6, <1>7, <1>9, <1>10, <1>11, PlainStep

LEMMA ReplyStep == ASSUME WholeInv, NEW c \in Callers, Reply(c) PROVE WholeInv' /\ Stays
<1>1. /\ at[c] \in {"served", "failed"}
      /\ UNCHANGED <<supVars, rootxt, hmds, srcs, nameToURL, protoSrcs, mail, writer, candidate,
                     gateways, calls>>
      /\ answers' = IF at[c] = "served" THEN answers \cup {<<path[c], gate[c]>>} ELSE answers
      /\ at' = [at EXCEPT ![c] = "idle"] /\ path' = [path EXCEPT ![c] = ""]
      /\ hmd' = [hmd EXCEPT ![c] = 0] /\ deduced' = [deduced EXCEPT ![c] = NotDeduced]
      /\ gate' = [gate EXCEPT ![c] = NoGateway] /\ asked' = [asked EXCEPT ![c] = "root"]
  BY DEF Reply
<1>2. /\ asked \in [Callers -> {"root", "source"}] /\ gate \in [Callers -> Nat] /\ CallOK(c)
      /\ NotDeduced \in Deductions /\ NoGateway \in Nat /\ 0 \in 0 .. Len(hmds)
  <2>1. NotDeduced \in Deductions /\ NoGateway \in Nat
    BY DEF Deductions, NoGateway
  <2>3. Len(hmds) \in Nat
    BY WholeFacts, DeductionTypes
  <2>2. 0 \in 0 .. Len(hmds)
    BY <2>3
  <2> QED
    BY <2>1, <2>2, WholeFacts DEF CoordTypeOK
<1>3. /\ at'[c] = "idle"
      /\ \A d \in Callers \ {c} :
            /\ at'[d] = at[d] /\ asked'[d] = asked[d] /\ path'[d] = path[d]
            /\ hmd'[d] = hmd[d] /\ deduced'[d] = deduced[d] /\ gate'[d] = gate[d]
  BY <1>1, <1>2, WholeFacts
<1>4. /\ at' \in [Callers -> Stages] /\ asked' \in [Callers -> {"root", "source"}]
      /\ path' \in [Callers -> Paths \cup {""}] /\ gate' \in [Callers -> Nat]
      /\ hmd' \in [Callers -> 0 .. Len(hmds)]
  BY <1>1, <1>2, WholeFacts DEF Stages
<1>12. deduced' \in [Callers -> Deductions]
  BY <1>1, <1>2, WholeFacts
<1>5. SupInv' /\ UNCHANGED inside
  BY <1>1, WholeFacts, SupStutter DEF supVars
<1>6. CoordTypeOK'
  BY <1>1, <1>4, WholeFacts DEF CoordTypeOK
<1>7. DeductionInv'
  <2>1. at'[c] \notin Requesting \cup {"deduced"} /\ at'[c] = "idle"
    BY <1>3 DEF Requesting
  <2>2. \A d \in Callers \ {c} : /\ at'[d] = at[d] /\ path'[d] = path[d]
                                 /\ hmd'[d] = hmd[d] /\ deduced'[d] = deduced[d]
    BY <1>3
  <2> QED
    BY <1>1, <1>4, <1>12, <2>1, <2>2, WholeFacts, DeductionFrame
<1>8. inside'[c] = Outside /\ mail'[c] = <<>> /\ writer' # c
  BY <1>1, <1>2, <1>5 DEF CallOK
<1>9. CallOK(c)'
  BY <1>3, <1>8 DEF CallOK, Setting, Serving
<1>10. ~IsFirst(c) /\ ~IsFirst(c)' /\ ~Pending(c) /\ ~Pending(c)'
  BY <1>1, <1>3 DEF IsFirst, Pending
<1>11. \A d \in Callers \ {c} : /\ Same(d) /\ mail'[d] = mail[d]
                                /\ writer' = d <=> writer = d
                                /\ writer = d => candidate' = candidate
  BY <1>1, <1>3, <1>5 DEF Same
<1>13. answers' = answers \/ (at[c] = "served" /\ answers' = answers \cup {<<path[c], gate[c]>>})
  BY <1>1
<1> QED
  BY <1>1, <1>5, <1>6, <1>7, <1>9, <1>10, <1>11, <1>13, PlainStep

LEMMA LockStep == ASSUME WholeInv, NEW c \in Callers, Lock(c) PROVE WholeInv' /\ Stays
<1>1. /\ at[c] = "locking" /\ writer = NoCaller /\ writer' = c /\ candidate' = 1
      /\ at' = [at EXCEPT ![c] = "trying"]
      /\ UNCHANGED <<supVars, rootxt, hmds, path, hmd, deduced, srcs, nameToURL, gateways, protoSrcs, mail,
                     asked, answers, gate>>
  BY DEF Lock, GoTo, Unwritten
<1>2. CallOK(c) /\ deduced[c].ok /\ deduced[c] \in Deductions
  BY <1>1, WholeFacts DEF CallOK, Setting
<1>3. SupInv' /\ UNCHANGED inside
  BY <1>1, WholeFacts, SupStutter DEF supVars
<1>4. at'[c] = "trying" /\ inside'[c] = Outside /\ mail'[c] = <<>>
  BY <1>1, <1>2, <1>3, WholeFacts DEF CallOK
<1>5. 1 \in 1 .. Len(deduced[c].mb)
  <2>1. PICK p, q \in Paths : deduced[c] = Deduced(RootOf[p], SourcesOf[q])
    BY <1>2, DeducedFacts DEF Deductions
  <2>2. PICK s \in Seq(URLs) : s = deduced[c].mb /\ s # <<>>
    BY <2>1, DeducedFacts, CoordinatorAssumption
  <2>3. 1 \in 1 .. Len(s)
    BY <2>2
  <2> QED
    BY <2>2, <2>3
<1>6. CallOK(c)'
  BY <1>1, <1>2, <1>4, <1>5 DEF CallOK, Setting, Serving, Folded
<1>7. IsFirst(c)' <=> IsFirst(c)
  BY <1>1, <1>4 DEF IsFirst
<1>8. gate' \in [Callers -> Nat] /\ candidate' \in Nat /\ writer' \in Callers \cup {NoCaller}
  BY <1>1, WholeFacts DEF CoordTypeOK
<1>9. "trying" \in Stages \ (Requesting \cup {"deduced", "waiting", "idle"}) /\ at[c] \notin {"waiting", "idle"}
  BY <1>1 DEF Stages, Requesting
<1>10. \A d \in Callers \ {c} : /\ gate'[d] = gate[d] /\ inside'[d] = inside[d]
                                /\ writer' = d <=> writer = d
                                /\ writer = d => candidate' = candidate
  BY <1>1, <1>3, CoordinatorAssumption
<1> QED
  BY <1>1, <1>3, <1>6, <1>7, <1>8, <1>9, <1>10, MoveStep

\* The next candidate is tried, after a failure with the supervisor or before it.
LEMMA TryNext ==
    ASSUME WholeInv, NEW c \in Callers, at[c] \in {"trying", "opening"}, SupInv',
           inside'[c] = Outside, \A d \in Callers \ {c} : inside'[d] = inside[d],
           candidate < Len(deduced[c].mb), candidate' = candidate + 1, at' = [at EXCEPT ![c] = "trying"],
           UNCHANGED <<rootxt, hmds, path, hmd, deduced, srcs, nameToURL, gateways, protoSrcs, mail,
                       asked, answers, gate, writer>>
    PROVE  WholeInv' /\ Stays
<1>1. CallOK(c) /\ writer = c
  BY WholeFacts DEF CallOK
<1>2. candidate' \in 1 .. Len(deduced[c].mb) /\ candidate' \in Nat
  BY <1>1, CandidateFacts
<1>3. at'[c] = "trying" /\ mail'[c] = <<>> /\ writer' = c
  BY <1>1, WholeFacts DEF CallOK
<1>4. CallOK(c)'
  BY <1>1, <1>2, <1>3 DEF CallOK, Setting, Serving, Folded
<1>5. IsFirst(c)' <=> IsFirst(c)
  BY <1>3 DEF IsFirst
<1>6. gate' \in [Callers -> Nat] /\ writer' \in Callers \cup {NoCaller}
  BY WholeFacts DEF CoordTypeOK
<1>7. "trying" \in Stages \ (Requesting \cup {"deduced", "waiting", "idle"}) /\ at[c] \notin {"waiting", "idle"}
  BY DEF Stages, Requesting
<1>8. \A d \in Callers \ {c} : /\ gate'[d] = gate[d] /\ inside'[d] = inside[d]
                               /\ writer' = d <=> writer = d
                               /\ writer = d => candidate' = candidate
  BY <1>1
<1> QED
  BY <1>2, <1>4, <1>5, <1>6, <1>7, <1>8, MoveStep

LEMMA DeducingStep == ASSUME WholeInv, NEW c \in Callers, Deduce(c), UNCHANGED coordVars PROVE WholeInv' /\ Stays
<1>1. UNCHANGED <<srcs, nameToURL, gateways, protoSrcs, mail, asked, answers, gate, candidate, writer>>
  BY DEF coordVars
<1>2. CallOK(c)
  BY WholeFacts
<1>3. /\ SupInv' /\ DeductionInv'
      /\ at[c] \in DeducePlaces /\ at'[c] \in DeducePlaces
      /\ at' = [at EXCEPT ![c] = at'[c]] /\ UNCHANGED path
      /\ \A d \in Callers \ {c} : inside'[d] = inside[d] /\ deduced'[d] = deduced[d]
      /\ inside'[c] # Outside <=> at'[c] = "asking"
  BY <1>2, WholeFacts, DeduceStep DEF CallOK
<1>4. \A d \in Callers \ {c} : at'[d] = at[d]
  BY <1>3, WholeFacts
<1>5. at' \in [Callers -> Stages]
  BY <1>3, WholeFacts DEF DeducePlaces, Stages
<1>6. CoordTypeOK'
  BY <1>1, <1>5, WholeFacts DEF CoordTypeOK
<1>7. mail'[c] = <<>> /\ writer' # c
  BY <1>1, <1>2, <1>3 DEF CallOK, DeducePlaces
<1>8. CallOK(c)'
  BY <1>3, <1>7 DEF CallOK, Setting, Serving, DeducePlaces
<1>9. (IsFirst(c)' <=> IsFirst(c)) /\ ~Pending(c) /\ ~Pending(c)'
  BY <1>1, <1>3 DEF IsFirst, Pending, DeducePlaces
<1>10. \A d \in Callers \ {c} : /\ Same(d) /\ mail'[d] = mail[d]
                                /\ writer' = d <=> writer = d
                                /\ writer = d => candidate' = candidate
  BY <1>1, <1>3, <1>4 DEF Same
<1> QED
  BY <1>1, <1>3, <1>6, <1>8, <1>9, <1>10, PlainStep

LEMMA CollectStep == ASSUME WholeInv, NEW c \in Callers, Collect(c) PROVE WholeInv' /\ Stays
<1> DEFINE g == Head(mail[c])
           w == IF g = NoGateway THEN "failed" ELSE "using"
<1>1. /\ at[c] = "waiting" /\ mail[c] # <<>> /\ mail' = [mail EXCEPT ![c] = <<>>]
      /\ gate' = [gate EXCEPT ![c] = g] /\ at' = [at EXCEPT ![c] = w]
      /\ UNCHANGED <<supVars, rootxt, hmds, path, hmd, deduced, srcs, nameToURL, protoSrcs,
                     writer, candidate, gateways, asked, answers>>
  BY DEF Collect, Got, GoTo
<1>2. /\ gate \in [Callers -> Nat] /\ mail \in [Callers -> Seq(Nat)] /\ CallOK(c)
      /\ path[c] \in Paths
  BY <1>1, WholeFacts DEF CoordTypeOK
<1>3. g \in Nat /\ (g # NoGateway => IsGatewayOf(path[c], g))
  BY <1>1, <1>2 DEF CallOK
<1>4. w \in {"failed", "using"} /\ (w = "using" => IsGatewayOf(path[c], g))
  BY <1>3
<1> HIDE DEF g, w
<1>5. /\ at'[c] = w /\ mail'[c] = <<>> /\ gate'[c] = g
      /\ \A d \in Callers \ {c} : at'[d] = at[d] /\ mail'[d] = mail[d] /\ gate'[d] = gate[d]
  BY <1>1, <1>2, WholeFacts
<1>6. at' \in [Callers -> Stages] /\ gate' \in [Callers -> Nat] /\ mail' \in [Callers -> Seq(Nat)]
  <2>1. w \in Stages /\ <<>> \in Seq(Nat)
    BY <1>4 DEF Stages
  <2> QED
    BY <1>1, <1>2, <1>3, <2>1, WholeFacts
<1>7. CoordTypeOK'
  BY <1>1, <1>6, WholeFacts DEF CoordTypeOK
<1>8. SupInv' /\ UNCHANGED inside
  BY <1>1, WholeFacts, SupStutter DEF supVars
<1>9. DeductionInv'
  <2>1. at'[c] \notin Requesting \cup {"deduced"} /\ path'[c] \in Paths
    BY <1>1, <1>2, <1>4, <1>5 DEF Requesting
  <2>2. /\ hmd' \in [Callers -> 0 .. Len(hmds)] /\ deduced' \in [Callers -> Deductions]
        /\ path' \in [Callers -> Paths \cup {""}]
    BY <1>1, WholeFacts
  <2>3. \A d \in Callers \ {c} : /\ at'[d] = at[d] /\ path'[d] = path[d]
                                 /\ hmd'[d] = hmd[d] /\ deduced'[d] = deduced[d]
    BY <1>1, <1>5
  <2> QED
    BY <1>1, <2>1, <2>2, <2>3, WholeFacts, DeductionFrame
<1>10. inside'[c] = Outside /\ writer' # c
  BY <1>1, <1>2, <1>8 DEF CallOK
<1>11. (at[c] \in Serving => IsGatewayOf(path[c], gate[c]))'
  BY <1>1, <1>4, <1>5 DEF IsGatewayOf, Serving
<1>12. CallOK(c)'
  BY <1>4, <1>5, <1>10, <1>11 DEF CallOK, Setting
<1>13. (IsFirst(c)' <=> IsFirst(c)) /\ ~Pending(c) /\ ~Pending(c)'
  BY <1>1, <1>4, <1>5 DEF IsFirst, Pending
<1>14. \A d \in Callers \ {c} : /\ Same(d) /\ mail'[d] = mail[d]
                                /\ writer' = d <=> writer = d
                                /\ writer = d => candidate' = candidate
  BY <1>1, <1>5, <1>8 DEF Same
<1> QED
  BY <1>1, <1>7, <1>8, <1>9, <1>12, <1>13, <1>14, PlainStep

LEMMA JoinStep == ASSUME WholeInv, NEW c \in Callers, Join(c) PROVE WholeInv' /\ Stays
<1> DEFINE n == Folded(c)
           w == IF n \in DOMAIN protoSrcs THEN "waiting" ELSE "looking"
<1>1. /\ at[c] = "joining" /\ at' = [at EXCEPT ![c] = w]
      /\ UNCHANGED <<supVars, rootxt, hmds, path, hmd, deduced, srcs, nameToURL, mail,
                     writer, candidate, gateways, gate, asked, answers>>
  BY DEF Join, GoTo
<1>2. /\ JoiningOK /\ CallOK(c) /\ asked[c] = "source" /\ path[c] \in Paths /\ mail[c] = <<>>
      /\ inside[c] = Outside /\ writer # c
  BY <1>1, WholeFacts DEF CallOK
<1>3. /\ w \in {"waiting", "looking"} /\ at'[c] = w
      /\ \A d \in Callers \ {c} : at'[d] = at[d]
  BY <1>1, WholeFacts
<1>4. at' \in [Callers -> Stages]
  BY <1>1, <1>3, WholeFacts DEF Stages
<1>5. CoordTypeOK'
  BY <1>1, <1>4, WholeFacts DEF CoordTypeOK
<1>6. SupInv' /\ UNCHANGED inside
  BY <1>1, WholeFacts, SupStutter DEF supVars
<1>7. DeductionInv'
  <2>1. at'[c] \notin Requesting \cup {"deduced"} /\ path'[c] \in Paths
    BY <1>1, <1>2, <1>3 DEF Requesting
  <2>2. /\ hmd' \in [Callers -> 0 .. Len(hmds)] /\ deduced' \in [Callers -> Deductions]
        /\ path' \in [Callers -> Paths \cup {""}]
    BY <1>1, WholeFacts
  <2>3. \A d \in Callers \ {c} : /\ at'[d] = at[d] /\ path'[d] = path[d]
                                 /\ hmd'[d] = hmd[d] /\ deduced'[d] = deduced[d]
    BY <1>1, <1>3
  <2> QED
    BY <1>1, <2>1, <2>2, <2>3, WholeFacts, DeductionFrame
<1>8. CallOK(c)'
  BY <1>1, <1>2, <1>3, <1>6 DEF CallOK, Setting, Serving
<1>9. GatewaysOK' /\ NamesOK' /\ Stays
  BY <1>1, MapsStay
<1>10. AnswersOK'
  BY <1>1, <1>9, WholeFacts, AnswersStay
<1>11. ASSUME NEW d \in Callers \ {c}
       PROVE  CallOK(d)'
  <2>1. /\ DOMAIN gateways \subseteq DOMAIN gateways' /\ DOMAIN nameToURL \subseteq DOMAIN nameToURL'
        /\ Same(d) /\ mail'[d] = mail[d] /\ (writer' = d <=> writer = d)
        /\ writer = d => UNCHANGED <<candidate, srcs>>
    BY <1>1, <1>3, <1>6 DEF Same
  <2>2. at[d] \in Setting /\ path[d] \notin URLs => Folded(d) \notin DOMAIN nameToURL'
    BY <1>1, WholeFacts DEF CallOK
  <2> QED
    BY <1>9, <2>1, <2>2, CallStays
<1> HIDE DEF w
<1>12. JoiningOK'
  <2>1. \A d \in Callers \ {c} : (IsFirst(d)' <=> IsFirst(d)) /\ (Pending(d)' <=> Pending(d))
    BY <1>1, <1>3 DEF IsFirst, Pending
  <2>2. \A d \in Callers : Folded(d)' = Folded(d)
    BY <1>1 DEF Folded
  <2>3. ~IsFirst(c) /\ ~Pending(c)
    BY <1>1 DEF IsFirst, Pending
  <2>4. /\ \A m \in DOMAIN protoSrcs :
              /\ protoSrcs[m] \in Seq(Callers)
              /\ \A i \in DOMAIN protoSrcs[m] : Pending(protoSrcs[m][i]) /\ Folded(protoSrcs[m][i]) = m
              /\ \E d \in Callers : IsFirst(d) /\ Folded(d) = m
        /\ \A d \in Callers : IsFirst(d) => Folded(d) \in DOMAIN protoSrcs
        /\ \A d, e \in Callers : IsFirst(d) /\ IsFirst(e) /\ Folded(d) = Folded(e) => d = e
        /\ \A d \in Callers : Pending(d) =>
              Folded(d) \in DOMAIN protoSrcs /\ \E i \in DOMAIN protoSrcs[Folded(d)] : protoSrcs[Folded(d)][i] = d
    BY <1>2 DEF JoiningOK, Pending
  <2>5. \A m \in DOMAIN protoSrcs : \A i \in DOMAIN protoSrcs[m] :
            \E d \in Callers : d = protoSrcs[m][i] /\ at'[d] = "waiting" /\ mail'[d] = <<>> /\ Fold[path'[d]] = m
    <3> SUFFICES ASSUME NEW m \in DOMAIN protoSrcs, NEW i \in DOMAIN protoSrcs[m]
                 PROVE  \E d \in Callers : /\ d = protoSrcs[m][i] /\ at'[d] = "waiting"
                                           /\ mail'[d] = <<>> /\ Fold[path'[d]] = m
      OBVIOUS
    <3>1. PICK d \in Callers : d = protoSrcs[m][i]
      BY <2>4, SeqFacts
    <3>2. Pending(d) /\ d # c /\ Folded(d) = m
      BY <2>3, <2>4, <3>1
    <3> QED
      BY <1>1, <1>3, <3>1, <3>2 DEF Pending, Folded
  <2>6. CASE n \in DOMAIN protoSrcs
    <3>1. w = "waiting" /\ protoSrcs' = [protoSrcs EXCEPT ![n] = Append(@, c)]
      BY <2>6 DEF Join, w
    <3>2. /\ protoSrcs[n] \in Seq(Callers) /\ Append(protoSrcs[n], c) \in Seq(Callers)
          /\ DOMAIN Append(protoSrcs[n], c) = DOMAIN protoSrcs[n] \cup {Len(protoSrcs[n]) + 1}
          /\ Append(protoSrcs[n], c)[Len(protoSrcs[n]) + 1] = c
          /\ \A i \in DOMAIN protoSrcs[n] : Append(protoSrcs[n], c)[i] = protoSrcs[n][i]
      BY <2>4, <2>6, AppendFacts
    <3>3. /\ DOMAIN protoSrcs' = DOMAIN protoSrcs /\ protoSrcs'[n] = Append(protoSrcs[n], c)
          /\ \A m \in DOMAIN protoSrcs \ {n} : protoSrcs'[m] = protoSrcs[m]
      BY <2>6, <3>1
    <3>4. at'[c] = "waiting" /\ mail'[c] = <<>> /\ ~IsFirst(c)' /\ Pending(c)'
      BY <1>1, <1>2, <1>3, <3>1 DEF IsFirst, Pending
    <3>5. ASSUME NEW m \in DOMAIN protoSrcs', NEW i \in DOMAIN protoSrcs'[m]
          PROVE  LET d == protoSrcs'[m][i] IN at'[d] = "waiting" /\ mail'[d] = <<>> /\ Fold[path'[d]] = m
      <4>1. CASE m # n
        <5>1. m \in DOMAIN protoSrcs /\ i \in DOMAIN protoSrcs[m] /\ protoSrcs'[m][i] = protoSrcs[m][i]
          BY <3>3, <4>1
        <5> QED
          BY <2>5, <5>1
      <4>2. CASE m = n /\ i = Len(protoSrcs[n]) + 1
        BY <1>1, <3>2, <3>3, <3>4, <4>2 DEF Folded
      <4>3. CASE m = n /\ i \in DOMAIN protoSrcs[n]
        <5>1. m \in DOMAIN protoSrcs /\ i \in DOMAIN protoSrcs[m] /\ protoSrcs'[m][i] = protoSrcs[m][i]
          BY <2>6, <3>2, <3>3, <4>3
        <5> QED
          BY <2>5, <5>1
      <4> QED
        BY <3>2, <3>3, <4>1, <4>2, <4>3
    <3>6. \A m \in DOMAIN protoSrcs' : protoSrcs'[m] \in Seq(Callers) /\ \E d \in Callers : IsFirst(d)' /\ Folded(d)' = m
      BY <2>1, <2>2, <2>3, <2>4, <3>2, <3>3
    <3>7. /\ \A d \in Callers : IsFirst(d)' => Folded(d)' \in DOMAIN protoSrcs'
          /\ \A d, e \in Callers : IsFirst(d)' /\ IsFirst(e)' /\ Folded(d)' = Folded(e)' => d = e
      BY <2>1, <2>2, <2>4, <3>3, <3>4
    <3>8. ASSUME NEW d \in Callers, Pending(d)'
          PROVE  Folded(d)' \in DOMAIN protoSrcs' /\ \E i \in DOMAIN protoSrcs'[Folded(d)'] : protoSrcs'[Folded(d)'][i] = d
      <4>1. CASE d = c
        BY <2>2, <2>6, <3>2, <3>3, <4>1
      <4>2. CASE d # c
        <5>1. PICK i \in DOMAIN protoSrcs[Folded(d)] : protoSrcs[Folded(d)][i] = d /\ Folded(d) \in DOMAIN protoSrcs
          BY <2>1, <2>4, <3>8, <4>2
        <5> QED
          BY <2>2, <3>2, <3>3, <5>1
      <4> QED
        BY <4>1, <4>2
    <3> QED
      BY <3>5, <3>6, <3>7, <3>8 DEF JoiningOK, Pending, Folded
  <2>7. CASE n \notin DOMAIN protoSrcs
    <3>1. w = "looking" /\ protoSrcs' = Put(protoSrcs, n, <<>>)
      BY <2>7 DEF Join, w
    <3>2. /\ DOMAIN protoSrcs' = DOMAIN protoSrcs \cup {n} /\ protoSrcs'[n] = <<>>
          /\ \A m \in DOMAIN protoSrcs : protoSrcs'[m] = protoSrcs[m]
      BY <2>7, <3>1 DEF Put
    <3>3. IsFirst(c)' /\ ~Pending(c)'
      BY <1>1, <1>2, <1>3, <3>1 DEF IsFirst, Pending
    <3>4. <<>> \in Seq(Callers) /\ DOMAIN <<>> = {}
      OBVIOUS
    <3>5. ASSUME NEW m \in DOMAIN protoSrcs', NEW i \in DOMAIN protoSrcs'[m]
          PROVE  LET d == protoSrcs'[m][i] IN at'[d] = "waiting" /\ mail'[d] = <<>> /\ Fold[path'[d]] = m
      <4>1. m \in DOMAIN protoSrcs
        BY <3>2, <3>4, <3>5
      <4> QED
        BY <2>5, <3>2, <4>1
    <3>6. \A m \in DOMAIN protoSrcs' : protoSrcs'[m] \in Seq(Callers) /\ \E d \in Callers : IsFirst(d)' /\ Folded(d)' = m
      BY <2>1, <2>2, <2>3, <2>4, <3>2, <3>3, <3>4
    <3>7. /\ \A d \in Callers : IsFirst(d)' => Folded(d)' \in DOMAIN protoSrcs'
          /\ \A d, e \in Callers : IsFirst(d)' /\ IsFirst(e)' /\ Folded(d)' = Folded(e)' => d = e
      BY <2>1, <2>2, <2>4, <2>7, <3>2
    <3>8. ASSUME NEW d \in Callers, Pending(d)'
          PROVE  Folded(d)' \in DOMAIN protoSrcs' /\ \E i \in DOMAIN protoSrcs'[Folded(d)'] : protoSrcs'[Folded(d)'][i] = d
      <4>1. PICK i \in DOMAIN protoSrcs[Folded(d)] : protoSrcs[Folded(d)][i] = d /\ Folded(d) \in DOMAIN protoSrcs
        BY <2>1, <2>4, <3>3, <3>8
      <4> QED
        BY <2>2, <3>2, <4>1
    <3> QED
      BY <3>5, <3>6, <3>7, <3>8 DEF JoiningOK, Pending, Folded
  <2> QED
    BY <2>6, <2>7
<1>13. \A d \in Callers : CallOK(d)'
  BY <1>8, <1>11
<1> QED
  BY <1>5, <1>6, <1>7, <1>9, <1>10, <1>12, <1>13 DEF WholeInv

-----------------------------------------------------------------------------
(* The coordinator: results for a caller and for all that wait for it.     *)

LEMMA ReturnToAll ==
    ASSUME JoiningOK, DOMAIN at = Callers, mail \in [Callers -> Seq(Nat)], NEW c \in Callers, IsFirst(c),
           NEW g \in Nat, DoReturn(c, g), UNCHANGED <<path, asked>>
    PROVE  /\ JoiningOK' /\ mail' \in [Callers -> Seq(Nat)]
           /\ gate' = [gate EXCEPT ![c] = g]
           /\ at' = [at EXCEPT ![c] = IF g = NoGateway THEN "failed" ELSE "using"]
           /\ mail'[c] = mail[c]
           /\ \A d \in Callers :
                 \/ mail'[d] = mail[d]
                 \/ Pending(d) /\ Folded(d) = Folded(c) /\ mail'[d] = <<g>>
           /\ \A d \in Callers \ {c} : IsFirst(d) => Folded(d) # Folded(c)
<1> DEFINE n == Folded(c)
           w == IF g = NoGateway THEN "failed" ELSE "using"
           S == {protoSrcs[n][i] : i \in DOMAIN protoSrcs[n]}
<1>1. /\ mail' = [d \in Callers |-> IF d \in S THEN Append(mail[d], g) ELSE mail[d]]
      /\ protoSrcs' = Delete(protoSrcs, n)
      /\ gate' = [gate EXCEPT ![c] = g] /\ at' = [at EXCEPT ![c] = w]
  BY DEF DoReturn, Got, GoTo
<1>2. /\ \A m \in DOMAIN protoSrcs :
            /\ protoSrcs[m] \in Seq(Callers)
            /\ \A i \in DOMAIN protoSrcs[m] : Pending(protoSrcs[m][i]) /\ Folded(protoSrcs[m][i]) = m
            /\ \E d \in Callers : IsFirst(d) /\ Folded(d) = m
      /\ \A d \in Callers : IsFirst(d) => Folded(d) \in DOMAIN protoSrcs
      /\ \A d, e \in Callers : IsFirst(d) /\ IsFirst(e) /\ Folded(d) = Folded(e) => d = e
      /\ \A d \in Callers : Pending(d) =>
            Folded(d) \in DOMAIN protoSrcs /\ \E i \in DOMAIN protoSrcs[Folded(d)] : protoSrcs[Folded(d)][i] = d
  BY DEF JoiningOK, Pending
<1>3. n \in DOMAIN protoSrcs /\ ~Pending(c)
  BY <1>2 DEF IsFirst, Pending
<1>4. \A d \in Callers : d \in S <=> Pending(d) /\ Folded(d) = n
  BY <1>2, <1>3
<1>5. w \in {"failed", "using"}
  OBVIOUS
<1> HIDE DEF S, n, w
<1>6. \A d \in Callers : mail'[d] = IF Pending(d) /\ Folded(d) = n THEN <<g>> ELSE mail[d]
  <2>1. \A d \in Callers : Pending(d) => Append(mail[d], g) = <<g>>
    BY DEF Pending
  <2> QED
    BY <1>1, <1>4, <2>1
<1>7. mail' \in [Callers -> Seq(Nat)]
  <2>1. <<g>> \in Seq(Nat) /\ DOMAIN mail' = Callers
    BY <1>1
  <2>2. \A d \in Callers : mail'[d] \in Seq(Nat)
    BY <1>6, <2>1
  <2>3. mail' = [d \in Callers |-> mail'[d]]
    BY <1>1
  <2> QED
    BY <2>2, <2>3
<1>8. at'[c] = w /\ \A d \in Callers \ {c} : at'[d] = at[d]
  BY <1>1
<1>9. /\ ~IsFirst(c)' /\ ~Pending(c)'
      /\ \A d \in Callers \ {c} : IsFirst(d)' <=> IsFirst(d)
      /\ \A d \in Callers : Folded(d)' = Folded(d)
  BY <1>5, <1>8 DEF IsFirst, Pending, Folded
<1>10. \A d \in Callers : Pending(d)' <=> Pending(d) /\ Folded(d) # n
  <2>1. <<g>> # <<>>
    OBVIOUS
  <2> QED
    BY <1>3, <1>6, <1>8, <1>9, <2>1 DEF Pending
<1>11. /\ DOMAIN protoSrcs' = DOMAIN protoSrcs \ {n}
       /\ \A m \in DOMAIN protoSrcs \ {n} : protoSrcs'[m] = protoSrcs[m]
  BY <1>1, DeleteFacts
<1>12. ASSUME NEW m \in DOMAIN protoSrcs', NEW i \in DOMAIN protoSrcs'[m]
       PROVE  LET d == protoSrcs'[m][i] IN at'[d] = "waiting" /\ mail'[d] = <<>> /\ Fold[path'[d]] = m
  <2>1. m \in DOMAIN protoSrcs /\ m # n /\ protoSrcs'[m] = protoSrcs[m]
    BY <1>11
  <2>2. PICK d \in Callers : d = protoSrcs[m][i] /\ Pending(d) /\ Folded(d) = m
    BY <1>2, <2>1, SeqFacts
  <2>3. Pending(d)' /\ Folded(d)' = m
    BY <1>9, <1>10, <2>1, <2>2
  <2> QED
    BY <2>1, <2>2, <2>3 DEF Pending, Folded
<1>13. \A m \in DOMAIN protoSrcs' : protoSrcs'[m] \in Seq(Callers) /\ \E d \in Callers : IsFirst(d)' /\ Folded(d)' = m
  <2> SUFFICES ASSUME NEW m \in DOMAIN protoSrcs'
               PROVE  protoSrcs'[m] \in Seq(Callers) /\ \E d \in Callers : IsFirst(d)' /\ Folded(d)' = m
    OBVIOUS
  <2>1. m \in DOMAIN protoSrcs /\ m # n /\ protoSrcs'[m] = protoSrcs[m]
    BY <1>11
  <2>2. PICK d \in Callers : IsFirst(d) /\ Folded(d) = m
    BY <1>2, <2>1
  <2> QED
    BY <1>2, <1>9, <2>1, <2>2 DEF n
<1>14. /\ \A d \in Callers : IsFirst(d)' => Folded(d)' \in DOMAIN protoSrcs'
       /\ \A d, e \in Callers : IsFirst(d)' /\ IsFirst(e)' /\ Folded(d)' = Folded(e)' => d = e
  <2>1. \A d \in Callers : IsFirst(d)' => IsFirst(d) /\ Folded(d)' = Folded(d) /\ d # c
    BY <1>9
  <2>2. \A d \in Callers : IsFirst(d) /\ d # c => Folded(d) # n
    BY <1>2 DEF n
  <2> QED
    BY <1>2, <1>11, <2>1, <2>2
<1>15. \A d \in Callers : Pending(d)' =>
           Folded(d)' \in DOMAIN protoSrcs' /\ \E i \in DOMAIN protoSrcs'[Folded(d)'] : protoSrcs'[Folded(d)'][i] = d
  BY <1>2, <1>9, <1>10, <1>11
<1>16. JoiningOK'
  BY <1>12, <1>13, <1>14, <1>15 DEF JoiningOK, Pending, Folded
<1>17. mail'[c] = mail[c]
  BY <1>3, <1>6
<1> QED
  BY <1>1, <1>2, <1>6, <1>7, <1>16, <1>17 DEF n, w

\* The result g of a name is handed out.
LEMMA HandOut ==
    ASSUME WholeInv, NEW c \in Callers, IsFirst(c), at[c] \notin Requesting, NEW g \in Nat, DoReturn(c, g), SupInv',
           inside'[c] = Outside, \A d \in Callers \ {c} : inside'[d] = inside[d],
           UNCHANGED <<rootxt, hmds, path, hmd, deduced, asked, answers>>,
           GatewaysOK', NamesOK', Stays, gateways' \in Seq(URLs),
           DOMAIN gateways \subseteq DOMAIN gateways', DOMAIN nameToURL \subseteq DOMAIN nameToURL',
           writer' \in Callers \cup {NoCaller}, writer' # c, candidate' \in Nat,
           \A d \in Callers \ {c} : /\ writer' = d <=> writer = d
                                    /\ writer = d => UNCHANGED <<candidate, srcs>>,
           \A p \in Paths : p \notin URLs /\ Fold[p] # Folded(c) /\ Fold[p] \notin DOMAIN nameToURL =>
                Fold[p] \notin DOMAIN nameToURL',
           g # NoGateway => \A p \in Paths : Fold[p] = Folded(c) => IsGatewayOf(p, g)'
    PROVE  WholeInv' /\ Stays
<1>1. /\ JoiningOK /\ DOMAIN at = Callers /\ mail \in [Callers -> Seq(Nat)] /\ gate \in [Callers -> Nat]
      /\ CallOK(c) /\ path[c] \in Paths
  BY WholeFacts DEF CoordTypeOK, IsFirst
<1>2. PICK w \in {"failed", "using"} : w = IF g = NoGateway THEN "failed" ELSE "using"
  OBVIOUS
<1>3. /\ JoiningOK' /\ mail' \in [Callers -> Seq(Nat)]
      /\ gate' = [gate EXCEPT ![c] = g] /\ at' = [at EXCEPT ![c] = w]
      /\ mail'[c] = mail[c]
      /\ \A d \in Callers :
            \/ mail'[d] = mail[d]
            \/ Pending(d) /\ Folded(d) = Folded(c) /\ mail'[d] = <<g>>
      /\ \A d \in Callers \ {c} : IsFirst(d) => Folded(d) # Folded(c)
  BY <1>1, <1>2, ReturnToAll
<1>4. /\ at'[c] = w /\ gate'[c] = g /\ mail'[c] = <<>>
      /\ \A d \in Callers \ {c} : at'[d] = at[d] /\ gate'[d] = gate[d]
      /\ gate' \in [Callers -> Nat]
  BY <1>1, <1>3 DEF CallOK, IsFirst
<1>5. at' \in [Callers -> Stages]
  BY <1>3, WholeFacts DEF Stages
<1>6. CoordTypeOK'
  BY <1>3, <1>4, <1>5, WholeFacts DEF CoordTypeOK
<1>7. DeductionInv'
  <2>1. at'[c] \notin Requesting \cup {"deduced"} /\ path'[c] \in Paths
    BY <1>1, <1>4 DEF Requesting
  <2>2. /\ hmd' \in [Callers -> 0 .. Len(hmds)] /\ deduced' \in [Callers -> Deductions]
        /\ path' \in [Callers -> Paths \cup {""}]
    BY WholeFacts
  <2>3. \A d \in Callers \ {c} : /\ at'[d] = at[d] /\ path'[d] = path[d]
                                 /\ hmd'[d] = hmd[d] /\ deduced'[d] = deduced[d]
    BY <1>4
  <2> QED
    BY <2>1, <2>2, <2>3, WholeFacts, DeductionFrame
<1>8. AnswersOK'
  BY WholeFacts, AnswersStay
<1>9. CallOK(c)'
  <2>1. g # NoGateway => IsGatewayOf(path[c], g)'
    <3>1. PICK p \in Paths : p = path[c]
      BY <1>1
    <3>2. g # NoGateway => IsGatewayOf(p, g)'
      BY <3>1 DEF Folded
    <3> QED
      BY <3>1, <3>2
  <2>2. (at[c] \in Serving => IsGatewayOf(path[c], gate[c]))'
    BY <1>2, <1>4, <2>1 DEF Serving
  <2> QED
    BY <1>4, <2>2 DEF CallOK, Setting
<1>10. ASSUME NEW d \in Callers \ {c}
       PROVE  CallOK(d)'
  <2>1. Same(d) /\ (writer' = d <=> writer = d) /\ (writer = d => UNCHANGED <<candidate, srcs>>)
    BY <1>4 DEF Same
  <2>2. at[d] \in Setting /\ path[d] \notin URLs => Folded(d) \notin DOMAIN nameToURL'
    <3> SUFFICES ASSUME at[d] \in Setting, path[d] \notin URLs
                 PROVE  Folded(d) \notin DOMAIN nameToURL'
      OBVIOUS
    <3>1. CallOK(d) /\ path[d] \in Paths
      BY WholeFacts DEF Setting
    <3>2. IsFirst(d) /\ Folded(d) \notin DOMAIN nameToURL
      BY <3>1 DEF CallOK, Setting, IsFirst
    <3>3. Folded(d) # Folded(c)
      BY <1>3, <3>2
    <3> QED
      BY <3>1, <3>2, <3>3 DEF Folded
  <2>3. \/ mail'[d] = mail[d]
        \/ \E h : /\ at[d] = "waiting" /\ mail'[d] = <<h>>
                  /\ h = NoGateway \/ IsGatewayOf(path[d], h)'
    <3>1. CASE Pending(d) /\ Folded(d) = Folded(c) /\ mail'[d] = <<g>>
      <4>1. PICK p \in Paths : p = path[d]
        BY <3>1, WholeFacts DEF Pending
      <4>2. g = NoGateway \/ IsGatewayOf(p, g)'
        BY <3>1, <4>1 DEF Folded
      <4> QED
        BY <3>1, <4>1, <4>2 DEF Pending
    <3> QED
      BY <1>3, <3>1
  <2> QED
    BY <2>1, <2>2, <2>3, CallStays
<1>11. \A d \in Callers : CallOK(d)'
  BY <1>9, <1>10
<1> QED
  BY <1>3, <1>6, <1>7, <1>8, <1>11 DEF WholeInv

\* A result while the maps stay as they are: no gateway, or the one of the name.
LEMMA PlainHandOut ==
    ASSUME WholeInv, NEW c \in Callers, IsFirst(c), at[c] \notin Requesting, NEW g \in Nat, DoReturn(c, g), SupInv',
           inside'[c] = Outside, \A d \in Callers \ {c} : inside'[d] = inside[d],
           UNCHANGED <<rootxt, hmds, path, hmd, deduced, srcs, nameToURL, gateways, asked, answers>>,
           \/ at[c] \notin {"trying", "opening"} /\ UNCHANGED <<writer, candidate>>
           \/ at[c] \in {"trying", "opening"} /\ writer' = NoCaller /\ candidate' = 0,
           g # NoGateway => \A p \in Paths : Fold[p] = Folded(c) => IsGatewayOf(p, g)
    PROVE  WholeInv' /\ Stays
<1>1. /\ GatewaysOK' /\ NamesOK' /\ Stays /\ CallOK(c) /\ candidate \in Nat
      /\ writer \in Callers \cup {NoCaller}
  BY MapsStay, WholeFacts DEF CoordTypeOK
<1>2. (at[c] \in {"trying", "opening"} <=> writer = c) /\ NoCaller \notin Callers
  BY <1>1, CoordinatorAssumption DEF CallOK
<1>3. writer' \in Callers \cup {NoCaller} /\ writer' # c /\ candidate' \in Nat
  BY <1>1, <1>2
<1>4. \A d \in Callers \ {c} : /\ writer' = d <=> writer = d
                               /\ writer = d => UNCHANGED <<candidate, srcs>>
  BY <1>2
<1>5. /\ gateways' \in Seq(URLs) /\ DOMAIN gateways \subseteq DOMAIN gateways'
      /\ DOMAIN nameToURL \subseteq DOMAIN nameToURL'
      /\ \A p \in Paths : p \notin URLs /\ Fold[p] # Folded(c) /\ Fold[p] \notin DOMAIN nameToURL =>
            Fold[p] \notin DOMAIN nameToURL'
  BY WholeFacts
<1>6. g # NoGateway => \A p \in Paths : Fold[p] = Folded(c) => IsGatewayOf(p, g)'
  BY DEF IsGatewayOf
<1> QED
  BY <1>1, <1>3, <1>4, <1>5, <1>6, HandOut

LEMMA DeductionIsOverStep ==
    ASSUME WholeInv, NEW c \in Callers, DeductionIsOver(c) PROVE WholeInv' /\ Stays
<1>1. /\ at[c] = "deduced"
      /\ UNCHANGED <<supVars, rootxt, hmds, path, hmd, deduced, srcs, nameToURL, writer, candidate,
                     gateways, asked, answers>>
  BY DEF DeductionIsOver
<1>2. CallOK(c) /\ asked[c] \in {"root", "source"} /\ 0 \in Nat /\ NoGateway \in Nat
  BY WholeFacts DEF CoordTypeOK, NoGateway
<1>3. SupInv' /\ UNCHANGED inside /\ inside[c] = Outside
  BY <1>1, <1>2, WholeFacts, SupStutter DEF supVars, CallOK
<1>4. CASE asked[c] = "source" /\ ~deduced[c].ok
  <2>1. DoReturn(c, NoGateway) /\ IsFirst(c) /\ at[c] \notin Requesting /\ at[c] \notin {"trying", "opening"}
    BY <1>1, <1>4 DEF DeductionIsOver, IsFirst, Requesting
  <2>2. /\ inside'[c] = Outside /\ \A d \in Callers \ {c} : inside'[d] = inside[d]
    BY <1>3
  <2> QED
    BY <1>1, <1>2, <1>3, <2>1, <2>2, PlainHandOut
<1>5. CASE ~(asked[c] = "source" /\ ~deduced[c].ok)
  <2>1. PICK w \in {"failed", "rechecking"} :
            /\ at' = [at EXCEPT ![c] = w] /\ UNCHANGED <<gate, mail, protoSrcs>>
            /\ asked[c] = "root" => w = "failed"
            /\ asked[c] = "source" => w = "rechecking" /\ deduced[c].ok
    BY <1>2, <1>5 DEF DeductionIsOver, GoTo
  <2>2. at'[c] = w
    BY <2>1, WholeFacts
  <2>3. IsFirst(c)' <=> IsFirst(c)
    BY <1>1, <1>2, <2>1, <2>2 DEF IsFirst
  <2>4. /\ w \in Stages \ (Requesting \cup {"deduced", "waiting", "idle", "trying", "opening", "listing"})
        /\ w \notin {"entering", "reading", "joining", "locking", "upgrading"} /\ w \notin Serving
        /\ w = "rechecking" => asked[c] = "source" /\ deduced[c].ok
        /\ at[c] \notin {"waiting", "idle", "asking", "opening", "listing", "trying"}
    BY <1>1, <1>2, <2>1 DEF Stages, Requesting, Serving
  <2> QED
    BY <1>1, <1>2, <2>1, <2>3, <2>4, QuietMove
<1> QED
  BY <1>4, <1>5

LEMMA RecheckStep == ASSUME WholeInv, NEW c \in Callers, Recheck(c) PROVE WholeInv' /\ Stays
<1>1. /\ at[c] = "rechecking"
      /\ UNCHANGED <<supVars, rootxt, hmds, path, hmd, deduced, srcs, nameToURL, writer, candidate,
                     gateways, asked, answers>>
  BY DEF Recheck
<1>2. CallOK(c) /\ asked[c] = "source" /\ deduced[c].ok /\ path[c] \in Paths /\ 0 \in Nat
  BY <1>1, WholeFacts DEF CallOK
<1>3. SupInv' /\ UNCHANGED inside /\ inside[c] = Outside
  BY <1>1, <1>2, WholeFacts, SupStutter DEF supVars, CallOK
<1>4. CASE Has(Folded(c))
  <2>1. PICK p \in Paths : p = path[c] /\ Fold[p] = Folded(c)
    BY <1>2 DEF Folded
  <2>2. ~Panics(Folded(c)) /\ GatewayOf(Folded(c)) \in Nat
    BY <1>4, <2>1, NamedGateway
  <2>3. DoReturn(c, GatewayOf(Folded(c)))
    BY <1>4, <2>2 DEF Recheck, Panic
  <2>4. \A q \in Paths : Fold[q] = Folded(c) => IsGatewayOf(q, GatewayOf(Folded(c)))
    BY <1>4, NamedGateway
  <2>5. IsFirst(c) /\ at[c] \notin Requesting /\ at[c] \notin {"trying", "opening"}
    BY <1>1, <1>2 DEF IsFirst, Requesting
  <2>6. /\ inside'[c] = Outside /\ \A d \in Callers \ {c} : inside'[d] = inside[d]
    BY <1>3
  <2> QED
    BY <1>1, <1>3, <2>2, <2>3, <2>4, <2>5, <2>6, PlainHandOut
<1>5. CASE ~Has(Folded(c))
  <2>1. at' = [at EXCEPT ![c] = "locking"] /\ UNCHANGED <<gate, mail, protoSrcs>>
    BY <1>5 DEF Recheck, Panic, GoTo
  <2>2. at'[c] = "locking" /\ Folded(c) \notin DOMAIN nameToURL
    BY <1>5, <2>1, WholeFacts DEF Has
  <2>3. IsFirst(c)' <=> IsFirst(c)
    BY <1>1, <2>2 DEF IsFirst
  <2>4. /\ "locking" \in Stages \ (Requesting \cup {"deduced", "waiting", "idle", "trying", "opening", "listing"})
        /\ "locking" \notin Serving
        /\ at[c] \notin {"waiting", "idle", "asking", "opening", "listing", "trying"}
    BY <1>1 DEF Stages, Requesting, Serving
  <2> QED
    BY <1>1, <1>2, <2>1, <2>2, <2>3, <2>4, QuietMove
<1> QED
  BY <1>4, <1>5

\* A candidate has failed.
LEMMA NextCandidateStep ==
    ASSUME WholeInv, NEW c \in Callers, at[c] \in {"trying", "opening"}, NextCandidate(c), SupInv',
           inside'[c] = Outside, \A d \in Callers \ {c} : inside'[d] = inside[d],
           UNCHANGED <<rootxt, hmds, path, hmd, deduced, srcs, nameToURL, gateways, asked, answers>>
    PROVE  WholeInv' /\ Stays
<1>1. CASE candidate < Len(deduced[c].mb)
  <2>1. /\ candidate' = candidate + 1 /\ at' = [at EXCEPT ![c] = "trying"]
        /\ UNCHANGED <<gate, mail, protoSrcs, writer>>
    BY <1>1 DEF NextCandidate, GoTo
  <2> QED
    BY <1>1, <2>1, TryNext
<1>2. CASE ~(candidate < Len(deduced[c].mb))
  <2>1. DoReturn(c, NoGateway) /\ writer' = NoCaller /\ candidate' = 0
    BY <1>2 DEF NextCandidate
  <2>2. IsFirst(c) /\ at[c] \notin Requesting /\ NoGateway \in Nat
    BY WholeFacts DEF CallOK, Setting, IsFirst, Requesting, NoGateway
  <2> QED
    BY <2>1, <2>2, PlainHandOut
<1> QED
  BY <1>1, <1>2

LEMMA TryFailsStep == ASSUME WholeInv, NEW c \in Callers, TryFails(c) PROVE WholeInv' /\ Stays
<1>1. /\ at[c] = "trying" /\ NextCandidate(c)
      /\ UNCHANGED <<supVars, rootxt, hmds, path, hmd, deduced, srcs, nameToURL, gateways, asked, answers>>
  BY DEF TryFails
<1>2. SupInv' /\ UNCHANGED inside /\ inside[c] = Outside
  BY <1>1, WholeFacts, SupStutter DEF supVars, CallOK
<1> QED
  BY <1>1, <1>2, NextCandidateStep

LEMMA DoesNotOpenStep == ASSUME WholeInv, NEW c \in Callers, DoesNotOpen(c) PROVE WholeInv' /\ Stays
<1>1. /\ at[c] = "opening" /\ NextCandidate(c) /\ Done(c)
      /\ UNCHANGED <<rootxt, hmds, path, hmd, deduced, srcs, nameToURL, gateways, asked, answers>>
  BY DEF DoesNotOpen
<1>2. inside[c] # Outside /\ SupInv
  BY <1>1, WholeFacts DEF CallOK
<1>3. SupInv' /\ inside' = [inside EXCEPT ![c] = Outside]
  BY <1>1, <1>2, DoneStep
<1>4. inside'[c] = Outside /\ \A d \in Callers \ {c} : inside'[d] = inside[d]
  BY <1>3, WholeFacts
<1> QED
  BY <1>1, <1>3, <1>4, NextCandidateStep

-----------------------------------------------------------------------------
(* The coordinator: names are recorded.                                    *)

LEMMA UpgradeStep == ASSUME WholeInv, NEW c \in Callers, Upgrade(c) PROVE WholeInv' /\ Stays
<1> DEFINE n == path[c]
           url == CHOOSE u \in DOMAIN srcs : srcs[u] = gate[c]
<1>1. /\ at[c] = "upgrading" /\ at' = [at EXCEPT ![c] = "using"]
      /\ nameToURL' = Put(nameToURL, n, url)
      /\ UNCHANGED <<supVars, rootxt, hmds, path, hmd, deduced, srcs, protoSrcs, mail, gate,
                     writer, candidate, gateways, asked, answers>>
  BY DEF Upgrade, GoTo
<1>2. /\ CallOK(c) /\ n \in Paths /\ Folded(c) \in DOMAIN nameToURL /\ IsGatewayOf(n, gate[c])
      /\ mail[c] = <<>> /\ inside[c] = Outside /\ writer # c
  BY <1>1, WholeFacts DEF CallOK, Serving
<1>3. \E u \in DOMAIN srcs : srcs[u] = gate[c]
  BY <1>2, WholeFacts DEF IsGatewayOf, GatewaysOK
<1>4. url \in DOMAIN srcs /\ srcs[url] = gate[c]
  BY <1>3
<1> HIDE DEF url
<1>5. n \notin URLs => url = nameToURL[Folded(c)]
  <2>1. n \notin URLs => gate[c] = srcs[nameToURL[Folded(c)]] /\ nameToURL[Folded(c)] \in DOMAIN srcs
    BY <1>2, WholeFacts DEF IsGatewayOf, NamesOK, Folded
  <2>2. \A u, v \in DOMAIN srcs : srcs[u] = srcs[v] => u = v
    BY WholeFacts DEF GatewaysOK
  <2> QED
    BY <1>4, <2>1, <2>2
<1>6. n \in DOMAIN nameToURL \ URLs => nameToURL[n] = url
  BY <1>5, WholeFacts DEF NamesOK, Folded
<1>7. /\ DOMAIN nameToURL' = DOMAIN nameToURL \cup {n} /\ nameToURL'[n] = url
      /\ \A m \in DOMAIN nameToURL : m # n => nameToURL'[m] = nameToURL[m]
  BY <1>1 DEF Put
<1>8. \A m \in DOMAIN nameToURL \ URLs : nameToURL'[m] = nameToURL[m]
  BY <1>6, <1>7
<1>9. Stays
  BY <1>1, <1>7, <1>8 DEF Stays
<1>10. GatewaysOK'
  <2>1. GatewaysOK
    BY WholeFacts
  <2> QED
    BY <1>1, <2>1 DEF GatewaysOK
<1>11. NamesOK'
  <2>1. DOMAIN nameToURL' \subseteq Names
    BY <1>2, <1>7, WholeFacts, FoldFacts DEF NamesOK
  <2>2. \A m \in DOMAIN nameToURL' : nameToURL'[m] \in DOMAIN srcs
    BY <1>4, <1>7, WholeFacts DEF NamesOK
  <2>3. ASSUME NEW m \in DOMAIN nameToURL' \ URLs
        PROVE  Fold[m] \in DOMAIN nameToURL' /\ nameToURL'[m] = nameToURL'[Fold[m]]
    <3>1. CASE m \in DOMAIN nameToURL
      <4>1. Fold[m] \in DOMAIN nameToURL /\ nameToURL[m] = nameToURL[Fold[m]] /\ m \in Names
        BY <2>3, <3>1, WholeFacts DEF NamesOK
      <4>2. Fold[m] \notin URLs
        BY <2>3, <4>1, FoldFacts
      <4> QED
        BY <1>7, <1>8, <2>3, <3>1, <4>1, <4>2
    <3>2. CASE m \notin DOMAIN nameToURL
      <4>1. m = n
        BY <1>7, <3>2
      <4>2. Fold[m] = Folded(c) /\ Folded(c) \notin URLs
        BY <1>2, <2>3, <4>1, FoldFacts DEF Folded
      <4>3. nameToURL'[Folded(c)] = nameToURL[Folded(c)]
        BY <1>2, <1>8, <4>2
      <4> QED
        BY <1>2, <1>5, <1>7, <2>3, <4>1, <4>2, <4>3
    <3> QED
      BY <3>1, <3>2
  <2> QED
    BY <1>1, <2>1, <2>2, <2>3 DEF NamesOK, Names
<1>12. AnswersOK'
  <2>1. UNCHANGED answers /\ DOMAIN gateways \subseteq DOMAIN gateways'
    BY <1>1
  <2> QED
    BY <1>9, <2>1, WholeFacts, AnswersStay
<1>13. at'[c] = "using" /\ (\A d \in Callers \ {c} : at'[d] = at[d]) /\ at' \in [Callers -> Stages]
  BY <1>1, WholeFacts DEF Stages
<1>14. CoordTypeOK'
  BY <1>1, <1>13, WholeFacts DEF CoordTypeOK
<1>15. SupInv' /\ UNCHANGED inside
  BY <1>1, WholeFacts, SupStutter DEF supVars
<1>16. DeductionInv'
  <2>1. at'[c] \notin Requesting \cup {"deduced"} /\ path'[c] \in Paths
    BY <1>1, <1>2, <1>13 DEF Requesting
  <2>2. /\ hmd' \in [Callers -> 0 .. Len(hmds)] /\ deduced' \in [Callers -> Deductions]
        /\ path' \in [Callers -> Paths \cup {""}]
    BY <1>1, WholeFacts
  <2>3. \A d \in Callers \ {c} : /\ at'[d] = at[d] /\ path'[d] = path[d]
                                 /\ hmd'[d] = hmd[d] /\ deduced'[d] = deduced[d]
    BY <1>1, <1>13
  <2> QED
    BY <1>1, <2>1, <2>2, <2>3, WholeFacts, DeductionFrame
<1>17. JoiningOK'
  <2>1. \A d \in Callers : /\ IsFirst(d)' <=> IsFirst(d)
                           /\ Pending(d)' <=> Pending(d)
                           /\ IsFirst(d) \/ Pending(d) => path'[d] = path[d]
    BY <1>1, <1>13 DEF IsFirst, Pending
  <2>2. UNCHANGED protoSrcs
    BY <1>1
  <2> QED
    BY <2>1, <2>2, WholeFacts, JoiningStays
<1>18. CallOK(c)'
  <2>1. PICK p, g : p \in Paths /\ p = path[c] /\ g = gate[c] /\ IsGatewayOf(p, g)
    BY <1>2
  <2>2. IsGatewayOf(p, g)'
    BY <1>1, <1>9, <2>1, WholeFacts, GatewayStays
  <2>3. IsGatewayOf(path[c], gate[c])'
    BY <1>1, <2>1, <2>2
  <2>4. mail'[c] = <<>> /\ inside'[c] = Outside /\ writer' # c
    BY <1>1, <1>2, <1>15
  <2> QED
    BY <1>13, <2>3, <2>4 DEF CallOK, Setting
<1>19. ASSUME NEW d \in Callers \ {c}
       PROVE  CallOK(d)'
  <2>1. /\ DOMAIN gateways \subseteq DOMAIN gateways' /\ DOMAIN nameToURL \subseteq DOMAIN nameToURL'
        /\ Same(d) /\ mail'[d] = mail[d] /\ (writer' = d <=> writer = d)
        /\ writer = d => UNCHANGED <<candidate, srcs>>
    BY <1>1, <1>7, <1>13, <1>15 DEF Same
  <2>2. at[d] \in Setting /\ path[d] \notin URLs => Folded(d) \notin DOMAIN nameToURL'
    <3> SUFFICES ASSUME at[d] \in Setting, path[d] \notin URLs
                 PROVE  Folded(d) \notin DOMAIN nameToURL'
      OBVIOUS
    <3>1. Folded(d) \notin DOMAIN nameToURL /\ path[d] \in Paths
      BY WholeFacts DEF CallOK, Setting
    <3>2. Folded(d) # n
      BY <1>2, <3>1, FoldFacts DEF Folded
    <3> QED
      BY <1>7, <3>1, <3>2
  <2> QED
    BY <1>9, <2>1, <2>2, CallStays
<1>20. \A d \in Callers : CallOK(d)'
  BY <1>18, <1>19
<1> QED
  BY <1>9, <1>10, <1>11, <1>12, <1>14, <1>15, <1>16, <1>17, <1>20 DEF WholeInv

\* The writer settles on a URL that is in the map, or has just come into it.
LEMMA SettleStep ==
    ASSUME WholeInv, NEW c \in Callers, at[c] \in {"trying", "opening"}, NEW g \in Nat, Settle(c, g), SupInv',
           inside'[c] = Outside, \A d \in Callers \ {c} : inside'[d] = inside[d],
           UNCHANGED <<rootxt, hmds, path, hmd, deduced, asked, answers>>,
           GatewaysOK', gateways' \in Seq(URLs), DOMAIN gateways \subseteq DOMAIN gateways',
           \A u \in DOMAIN srcs : u \in DOMAIN srcs' /\ srcs'[u] = srcs[u],
           Key(c) \in DOMAIN srcs', srcs'[Key(c)] = g
    PROVE  WholeInv' /\ Stays
<1> DEFINE k == Key(c)
           R == Recorded(c)
<1>1. /\ nameToURL' = [n \in DOMAIN nameToURL \cup R |-> IF n \in R THEN k ELSE nameToURL[n]]
      /\ DoReturn(c, g) /\ writer' = NoCaller /\ candidate' = 0
  BY DEF Settle
<1>2. /\ CallOK(c) /\ writer = c /\ path[c] \in Paths /\ IsFirst(c) /\ at[c] \notin Requesting
      /\ path[c] \notin URLs => Folded(c) \notin DOMAIN nameToURL
  BY WholeFacts DEF CallOK, Setting, IsFirst, Requesting
<1>3. k \in URLs /\ Candidate(c) \in URLs
  BY <1>2, CandidateFacts
<1>4. R \subseteq {Folded(c), k, path[c], Candidate(c)} /\ Folded(c) \in R
  BY DEF Recorded
<1> HIDE DEF k, R
<1>5. /\ DOMAIN nameToURL' = DOMAIN nameToURL \cup R
      /\ \A n \in R : nameToURL'[n] = k
      /\ \A n \in DOMAIN nameToURL \ R : nameToURL'[n] = nameToURL[n]
  BY <1>1
<1>6. \A n \in R \ URLs : Fold[n] = Folded(c) /\ path[c] \notin URLs /\ n \in Names
  BY <1>2, <1>3, <1>4, FoldFacts DEF Folded
<1>7. \A n \in DOMAIN nameToURL \ URLs : n \notin R
  <2>1. \A n \in DOMAIN nameToURL \ URLs : Fold[n] \in DOMAIN nameToURL
    BY WholeFacts DEF NamesOK
  <2> QED
    BY <1>2, <1>6, <2>1
<1>8. Stays
  BY <1>5, <1>7 DEF Stays
<1>9. NamesOK'
  <2>1. DOMAIN nameToURL' \subseteq Names
    BY <1>5, <1>6, WholeFacts, FoldFacts DEF NamesOK
  <2>2. \A n \in DOMAIN nameToURL' : nameToURL'[n] \in DOMAIN srcs'
    BY <1>5, WholeFacts DEF NamesOK, k
  <2>3. ASSUME NEW n \in DOMAIN nameToURL' \ URLs
        PROVE  Fold[n] \in DOMAIN nameToURL' /\ nameToURL'[n] = nameToURL'[Fold[n]]
    <3>1. CASE n \in R
      BY <1>4, <1>5, <1>6, <2>3, <3>1
    <3>2. CASE n \notin R
      <4>1. n \in DOMAIN nameToURL \ URLs /\ n \in Names
        BY <1>5, <2>1, <2>3, <3>2
      <4>2. Fold[n] \in DOMAIN nameToURL \ URLs /\ nameToURL[n] = nameToURL[Fold[n]]
        BY <4>1, WholeFacts, FoldFacts DEF NamesOK
      <4> QED
        BY <1>5, <1>7, <3>2, <4>1, <4>2
    <3> QED
      BY <3>1, <3>2
  <2> QED
    BY <2>1, <2>2, <2>3 DEF NamesOK, Names
<1>10. \A p \in Paths : p \notin URLs /\ Fold[p] # Folded(c) /\ Fold[p] \notin DOMAIN nameToURL =>
            Fold[p] \notin DOMAIN nameToURL'
  <2> SUFFICES ASSUME NEW p \in Paths, p \notin URLs, Fold[p] # Folded(c), Fold[p] \notin DOMAIN nameToURL
               PROVE  Fold[p] \notin DOMAIN nameToURL'
    OBVIOUS
  <2>1. Fold[p] \notin URLs /\ Fold[Fold[p]] = Fold[p]
    BY FoldFacts
  <2>2. Fold[p] \notin R
    BY <1>6, <2>1
  <2> QED
    BY <1>5, <2>2
<1>11. \A p \in Paths : Fold[p] = Folded(c) => IsGatewayOf(p, g)'
  <2>1. g \in DOMAIN gateways'
    BY DEF GatewaysOK
  <2>2. Folded(c) \in DOMAIN nameToURL' /\ g = srcs'[nameToURL'[Folded(c)]]
    BY <1>4, <1>5 DEF k
  <2> QED
    BY <2>1, <2>2 DEF IsGatewayOf
<1>12. writer' \in Callers \cup {NoCaller} /\ writer' # c /\ candidate' \in Nat
  BY <1>1, CoordinatorAssumption
<1>13. \A d \in Callers \ {c} : /\ writer' = d <=> writer = d
                                /\ writer = d => UNCHANGED <<candidate, srcs>>
  BY <1>1, <1>2, CoordinatorAssumption
<1>14. DOMAIN nameToURL \subseteq DOMAIN nameToURL'
  BY <1>5
<1> QED
  BY <1>1, <1>2, <1>8, <1>9, <1>10, <1>11, <1>12, <1>13, <1>14, HandOut

LEMMA TryKnownStep == ASSUME WholeInv, NEW c \in Callers, TryKnown(c) PROVE WholeInv' /\ Stays
<1>1. /\ at[c] = "trying" /\ Key(c) \in DOMAIN srcs /\ Settle(c, srcs[Key(c)])
      /\ UNCHANGED <<supVars, rootxt, hmds, path, hmd, deduced, srcs, gateways, asked, answers>>
  BY DEF TryKnown
<1>2. SupInv' /\ UNCHANGED inside /\ inside[c] = Outside
  BY <1>1, WholeFacts, SupStutter DEF supVars, CallOK
<1>3. srcs[Key(c)] \in DOMAIN gateways /\ DOMAIN gateways = 1 .. Len(gateways) /\ Len(gateways) \in Nat
  BY <1>1, WholeFacts DEF GatewaysOK
<1>4. PICK g \in Nat : g = srcs[Key(c)]
  BY <1>3
<1>5. GatewaysOK' /\ gateways' \in Seq(URLs) /\ DOMAIN gateways \subseteq DOMAIN gateways'
  <2>1. GatewaysOK /\ gateways \in Seq(URLs)
    BY WholeFacts
  <2>2. GatewaysOK'
    BY <1>1, <2>1 DEF GatewaysOK
  <2> QED
    BY <1>1, <2>1, <2>2
<1>6. /\ \A u \in DOMAIN srcs : u \in DOMAIN srcs' /\ srcs'[u] = srcs[u]
      /\ Key(c) \in DOMAIN srcs' /\ srcs'[Key(c)] = g
  BY <1>1, <1>4
<1> QED
  BY <1>1, <1>2, <1>4, <1>5, <1>6, SettleStep

LEMMA OpensStep == ASSUME WholeInv, NEW c \in Callers, Opens(c) PROVE WholeInv' /\ Stays
<1> DEFINE k == Key(c)
           u == Candidate(c)
           g == Len(gateways) + 1
<1>1. /\ at[c] = "opening" /\ Done(c) /\ gateways' = Append(gateways, u)
      /\ srcs' = Put(srcs, k, Len(gateways')) /\ Settle(c, Len(gateways'))
      /\ UNCHANGED <<rootxt, hmds, path, hmd, deduced, asked, answers>>
  BY DEF Opens
<1>2. CallOK(c) /\ writer = c /\ k \notin DOMAIN srcs /\ inside[c] # Outside /\ SupInv
  BY <1>1, WholeFacts DEF CallOK
<1>3. SupInv' /\ inside' = [inside EXCEPT ![c] = Outside]
  BY <1>1, <1>2, DoneStep
<1>4. inside'[c] = Outside /\ \A d \in Callers \ {c} : inside'[d] = inside[d]
  BY <1>3, WholeFacts
<1>5. u \in URLs /\ k \in URLs /\ k \in {u, Fold[u]}
  BY <1>2, CandidateFacts
<1>6. gateways \in Seq(URLs) /\ Len(gateways) \in Nat /\ DOMAIN gateways = 1 .. Len(gateways)
  BY WholeFacts
<1> HIDE DEF k, u
<1>7. /\ gateways' \in Seq(URLs) /\ Len(gateways') = g /\ g \in Nat
      /\ DOMAIN gateways' = DOMAIN gateways \cup {g} /\ g \notin DOMAIN gateways
      /\ gateways'[g] = u /\ \A i \in DOMAIN gateways : gateways'[i] = gateways[i]
  BY <1>1, <1>5, <1>6, AppendFacts
<1> HIDE DEF g
<1>8. /\ DOMAIN srcs' = DOMAIN srcs \cup {k} /\ srcs'[k] = g
      /\ \A v \in DOMAIN srcs : srcs'[v] = srcs[v]
  BY <1>1, <1>2, <1>7 DEF Put
<1>9. GatewaysOK'
  <2>4. /\ \A v \in DOMAIN srcs : v \in URLs /\ srcs[v] \in DOMAIN gateways
        /\ \A v, w \in DOMAIN srcs : srcs[v] = srcs[w] => v = w
        /\ \A i \in DOMAIN gateways :
              \E v \in {gateways[i], Fold[gateways[i]]} : v \in DOMAIN srcs /\ srcs[v] = i
    BY WholeFacts DEF GatewaysOK
  <2>1. \A v \in DOMAIN srcs' : v \in URLs /\ srcs'[v] \in DOMAIN gateways'
    BY <1>5, <1>7, <1>8, <2>4
  <2>2. \A v, w \in DOMAIN srcs' : srcs'[v] = srcs'[w] => v = w
    BY <1>7, <1>8, <2>4
  <2>3. ASSUME NEW i \in DOMAIN gateways'
        PROVE  \E v \in {gateways'[i], Fold[gateways'[i]]} : v \in DOMAIN srcs' /\ srcs'[v] = i
    <3>1. CASE i = g
      BY <1>5, <1>7, <1>8, <3>1
    <3>2. CASE i # g
      BY <1>7, <1>8, <2>4, <3>2
    <3> QED
      BY <3>1, <3>2
  <2> QED
    BY <2>1, <2>2, <2>3 DEF GatewaysOK
<1>10. /\ \A v \in DOMAIN srcs : v \in DOMAIN srcs' /\ srcs'[v] = srcs[v]
       /\ Key(c) \in DOMAIN srcs' /\ srcs'[Key(c)] = g /\ Settle(c, g)
       /\ DOMAIN gateways \subseteq DOMAIN gateways'
  BY <1>1, <1>7, <1>8 DEF k
<1> QED
  BY <1>1, <1>3, <1>4, <1>7, <1>9, <1>10, SettleStep

-----------------------------------------------------------------------------
(* The whole.                                                              *)

LEMMA InitInv == Init => WholeInv
<1> SUFFICES ASSUME Init
             PROVE  WholeInv
  OBVIOUS
<1>1. SupInv /\ DeductionInv
  BY SupInitInv, DeductionInitInv DEF Init
<1>2. /\ DOMAIN srcs = {} /\ DOMAIN nameToURL = {} /\ DOMAIN protoSrcs = {} /\ answers = {}
      /\ gateways = <<>> /\ writer = NoCaller /\ candidate = 0
  BY EmptyMapFacts DEF Init
<1>3. \A c \in Callers : /\ at[c] = "idle" /\ mail[c] = <<>> /\ inside[c] = Outside /\ gate[c] = NoGateway
                         /\ asked[c] = "root"
  BY DEF Init, DeductionInit, SupInit
<1>4. CoordTypeOK
  <2>1. /\ at \in [Callers -> Stages] /\ asked \in [Callers -> {"root", "source"}]
        /\ gate \in [Callers -> Nat] /\ mail \in [Callers -> Seq(Nat)]
    <3>1. <<>> \in Seq(Nat) /\ NoGateway \in Nat /\ "idle" \in Stages
      BY DEF NoGateway, Stages
    <3> QED
      BY <3>1 DEF Init, DeductionInit
  <2>2. <<>> \in Seq(URLs)
    OBVIOUS
  <2> QED
    BY <1>2, <2>1, <2>2 DEF CoordTypeOK
<1>5. DOMAIN gateways = {}
  BY <1>2
<1>6. GatewaysOK /\ NamesOK /\ AnswersOK
  BY <1>2, <1>5 DEF GatewaysOK, NamesOK, AnswersOK
<1>7. JoiningOK
  BY <1>2, <1>3 DEF JoiningOK, IsFirst
<1>8. \A c \in Callers : CallOK(c)
  BY <1>2, <1>3, CoordinatorAssumption DEF CallOK, Setting, Serving
<1> QED
  BY <1>1, <1>4, <1>6, <1>7, <1>8 DEF WholeInv

\* Release does nothing to the calls, nor does anybody do anything else.
LEMMA NothingElse ==
    ASSUME WholeInv, SupInv', UNCHANGED <<inside, deductionVars, coordVars>>
    PROVE  WholeInv' /\ Stays
<1>1. /\ UNCHANGED <<rootxt, hmds, path, hmd, deduced, at, inside>>
      /\ UNCHANGED <<srcs, nameToURL, gateways, protoSrcs, mail, asked, answers, gate, writer, candidate>>
  BY DEF deductionVars, coordVars
<1>2. GatewaysOK' /\ NamesOK' /\ Stays
  BY <1>1, MapsStay
<1>3. DeductionInv'
  <2>1. DeductionTypeOK' /\ RootsAreRight' /\ EntriesOK' /\ deduced' \in [Callers -> Deductions]
    BY <1>1, WholeFacts DEF DeductionInv, DeductionTypeOK, RootsAreRight, EntriesOK
  <2>3. (\A i \in 1 .. Len(hmds) : IsOfOneRoot(i)) /\ (\A c \in Callers : DeducingOK(c))
    BY WholeFacts DEF DeductionInv
  <2>2. (\A i \in 1 .. Len(hmds) : IsOfOneRoot(i))' /\ (\A c \in Callers : DeducingOK(c))'
    BY <1>1, <2>3 DEF IsOfOneRoot, DeducingOK
  <2> QED
    BY <2>1, <2>2 DEF DeductionInv
<1>4. CoordTypeOK'
  BY <1>1, WholeFacts DEF CoordTypeOK
<1>5. AnswersOK'
  <2>1. UNCHANGED answers /\ DOMAIN gateways \subseteq DOMAIN gateways'
    BY <1>1
  <2> QED
    BY <1>2, <2>1, WholeFacts, AnswersStay
<1>6. JoiningOK'
  <2>1. \A d \in Callers : /\ IsFirst(d)' <=> IsFirst(d)
                           /\ Pending(d)' <=> Pending(d)
                           /\ IsFirst(d) \/ Pending(d) => path'[d] = path[d]
    BY <1>1 DEF IsFirst, Pending
  <2>2. UNCHANGED protoSrcs
    BY <1>1
  <2> QED
    BY <2>1, <2>2, WholeFacts, JoiningStays
<1>7. ASSUME NEW d \in Callers
      PROVE  CallOK(d)'
  <2>1. /\ DOMAIN gateways \subseteq DOMAIN gateways' /\ DOMAIN nameToURL \subseteq DOMAIN nameToURL'
        /\ Same(d) /\ mail'[d] = mail[d] /\ (writer' = d <=> writer = d)
        /\ writer = d => UNCHANGED <<candidate, srcs>>
    BY <1>1 DEF Same
  <2>2. at[d] \in Setting /\ path[d] \notin URLs => Folded(d) \notin DOMAIN nameToURL'
    BY <1>1, WholeFacts DEF CallOK
  <2> QED
    BY <1>2, <2>1, <2>2, CallStays
<1>8. \A d \in Callers : CallOK(d)'
  BY <1>7
<1> QED
  BY <1>2, <1>3, <1>4, <1>5, <1>6, <1>8 DEF WholeInv

LEMMA NextInv == WholeInv /\ [Next]_vars => WholeInv' /\ Stays
<1> SUFFICES ASSUME WholeInv, [Next]_vars
             PROVE  WholeInv' /\ Stays
  OBVIOUS
<1>1. ASSUME NEW c \in Callers, Call(c) \/ Step(c)
      PROVE  WholeInv' /\ Stays
  <2>1. CASE Call(c)
    BY <2>1, CallStep
  <2>2. CASE Deduce(c) /\ UNCHANGED coordVars
    BY <2>2, DeducingStep
  <2>3. CASE Enter(c) \/ Read(c) \/ Upgrade(c)
    BY <2>3, EnterStep, ReadStep, UpgradeStep
  <2>4. CASE Join(c) \/ Collect(c)
    BY <2>4, JoinStep, CollectStep
  <2>5. CASE DeductionIsOver(c) \/ Recheck(c) \/ Lock(c)
    BY <2>5, DeductionIsOverStep, RecheckStep, LockStep
  <2>6. CASE TryKnown(c) \/ Try(c) \/ Opens(c)
    BY <2>6, TryKnownStep, TryStep, OpensStep
  <2>7. CASE TryFails(c) \/ DoesNotOpen(c)
    BY <2>7, TryFailsStep, DoesNotOpenStep
  <2>8. CASE Use(c) \/ Listed(c)
    BY <2>8, UseStep, ListedStep
  <2>9. CASE UseIsRefused(c) \/ Reply(c)
    BY <2>9, UseIsRefusedStep, ReplyStep
  <2> QED
    BY <1>1, <2>1, <2>2, <2>3, <2>4, <2>5, <2>6, <2>7, <2>8, <2>9 DEF Step
<1>2. CASE (BeginRelease \/ Release) /\ UNCHANGED <<deductionVars, coordVars>>
  <2>1. SupInv' /\ UNCHANGED inside
    BY <1>2, WholeFacts, ReleaseKeeps
  <2> QED
    BY <1>2, <2>1, NothingElse
<1>3. CASE UNCHANGED vars
  <2>1. UNCHANGED <<supVars, inside, deductionVars, coordVars>>
    BY <1>3 DEF vars, supVars
  <2>2. SupInv'
    BY <2>1, WholeFacts, SupStutter
  <2> QED
    BY <2>1, <2>2, NothingElse
<1> QED
  BY <1>1, <1>2, <1>3 DEF Next, ReleaseStep, Quiet

\* Of the callers that work on a name there is one.
LEMMA OneWorks ==
    ASSUME JoiningOK, NEW n \in DOMAIN protoSrcs
    PROVE  Cardinality({c \in Callers : IsFirst(c) /\ Folded(c) = n}) = 1
<1>1. PICK c \in Callers : IsFirst(c) /\ Folded(c) = n
  BY DEF JoiningOK
<1>2. {d \in Callers : IsFirst(d) /\ Folded(d) = n} = {c}
  BY <1>1 DEF JoiningOK
<1> QED
  BY <1>2, FS_Singleton

LEMMA WholeIsEnough == WholeInv => CoordInv /\ OneForAnswers
<1> SUFFICES ASSUME WholeInv
             PROVE  CoordInv /\ OneForAnswers
  OBVIOUS
<1>1. SupTypeOK /\ CountsAreRight /\ SleepsForACall /\ LockCoversCalls /\ DeductionTypeOK /\ RootsAreRight
  BY WholeFacts DEF SupInv, DeductionInv
<1>2. NamesHaveGateways
  <2>1. \A n \in DOMAIN nameToURL : nameToURL[n] \in DOMAIN srcs
    BY WholeFacts DEF NamesOK
  <2>2. \A c \in Callers : at[c] # "panicked"
    BY WholeFacts DEF Stages
  <2> QED
    BY <2>1, <2>2 DEF NamesHaveGateways
<1>3. WaitersAreServed
  <2>1. \A c \in Callers : at[c] = "waiting" =>
            \/ mail[c] # <<>>
            \/ Folded(c) \in DOMAIN protoSrcs /\ \E i \in DOMAIN protoSrcs[Folded(c)] : protoSrcs[Folded(c)][i] = c
    BY WholeFacts DEF JoiningOK
  <2>2. \A c \in Callers : Len(mail[c]) <= 1
    <3>1. \A c \in Callers : mail[c] # <<>> => Len(mail[c]) = 1
      BY WholeFacts DEF CallOK
    <3>2. Len(<<>>) = 0
      OBVIOUS
    <3> SUFFICES ASSUME NEW c \in Callers
                 PROVE  Len(mail[c]) <= 1
      OBVIOUS
    <3>3. CASE mail[c] = <<>>
      BY <3>2, <3>3
    <3>4. CASE mail[c] # <<>>
      <4>1. Len(mail[c]) = 1
        BY <3>1, <3>4, Zenon
      <4> QED
        BY <4>1
    <3> QED
      BY <3>3, <3>4
  <2>3. \A n \in DOMAIN protoSrcs : Cardinality({c \in Callers : IsFirst(c) /\ Folded(c) = n}) = 1
    BY WholeFacts, OneWorks
  <2> QED
    BY <2>1, <2>2, <2>3 DEF WaitersAreServed
<1>4. ASSUME NEW a \in answers, NEW b \in answers, Fold[a[1]] = Fold[b[1]], a[1] \notin URLs, b[1] \notin URLs
      PROVE  a[2] = b[2]
  <2>1. PICK p \in Paths, g \in DOMAIN gateways : a = <<p, g>> /\ IsGatewayOf(p, g)
    BY WholeFacts DEF AnswersOK
  <2>2. PICK q \in Paths, h \in DOMAIN gateways : b = <<q, h>> /\ IsGatewayOf(q, h)
    BY WholeFacts DEF AnswersOK
  <2> QED
    BY <1>4, <2>1, <2>2 DEF IsGatewayOf
<1>5. ASSUME NEW i \in DOMAIN gateways, NEW j \in DOMAIN gateways,
             gateways[i] = gateways[j], Fold[gateways[i]] = gateways[i]
      PROVE  i = j
  <2>1. \A k \in DOMAIN gateways : \E u \in {gateways[k], Fold[gateways[k]]} : u \in DOMAIN srcs /\ srcs[u] = k
    BY WholeFacts DEF GatewaysOK
  <2>2. srcs[gateways[i]] = i
    BY <1>5, <2>1
  <2>3. srcs[gateways[j]] = j
    BY <1>5, <2>1
  <2> QED
    BY <1>5, <2>2, <2>3
<1>6. OneForAnswers
  BY <1>4, <1>5 DEF OneForAnswers
<1> QED
  BY <1>1, <1>2, <1>3, <1>6 DEF CoordInv

\* The books of the supervisor, of the deduction and of the coordinator agree with
\* where each caller stands, and with each other.
THEOREM Invariance == Spec => []WholeInv
<1>1. WholeInv /\ [Next]_vars => WholeInv'
  BY NextInv
<1> QED
  BY InitInv, <1>1, PTL DEF Spec

\* However the calls of any number of goroutines are interleaved with each other
\* and with Release: done() finds its call in the map, the lock file is held while
\* a call runs, whoever is told a root is told its own, no name is without a
\* gateway (the panics of getSourceGatewayFor), a caller that waits is in the list
\* of the one caller that sets up its name or has its answer, and has one.
THEOREM BookkeepingIsRight == Spec => []CoordInv
<1>1. WholeInv => CoordInv
  BY WholeIsEnough
<1> QED
  BY Invariance, <1>1, PTL

\* A gateway stays the gateway of its URL and a URL that of its import path, and
\* two callers who asked for an import path that differs by case only have been
\* given the same gateway ("we do not end up with multiple sourceGateways for paths
\* that vary only by case", source.go:106).
THEOREM PathsShareAGateway == Spec => OneGateway
<1>1. WholeInv /\ [Next]_vars => Stays /\ OneForAnswers'
  <2>1. WholeInv /\ [Next]_vars => WholeInv' /\ Stays
    BY NextInv
  <2>2. WholeInv' => OneForAnswers'
    BY WholeIsEnough, PTL
  <2> QED
    BY <2>1, <2>2
<1>2. WholeInv /\ [Next]_vars => [Stays /\ OneForAnswers']_vars
  BY <1>1
<1> QED
  BY Invariance, <1>2, PTL DEF Spec, OneGateway
=============================================================================
