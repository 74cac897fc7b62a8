-------------------------- MODULE SourceCoordinator --------------------------
(***************************************************************************)
(* How the callers of a SourceMgr get to a source (gps/source.go,          *)
(* gps/source_manager.go): getSourceGatewayFor with the deduction and the  *)
(* supervisor behind it, newSourceGateway, one call of the gateway, and    *)
(* DeduceProjectRoot.  A name is an import path or the URL of a source,    *)
(* and is folded to lower case to be looked up.                            *)
(*                                                                         *)
(* srcmut is modelled by its writer: what is done with the read lock held  *)
(* is one step, and psrcmut guards single steps only.  A gateway is the    *)
(* number of the newSourceGateway that made it.                            *)
(***************************************************************************)
EXTENDS Deduction

CONSTANTS
    URLs,
    Fold,       \* toFold, of paths and URLs
    MaxCalls    \* bounds the calls of all callers together

NoCaller == "none"
NoGateway == 0

\* Folding twice is folding once, and makes a path of no URL.
ASSUME CoordinatorAssumption ==
    /\ NoCaller \notin Callers
    /\ <<"git", "ctListVersions">> \in CallInfos
    /\ \A u \in URLs : <<u, "ctValidateLocal">> \in CallInfos
    /\ \A p \in Paths : SourcesOf[p] \in Seq(URLs) \ {<<>>}
    /\ \A n \in Paths \cup URLs : Fold[Fold[n]] = Fold[n] /\ (Fold[n] \in URLs <=> n \in URLs)

VARIABLES
    srcs,         \* sourceCoordinator.srcs: gateways by URL
    nameToURL,
    protoSrcs,    \* callers that wait for whoever sets up the source, by folded name
    mail,         \* what the channel of each waiting caller holds
    writer,       \* who holds srcmut for writing
    candidate,    \* the index in pd.mb that the writer is at
    gateways,     \* the URL of the source of each gateway
    gate,         \* the gateway that each caller has got
    asked,        \* what it asked for: "root" or "source"
    calls,        \* how many calls were made
    answers       \* the gateways that were given out, with the names asked for

coordVars ==
    <<srcs, nameToURL, protoSrcs, mail, writer, candidate, gateways, gate, asked, calls, answers>>
vars == <<supVars, deductionVars, coordVars>>

Init ==
    /\ SupInit /\ DeductionInit
    /\ srcs = EmptyMap
    /\ nameToURL = EmptyMap
    /\ protoSrcs = EmptyMap
    /\ mail = [c \in Callers |-> <<>>]
    /\ writer = NoCaller
    /\ candidate = 0
    /\ gateways = <<>>
    /\ gate = [c \in Callers |-> NoGateway]
    /\ asked = [c \in Callers |-> "root"]
    /\ calls = 0
    /\ answers = {}

Folded(c) == Fold[path[c]]
NotFolded(c) == Folded(c) # path[c]
Unwritten == writer = NoCaller

Got(c, g) == gate' = [gate EXCEPT ![c] = g] /\ GoTo(c, IF g = NoGateway THEN "failed" ELSE "using")

----------------------------------------------------------------------------
\* A method of SourceMgr; once releasing is set it returns an error at once.
Call(c) ==
    /\ at[c] = "idle" /\ release = "none" /\ calls < MaxCalls
    /\ \E p \in Paths : path' = [path EXCEPT ![c] = p]
    /\ \E what \in {"root", "source"} :
          /\ asked' = [asked EXCEPT ![c] = what]
          /\ GoTo(c, IF what = "root" THEN "looking" ELSE "entering")
    /\ calls' = calls + 1
    /\ UNCHANGED <<supVars, rootxt, hmds, hmd, deduced, srcs, nameToURL, protoSrcs, mail,
                   writer, candidate, gateways, gate, answers>>

\* The context of the supervisor is looked at first.
Enter(c) ==
    /\ at[c] = "entering"
    /\ IF cancelled THEN Got(c, NoGateway) ELSE GoTo(c, "reading") /\ UNCHANGED gate
    /\ UNCHANGED <<supVars, rootxt, hmds, path, hmd, deduced, srcs, nameToURL, protoSrcs, mail,
                   writer, candidate, gateways, asked, calls, answers>>

\* The gateway of a name that has a URL; without one the code panics.
GatewayOf(n) == srcs[nameToURL[n]]
Has(n) == n \in DOMAIN nameToURL
Panics(n) == nameToURL[n] \notin DOMAIN srcs

Panic(c, n) ==
    /\ Has(n) /\ Panics(n)
    /\ GoTo(c, "panicked") /\ UNCHANGED gate

\* The name itself, and then the folded one.
Read(c) ==
    /\ at[c] = "reading" /\ Unwritten
    /\ \/ Panic(c, path[c])
       \/ Has(path[c]) /\ ~Panics(path[c]) /\ Got(c, GatewayOf(path[c]))
       \/ ~Has(path[c]) /\ Panic(c, Folded(c))
       \/ /\ ~Has(path[c]) /\ Has(Folded(c)) /\ ~Panics(Folded(c))
          /\ gate' = [gate EXCEPT ![c] = GatewayOf(Folded(c))]
          /\ GoTo(c, "upgrading")
       \/ ~Has(path[c]) /\ ~Has(Folded(c)) /\ GoTo(c, "joining") /\ UNCHANGED gate
    /\ UNCHANGED <<supVars, rootxt, hmds, path, hmd, deduced, srcs, nameToURL, protoSrcs, mail,
                   writer, candidate, gateways, asked, calls, answers>>

\* With the write lock, the URL that the folded name had is recorded for the name;
\* nobody looks whether it still has it.
Upgrade(c) ==
    /\ at[c] = "upgrading" /\ Unwritten
    /\ nameToURL' = Put(nameToURL, path[c], CHOOSE url \in DOMAIN srcs : srcs[url] = gate[c])
    /\ GoTo(c, "using")
    /\ UNCHANGED <<supVars, rootxt, hmds, path, hmd, deduced, srcs, protoSrcs, mail, gate,
                   writer, candidate, gateways, asked, calls, answers>>

\* Attempts on the same folded name are joined: the first deduces, the others
\* wait, whatever becomes of their own contexts.
Join(c) ==
    /\ at[c] = "joining"
    /\ IF Folded(c) \in DOMAIN protoSrcs
         THEN /\ protoSrcs' = [protoSrcs EXCEPT ![Folded(c)] = Append(@, c)]
              /\ GoTo(c, "waiting")
         ELSE protoSrcs' = Put(protoSrcs, Folded(c), <<>>) /\ GoTo(c, "looking")
    /\ UNCHANGED <<supVars, rootxt, hmds, path, hmd, deduced, srcs, nameToURL, mail,
                   writer, candidate, gateways, gate, asked, calls, answers>>

Collect(c) ==
    /\ at[c] = "waiting" /\ mail[c] # <<>>
    /\ mail' = [mail EXCEPT ![c] = <<>>]
    /\ Got(c, Head(mail[c]))
    /\ UNCHANGED <<supVars, rootxt, hmds, path, hmd, deduced, srcs, nameToURL, protoSrcs,
                   writer, candidate, gateways, asked, calls, answers>>

\* doReturn: the same for the caller and for all that wait for it.
DoReturn(c, g) ==
    /\ LET chans == {protoSrcs[Folded(c)][i] : i \in DOMAIN protoSrcs[Folded(c)]}
       IN  mail' = [d \in Callers |-> IF d \in chans THEN Append(mail[d], g) ELSE mail[d]]
    /\ protoSrcs' = Delete(protoSrcs, Folded(c))
    /\ Got(c, g)

\* The deduction is over.  DeduceProjectRoot returns it as it is; an error is told
\* to the callers that wait.
DeductionIsOver(c) ==
    /\ at[c] = "deduced"
    /\ CASE asked[c] = "root" -> GoTo(c, "failed") /\ UNCHANGED <<gate, mail, protoSrcs>>
         [] asked[c] = "source" /\ ~deduced[c].ok -> DoReturn(c, NoGateway)
         [] OTHER -> GoTo(c, "rechecking") /\ UNCHANGED <<gate, mail, protoSrcs>>
    /\ UNCHANGED <<supVars, rootxt, hmds, path, hmd, deduced, srcs, nameToURL,
                   writer, candidate, gateways, asked, calls, answers>>

\* Mutant: the map is not looked at again.
RecheckNothing(c) ==
    /\ at[c] = "rechecking" /\ Unwritten
    /\ GoTo(c, "locking")
    /\ UNCHANGED <<supVars, rootxt, hmds, path, hmd, deduced, srcs, nameToURL, protoSrcs, mail,
                   writer, candidate, gateways, gate, asked, calls, answers>>

\* A gateway of the name may have come into the map meanwhile.
Recheck(c) ==
    /\ at[c] = "rechecking" /\ Unwritten
    /\ \/ Panic(c, Folded(c)) /\ UNCHANGED <<mail, protoSrcs>>
       \/ Has(Folded(c)) /\ ~Panics(Folded(c)) /\ DoReturn(c, GatewayOf(Folded(c)))
       \/ ~Has(Folded(c)) /\ GoTo(c, "locking") /\ UNCHANGED <<gate, mail, protoSrcs>>
    /\ UNCHANGED <<supVars, rootxt, hmds, path, hmd, deduced, srcs, nameToURL,
                   writer, candidate, gateways, asked, calls, answers>>

----------------------------------------------------------------------------
(* With srcmut locked, the candidates of the deduction are tried in turn.  *)

Lock(c) ==
    /\ at[c] = "locking" /\ Unwritten
    /\ writer' = c
    /\ candidate' = 1
    /\ GoTo(c, "trying")
    /\ UNCHANGED <<supVars, rootxt, hmds, path, hmd, deduced, srcs, nameToURL, protoSrcs, mail,
                   gateways, gate, asked, calls, answers>>

Candidate(c) == deduced[c].mb[candidate]
\* The key of a URL in srcs: folded if the name is not.
Key(c) == IF NotFolded(c) THEN Fold[Candidate(c)] ELSE Candidate(c)

\* The names that a caller records for its URL.
Recorded(c) ==
    {Folded(c), Key(c)} \cup (IF NotFolded(c) THEN {path[c], Candidate(c)} ELSE {})

\* The caller has gateway g for its URL: the names are recorded, the result is
\* handed out, and the deferred Unlock runs.
Settle(c, g) ==
    /\ nameToURL' = [n \in DOMAIN nameToURL \cup Recorded(c) |->
                        IF n \in Recorded(c) THEN Key(c) ELSE nameToURL[n]]
    /\ DoReturn(c, g)
    /\ writer' = NoCaller
    /\ candidate' = 0

TryKnown(c) ==
    /\ at[c] = "trying"
    /\ Key(c) \in DOMAIN srcs
    /\ Settle(c, srcs[Key(c)])
    /\ UNCHANGED <<supVars, rootxt, hmds, path, hmd, deduced, srcs, gateways, asked, calls, answers>>

\* newSourceGateway makes a supervised call: of a local clone, to clean it, or to
\* upstream.
Try(c) ==
    /\ at[c] = "trying"
    /\ Key(c) \notin DOMAIN srcs
    /\ \E ci \in {<<Candidate(c), "ctValidateLocal">>, <<"git", "ctListVersions">>} : Start(c, ci)
    /\ GoTo(c, "opening")
    /\ UNCHANGED <<rootxt, hmds, path, hmd, deduced, coordVars>>

Opens(c) ==
    /\ at[c] = "opening"
    /\ Done(c)
    /\ gateways' = Append(gateways, Candidate(c))
    /\ srcs' = Put(srcs, Key(c), Len(gateways'))
    /\ Settle(c, Len(gateways'))
    /\ UNCHANGED <<rootxt, hmds, path, hmd, deduced, asked, calls, answers>>

\* Mutant: the callers that wait are not told of the failure.
NextCandidateUntold(c) ==
    IF candidate < Len(deduced[c].mb)
      THEN /\ candidate' = candidate + 1
           /\ GoTo(c, "trying")
           /\ UNCHANGED <<gate, mail, protoSrcs, writer>>
      ELSE /\ Got(c, NoGateway)
           /\ protoSrcs' = Delete(protoSrcs, Folded(c))
           /\ writer' = NoCaller /\ candidate' = 0
           /\ UNCHANGED mail

\* The next candidate, or an error for all.
NextCandidate(c) ==
    IF candidate < Len(deduced[c].mb)
      THEN /\ candidate' = candidate + 1
           /\ GoTo(c, "trying")
           /\ UNCHANGED <<gate, mail, protoSrcs, writer>>
      ELSE DoReturn(c, NoGateway) /\ writer' = NoCaller /\ candidate' = 0

\* m.try fails, or the supervisor refuses the call.
TryFails(c) ==
    /\ at[c] = "trying"
    /\ Key(c) \notin DOMAIN srcs
    /\ NextCandidate(c)
    /\ UNCHANGED <<supVars, rootxt, hmds, path, hmd, deduced, srcs, nameToURL, gateways,
                   asked, calls, answers>>

DoesNotOpen(c) ==
    /\ at[c] = "opening"
    /\ Done(c)
    /\ NextCandidate(c)
    /\ UNCHANGED <<rootxt, hmds, path, hmd, deduced, srcs, nameToURL, gateways, asked, calls, answers>>

----------------------------------------------------------------------------
(* One supervised call of the gateway, under its mutex.                    *)

Use(c) ==
    /\ at[c] = "using"
    /\ \A d \in Callers : at[d] = "listing" => gate[d] # gate[c]
    /\ Start(c, <<"git", "ctListVersions">>)
    /\ GoTo(c, "listing")
    /\ UNCHANGED <<rootxt, hmds, path, hmd, deduced, coordVars>>

Listed(c) ==
    /\ at[c] = "listing"
    /\ Done(c)
    /\ GoTo(c, "served")
    /\ UNCHANGED <<rootxt, hmds, path, hmd, deduced, coordVars>>

UseIsRefused(c) ==
    /\ at[c] = "using" /\ cancelled
    /\ GoTo(c, "served")
    /\ UNCHANGED <<supVars, rootxt, hmds, path, hmd, deduced, coordVars>>

\* The method returns to its caller.
Reply(c) ==
    /\ at[c] \in {"served", "failed"}
    /\ answers' = IF at[c] = "served" THEN answers \cup {<<path[c], gate[c]>>} ELSE answers
    /\ at' = [at EXCEPT ![c] = "idle"]
    /\ path' = [path EXCEPT ![c] = ""]
    /\ hmd' = [hmd EXCEPT ![c] = 0]
    /\ deduced' = [deduced EXCEPT ![c] = NotDeduced]
    /\ gate' = [gate EXCEPT ![c] = NoGateway]
    /\ asked' = [asked EXCEPT ![c] = "root"]
    /\ UNCHANGED <<supVars, rootxt, hmds, srcs, nameToURL, protoSrcs, mail, writer, candidate,
                   gateways, calls>>

Step(c) ==
    \/ Deduce(c) /\ UNCHANGED coordVars
    \/ Enter(c) \/ Read(c) \/ Upgrade(c) \/ Join(c) \/ Collect(c)
    \/ DeductionIsOver(c) \/ Recheck(c) \/ Lock(c)
    \/ TryKnown(c) \/ Try(c) \/ Opens(c) \/ TryFails(c) \/ DoesNotOpen(c)
    \/ Use(c) \/ Listed(c) \/ UseIsRefused(c) \/ Reply(c)

ReleaseStep == Release /\ UNCHANGED <<deductionVars, coordVars>>

\* Nobody is in a call, and no more are made.
Quiet ==
    /\ \A c \in Callers : at[c] \in {"idle", "panicked"}
    /\ release \in {"none", "released"}
    /\ UNCHANGED vars

Next ==
    \/ \E c \in Callers : Call(c) \/ Step(c)
    \/ BeginRelease /\ UNCHANGED <<deductionVars, coordVars>>
    \/ ReleaseStep
    \/ Quiet

Spec == Init /\ [][Next]_vars

\* The scheduler runs every goroutine, and what a closure does under the
\* supervisor ends (its requests and commands have the context, or a timeout).
FairSpec == Spec /\ WF_vars(ReleaseStep) /\ \A c \in Callers : WF_vars(Step(c))

----------------------------------------------------------------------------
(***************************************************************************)
(* Properties                                                              *)
(***************************************************************************)
\* The three panics of getSourceGatewayFor are out of reach: whatever has a URL
\* has a gateway.
NamesHaveGateways ==
    /\ \A n \in DOMAIN nameToURL : nameToURL[n] \in DOMAIN srcs
    /\ \A c \in Callers : at[c] # "panicked"

\* Callers that set up the source of their name, others waiting for them.
IsFirst(c) ==
    /\ asked[c] = "source"
    /\ at[c] \in {"looking", "unknown", "once", "asking", "storing", "deduced",
                  "rechecking", "locking", "trying", "opening"}

\* A caller that waits is in the list of somebody who works on its name, or its
\* channel holds the result; and of those who work on a folded name, there is one.
WaitersAreServed ==
    /\ \A c \in Callers : at[c] = "waiting" =>
          \/ mail[c] # <<>>
          \/ Folded(c) \in DOMAIN protoSrcs /\ \E i \in DOMAIN protoSrcs[Folded(c)] : protoSrcs[Folded(c)][i] = c
    /\ \A c \in Callers : Len(mail[c]) <= 1
    /\ \A n \in DOMAIN protoSrcs :
          Cardinality({c \in Callers : IsFirst(c) /\ Folded(c) = n}) = 1

\* The bookkeeping of the coordinator and of what it stands on.
CoordInv ==
    /\ SupTypeOK /\ CountsAreRight /\ SleepsForACall /\ LockCoversCalls
    /\ DeductionTypeOK /\ RootsAreRight
    /\ NamesHaveGateways /\ WaitersAreServed

\* "we do not end up with multiple sourceGateways for paths that vary only by case"
\* (source.go:106): the same import path, however written, always has the same
\* gateway.  Of URLs this is so only if they are in lower case: an import path in
\* lower case may be deduced to a URL that is not, which then has two keys in srcs,
\* and two gateways.
OneForAnswers ==
    /\ \A a, b \in answers :
          Fold[a[1]] = Fold[b[1]] /\ a[1] \notin URLs /\ b[1] \notin URLs => a[2] = b[2]
    /\ \A i, j \in DOMAIN gateways :
          gateways[i] = gateways[j] /\ Fold[gateways[i]] = gateways[i] => i = j

\* A gateway, once in the map, is not replaced: its mutex serialises all that
\* is done with its source from then on.  An import path keeps its URL, as whoever
\* upgrades to the write lock relies on ("they'll only have recorded the same url
\* value", source.go:132); the name of a URL may get another one, when it could
\* not be opened itself before and now can.
Stays ==
    /\ \A u \in DOMAIN srcs : u \in DOMAIN srcs' /\ srcs'[u] = srcs[u]
    /\ \A n \in DOMAIN nameToURL \ URLs :
          n \in DOMAIN nameToURL' /\ nameToURL'[n] = nameToURL[n]

\* Both: whatever is done with the project of an import path goes through one gateway.
OneGateway == [][Stays /\ OneForAnswers']_vars

\* Every call returns, and so does Release.
CallsReturn ==
    /\ \A c \in Callers : at[c] # "idle" ~> at[c] = "idle"
    /\ ReleaseEnds

----------------------------------------------------------------------------
(* The inductive invariant behind them.                                    *)

Stages ==
    {"idle", "entering", "reading", "upgrading", "joining", "waiting", "looking", "unknown", "once",
     "asking", "storing", "deduced", "rechecking", "locking", "trying", "opening", "using",
     "listing", "served", "failed"}

CoordTypeOK ==
    /\ at \in [Callers -> Stages]
    /\ asked \in [Callers -> {"root", "source"}]
    /\ gateways \in Seq(URLs)
    /\ gate \in [Callers -> Nat]
    /\ mail \in [Callers -> Seq(Nat)]
    /\ candidate \in Nat
    /\ writer \in Callers \cup {NoCaller}

\* Each gateway is in the map once, by its URL or by its folded one.
GatewaysOK ==
    /\ \A u \in DOMAIN srcs : u \in URLs /\ srcs[u] \in DOMAIN gateways
    /\ \A u, v \in DOMAIN srcs : srcs[u] = srcs[v] => u = v
    /\ \A i \in DOMAIN gateways :
          \E u \in {gateways[i], Fold[gateways[i]]} : u \in DOMAIN srcs /\ srcs[u] = i

Names == Paths \cup URLs \cup {Fold[p] : p \in Paths}

\* An import path has the URL of its folded form.
NamesOK ==
    /\ DOMAIN nameToURL \subseteq Names
    /\ \A n \in DOMAIN nameToURL : nameToURL[n] \in DOMAIN srcs
    /\ \A n \in DOMAIN nameToURL \ URLs :
          Fold[n] \in DOMAIN nameToURL /\ nameToURL[n] = nameToURL[Fold[n]]

\* g is the gateway of p, which may change only if p is a URL.
IsGatewayOf(p, g) ==
    /\ g \in DOMAIN gateways
    /\ p \notin URLs => Fold[p] \in DOMAIN nameToURL /\ g = srcs[nameToURL[Fold[p]]]

Serving == {"upgrading", "using", "listing", "served"}
Setting == {"locking", "trying", "opening"}

CallOK(c) ==
    /\ at[c] \in {"entering", "reading", "joining"} => asked[c] = "source"
    /\ at[c] \in Setting \cup {"rechecking"} => asked[c] = "source" /\ deduced[c].ok
    /\ at[c] \in Setting /\ path[c] \notin URLs => Folded(c) \notin DOMAIN nameToURL
    /\ at[c] \in {"trying", "opening"} <=> writer = c
    /\ writer = c => candidate \in 1 .. Len(deduced[c].mb)
    /\ at[c] = "opening" => Key(c) \notin DOMAIN srcs
    /\ at[c] \in Serving => IsGatewayOf(path[c], gate[c])
    /\ at[c] = "upgrading" => Folded(c) \in DOMAIN nameToURL
    /\ mail[c] # <<>> => /\ at[c] = "waiting" /\ Len(mail[c]) = 1
                         /\ Head(mail[c]) # NoGateway => IsGatewayOf(path[c], Head(mail[c]))
    /\ inside[c] # Outside <=> at[c] \in {"asking", "opening", "listing"}

\* Whoever is in a list waits for the one caller who sets up its name, and has
\* heard nothing yet.
JoiningOK ==
    /\ \A n \in DOMAIN protoSrcs :
          /\ protoSrcs[n] \in Seq(Callers)
          /\ \A i \in DOMAIN protoSrcs[n] :
                LET d == protoSrcs[n][i] IN at[d] = "waiting" /\ mail[d] = <<>> /\ Folded(d) = n
          /\ \E c \in Callers : IsFirst(c) /\ Folded(c) = n
    /\ \A c \in Callers : IsFirst(c) => Folded(c) \in DOMAIN protoSrcs
    /\ \A c, d \in Callers : IsFirst(c) /\ IsFirst(d) /\ Folded(c) = Folded(d) => c = d
    /\ \A c \in Callers : at[c] = "waiting" /\ mail[c] = <<>> =>
          Folded(c) \in DOMAIN protoSrcs /\ \E i \in DOMAIN protoSrcs[Folded(c)] : protoSrcs[Folded(c)][i] = c

AnswersOK == \A a \in answers : \E p \in Paths, g \in DOMAIN gateways : a = <<p, g>> /\ IsGatewayOf(p, g)

WholeInv ==
    /\ SupInv /\ DeductionInv
    /\ CoordTypeOK /\ GatewaysOK /\ NamesOK /\ JoiningOK /\ AnswersOK
    /\ \A c \in Callers : CallOK(c)
=============================================================================
