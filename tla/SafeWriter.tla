------------------------------ MODULE SafeWriter ------------------------------
(***************************************************************************)
(* SafeWriter (dep/txn_writer.go): it writes any of a manifest, a lock and *)
(* a vendor tree into a temporary directory, then moves the old ones out   *)
(* of their place and the new ones in, and moves the old ones back if a    *)
(* move fails.                                                             *)
(*                                                                         *)
(* The disk is a content for each place.  A move may fail, at most         *)
(* MaxFaults of them do, and the process may be killed between two steps.  *)
(* Where the temporary directory is on another device, a move into or out  *)
(* of it is a copy followed by a removal, and either may fail.             *)
(***************************************************************************)
EXTENDS DepTree

CONSTANTS MaxFaults
ASSUME FaultsAssumption == MaxFaults \in Nat

VARIABLES
    payload,      \* the arguments of NewSafeWriter, and the devices
    sw,         \* the SafeWriter: what it is to write
    first,      \* the disk and the place of .git as they were
    disk,
    git,        \* the place of the vendor directory that .git is in
    pc,
    restore,    \* the moves that put things back, in order
    vendorbak,
    faults,
    result      \* "none", "ok" or "failed"

writerVars == <<payload, sw, first, disk, git, pc, restore, vendorbak, faults, result>>
vars == <<treeVars, writerVars>>

Targets == {"manifest", "lock", "vendor"}
Temp(x) == CASE x = "manifest" -> "td/manifest" [] x = "lock" -> "td/lock" [] x = "vendor" -> "td/vendor"
TempOrig(x) == CASE x = "manifest" -> "td/manifest.orig" [] x = "lock" -> "td/lock.orig"
                 [] x = "vendor" -> "td/.vendor.orig"
TempPlaces == {Temp(x) : x \in Targets} \cup {TempOrig(x) : x \in Targets}
Directories == {"vendor", "vendor.orig", "td/vendor", "td/.vendor.orig"}
Places == Targets \cup {"vendor.orig"} \cup TempPlaces

\* "other" is in the way: a vendor.orig that an earlier run has left behind.
Content == {"none", "old", "new", "partial", "other"}
Nowhere == "nowhere"

-----------------------------------------------------------------------------
(* NewSafeWriter.  A lock is "none", "same" or "changed".                  *)

Payloads == [manifest : BOOLEAN, oldLock : BOOLEAN, newLock : {"none", "same", "changed"},
                 vendor : {"always", "onChanged", "never"}, crossDevice : BOOLEAN]

IsRejected(i) ==
    i.newLock = "none" /\ (i.oldLock \/ i.vendor = "always")

LockDiffers(i) == i.oldLock /\ i.newLock = "changed"
WritesLock(i) == LockDiffers(i) \/ (~i.oldLock /\ i.newLock # "none")
WritesVendor(i) == i.vendor = "always" \/ (i.vendor = "onChanged" /\ LockDiffers(i))
                   \/ (i.vendor = "onChanged" /\ ~i.oldLock /\ i.newLock # "none")

NewSafeWriter(i) ==
    [x \in Targets |-> CASE x = "manifest" -> i.manifest
                         [] x = "lock" -> WritesLock(i)
                         [] x = "vendor" -> WritesVendor(i)]

-----------------------------------------------------------------------------
(* RenameWithFallback: the disks it may leave.                             *)

\* A directory is never moved onto another; without a second device a move
\* happens or not, and with one the copy may stay incomplete, or be complete
\* while what it was made from is removed in part.
IsCopy(src, dst) == payload.crossDevice /\ ((src \in TempPlaces) # (dst \in TempPlaces))
Movable(src, dst) == disk[src] # "none" /\ ~(src \in Directories /\ disk[dst] # "none")

Moved(src, dst) == [disk EXCEPT ![src] = "none", ![dst] = disk[src]]
Misplaced(src, dst) ==
    {disk} \cup
    IF ~IsCopy(src, dst) THEN {}
    ELSE {[disk EXCEPT ![dst] = "partial"],
          [disk EXCEPT ![dst] = disk[src], ![src] = IF src \in Directories THEN "partial" ELSE @]}

\* .git goes where its directory goes.
GitAfter(src, dst) == IF git = src THEN dst ELSE git

Succeeds(src, dst) ==
    /\ Movable(src, dst)
    /\ disk' = Moved(src, dst)
    /\ git' = GitAfter(src, dst)
    /\ UNCHANGED faults

Fails(src, dst) ==
    /\ UNCHANGED git
    /\ \/ ~Movable(src, dst) /\ UNCHANGED <<disk, faults>>
       \/ /\ Movable(src, dst) /\ faults < MaxFaults
          /\ disk' \in Misplaced(src, dst)
          /\ faults' = faults + 1

-----------------------------------------------------------------------------
(* Init is a project in any state, before dep writes to it.                *)

Init ==
    /\ TreeInit
    /\ payload \in Payloads
    /\ sw = [x \in Targets |-> FALSE]
    /\ disk \in [Places -> {"none", "old", "other"}]
    /\ \A p \in Places : IF p \in Targets THEN disk[p] \in {"none", "old"}
                         ELSE IF p = "vendor.orig" THEN disk[p] \in {"none", "other"} ELSE disk[p] = "none"
    /\ payload.oldLock => disk["lock"] = "old"
    /\ git \in {"vendor", Nowhere} /\ (git = "vendor" => disk["vendor"] = "old")
    /\ first = [disk |-> disk, git |-> git]
    /\ pc = "new" /\ restore = <<>> /\ vendorbak = Nowhere /\ faults = 0 /\ result = "none"

-----------------------------------------------------------------------------
(* Write.                                                                  *)

\* NewSafeWriter, validate and the test whether there is anything to do.
Begin ==
    /\ pc = "new"
    /\ IF IsRejected(payload) THEN result' = "failed" /\ pc' = "returned" /\ UNCHANGED sw
       ELSE /\ sw' = NewSafeWriter(payload)
            /\ IF \E x \in Targets : NewSafeWriter(payload)[x]
               THEN pc' = "writing" /\ UNCHANGED result
               ELSE pc' = "returned" /\ result' = "ok"
    /\ UNCHANGED <<treeVars, payload, first, disk, git, restore, vendorbak, faults>>

\* The files of the temporary directory; an error leads straight out.
Abandon == pc' = "leaving" /\ result' = "failed"

WriteFiles ==
    /\ pc = "writing"
    /\ \/ /\ disk' = [disk EXCEPT !["td/manifest"] = IF sw["manifest"] THEN "new" ELSE @,
                                  !["td/lock"] = IF sw["lock"] THEN "new" ELSE @]
          /\ pc' = IF sw["vendor"] THEN "tree" ELSE "git"
          /\ UNCHANGED <<faults, result>>
       \/ /\ faults < MaxFaults /\ faults' = faults + 1
          /\ Abandon
          /\ UNCHANGED disk
    /\ UNCHANGED <<treeVars, payload, sw, first, git, restore, vendorbak>>

\* WriteDepTree into td/vendor.
StartTree ==
    /\ pc = "tree" /\ MakeTree
    /\ UNCHANGED writerVars

TreeStep ==
    /\ pc = "tree" /\ WriteTree
    /\ UNCHANGED writerVars

TreeIsWritten ==
    /\ pc = "tree" /\ writing = "written"
    /\ disk' = [disk EXCEPT !["td/vendor"] = "new"]
    /\ pc' = "git"
    /\ UNCHANGED <<treeVars, payload, sw, first, git, restore, vendorbak, faults, result>>

TreeHasFailed ==
    /\ pc = "tree" /\ writing = "failed"
    /\ Abandon
    /\ UNCHANGED <<treeVars, payload, sw, first, disk, git, restore, vendorbak, faults>>

\* vendor/.git is moved into the new tree.  Without a new tree there is no
\* place for it and the move fails.  Only an *os.LinkError would be returned,
\* and RenameWithFallback wraps each of its errors: a failure goes unnoticed.
MoveGit ==
    /\ pc = "git"
    /\ pc' = "out manifest"
    /\ \/ git = "vendor" /\ disk["td/vendor"] = "new" /\ git' = "td/vendor" /\ UNCHANGED faults
       \/ ~(git = "vendor" /\ disk["td/vendor"] = "new") /\ UNCHANGED <<git, faults>>
       \/ /\ git = "vendor" /\ disk["td/vendor"] = "new"
          /\ faults < MaxFaults /\ faults' = faults + 1
          /\ UNCHANGED git
    /\ UNCHANGED <<treeVars, payload, sw, first, disk, restore, vendorbak, result>>

\* One after the other, the old one out and the new one in.
Out(x) == CASE x = "manifest" -> "out manifest" [] x = "lock" -> "out lock" [] x = "vendor" -> "out vendor"
In(x) == CASE x = "manifest" -> "in manifest" [] x = "lock" -> "in lock" [] x = "vendor" -> "in vendor"
After(x) == CASE x = "manifest" -> "out lock" [] x = "lock" -> "out vendor" [] x = "vendor" -> "clean"

Skip(x) ==
    /\ pc = Out(x) /\ ~sw[x]
    /\ pc' = After(x)
    /\ UNCHANGED <<treeVars, payload, sw, first, disk, git, restore, vendorbak, faults, result>>

NothingToMoveOut(x) ==
    /\ pc = Out(x) /\ sw[x] /\ disk[x] = "none"
    /\ pc' = In(x)
    /\ UNCHANGED <<treeVars, payload, sw, first, disk, git, restore, vendorbak, faults, result>>

BackupInTemp(x) == TempOrig(x)    \* a bug: vendor, too, is kept on the other device
Backup(x) == IF x = "vendor" /\ disk["vendor.orig"] = "none" THEN "vendor.orig" ELSE TempOrig(x)

\* What it takes to put x back.
PathPairReversed(x) == [from |-> x, to |-> Backup(x)]    \* a bug: the pair of the move itself
PathPair(x) == [from |-> Backup(x), to |-> x]

MoveOut(x) ==
    /\ pc = Out(x) /\ sw[x] /\ disk[x] # "none"
    /\ vendorbak' = IF x = "vendor" THEN Backup(x) ELSE vendorbak
    /\ \/ /\ Succeeds(x, Backup(x))
          /\ restore' = Append(restore, PathPair(x))
          /\ pc' = In(x) /\ UNCHANGED result
       \/ /\ Fails(x, Backup(x))
          /\ pc' = "restoring" /\ result' = "failed" /\ UNCHANGED restore
    /\ UNCHANGED <<treeVars, payload, sw, first>>

MoveIn(x) ==
    /\ pc = In(x)
    /\ \/ Succeeds(Temp(x), x) /\ pc' = After(x) /\ UNCHANGED result
       \/ Fails(Temp(x), x) /\ pc' = "restoring" /\ result' = "failed"
    /\ UNCHANGED <<treeVars, payload, sw, first, restore, vendorbak>>

\* A failure to put one thing back does not stop the others.
Restore ==
    /\ pc = "restoring" /\ restore # <<>>
    /\ Succeeds(Head(restore).from, Head(restore).to) \/ Fails(Head(restore).from, Head(restore).to)
    /\ restore' = Tail(restore)
    /\ UNCHANGED <<treeVars, payload, sw, first, pc, vendorbak, result>>

RestoredAtOnce ==    \* a bug: nothing is put back
    /\ pc = "restoring"
    /\ pc' = "leaving"
    /\ UNCHANGED <<treeVars, payload, sw, first, disk, git, restore, vendorbak, faults, result>>
Restored ==
    /\ pc = "restoring" /\ restore = <<>>
    /\ pc' = "leaving"
    /\ UNCHANGED <<treeVars, payload, sw, first, disk, git, restore, vendorbak, faults, result>>

\* os.RemoveAll.  Nobody looks at its error: some of the files and a part of the
\* directories may be left.
Without(places) == [p \in Places |-> IF p \in places THEN "none" ELSE disk[p]]
GitWithout(places) == IF git \in places THEN Nowhere ELSE git

IsRemoved(places) == disk' = Without(places) /\ git' = GitWithout(places) /\ UNCHANGED faults

IsRemovedInPart(places) ==
    LET present == {p \in places \cap Places : disk[p] # "none"}
    IN  /\ faults < MaxFaults /\ faults' = faults + 1
        /\ \E gone \in (SUBSET present) \ {present} : \E cut \in SUBSET ((Directories \cap present) \ gone) :
              /\ disk' = [p \in Places |-> IF p \in cut THEN "partial" ELSE Without(gone)[p]]
              /\ git' \in {GitWithout(gone), GitWithout(gone \cup cut)}

RemoveAll(places) == IsRemoved(places) \/ IsRemovedInPart(places)

\* The backup of vendor goes only when everything is in place.
CleanUp ==
    /\ pc = "clean"
    /\ RemoveAll(IF sw["vendor"] THEN {vendorbak} ELSE {})
    /\ pc' = "leaving" /\ result' = "ok"
    /\ UNCHANGED <<treeVars, payload, sw, first, restore, vendorbak>>

\* The deferred os.RemoveAll(td).
Leave ==
    /\ pc = "leaving"
    /\ RemoveAll(TempPlaces)
    /\ pc' = "returned"
    /\ UNCHANGED <<treeVars, payload, sw, first, restore, vendorbak, result>>

Crash ==
    /\ pc \notin {"returned", "killed"}
    /\ pc' = "killed"
    /\ UNCHANGED <<treeVars, payload, sw, first, disk, git, restore, vendorbak, faults, result>>

Step ==
    \/ Begin \/ WriteFiles \/ StartTree \/ TreeStep \/ TreeIsWritten \/ TreeHasFailed \/ MoveGit
    \/ \E x \in Targets : Skip(x) \/ NothingToMoveOut(x) \/ MoveOut(x) \/ MoveIn(x)
    \/ Restore \/ Restored \/ CleanUp \/ Leave

Done == pc \in {"returned", "killed"} /\ UNCHANGED vars

Next == Step \/ Crash \/ Done
Spec == Init /\ [][Next]_vars
FairSpec == Spec /\ WF_vars(Step)

-----------------------------------------------------------------------------
(* Properties.                                                             *)

TypeOK ==
    /\ payload \in Payloads
    /\ sw \in [Targets -> BOOLEAN]
    /\ disk \in [Places -> Content] /\ first.disk \in [Places -> Content]
    /\ git \in Directories \cup {Nowhere}
    /\ restore \in Seq([from : Places \ Targets, to : Targets])
    /\ vendorbak \in {"vendor.orig", "td/.vendor.orig", Nowhere}
    /\ faults \in 0..MaxFaults
    /\ result \in {"none", "ok", "failed"}

Returned(r) == pc = "returned" /\ result = r

\* After a success everything that was to be written is in place, and what was
\* there besides, a vendor.orig included, is as it was.  If nothing has failed, no
\* copy is left of what was moved out, and .git is where it was; a removal that
\* fails is not told (txn_writer.go:420), and what it leaves stays.
Committed ==
    Returned("ok") =>
        /\ \A x \in Targets : disk[x] = IF sw[x] THEN "new" ELSE first.disk[x]
        /\ \A p \in Places \ Targets :
              faults = 0 \/ first.disk[p] # "none" => disk[p] = first.disk[p]
        /\ faults = 0 => git = first.git

\* "It also does its best to roll back if any moves fail" (txn_writer.go:267):
\* after one failure what was there is there again; a vendor directory only
\* if the temporary one is on the same device, since a copy that has stopped
\* half way is in the way of the move back.  (What was not there before may be
\* there now: a new file that was moved in is not moved out again.)
RolledBack ==
    Returned("failed") /\ faults <= 1 =>
        \A x \in Targets :
            first.disk[x] = "old" => disk[x] = "old" \/ (x = "vendor" /\ payload.crossDevice)

\* Whenever the process is killed, and whatever has failed once, each thing that
\* was there before is still somewhere, whole, until Write has succeeded; but
\* for a vendor directory that had to go to another device.
Copies(x) == {x, TempOrig(x)} \cup (IF x = "vendor" THEN {"vendor.orig"} ELSE {})
OriginalsSurvive ==
    result # "ok" /\ faults <= 1 =>
        \A x \in Targets :
            first.disk[x] = "old" =>
                \/ \E p \in Copies(x) : disk[p] = "old"
                \/ x = "vendor" /\ payload.crossDevice /\ first.disk["vendor.orig"] = "other"

\* A lock is not changed without the vendor directory, unless that is asked for
\* (the doc of NewSafeWriter, txn_writer.go:81).
LockAndVendorAgree ==
    Returned("ok") /\ payload.vendor # "never" /\ disk["lock"] = "new" => disk["vendor"] = "new"

\* Whatever fails on the way, Write has done all of it or, but for the exceptions
\* above, nothing.
AllOrNothing == Committed /\ LockAndVendorAgree /\ RolledBack

\* Write comes to an end if the exports do.
WriteEnds == <>(pc \in {"returned", "killed"})

-----------------------------------------------------------------------------
(* The inductive invariant behind them: what pc says of the disk.          *)

Preparing == {"new", "writing", "tree", "git"}
Moving == {"out manifest", "in manifest", "out lock", "in lock", "out vendor", "in vendor", "clean"}

\* Where Write is when x is still to be moved out, and when x has been replaced.
AheadOf(x) == CASE x = "manifest" -> {"out manifest"}
                [] x = "lock" -> {"out manifest", "in manifest", "out lock"}
                [] x = "vendor" -> Moving \ {"in vendor", "clean"}
Behind(x) == CASE x = "manifest" -> Moving \ {"out manifest", "in manifest"}
               [] x = "lock" -> {"out vendor", "in vendor", "clean"}
               [] x = "vendor" -> {"clean"}

\* Where the old x is kept, of the places it might be kept in.
Kept(x) == IF x = "vendor" /\ first.disk["vendor.orig"] = "none" THEN "vendor.orig" ELSE TempOrig(x)
Backups(x) == Copies(x) \ {x}

Untouched(x) == \A p \in Copies(x) : disk[p] = first.disk[p]
IsKept(x) == \A p \in Backups(x) : disk[p] = IF p = Kept(x) THEN first.disk[x] ELSE first.disk[p]

\* The new x waits in the temporary directory.
IsMade(x) == disk[Temp(x)] = IF sw[x] THEN "new" ELSE "none"

PcOK ==
    /\ pc \in Preparing \cup Moving \cup {"restoring", "leaving", "returned", "killed"}
    /\ pc \in Preparing \cup Moving => result = "none"
    /\ pc = "restoring" => result = "failed" /\ faults >= 1
    /\ pc \in {"leaving", "returned"} => result \in {"ok", "failed"}

\* The state before dep was run, and the decision what to write.
FirstOK ==
    /\ \A x \in Targets : first.disk[x] \in {"none", "old"}
    /\ first.disk["vendor.orig"] \in {"none", "other"}
    /\ \A p \in TempPlaces : first.disk[p] = "none"
    /\ first.git \in {"vendor", Nowhere}

DecisionOK ==
    pc \notin {"new", "killed"} /\ result # "failed" => sw = NewSafeWriter(payload)

PreparingOK ==
    pc \in Preparing =>
        /\ \A x \in Targets : Untouched(x)
        /\ restore = <<>>
        /\ pc \in {"new", "writing"} => \A x \in Targets : disk[Temp(x)] = "none"
        /\ pc = "tree" => IsMade("manifest") /\ IsMade("lock") /\ disk["td/vendor"] = "none" /\ sw["vendor"]
        /\ pc = "git" => \A x \in Targets : IsMade(x)

\* Where x is while things are moved.
Standing(x) ==
    /\ pc = In(x) => sw[x]
    /\ ~sw[x] \/ pc \in AheadOf(x) => Untouched(x) /\ IsMade(x)
    /\ sw[x] /\ pc = In(x) => disk[x] = "none" /\ IsKept(x) /\ IsMade(x)
    /\ sw[x] /\ pc \in Behind(x) => disk[x] = "new" /\ IsKept(x)

MovingOK == pc \in Moving => \A x \in Targets : Standing(x)

VendorBakOK ==
    /\ pc \in Preparing \cup AheadOf("vendor") => vendorbak = Nowhere
    /\ sw["vendor"] /\ pc \in {"in vendor", "clean"} =>
          vendorbak = IF first.disk["vendor"] = "none" THEN Nowhere ELSE Kept("vendor")

\* What can be put back is what was moved out, each thing once.
Listed(x) == \E i \in DOMAIN restore : restore[i].to = x
RestoreOK ==
    /\ \A i \in DOMAIN restore :
          LET x == restore[i].to
          IN  /\ restore[i].from = Kept(x) /\ first.disk[x] = "old"
              /\ pc \in Moving => sw[x] /\ pc \notin AheadOf(x)
    /\ \A i, j \in DOMAIN restore : restore[i].to = restore[j].to => i = j
    /\ pc \in Moving =>
          \A x \in Targets :
              sw[x] /\ first.disk[x] = "old" /\ pc \notin AheadOf(x) => Listed(x)

\* x is in its place, or it is a vendor directory with another device between.
IsBack(x) ==
    \/ disk[x] = "old"
    \/ /\ x = "vendor" /\ payload.crossDevice
       /\ disk["vendor.orig"] = "old" \/ first.disk["vendor.orig"] = "other"

\* x was never moved out or is there again, or it is still to be moved back.
Recoverable(x) ==
    IF pc = "restoring" /\ Listed(x)
    THEN disk[Kept(x)] = "old" /\ (x = "vendor" => disk[x] = "none" \/ payload.crossDevice)
    ELSE IsBack(x)

FailureOK ==
    pc \in {"restoring", "leaving", "returned"} /\ result = "failed" /\ faults <= 1 =>
        \A x \in Targets : first.disk[x] = "old" => Recoverable(x)

SuccessOK ==
    pc \in {"leaving", "returned"} /\ result = "ok" =>
        /\ \A x \in Targets : disk[x] = IF sw[x] THEN "new" ELSE first.disk[x]
        /\ faults = 0 \/ first.disk["vendor.orig"] # "none" => disk["vendor.orig"] = first.disk["vendor.orig"]
        /\ pc = "returned" /\ faults = 0 => \A p \in TempPlaces : disk[p] = "none"

\* .git is in the new vendor directory while that is on its way.
GitOK ==
    pc # "killed" /\ result # "failed" /\ faults = 0 =>
        git = IF first.git = "vendor" /\ sw["vendor"] /\ pc \in Moving \ {"clean"} THEN "td/vendor" ELSE first.git

WriterInv ==
    /\ TypeOK /\ PcOK /\ FirstOK /\ DecisionOK
    /\ PreparingOK /\ MovingOK /\ VendorBakOK /\ RestoreOK
    /\ FailureOK /\ SuccessOK /\ GitOK
    /\ OriginalsSurvive
=============================================================================
