-------------------------- MODULE AddPathCoverage --------------------------
(* No path is lost: Coverage and PartialCoverage.                           *)
EXTENDS AddPathProofs

LEMMA LiveTypes ==
  TypeOK =>
         /\ LivePaths \subseteq Path /\ LivePartialPaths \subseteq Path
         /\ DOMAIN pathlist = 1 .. Len(pathlist)
         /\ DOMAIN partial_pathlist = 1 .. Len(partial_pathlist)
         /\ Len(pathlist) \in Nat /\ Len(partial_pathlist) \in Nat
<1> SUFFICES ASSUME TypeOK
             PROVE  /\ LivePaths \subseteq Path /\ LivePartialPaths \subseteq Path
                    /\ DOMAIN pathlist = 1 .. Len(pathlist)
                    /\ DOMAIN partial_pathlist = 1 .. Len(partial_pathlist)
                    /\ Len(pathlist) \in Nat /\ Len(partial_pathlist) \in Nat
  OBVIOUS
<1>1. pathlist \in Seq(Path) /\ partial_pathlist \in Seq(Path) /\ job.path \in Path
  BY DEF TypeOK
<1>2. /\ DOMAIN pathlist = 1 .. Len(pathlist)
      /\ DOMAIN partial_pathlist = 1 .. Len(partial_pathlist)
      /\ Len(pathlist) \in Nat /\ Len(partial_pathlist) \in Nat
  BY <1>1, LenProperties
<1>3. ToSet(pathlist) \subseteq Path /\ ToSet(partial_pathlist) \subseteq Path
  BY <1>1, <1>2, ElementOfSeq DEF ToSet
<1> QED
  BY <1>1, <1>2, <1>3 DEF LivePaths, LivePartialPaths, InHand

(* What is left of the step that drops a path: every live path has a        *)
(* stand-in afterwards.                                                     *)
LEMMA CoverageStep ==
  ASSUME TypeOK, TypeOK', Coverage, offered' = offered,
         \A r \in LivePaths : \E c \in LivePaths' : Covers(c, r)
  PROVE  Coverage'
<1> SUFFICES ASSUME NEW q \in offered PROVE \E c \in LivePaths' : Covers(c, q)
  BY DEF Coverage
<1>1. LivePaths \subseteq Path /\ LivePaths' \subseteq Path /\ q \in Path
  <2>1. (LivePaths \subseteq Path)'
    BY LiveTypes, PTL
  <2> QED
    BY <2>1, LiveTypes DEF TypeOK
<1>2. PICK r \in LivePaths : Covers(r, q)
  BY DEF Coverage
<1>3. PICK c \in LivePaths' : Covers(c, r)
  BY <1>2
<1> QED
  BY <1>1, <1>2, <1>3, CoversTrans

LEMMA PartialCoverageStep ==
  ASSUME TypeOK, TypeOK', PartialCoverage, partial_offered' = partial_offered,
         \A r \in LivePartialPaths : \E c \in LivePartialPaths' :
            PartialCovers(c, r)
  PROVE  PartialCoverage'
<1> SUFFICES ASSUME NEW q \in partial_offered
             PROVE  \E c \in LivePartialPaths' : PartialCovers(c, q)
  BY DEF PartialCoverage
<1>1. LivePartialPaths \subseteq Path /\ LivePartialPaths' \subseteq Path /\ q \in Path
  <2>1. (LivePartialPaths \subseteq Path)'
    BY LiveTypes, PTL
  <2> QED
    BY <2>1, LiveTypes DEF TypeOK
<1>2. PICK r \in LivePartialPaths : PartialCovers(r, q)
  BY DEF PartialCoverage
<1>3. PICK c \in LivePartialPaths' : PartialCovers(c, r)
  BY <1>2
<1> QED
  BY <1>1, <1>2, <1>3, PartialCoversTrans

(* A call begins: the path offered is in hand, and nothing else moved.      *)
LEMMA CallCoverage ==
  ASSUME TypeOK, TypeOK', Coverage, PartialCoverage, job = Idle,
         NEW sh, NEW sub, CallAddPath(sh, sub) \/ CallAddPartialPath(sh, sub)
  PROVE  Coverage' /\ PartialCoverage'
<1> DEFINE p == NewPath(sh, made + 1, sub)
<1>1. job.list = "none" /\ pathlist' = pathlist /\ partial_pathlist' = partial_pathlist
  BY IdleType DEF CallAddPath, CallAddPartialPath
<1>2. CASE CallAddPath(sh, sub)
  <2>1. /\ offered' = offered \cup {p} /\ partial_offered' = partial_offered
        /\ job'.list = "full" /\ job'.path = p
    BY <1>2 DEF CallAddPath, Job
  <2>2. p \in Path
    BY <2>1 DEF TypeOK
  <2> HIDE DEF p
  <2>3. LivePaths' = LivePaths \cup {p} /\ LivePartialPaths' = LivePartialPaths
    BY <1>1, <2>1 DEF LivePaths, LivePartialPaths, InHand
  <2> QED
    BY <2>1, <2>2, <2>3, CoversRefl DEF Coverage, PartialCoverage
<1>3. CASE CallAddPartialPath(sh, sub)
  <2>1. /\ partial_offered' = partial_offered \cup {p} /\ offered' = offered
        /\ job'.list = "partial" /\ job'.path = p
    BY <1>3 DEF CallAddPartialPath, Job
  <2>2. p \in Path
    BY <2>1 DEF TypeOK
  <2> HIDE DEF p
  <2>3. LivePartialPaths' = LivePartialPaths \cup {p} /\ LivePaths' = LivePaths
    BY <1>1, <2>1 DEF LivePaths, LivePartialPaths, InHand
  <2> QED
    BY <2>1, <2>2, <2>3, PartialCoversRefl DEF Coverage, PartialCoverage
<1> QED
  BY <1>2, <1>3

LEMMA CoverageInvariance ==
  TypeOK /\ TypeOK' /\ Coverage /\ PartialCoverage /\ [Next]_vars
    => Coverage' /\ PartialCoverage'
<1> SUFFICES ASSUME TypeOK, TypeOK', Coverage, PartialCoverage, [Next]_vars
             PROVE  Coverage' /\ PartialCoverage'
  OBVIOUS
<1>0. /\ LivePaths \subseteq Path /\ LivePartialPaths \subseteq Path
      /\ job.path \in Path /\ job.i \in Nat
      /\ Len(pathlist) \in Nat /\ Len(partial_pathlist) \in Nat
      /\ pathlist \in Seq(Path) /\ partial_pathlist \in Seq(Path)
  BY LiveTypes DEF TypeOK
<1>a. ASSUME LivePaths' = LivePaths, offered' = offered PROVE Coverage'
  BY <1>a DEF Coverage
<1>b. ASSUME LivePartialPaths' = LivePartialPaths, partial_offered' = partial_offered
      PROVE  PartialCoverage'
  BY <1>b DEF PartialCoverage
<1>1. ASSUME NEW sh \in Shapes,
             \/ ConsiderPath(sh) \/ ConsiderPartial(sh)
             \/ \E ipath \in offered : ConsiderBitmap(sh, ipath) \/ ConsiderPartialBitmap(sh, ipath)
             \/ \E i \in 1 .. Len(partial_pathlist) : FinalizeGrouping(sh, i)
             \/ \E t \in Slacks : TryPartialJoinPath(sh, t) \/ \E s \in Slacks : TryJoinPath(sh, s, t)
             \/ AddGather(sh) \/ AddGatherMerge(sh)
      PROVE  Coverage' /\ PartialCoverage'
  <2>1. job = Idle
    BY <1>1 DEF ConsiderPath, ConsiderPartial, ConsiderBitmap, ConsiderPartialBitmap, FinalizeGrouping, TryJoinPath,
                TryPartialJoinPath, AddGather, AddGatherMerge, Building, Gathering
  <2>2. \E shape, sub : CallAddPath(shape, sub) \/ CallAddPartialPath(shape, sub)
    BY <1>1 DEF ConsiderPath, ConsiderPartial, ConsiderBitmap, ConsiderPartialBitmap, FinalizeGrouping, TryJoinPath,
                TryPartialJoinPath, AddGather, AddGatherMerge
  <2> QED
    BY <2>1, <2>2, CallCoverage
<1>2. CASE RejectNew
  <2>1. job.i \in 1 .. Len(pathlist) /\ job.list = "full"
    BY <1>0, <1>2 DEF RejectNew, TypeOK
  <2>2. pathlist[job.i] \in ToSet(pathlist) /\ pathlist[job.i] \in Path
    BY <1>0, <2>1, LiveTypes, ElementOfSeq DEF ToSet
  <2>3. Covers(pathlist[job.i], job.path)
    BY <1>0, <1>2, <2>2, RejectsCovers DEF RejectNew
  <2>4. /\ LivePaths = ToSet(pathlist) \cup {job.path} /\ LivePaths' = ToSet(pathlist)
        /\ LivePartialPaths' = LivePartialPaths
    BY <1>2, <2>1, IdleType DEF RejectNew, LivePaths, LivePartialPaths, InHand
  <2>5. \A r \in LivePaths : \E c \in LivePaths' : Covers(c, r)
    BY <1>0, <2>2, <2>3, <2>4, CoversRefl
  <2> QED
    BY <1>2, <1>b, <2>4, <2>5, CoverageStep DEF RejectNew
<1>3. CASE RemoveOld
  <2>1. job.i \in 1 .. Len(pathlist) /\ job.list = "full"
    BY <1>0, <1>3 DEF RemoveOld, TypeOK
  <2>2. pathlist[job.i] \in Path
    BY <1>0, <2>1, ElementOfSeq
  <2>3. Covers(job.path, pathlist[job.i])
    BY <1>0, <1>3, <2>2, RemovesCovers DEF RemoveOld
  <2>4. \A x \in ToSet(pathlist) : x = pathlist[job.i] \/ x \in ToSet(pathlist')
    BY <1>0, <1>3, <2>1, RemoveAtMembers DEF RemoveOld
  <2>5. /\ LivePaths = ToSet(pathlist) \cup {job.path}
        /\ LivePaths' = ToSet(pathlist') \cup {job.path}
        /\ LivePartialPaths' = LivePartialPaths
    BY <1>3, <2>1 DEF RemoveOld, LivePaths, LivePartialPaths, InHand
  <2>6. \A r \in LivePaths : \E c \in LivePaths' : Covers(c, r)
    BY <1>0, <2>3, <2>4, <2>5, CoversRefl
  <2> QED
    BY <1>3, <1>b, <2>5, <2>6, CoverageStep DEF RemoveOld
<1>4. CASE AcceptNew
  <2>1. job.insert_after + 1 \in 1 .. Len(pathlist) + 1 /\ job.list = "full"
    BY <1>0, <1>4 DEF AcceptNew, TypeOK
  <2>2. ToSet(pathlist') = ToSet(pathlist) \cup {job.path}
    BY <1>0, <1>4, <2>1, InsertAtMembers DEF AcceptNew
  <2>3. LivePaths' = LivePaths /\ LivePartialPaths' = LivePartialPaths
    BY <1>4, <2>1, <2>2, IdleType DEF AcceptNew, LivePaths, LivePartialPaths, InHand
  <2> QED
    BY <1>4, <1>a, <1>b, <2>3 DEF AcceptNew
<1>5. CASE PartialRejectNew
  <2>1. job.i \in 1 .. Len(partial_pathlist) /\ job.list = "partial"
    BY <1>0, <1>5 DEF PartialRejectNew, TypeOK
  <2>2. partial_pathlist[job.i] \in ToSet(partial_pathlist) /\ partial_pathlist[job.i] \in Path
    BY <1>0, <2>1, LiveTypes, ElementOfSeq DEF ToSet
  <2>3. PartialCovers(partial_pathlist[job.i], job.path)
    BY <1>0, <1>5, <2>2, PartialRejectsCovers DEF PartialRejectNew
  <2>4. /\ LivePartialPaths = ToSet(partial_pathlist) \cup {job.path}
        /\ LivePartialPaths' = ToSet(partial_pathlist)
        /\ LivePaths' = LivePaths
    BY <1>5, <2>1, IdleType DEF PartialRejectNew, LivePaths, LivePartialPaths, InHand
  <2>5. \A r \in LivePartialPaths : \E c \in LivePartialPaths' :
            PartialCovers(c, r)
    BY <1>0, <2>2, <2>3, <2>4, PartialCoversRefl
  <2> QED
    BY <1>5, <1>a, <2>4, <2>5, PartialCoverageStep DEF PartialRejectNew
<1>6. CASE PartialRemoveOld
  <2>1. job.i \in 1 .. Len(partial_pathlist) /\ job.list = "partial"
    BY <1>0, <1>6 DEF PartialRemoveOld, TypeOK
  <2>2. partial_pathlist[job.i] \in Path
    BY <1>0, <2>1, ElementOfSeq
  <2>3. PartialCovers(job.path, partial_pathlist[job.i])
    BY <1>0, <1>6, <2>2, PartialRemovesCovers DEF PartialRemoveOld
  <2>4. \A x \in ToSet(partial_pathlist) :
           x = partial_pathlist[job.i] \/ x \in ToSet(partial_pathlist')
    BY <1>0, <1>6, <2>1, RemoveAtMembers DEF PartialRemoveOld
  <2>5. /\ LivePartialPaths = ToSet(partial_pathlist) \cup {job.path}
        /\ LivePartialPaths' = ToSet(partial_pathlist') \cup {job.path}
        /\ LivePaths' = LivePaths
    BY <1>6, <2>1 DEF PartialRemoveOld, LivePaths, LivePartialPaths, InHand
  <2>6. \A r \in LivePartialPaths : \E c \in LivePartialPaths' :
            PartialCovers(c, r)
    BY <1>0, <2>3, <2>4, <2>5, PartialCoversRefl
  <2> QED
    BY <1>6, <1>a, <2>5, <2>6, PartialCoverageStep DEF PartialRemoveOld
<1>7. CASE PartialAcceptNew
  <2>1. job.insert_after + 1 \in 1 .. Len(partial_pathlist) + 1 /\ job.list = "partial"
    BY <1>0, <1>7 DEF PartialAcceptNew, TypeOK
  <2>2. ToSet(partial_pathlist') = ToSet(partial_pathlist) \cup {job.path}
    BY <1>0, <1>7, <2>1, InsertAtMembers DEF PartialAcceptNew
  <2>3. LivePaths' = LivePaths /\ LivePartialPaths' = LivePartialPaths
    BY <1>7, <2>1, <2>2, IdleType DEF PartialAcceptNew, LivePaths, LivePartialPaths, InHand
  <2> QED
    BY <1>7, <1>a, <1>b, <2>3 DEF PartialAcceptNew
<1>8. CASE \/ KeepBoth \/ PartialKeepBoth \/ StartGather \/ SkipGatherMerge
           \/ StartCheapest \/ ScanCheapest \/ UNCHANGED vars
  <2>1. UNCHANGED <<pathlist, partial_pathlist, offered, partial_offered>>
    BY <1>8 DEF KeepBoth, PartialKeepBoth, StartGather, SkipGatherMerge,
                StartCheapest, ScanCheapest, vars
  <2>2. \/ job'.list = job.list /\ job'.path = job.path
        \/ job.list \in {"none", "cheapest"} /\ job'.list \in {"none", "cheapest"}
    <3>1. CASE KeepBoth \/ PartialKeepBoth \/ ScanCheapest
      BY <3>1 DEF KeepBoth, PartialKeepBoth, ScanCheapest, TypeOK
    <3>2. CASE StartCheapest
      BY <3>2, IdleType DEF StartCheapest, Job
    <3>3. CASE StartGather \/ SkipGatherMerge \/ UNCHANGED vars
      BY <3>3 DEF StartGather, SkipGatherMerge, vars
    <3> QED
      BY <1>8, <3>1, <3>2, <3>3
  <2>3. LivePaths' = LivePaths /\ LivePartialPaths' = LivePartialPaths
    BY <2>1, <2>2 DEF LivePaths, LivePartialPaths, InHand
  <2> QED
    BY <1>a, <1>b, <2>1, <2>3
<1>9. CASE FinishCheapest
  <2>1. /\ job.list = "cheapest" /\ job'.list = "none"
        /\ pathlist' = pathlist /\ offered' = offered
    BY <1>9, IdleType DEF FinishCheapest
  <2>2. Coverage'
    BY <2>1, <1>a DEF LivePaths, InHand
  <2>3. CASE IsUpper
    BY <1>9, <2>2, <2>3 DEF FinishCheapest, PartialCoverage
  <2>4. CASE ~IsUpper
    <3>1. partial_pathlist' = partial_pathlist /\ partial_offered' = partial_offered
      BY <1>9, <2>4 DEF FinishCheapest
    <3> QED
      BY <2>1, <2>2, <3>1, <1>b DEF LivePartialPaths, InHand
  <2> QED
    BY <2>3, <2>4
<1>10. CASE mark_dummy_rel
  <2>1. /\ job'.list = "full" /\ offered' = {job'.path} /\ partial_offered' = {}
        /\ job'.path \in Path
    BY <1>10 DEF mark_dummy_rel, Job, TypeOK
  <2> QED
    BY <2>1, CoversRefl DEF Coverage, PartialCoverage, LivePaths, InHand
<1> QED
  BY <1>1, <1>2, <1>3, <1>4, <1>5, <1>6, <1>7, <1>8, <1>9, <1>10 DEF Next

(* Whatever paths are offered and whatever they cost, each one offered is   *)
(* covered by a path add_path, and add_partial_path, still hold: a partial  *)
(* one by a path dearer by less than the fuzz for each sort column gained.  *)
THEOREM NothingLost == Spec => []Coverage /\ []PartialCoverage
<1>1. Init => Coverage /\ PartialCoverage
  BY DEF Init, Coverage, PartialCoverage
<1> QED
  BY <1>1, TypeCorrect, CoverageInvariance, PTL DEF Spec
=============================================================================
