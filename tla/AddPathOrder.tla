---------------------------- MODULE AddPathOrder ----------------------------
(* Both path lists stay sorted by total_cost.                               *)
EXTENDS AddPathProofs

(* The loop invariant: insert_after is the last of the cells passed that    *)
(* does not cost more than the new path.                                    *)
InsertionPoint(list) ==
    /\ \A k \in 1 .. job.insert_after : list[k].total <= job.path.total
    /\ \A k \in job.insert_after + 1 .. job.i - 1 : list[k].total > job.path.total

OrderInv ==
    /\ Sorted
    /\ job.list = "full" => InsertionPoint(pathlist)
    /\ job.list = "partial" => InsertionPoint(partial_pathlist)

LEMMA ListTotals ==
  ASSUME NEW s \in Seq(Path)
  PROVE  Len(s) \in Nat /\ \A k \in 1 .. Len(s) : s[k] \in Path /\ s[k].total \in Int
<1>1. Len(s) \in Nat /\ \A k \in 1 .. Len(s) : s[k] \in Path
  BY LenProperties, ElementOfSeq
<1> QED
  BY <1>1 DEF Path

LEMMA PathTotal == \A p \in Path : p.total \in Int
BY DEF Path

LEMMA RemoveAtSorted ==
  ASSUME NEW s \in Seq(Path), NEW i \in 1 .. Len(s), SortedByTotal(s)
  PROVE  SortedByTotal(RemoveAt(s, i))
<1> DEFINE r == RemoveAt(s, i)
           at(j) == IF j < i THEN j ELSE j + 1
<1>0. IsDeletion(r, s, i)
  BY RemoveAtProperties
<1> HIDE DEF r
<1>1. /\ Len(r) = Len(s) - 1 /\ Len(s) \in Nat /\ i \in Int
      /\ \A j \in 1 .. Len(s) - 1 : r[j] = IF j < i THEN s[j] ELSE s[j + 1]
  BY <1>0, LenProperties DEF IsDeletion
<1>2. \A j \in 1 .. Len(r) : r[j] = s[at(j)] /\ at(j) \in 1 .. Len(s)
  BY <1>1
<1>3. \A j, k \in 1 .. Len(r) : j < k => at(j) < at(k)
  BY <1>1
<1> HIDE DEF at
<1> QED
  BY <1>2, <1>3 DEF SortedByTotal, r

LEMMA InsertAtSorted ==
  ASSUME NEW s \in Seq(Path), NEW p \in Path, NEW n \in 0 .. Len(s), SortedByTotal(s),
         \A k \in 1 .. n : s[k].total <= p.total,
         \A k \in n + 1 .. Len(s) : s[k].total > p.total
  PROVE  SortedByTotal(InsertAt(s, n + 1, p))
<1>1. /\ Len(s) \in Nat /\ n \in Int /\ p.total \in Int
      /\ \A k \in 1 .. Len(s) : s[k].total \in Int
  BY ListTotals, PathTotal
<1>2. PICK m \in 1 .. Len(s) + 1 : m = n + 1
  BY <1>1
<1> DEFINE r == InsertAt(s, m, p)
<1>a. IsInsertion(r, s, m, p)
  BY InsertAtProperties
<1> HIDE DEF r
<1>3. /\ Len(r) = Len(s) + 1
      /\ \A j \in 1 .. Len(s) + 1 :
           r[j] = IF j < n + 1 THEN s[j] ELSE IF j = n + 1 THEN p ELSE s[j - 1]
  BY <1>2, <1>a DEF IsInsertion
<1>4. SUFFICES ASSUME NEW i \in 1 .. Len(s) + 1, NEW j \in 1 .. Len(s) + 1, i < j
               PROVE  r[i].total <= r[j].total
  BY <1>2, <1>3 DEF SortedByTotal, r
<1>5. CASE j < n + 1
  <2>1. r[i] = s[i] /\ r[j] = s[j] /\ i \in 1 .. Len(s) /\ j \in 1 .. Len(s)
    BY <1>1, <1>3, <1>4, <1>5
  <2> QED
    BY <1>4, <2>1 DEF SortedByTotal
<1>6. CASE j = n + 1
  <2>1. r[i] = s[i] /\ r[j] = p /\ i \in 1 .. n
    BY <1>1, <1>3, <1>4, <1>6
  <2> QED
    BY <2>1
<1>7. CASE j > n + 1
  <2>1. r[j] = s[j - 1] /\ j - 1 \in n + 1 .. Len(s) /\ j - 1 \in 1 .. Len(s)
    BY <1>1, <1>3, <1>4, <1>7
  <2>2. CASE i = n + 1
    <3>1. r[i] = p
      BY <1>3, <2>2
    <3> QED
      BY <1>1, <2>1, <3>1
  <2>3. CASE i < n + 1
    <3>1. r[i] = s[i] /\ i \in 1 .. n /\ i \in 1 .. Len(s)
      BY <1>1, <1>3, <2>3
    <3>2. s[i].total <= p.total /\ s[i].total \in Int
      BY <3>1, <1>1
    <3>3. p.total < s[j - 1].total /\ s[j - 1].total \in Int /\ p.total \in Int
      BY <2>1, <1>1
    <3>4. s[i].total <= s[j - 1].total
      BY <3>2, <3>3
    <3> QED
      BY <2>1, <3>1, <3>4
  <2>4. CASE i > n + 1
    <3>1. r[i] = s[i - 1] /\ i - 1 \in 1 .. Len(s) /\ i - 1 < j - 1
      BY <1>1, <1>3, <1>4, <2>4
    <3> QED
      BY <2>1, <3>1 DEF SortedByTotal
  <2> QED
    BY <1>1, <2>2, <2>3, <2>4
<1> QED
  BY <1>1, <1>5, <1>6, <1>7

LEMMA EmptySorted == SortedByTotal(<<>>)
BY DEF SortedByTotal

(* One iteration that keeps both paths moves the insertion point past the   *)
(* old path when that one is not dearer; the deletion of cell i does not    *)
(* touch the cells already passed.                                          *)
LEMMA KeepInsertionPoint ==
  ASSUME NEW list \in Seq(Path), NEW p \in Path, NEW i \in 1 .. Len(list), NEW n \in 0 .. i - 1,
         SortedByTotal(list),
         \A k \in 1 .. n : list[k].total <= p.total,
         \A k \in n + 1 .. i - 1 : list[k].total > p.total,
         NEW m, m = IF p.total >= list[i].total THEN i ELSE n
  PROVE  /\ \A k \in 1 .. m : list[k].total <= p.total
         /\ \A k \in m + 1 .. i : list[k].total > p.total
<1>1. /\ Len(list) \in Nat /\ i \in Int /\ n \in Int /\ p.total \in Int
      /\ \A k \in 1 .. Len(list) : list[k].total \in Int
  BY ListTotals, PathTotal
<1>2. CASE p.total >= list[i].total
  <2>1. m = i
    BY <1>2
  <2>2. \A k \in 1 .. i : k \in 1 .. Len(list) /\ list[k].total <= list[i].total
    BY <1>1 DEF SortedByTotal
  <2> QED
    BY <1>1, <1>2, <2>1, <2>2
<1>3. CASE ~(p.total >= list[i].total)
  <2>1. m = n /\ list[i].total > p.total
    BY <1>1, <1>3
  <2>2. \A k \in n + 1 .. i : k \in n + 1 .. i - 1 \/ k = i
    BY <1>1
  <2> QED
    BY <1>1, <2>1, <2>2
<1> QED
  BY <1>2, <1>3

LEMMA OrderInvariance == TypeOK /\ OrderInv /\ [Next]_vars => OrderInv'
<1> SUFFICES ASSUME TypeOK, OrderInv, [Next]_vars PROVE OrderInv'
  OBVIOUS
<1>0. /\ pathlist \in Seq(Path) /\ partial_pathlist \in Seq(Path) /\ job.path \in Path
      /\ Len(pathlist) \in Nat /\ Len(partial_pathlist) \in Nat
      /\ job.i \in Nat /\ job.insert_after \in Nat
  BY ListTotals DEF TypeOK
<1>1. ASSUME NEW sh \in Shapes,
             \/ ConsiderPath(sh) \/ ConsiderPartial(sh)
             \/ \E ipath \in offered : ConsiderBitmap(sh, ipath) \/ ConsiderPartialBitmap(sh, ipath)
             \/ \E i \in 1 .. Len(partial_pathlist) : FinalizeGrouping(sh, i)
             \/ \E t \in Slacks : TryPartialJoinPath(sh, t) \/ \E s \in Slacks : TryJoinPath(sh, s, t)
             \/ AddGather(sh) \/ AddGatherMerge(sh)
      PROVE  OrderInv'
  <2>1. \E shape, sub : CallAddPath(shape, sub) \/ CallAddPartialPath(shape, sub)
    BY <1>1 DEF ConsiderPath, ConsiderPartial, ConsiderBitmap, ConsiderPartialBitmap, FinalizeGrouping, TryJoinPath,
                TryPartialJoinPath, AddGather, AddGatherMerge
  <2>2. /\ pathlist' = pathlist /\ partial_pathlist' = partial_pathlist
        /\ job'.i = 1 /\ job'.insert_after = 0
    BY <2>1 DEF CallAddPath, CallAddPartialPath, Job
  <2> QED
    BY <2>2 DEF OrderInv, Sorted, InsertionPoint
<1>2. CASE RejectNew
  BY <1>2, IdleType DEF RejectNew, OrderInv, Sorted
<1>3. CASE RemoveOld
  <2>1. job.i \in 1 .. Len(pathlist) /\ job.list = "full" /\ job.insert_after \in 0 .. job.i - 1
    BY <1>0, <1>3 DEF RemoveOld, TypeOK
  <2>2. SortedByTotal(pathlist')
    BY <1>0, <1>3, <2>1, RemoveAtSorted DEF RemoveOld, OrderInv, Sorted
  <2>3. \A k \in 1 .. job.i - 1 : pathlist'[k] = pathlist[k]
    <3>1. \A k \in 1 .. Len(pathlist) - 1 :
            RemoveAt(pathlist, job.i)[k] = IF k < job.i THEN pathlist[k] ELSE pathlist[k + 1]
      <4>1. IsDeletion(RemoveAt(pathlist, job.i), pathlist, job.i)
        BY <1>0, <2>1, RemoveAtProperties
      <4> QED
        BY <4>1 DEF IsDeletion
    <3>2. \A k \in 1 .. job.i - 1 : k \in 1 .. Len(pathlist) - 1 /\ k < job.i
      BY <1>0, <2>1
    <3> QED
      BY <1>3, <3>1, <3>2 DEF RemoveOld
  <2>4. InsertionPoint(pathlist)'
    <3>1. InsertionPoint(pathlist) /\ job' = job
      BY <1>3, <2>1 DEF OrderInv, RemoveOld
    <3>2. /\ \A k \in 1 .. job.insert_after : k \in 1 .. job.i - 1
          /\ \A k \in job.insert_after + 1 .. job.i - 1 : k \in 1 .. job.i - 1
      BY <1>0, <2>1
    <3> QED
      BY <2>3, <3>1, <3>2 DEF InsertionPoint
  <2> QED
    BY <1>3, <2>1, <2>2, <2>4 DEF RemoveOld, OrderInv, Sorted
<1>4. CASE KeepBoth
  <2>1. job.i \in 1 .. Len(pathlist) /\ job.list = "full" /\ job.insert_after \in 0 .. job.i - 1
    BY <1>0, <1>4 DEF KeepBoth, TypeOK
  <2>2. /\ job'.list = job.list /\ job'.path = job.path /\ job'.i = job.i + 1
        /\ job'.insert_after = IF job.path.total >= pathlist[job.i].total
                               THEN job.i ELSE job.insert_after
    BY <1>4 DEF KeepBoth, TypeOK
  <2>3. /\ \A k \in 1 .. job'.insert_after : pathlist[k].total <= job.path.total
        /\ \A k \in job'.insert_after + 1 .. job.i : pathlist[k].total > job.path.total
    <3>1. SortedByTotal(pathlist) /\ InsertionPoint(pathlist)
      BY <2>1 DEF OrderInv, Sorted
    <3> QED
      BY <1>0, <2>1, <2>2, <3>1, KeepInsertionPoint DEF InsertionPoint
  <2>4. job'.i - 1 = job.i
    BY <1>0, <2>2
  <2>5. InsertionPoint(pathlist)'
    BY <1>4, <2>2, <2>3, <2>4 DEF KeepBoth, InsertionPoint
  <2> QED
    BY <1>4, <2>1, <2>2, <2>5 DEF KeepBoth, OrderInv, Sorted
<1>5. CASE AcceptNew
  <2>1. job.i = Len(pathlist) + 1 /\ job.list = "full" /\ job.insert_after \in 0 .. Len(pathlist)
    BY <1>0, <1>5 DEF AcceptNew, TypeOK
  <2>2. InsertionPoint(pathlist) /\ SortedByTotal(pathlist)
    BY <2>1 DEF OrderInv, Sorted
  <2>3. /\ \A k \in 1 .. job.insert_after : pathlist[k].total <= job.path.total
        /\ \A k \in job.insert_after + 1 .. Len(pathlist) : pathlist[k].total > job.path.total
    BY <1>0, <2>1, <2>2 DEF InsertionPoint
  <2>4. SortedByTotal(pathlist')
    BY <1>0, <1>5, <2>1, <2>2, <2>3, InsertAtSorted DEF AcceptNew
  <2> QED
    BY <1>5, <2>4, IdleType DEF AcceptNew, OrderInv, Sorted
<1>6. CASE PartialRejectNew
  BY <1>6, IdleType DEF PartialRejectNew, OrderInv, Sorted
<1>7. CASE PartialRemoveOld
  <2>1. job.i \in 1 .. Len(partial_pathlist) /\ job.list = "partial" /\ job.insert_after \in 0 .. job.i - 1
    BY <1>0, <1>7 DEF PartialRemoveOld, TypeOK
  <2>2. SortedByTotal(partial_pathlist')
    BY <1>0, <1>7, <2>1, RemoveAtSorted DEF PartialRemoveOld, OrderInv, Sorted
  <2>3. \A k \in 1 .. job.i - 1 : partial_pathlist'[k] = partial_pathlist[k]
    <3>1. \A k \in 1 .. Len(partial_pathlist) - 1 :
            RemoveAt(partial_pathlist, job.i)[k] = IF k < job.i THEN partial_pathlist[k] ELSE partial_pathlist[k + 1]
      <4>1. IsDeletion(RemoveAt(partial_pathlist, job.i), partial_pathlist, job.i)
        BY <1>0, <2>1, RemoveAtProperties
      <4> QED
        BY <4>1 DEF IsDeletion
    <3>2. \A k \in 1 .. job.i - 1 : k \in 1 .. Len(partial_pathlist) - 1 /\ k < job.i
      BY <1>0, <2>1
    <3> QED
      BY <1>7, <3>1, <3>2 DEF PartialRemoveOld
  <2>4. InsertionPoint(partial_pathlist)'
    <3>1. InsertionPoint(partial_pathlist) /\ job' = job
      BY <1>7, <2>1 DEF OrderInv, PartialRemoveOld
    <3>2. /\ \A k \in 1 .. job.insert_after : k \in 1 .. job.i - 1
          /\ \A k \in job.insert_after + 1 .. job.i - 1 : k \in 1 .. job.i - 1
      BY <1>0, <2>1
    <3> QED
      BY <2>3, <3>1, <3>2 DEF InsertionPoint
  <2> QED
    BY <1>7, <2>1, <2>2, <2>4 DEF PartialRemoveOld, OrderInv, Sorted
<1>8. CASE PartialKeepBoth
  <2>1. job.i \in 1 .. Len(partial_pathlist) /\ job.list = "partial" /\ job.insert_after \in 0 .. job.i - 1
    BY <1>0, <1>8 DEF PartialKeepBoth, TypeOK
  <2>2. /\ job'.list = job.list /\ job'.path = job.path /\ job'.i = job.i + 1
        /\ job'.insert_after = IF job.path.total >= partial_pathlist[job.i].total
                               THEN job.i ELSE job.insert_after
    BY <1>8 DEF PartialKeepBoth, TypeOK
  <2>3. /\ \A k \in 1 .. job'.insert_after : partial_pathlist[k].total <= job.path.total
        /\ \A k \in job'.insert_after + 1 .. job.i : partial_pathlist[k].total > job.path.total
    <3>1. SortedByTotal(partial_pathlist) /\ InsertionPoint(partial_pathlist)
      BY <2>1 DEF OrderInv, Sorted
    <3> QED
      BY <1>0, <2>1, <2>2, <3>1, KeepInsertionPoint DEF InsertionPoint
  <2>4. job'.i - 1 = job.i
    BY <1>0, <2>2
  <2>5. InsertionPoint(partial_pathlist)'
    BY <1>8, <2>2, <2>3, <2>4 DEF PartialKeepBoth, InsertionPoint
  <2> QED
    BY <1>8, <2>1, <2>2, <2>5 DEF PartialKeepBoth, OrderInv, Sorted
<1>9. CASE PartialAcceptNew
  <2>1. job.i = Len(partial_pathlist) + 1 /\ job.list = "partial" /\ job.insert_after \in 0 .. Len(partial_pathlist)
    BY <1>0, <1>9 DEF PartialAcceptNew, TypeOK
  <2>2. InsertionPoint(partial_pathlist) /\ SortedByTotal(partial_pathlist)
    BY <2>1 DEF OrderInv, Sorted
  <2>3. /\ \A k \in 1 .. job.insert_after : partial_pathlist[k].total <= job.path.total
        /\ \A k \in job.insert_after + 1 .. Len(partial_pathlist) : partial_pathlist[k].total > job.path.total
    BY <1>0, <2>1, <2>2 DEF InsertionPoint
  <2>4. SortedByTotal(partial_pathlist')
    BY <1>0, <1>9, <2>1, <2>2, <2>3, InsertAtSorted DEF PartialAcceptNew
  <2> QED
    BY <1>9, <2>4, IdleType DEF PartialAcceptNew, OrderInv, Sorted
<1>10. CASE \/ StartGather \/ SkipGatherMerge \/ StartCheapest \/ ScanCheapest
            \/ UNCHANGED vars
  <2>1. pathlist' = pathlist /\ partial_pathlist' = partial_pathlist
    BY <1>10 DEF StartGather, SkipGatherMerge, StartCheapest, ScanCheapest, vars
  <2>2. job' = job \/ job'.list \notin {"full", "partial"}
    BY <1>10, IdleType DEF StartGather, SkipGatherMerge, StartCheapest, ScanCheapest, vars, Job, TypeOK
  <2> QED
    BY <2>1, <2>2 DEF OrderInv, Sorted, InsertionPoint
<1>11. CASE mark_dummy_rel
  <2>1. pathlist' = <<>> /\ partial_pathlist' = <<>> /\ job'.i = 1 /\ job'.insert_after = 0
    BY <1>11 DEF mark_dummy_rel, Job
  <2> QED
    BY <2>1, EmptySorted DEF OrderInv, Sorted, InsertionPoint
<1>12. CASE FinishCheapest
  <2>1. pathlist' = pathlist /\ partial_pathlist' \in {partial_pathlist, <<>>} /\ job' = Idle
    BY <1>12 DEF FinishCheapest
  <2> QED
    BY <2>1, EmptySorted, IdleType DEF OrderInv, Sorted
<1> QED
  BY <1>1, <1>2, <1>3, <1>4, <1>5, <1>6, <1>7, <1>8, <1>9, <1>10, <1>11, <1>12 DEF Next

(* The pathlist and the partial pathlist are sorted by total_cost at every  *)
(* step, so add_path_precheck may stop at the first path that is not        *)
(* cheaper.                                                                 *)
THEOREM AlwaysSorted == Spec => []Sorted
<1>1. Init => OrderInv
  BY EmptySorted, IdleType DEF Init, OrderInv, Sorted
<1>2. OrderInv => Sorted
  BY DEF OrderInv
<1> QED
  BY <1>1, <1>2, TypeCorrect, OrderInvariance, PTL DEF Spec
=============================================================================
