--------------------------- MODULE AddPathProofs ---------------------------
(* Proofs about the path tournament, for every set of shapes, settings and  *)
(* bounds.                                                                  *)
EXTENDS AddPath, SequenceTheorems, TLAPS

(* list_delete_cell: deleting cell i shifts the later cells down by one.    *)
IsDeletion(r, s, i) ==
  /\ Len(r) = Len(s) - 1
  /\ \A j \in 1 .. Len(s) - 1 : r[j] = IF j < i THEN s[j] ELSE s[j + 1]

LEMMA RemoveAtProperties ==
  ASSUME NEW S, NEW s \in Seq(S), NEW i \in 1 .. Len(s)
  PROVE  RemoveAt(s, i) \in Seq(S) /\ IsDeletion(RemoveAt(s, i), s, i)
<1> DEFINE a == SubSeq(s, 1, i - 1)
           b == SubSeq(s, i + 1, Len(s))
<1>1. Len(s) \in Nat /\ i \in Int
  BY LenProperties
<1>2. a \in Seq(S) /\ Len(a) = i - 1 /\ \A j \in 1 .. i - 1 : a[j] = s[j]
  BY <1>1, SubSeqProperties
<1>3. b \in Seq(S) /\ Len(b) = Len(s) - i /\ \A j \in 1 .. Len(s) - i : b[j] = s[i + j]
  BY <1>1, SubSeqProperties
<1>4. RemoveAt(s, i) = a \o b
  BY DEF RemoveAt
<1> HIDE DEF a, b
<1>5. /\ a \o b \in Seq(S)
      /\ Len(a \o b) = Len(a) + Len(b)
      /\ \A j \in 1 .. Len(a) + Len(b) : (a \o b)[j] = IF j <= Len(a) THEN a[j] ELSE b[j - Len(a)]
  BY <1>2, <1>3, ConcatProperties
<1>6. IsDeletion(a \o b, s, i)
  BY <1>1, <1>2, <1>3, <1>5 DEF IsDeletion
<1> QED
  BY <1>4, <1>5, <1>6

(* lappend_cell and lcons: inserting at i shifts the cells from i on up.    *)
IsInsertion(r, s, i, e) ==
  /\ Len(r) = Len(s) + 1
  /\ \A j \in 1 .. Len(s) + 1 : r[j] = IF j < i THEN s[j] ELSE IF j = i THEN e ELSE s[j - 1]

LEMMA InsertAtProperties ==
  ASSUME NEW S, NEW s \in Seq(S), NEW i \in 1 .. Len(s) + 1, NEW e \in S
  PROVE  InsertAt(s, i, e) \in Seq(S) /\ IsInsertion(InsertAt(s, i, e), s, i, e)
<1> DEFINE a == SubSeq(s, 1, i - 1)
           b == SubSeq(s, i, Len(s))
<1>1. Len(s) \in Nat /\ i \in Int
  BY LenProperties
<1>2. a \in Seq(S) /\ Len(a) = i - 1 /\ \A j \in 1 .. i - 1 : a[j] = s[j]
  BY <1>1, SubSeqProperties
<1>3. b \in Seq(S) /\ Len(b) = Len(s) - i + 1 /\ \A j \in 1 .. Len(s) - i + 1 : b[j] = s[i + j - 1]
  BY <1>1, SubSeqProperties
<1>4. <<e>> \in Seq(S) /\ Len(<<e>>) = 1 /\ <<e>>[1] = e
  OBVIOUS
<1> DEFINE c == a \o <<e>>
<1>5. InsertAt(s, i, e) = c \o b
  BY DEF InsertAt
<1> HIDE DEF a, b
<1>6. /\ c \in Seq(S)
      /\ Len(c) = i
      /\ \A j \in 1 .. i : c[j] = IF j < i THEN a[j] ELSE e
  BY <1>1, <1>2, <1>4, ConcatProperties
<1> HIDE DEF c
<1>7. /\ c \o b \in Seq(S)
      /\ Len(c \o b) = i + Len(b)
      /\ \A j \in 1 .. i + Len(b) : (c \o b)[j] = IF j <= i THEN c[j] ELSE b[j - i]
  BY <1>1, <1>3, <1>6, ConcatProperties
<1>8. \A j \in 1 .. Len(s) + 1 :
        (c \o b)[j] = IF j < i THEN s[j] ELSE IF j = i THEN e ELSE s[j - 1]
  <2> SUFFICES ASSUME NEW j \in 1 .. Len(s) + 1
               PROVE  (c \o b)[j] = IF j < i THEN s[j] ELSE IF j = i THEN e ELSE s[j - 1]
    OBVIOUS
  <2>1. CASE j <= i
    BY <2>1, <1>1, <1>2, <1>3, <1>6, <1>7
  <2>2. CASE j > i
    <3>1. j - i \in 1 .. Len(s) - i + 1
      BY <2>2, <1>1
    <3>2. (c \o b)[j] = b[j - i]
      BY <2>2, <1>1, <1>3, <1>7
    <3> QED
      BY <2>2, <3>1, <3>2, <1>1, <1>3
  <2>3. j <= i \/ j > i
    BY <1>1
  <2> QED
    BY <2>1, <2>2, <2>3, Zenon
<1>9. Len(c \o b) = Len(s) + 1
  BY <1>1, <1>3, <1>7
<1> QED
  BY <1>5, <1>7, <1>8, <1>9 DEF IsInsertion

(* The members of a list, after a deletion and after an insertion.          *)
LEMMA RemoveAtMembers ==
  ASSUME NEW S, NEW s \in Seq(S), NEW i \in 1 .. Len(s)
  PROVE  /\ ToSet(RemoveAt(s, i)) \subseteq ToSet(s)
         /\ \A x \in ToSet(s) : x = s[i] \/ x \in ToSet(RemoveAt(s, i))
<1> DEFINE r == RemoveAt(s, i)
<1>0. r \in Seq(S) /\ IsDeletion(r, s, i)
  BY RemoveAtProperties
<1> HIDE DEF r
<1>1. /\ Len(s) \in Nat /\ i \in Int /\ DOMAIN s = 1 .. Len(s)
      /\ r \in Seq(S) /\ DOMAIN r = 1 .. Len(s) - 1
      /\ \A j \in 1 .. Len(s) - 1 : r[j] = IF j < i THEN s[j] ELSE s[j + 1]
  BY <1>0, LenProperties DEF IsDeletion
<1>2. ASSUME NEW k \in 1 .. Len(s) - 1 PROVE r[k] \in ToSet(s)
  <2>1. (k \in 1 .. Len(s) /\ r[k] = s[k]) \/ (k + 1 \in 1 .. Len(s) /\ r[k] = s[k + 1])
    BY <1>1
  <2> QED
    BY <2>1, <1>1 DEF ToSet
<1>3. ASSUME NEW k \in 1 .. Len(s), k # i PROVE s[k] \in ToSet(r)
  <2>1. CASE k < i
    <3>1. k \in 1 .. Len(s) - 1 /\ r[k] = s[k]
      BY <2>1, <1>1
    <3> QED
      BY <3>1, <1>1 DEF ToSet
  <2>2. CASE k > i
    <3>1. k - 1 \in 1 .. Len(s) - 1 /\ r[k - 1] = s[k]
      BY <2>2, <1>1
    <3> QED
      BY <3>1, <1>1 DEF ToSet
  <2> QED
    BY <2>1, <2>2, <1>1, <1>3
<1> QED
  BY <1>1, <1>2, <1>3 DEF ToSet, r

LEMMA InsertAtMembers ==
  ASSUME NEW S, NEW s \in Seq(S), NEW i \in 1 .. Len(s) + 1, NEW e \in S
  PROVE  ToSet(InsertAt(s, i, e)) = ToSet(s) \cup {e}
<1> DEFINE r == InsertAt(s, i, e)
<1>0. r \in Seq(S) /\ IsInsertion(r, s, i, e)
  BY InsertAtProperties
<1> HIDE DEF r
<1>1. /\ Len(s) \in Nat /\ i \in Int /\ DOMAIN s = 1 .. Len(s)
      /\ r \in Seq(S) /\ DOMAIN r = 1 .. Len(s) + 1
      /\ \A j \in 1 .. Len(s) + 1 : r[j] = IF j < i THEN s[j] ELSE IF j = i THEN e ELSE s[j - 1]
  BY <1>0, LenProperties DEF IsInsertion
<1>2. ASSUME NEW k \in 1 .. Len(s) + 1 PROVE r[k] \in ToSet(s) \cup {e}
  <2>1. \/ k \in 1 .. Len(s) /\ r[k] = s[k]
        \/ r[k] = e
        \/ k - 1 \in 1 .. Len(s) /\ r[k] = s[k - 1]
    BY <1>1
  <2> QED
    BY <2>1, <1>1 DEF ToSet
<1>3. e \in ToSet(r)
  BY <1>1 DEF ToSet
<1>4. ASSUME NEW k \in 1 .. Len(s) PROVE s[k] \in ToSet(r)
  <2>1. CASE k < i
    <3>1. k \in 1 .. Len(s) + 1 /\ r[k] = s[k]
      BY <2>1, <1>1
    <3> QED
      BY <3>1, <1>1 DEF ToSet
  <2>2. CASE k >= i
    <3>1. k + 1 \in 1 .. Len(s) + 1 /\ r[k + 1] = s[k]
      BY <2>2, <1>1
    <3> QED
      BY <3>1, <1>1 DEF ToSet
  <2> QED
    BY <2>1, <2>2, <1>1
<1> QED
  BY <1>1, <1>2, <1>3, <1>4 DEF ToSet, r
-----------------------------------------------------------------------------
(* The order of paths that may stand in for one another.                    *)
LEMMA ContainedRefl ==
  ASSUME NEW k \in Seq(Columns)
  PROVE  pathkeys_contained_in(k, k)
BY DEF pathkeys_contained_in

LEMMA ContainedTrans ==
  ASSUME NEW a \in Seq(Columns), NEW b \in Seq(Columns), NEW c \in Seq(Columns),
         pathkeys_contained_in(a, b), pathkeys_contained_in(b, c)
  PROVE  pathkeys_contained_in(a, c)
<1>1. Len(a) \in Nat /\ Len(b) \in Nat /\ Len(c) \in Nat
  BY LenProperties
<1> QED
  BY <1>1 DEF pathkeys_contained_in

LEMMA KeysType ==
  ASSUME NEW p \in Path
  PROVE  p.keys \in Seq(Columns) /\ TournamentKeys(p) \in Seq(Columns)
BY DEF Path, TournamentKeys

(* Two lists of keys are PATHKEYS_EQUAL only if each is contained in the    *)
(* other; BETTER1 and BETTER2 name the one that contains the other.         *)
LEMMA ComparePathkeysMeaning ==
  ASSUME NEW a \in Seq(Columns), NEW b \in Seq(Columns)
  PROVE  /\ compare_pathkeys(a, b) \in {"PATHKEYS_EQUAL", "PATHKEYS_BETTER1"}
              => pathkeys_contained_in(b, a)
         /\ compare_pathkeys(a, b) \in {"PATHKEYS_EQUAL", "PATHKEYS_BETTER2"}
              => pathkeys_contained_in(a, b)
<1>1. Len(a) \in Nat /\ Len(b) \in Nat
  BY LenProperties
<1> QED
  BY <1>1 DEF compare_pathkeys, pathkeys_contained_in

LEMMA CoversRefl ==
  ASSUME NEW p \in Path
  PROVE  Covers(p, p)
BY KeysType, ContainedRefl DEF Covers

LEMMA CoversTrans ==
  ASSUME NEW p \in Path, NEW q \in Path, NEW r \in Path, Covers(p, q), Covers(q, r)
  PROVE  Covers(p, r)
BY KeysType, ContainedTrans DEF Covers

(* A path is removed, or turned away, only for one that covers it.          *)
LEMMA RemovesCovers ==
  ASSUME NEW s, NEW new \in Path, NEW old \in Path, Removes(s, new, old)
  PROVE  Covers(new, old)
<1>1. compare_pathkeys(TournamentKeys(new), TournamentKeys(old))
        \in {"PATHKEYS_EQUAL", "PATHKEYS_BETTER1"}
  BY DEF Removes
<1>2. new.outer \subseteq old.outer /\ (old.safe => new.safe)
  BY DEF Removes, NoWorse, WinsTie, bms_subset_compare, Path
<1> QED
  BY <1>1, <1>2, KeysType, ComparePathkeysMeaning DEF Covers

LEMMA RejectsCovers ==
  ASSUME NEW s, NEW new \in Path, NEW old \in Path, Rejects(s, new, old)
  PROVE  Covers(old, new)
<1>1. compare_pathkeys(TournamentKeys(new), TournamentKeys(old))
        \in {"PATHKEYS_EQUAL", "PATHKEYS_BETTER2"}
  BY DEF Rejects
<1>2. old.outer \subseteq new.outer /\ (new.safe => old.safe)
  BY DEF Rejects, NoWorse, WinsTie, bms_subset_compare, Path
<1> QED
  BY <1>1, <1>2, KeysType, ComparePathkeysMeaning DEF Covers

(* The same for partial paths.  What changes hands is sort columns against  *)
(* cost: a step that costs up to the fuzz more gains at least one column.   *)
LEMMA PartialCoversMeaning ==
  ASSUME NEW p \in Path, NEW q \in Path
  PROVE  /\ p.total \in Int /\ q.total \in Int /\ Len(p.keys) \in Nat /\ Len(q.keys) \in Nat
         /\ PartialCovers(p, q) <=> /\ pathkeys_contained_in(q.keys, p.keys)
                                   /\ p.total <= q.total + (Len(p.keys) - Len(q.keys))
<1>1. /\ p.keys \in Seq(Columns) /\ q.keys \in Seq(Columns)
      /\ p.total \in Int /\ q.total \in Int
  BY DEF Path
<1>2. Len(p.keys) \in Nat /\ Len(q.keys) \in Nat
  BY <1>1, LenProperties
<1> DEFINE d == Len(p.keys) - Len(q.keys)
<1>3. d \in Int
  BY <1>2
<1> HIDE DEF d
<1>4. (2 - 1) * d = d
  BY <1>3
<1>5. PartialCovers(p, q) <=> /\ pathkeys_contained_in(q.keys, p.keys)
                             /\ p.total <= q.total + (2 - 1) * d
  BY DEF PartialCovers, FuzzLevels, d
<1> QED
  BY <1>1, <1>2, <1>4, <1>5 DEF d

LEMMA PartialCoversRefl ==
  ASSUME NEW p \in Path
  PROVE  PartialCovers(p, p)
<1>1. p.keys \in Seq(Columns) /\ p.total \in Int /\ Len(p.keys) \in Nat
  BY LenProperties DEF Path
<1> QED
  BY <1>1, ContainedRefl DEF PartialCovers, FuzzLevels

LEMMA PartialCoversTrans ==
  ASSUME NEW p \in Path, NEW q \in Path, NEW r \in Path,
         PartialCovers(p, q), PartialCovers(q, r)
  PROVE  PartialCovers(p, r)
<1>1. p.keys \in Seq(Columns) /\ q.keys \in Seq(Columns) /\ r.keys \in Seq(Columns)
  BY DEF Path
<1>2. pathkeys_contained_in(r.keys, p.keys)
  BY <1>1, ContainedTrans DEF PartialCovers
<1>3. p.total <= r.total + (Len(p.keys) - Len(r.keys))
  <2> DEFINE a == p.total
             b == q.total
             c == r.total
             l == Len(p.keys)
             m == Len(q.keys)
             n == Len(r.keys)
  <2>1. /\ a \in Int /\ b \in Int /\ c \in Int /\ l \in Nat /\ m \in Nat /\ n \in Nat
        /\ a <= b + (l - m) /\ b <= c + (m - n)
    BY PartialCoversMeaning
  <2> HIDE DEF a, b, c, l, m, n
  <2>2. a <= c + (l - n)
    BY ONLY <2>1
  <2> QED
    BY <2>2 DEF a, c, l, n
<1> QED
  BY <1>2, <1>3, PartialCoversMeaning

(* PATHKEYS_BETTER1 and BETTER2 name the list with more columns.            *)
LEMMA ComparePathkeysLengths ==
  ASSUME NEW a \in Seq(Columns), NEW b \in Seq(Columns)
  PROVE  /\ compare_pathkeys(a, b) = "PATHKEYS_EQUAL" => Len(a) = Len(b)
         /\ compare_pathkeys(a, b) = "PATHKEYS_BETTER1" => Len(a) > Len(b)
         /\ compare_pathkeys(a, b) = "PATHKEYS_BETTER2" => Len(b) > Len(a)
         /\ compare_pathkeys(a, b) \in {"PATHKEYS_EQUAL", "PATHKEYS_BETTER1",
                                        "PATHKEYS_BETTER2", "PATHKEYS_DIFFERENT"}
<1>1. Len(a) \in Nat /\ Len(b) \in Nat
  BY LenProperties
<1> QED
  BY <1>1 DEF compare_pathkeys, pathkeys_contained_in

LEMMA PartialRemovesCovers ==
  ASSUME NEW new \in Path, NEW old \in Path, PartialRemoves(new, old)
  PROVE  PartialCovers(new, old)
<1> DEFINE cmp == compare_pathkeys(new.keys, old.keys)
<1>1. /\ new.keys \in Seq(Columns) /\ old.keys \in Seq(Columns)
      /\ new.total \in Int /\ old.total \in Int
      /\ Len(new.keys) \in Nat /\ Len(old.keys) \in Nat
  BY LenProperties DEF Path
<1>2. \/ cmp \in {"PATHKEYS_EQUAL", "PATHKEYS_BETTER1"} /\ new.total <= old.total
      \/ cmp = "PATHKEYS_BETTER1" /\ new.total < old.total + FuzzLevels
  BY <1>1, ComparePathkeysLengths DEF PartialRemoves, RawGt, FuzzLevels
<1>3. /\ cmp \in {"PATHKEYS_EQUAL", "PATHKEYS_BETTER1"} => pathkeys_contained_in(old.keys, new.keys)
      /\ cmp = "PATHKEYS_EQUAL" => Len(new.keys) = Len(old.keys)
      /\ cmp = "PATHKEYS_BETTER1" => Len(new.keys) > Len(old.keys)
  BY <1>1, ComparePathkeysMeaning, ComparePathkeysLengths
<1> HIDE DEF cmp
<1>4. new.total <= old.total + (Len(new.keys) - Len(old.keys))
  <2> DEFINE a == new.total
             b == old.total
             l == Len(new.keys)
             m == Len(old.keys)
  <2>1. /\ a \in Int /\ b \in Int /\ l \in Nat /\ m \in Nat
        /\ (l >= m /\ a <= b) \/ (l > m /\ a < b + FuzzLevels)
    BY <1>1, <1>2, <1>3
  <2> HIDE DEF a, b, l, m
  <2>2. a <= b + (l - m)
    BY ONLY <2>1 DEF FuzzLevels
  <2> QED
    BY <2>2 DEF a, b, l, m
<1> QED
  BY <1>2, <1>3, <1>4, PartialCoversMeaning

LEMMA PartialRejectsCovers ==
  ASSUME NEW new \in Path, NEW old \in Path, PartialRejects(new, old)
  PROVE  PartialCovers(old, new)
<1> DEFINE cmp == compare_pathkeys(new.keys, old.keys)
<1>1. /\ new.keys \in Seq(Columns) /\ old.keys \in Seq(Columns)
      /\ new.total \in Int /\ old.total \in Int
      /\ Len(new.keys) \in Nat /\ Len(old.keys) \in Nat
  BY LenProperties DEF Path
<1>2. \/ cmp \in {"PATHKEYS_EQUAL", "PATHKEYS_BETTER2"} /\ old.total <= new.total
      \/ cmp = "PATHKEYS_BETTER2" /\ old.total < new.total + FuzzLevels
  BY <1>1, ComparePathkeysLengths DEF PartialRejects, RawGt, FuzzLevels
<1>3. /\ cmp \in {"PATHKEYS_EQUAL", "PATHKEYS_BETTER2"} => pathkeys_contained_in(new.keys, old.keys)
      /\ cmp = "PATHKEYS_EQUAL" => Len(new.keys) = Len(old.keys)
      /\ cmp = "PATHKEYS_BETTER2" => Len(old.keys) > Len(new.keys)
  BY <1>1, ComparePathkeysMeaning, ComparePathkeysLengths
<1> HIDE DEF cmp
<1>4. old.total <= new.total + (Len(old.keys) - Len(new.keys))
  <2> DEFINE a == old.total
             b == new.total
             l == Len(old.keys)
             m == Len(new.keys)
  <2>1. /\ a \in Int /\ b \in Int /\ l \in Nat /\ m \in Nat
        /\ (l >= m /\ a <= b) \/ (l > m /\ a < b + FuzzLevels)
    BY <1>1, <1>2, <1>3
  <2> HIDE DEF a, b, l, m
  <2>2. a <= b + (l - m)
    BY ONLY <2>1 DEF FuzzLevels
  <2> QED
    BY <2>2 DEF a, b, l, m
<1> QED
  BY <1>2, <1>3, <1>4, PartialCoversMeaning
-----------------------------------------------------------------------------
(* Type correctness.                                                        *)
Shape == [kind : Kinds, startup : Int, total : Int, power : Int,
          keys : Seq(Columns), outer : SUBSET Rels, rows : Nat, safe : BOOLEAN]

LEMMA NewPathType ==
  ASSUME NEW sh \in Shape, NEW n \in Nat, NEW sub \in SUBSET Nat
  PROVE  NewPath(sh, n, sub) \in Path
BY DEF Shape, NewPath, Path

LEMMA NoPathType == NoPath \in Path /\ DummyShape \in Shape
BY DEF NoPath, Path, Kinds, DummyShape, Shape, ZeroCost

JobType == [list : {"none", "full", "partial", "cheapest"}, path : Path, i : Nat, insert_after : Nat]
CheapestType == [startup : Path, total : Path, best : Path, params : Seq(Path)]

LEMMA IdleType == Idle \in JobType /\ Idle.list = "none"
BY NoPathType DEF Idle, Job, JobType

LEMMA NoCheapestType == NoCheapest \in CheapestType
BY NoPathType DEF NoCheapest, CheapestType

(* A call of add_path or add_partial_path begins in a well-typed state.     *)
LEMMA CallType ==
  ASSUME TypeOK, NEW sh \in Shape, NEW sub \in SUBSET Nat,
         phase' \in {"building", "gathering", "dummy", "done", "error"}, gather' \in Nat
  PROVE  /\ CallAddPath(sh, sub) => TypeOK'
         /\ CallAddPartialPath(sh, sub) => TypeOK'
<1> DEFINE p == NewPath(sh, made + 1, sub)
<1>1. p \in Path
  BY NewPathType DEF TypeOK
<1> HIDE DEF p
<1>2. Len(pathlist) \in Nat /\ Len(partial_pathlist) \in Nat
  BY LenProperties DEF TypeOK
<1>3. ASSUME CallAddPath(sh, sub) PROVE TypeOK'
  BY <1>1, <1>2, <1>3 DEF TypeOK, CallAddPath, Job, p
<1>4. ASSUME CallAddPartialPath(sh, sub) PROVE TypeOK'
  BY <1>1, <1>2, <1>4 DEF TypeOK, CallAddPartialPath, Job, p
<1> QED
  BY <1>3, <1>4

LEMMA ScanPathType ==
  ASSUME NEW s, NEW p \in Path,
         NEW acc \in [startup : Path, total : Path, best : Path, params : Seq(Path)]
  PROVE  ScanPath(s, acc, p) \in [startup : Path, total : Path, best : Path, params : Seq(Path)]
<1>1. \A b \in Path : \A c : CheaperOf(s, b, p, c) \in Path
  BY DEF CheaperOf
<1>2. \A b \in Path : BestParam(s, b, p) \in Path
  BY DEF BestParam
<1>3. Append(acc.params, p) \in Seq(Path)
  BY AppendProperties
<1> QED
  BY <1>1, <1>2, <1>3 DEF ScanPath

LEMMA TypeInvariance == TypeOK /\ [Next]_vars => TypeOK'
<1> SUFFICES ASSUME TypeOK, [Next]_vars PROVE TypeOK'
  OBVIOUS
<1>0. /\ Len(pathlist) \in Nat /\ Len(partial_pathlist) \in Nat
      /\ \A i \in 1 .. Len(pathlist) : pathlist[i] \in Path
      /\ \A i \in 1 .. Len(partial_pathlist) : partial_pathlist[i] \in Path
      /\ job.path \in Path /\ job.i \in Nat /\ job.insert_after \in Nat
  BY LenProperties, ElementOfSeq DEF TypeOK
<1>1. ASSUME NEW sh \in Shapes,
             \/ ConsiderPath(sh) \/ ConsiderPartial(sh)
             \/ \E ipath \in offered : ConsiderBitmap(sh, ipath) \/ ConsiderPartialBitmap(sh, ipath)
             \/ \E i \in 1 .. Len(partial_pathlist) : FinalizeGrouping(sh, i)
             \/ \E t \in Slacks : TryPartialJoinPath(sh, t) \/ \E s \in Slacks : TryJoinPath(sh, s, t)
      PROVE  TypeOK'
  <2>1. sh \in Shape
    BY ShapesAssumption DEF Shape
  <2>2. phase' = phase /\ gather' = gather
    BY <1>1 DEF ConsiderPath, ConsiderPartial, ConsiderBitmap, ConsiderPartialBitmap,
                FinalizeGrouping, TryJoinPath, TryPartialJoinPath
  <2>3. \E sub \in SUBSET Nat : CallAddPath(sh, sub) \/ CallAddPartialPath(sh, sub)
    <3>1. /\ \A q \in offered : {q.id} \in SUBSET Nat
          /\ \A i \in 1 .. Len(partial_pathlist) : {partial_pathlist[i].id} \in SUBSET Nat
      BY <1>0 DEF TypeOK, Path
    <3> QED
      BY <1>1, <3>1 DEF ConsiderPath, ConsiderPartial, ConsiderBitmap, ConsiderPartialBitmap,
                        FinalizeGrouping, TryJoinPath, TryPartialJoinPath
  <2> QED
    BY <2>1, <2>2, <2>3, CallType DEF TypeOK
<1>2. ASSUME NEW sh \in Shapes, AddGather(sh) \/ AddGatherMerge(sh) PROVE TypeOK'
  <2>1. \A i \in 1 .. Len(partial_pathlist) :
          {partial_pathlist[i].id} \in SUBSET Nat /\ partial_pathlist[i].keys \in Seq(Columns)
    BY <1>0 DEF Path
  <2>2. \A k \in Seq(Columns) : [sh EXCEPT !.keys = k] \in Shape
    BY ShapesAssumption DEF Shape
  <2>3. phase' = phase /\ gather' \in Nat
    BY <1>2 DEF AddGather, AddGatherMerge, TypeOK
  <2>4. CASE AddGather(sh)
    <3>1. 1 \in 1 .. Len(partial_pathlist)
      BY <2>4, <1>0, EmptySeq DEF AddGather, TypeOK
    <3>2. <<>> \in Seq(Columns)
      OBVIOUS
    <3> QED
      BY <2>1, <2>2, <2>3, <2>4, <3>1, <3>2, CallType DEF AddGather, TypeOK
  <2>5. CASE AddGatherMerge(sh)
    <3>1. gather \in 1 .. Len(partial_pathlist)
      BY <2>5, <1>0 DEF AddGatherMerge, Gathering, TypeOK
    <3> QED
      BY <2>1, <2>2, <2>3, <2>5, <3>1, CallType DEF AddGatherMerge, TypeOK
  <2> QED
    BY <1>2, <2>4, <2>5
<1>3. CASE RejectNew \/ PartialRejectNew
  <2>1. Free(job.path) => freed' \subseteq Nat
    BY <1>0 DEF Free, TypeOK, Path
  <2>2. {job.path.id} \subseteq Nat
    BY <1>0 DEF Path
  <2>3. job' = Idle
    BY <1>3 DEF RejectNew, PartialRejectNew
  <2>4. freed' \subseteq Nat
    BY <1>3, <2>1, <2>2 DEF RejectNew, PartialRejectNew, TypeOK
  <2> QED
    BY <1>3, <2>3, <2>4, IdleType DEF RejectNew, PartialRejectNew, TypeOK, JobType
<1>4. CASE RemoveOld
  <2>1. job.i \in 1 .. Len(pathlist) /\ pathlist[job.i] \in Path
    BY <1>0, <1>4 DEF RemoveOld, TypeOK
  <2>2. pathlist' \in Seq(Path) /\ Len(pathlist') = Len(pathlist) - 1
    <3>1. pathlist \in Seq(Path) /\ pathlist' = RemoveAt(pathlist, job.i)
      BY <1>4 DEF RemoveOld, TypeOK
    <3>2. RemoveAt(pathlist, job.i) \in Seq(Path) /\ IsDeletion(RemoveAt(pathlist, job.i), pathlist, job.i)
      BY <2>1, <3>1, RemoveAtProperties
    <3> QED
      BY <3>1, <3>2 DEF IsDeletion
  <2>3. freed' \subseteq Nat
    BY <1>4, <2>1 DEF RemoveOld, Free, TypeOK, Path
  <2> QED
    BY <1>0, <1>4, <2>1, <2>2, <2>3 DEF RemoveOld, TypeOK
<1>5. CASE PartialRemoveOld
  <2>1. job.i \in 1 .. Len(partial_pathlist) /\ partial_pathlist[job.i] \in Path
    BY <1>0, <1>5 DEF PartialRemoveOld, TypeOK
  <2>2. partial_pathlist' \in Seq(Path) /\ Len(partial_pathlist') = Len(partial_pathlist) - 1
    <3>1. partial_pathlist \in Seq(Path) /\ partial_pathlist' = RemoveAt(partial_pathlist, job.i)
      BY <1>5 DEF PartialRemoveOld, TypeOK
    <3>2. RemoveAt(partial_pathlist, job.i) \in Seq(Path) /\ IsDeletion(RemoveAt(partial_pathlist, job.i), partial_pathlist, job.i)
      BY <2>1, <3>1, RemoveAtProperties
    <3> QED
      BY <3>1, <3>2 DEF IsDeletion
  <2>3. freed' \subseteq Nat
    BY <1>5, <2>1 DEF PartialRemoveOld, TypeOK, Path
  <2> QED
    BY <1>0, <1>5, <2>1, <2>2, <2>3 DEF PartialRemoveOld, TypeOK
<1>6. CASE KeepBoth \/ PartialKeepBoth
  <2>1. /\ job' \in JobType /\ job'.list = job.list /\ job'.i = job.i + 1
        /\ job'.insert_after \in {job.insert_after, job.i}
    <3>1. job \in JobType
      BY DEF TypeOK, JobType
    <3>2. PICK k \in {job.insert_after, job.i} :
            job' = [job EXCEPT !.i = job.i + 1, !.insert_after = k]
      BY <1>6 DEF KeepBoth, PartialKeepBoth
    <3>3. k \in Nat /\ job.i + 1 \in Nat
      BY <1>0, <3>2
    <3> QED
      BY <3>1, <3>2, <3>3 DEF JobType
  <2>2. CASE KeepBoth
    <3>1. job.i \in 1 .. Len(pathlist) /\ job.insert_after \in 0 .. job.i - 1
      BY <1>0, <2>2 DEF KeepBoth, TypeOK
    <3>2. job'.i \in 1 .. Len(pathlist) + 1 /\ job'.insert_after \in 0 .. job'.i - 1
      BY <1>0, <2>1, <3>1
    <3> QED
      BY <2>1, <2>2, <3>2 DEF KeepBoth, TypeOK, JobType
  <2>3. CASE PartialKeepBoth
    <3>1. job.i \in 1 .. Len(partial_pathlist) /\ job.insert_after \in 0 .. job.i - 1
      BY <1>0, <2>3 DEF PartialKeepBoth, TypeOK
    <3>2. job'.i \in 1 .. Len(partial_pathlist) + 1 /\ job'.insert_after \in 0 .. job'.i - 1
      BY <1>0, <2>1, <3>1
    <3> QED
      BY <2>1, <2>3, <3>2 DEF PartialKeepBoth, TypeOK, JobType
  <2> QED
    BY <1>6, <2>2, <2>3
<1>7. CASE AcceptNew
  <2>1. pathlist' \in Seq(Path)
    <3>1. job.insert_after + 1 \in 1 .. Len(pathlist) + 1
      BY <1>0, <1>7 DEF AcceptNew, TypeOK
    <3> QED
      BY <1>0, <1>7, <3>1, InsertAtProperties DEF AcceptNew, TypeOK
  <2> QED
    BY <1>7, <2>1, IdleType DEF AcceptNew, TypeOK, JobType
<1>8. CASE PartialAcceptNew
  <2>1. partial_pathlist' \in Seq(Path)
    <3>1. job.insert_after + 1 \in 1 .. Len(partial_pathlist) + 1
      BY <1>0, <1>8 DEF PartialAcceptNew, TypeOK
    <3> QED
      BY <1>0, <1>8, <3>1, InsertAtProperties DEF PartialAcceptNew, TypeOK
  <2> QED
    BY <1>8, <2>1, IdleType DEF PartialAcceptNew, TypeOK, JobType
<1>9. CASE StartGather \/ SkipGatherMerge
  <2>1. phase' \in {phase, "gathering"} /\ gather' \in Nat
    BY <1>9 DEF StartGather, SkipGatherMerge, TypeOK
  <2>2. UNCHANGED <<setting, pathlist, partial_pathlist, job, cheapest, made, freed,
                    offered, partial_offered>>
    BY <1>9 DEF StartGather, SkipGatherMerge
  <2> QED
    BY <2>1, <2>2 DEF TypeOK
<1>10. CASE StartCheapest
  <2>1. /\ Job("cheapest", NoPath) \in JobType
        /\ Job("cheapest", NoPath).i = 1 /\ Job("cheapest", NoPath).insert_after = 0
        /\ Job("cheapest", NoPath).list = "cheapest"
    BY NoPathType DEF Job, JobType
  <2>2. cheapest' \in CheapestType /\ phase' \in {phase, "error"}
    BY <1>10, NoCheapestType DEF StartCheapest, TypeOK, CheapestType
  <2>3. job' \in {job, Job("cheapest", NoPath)}
    BY <1>10 DEF StartCheapest
  <2>4. UNCHANGED <<setting, pathlist, partial_pathlist, gather, made, freed, offered,
                    partial_offered>>
    BY <1>10 DEF StartCheapest
  <2> QED
    BY <1>0, <2>1, <2>2, <2>3, <2>4 DEF TypeOK, JobType, CheapestType
<1>11. CASE ScanCheapest
  <2>1. job.i \in 1 .. Len(pathlist) /\ pathlist[job.i] \in Path
    BY <1>0, <1>11 DEF ScanCheapest, TypeOK
  <2>2. cheapest' \in [startup : Path, total : Path, best : Path, params : Seq(Path)]
    BY <1>11, <2>1, ScanPathType DEF ScanCheapest, TypeOK
  <2>3. /\ job' \in JobType /\ job'.list = "cheapest" /\ job'.i = job.i + 1
        /\ job'.insert_after = job.insert_after /\ job.insert_after \in 0 .. job.i - 1
    <3>1. job \in JobType /\ job.list = "cheapest" /\ job.insert_after \in 0 .. job.i - 1
      BY <1>11 DEF ScanCheapest, TypeOK, JobType
    <3>2. job' = [job EXCEPT !.i = job.i + 1]
      BY <1>11 DEF ScanCheapest
    <3> QED
      BY <1>0, <3>1, <3>2 DEF JobType
  <2>4. UNCHANGED <<setting, pathlist, partial_pathlist, phase, gather, made, freed, offered,
                    partial_offered>>
    BY <1>11 DEF ScanCheapest
  <2>5. job'.i \in 1 .. Len(pathlist') + 1 /\ job'.insert_after \in 0 .. job'.i - 1
    BY <1>0, <2>1, <2>3, <2>4
  <2> QED
    BY <2>2, <2>3, <2>4, <2>5 DEF TypeOK, JobType
<1>12. CASE FinishCheapest
  <2>1. <<cheapest.total>> \o cheapest.params \in Seq(Path)
    BY ConcatProperties DEF TypeOK
  <2>2. cheapest' \in [startup : Path, total : Path, best : Path, params : Seq(Path)]
    BY <1>12, <2>1 DEF FinishCheapest, TypeOK
  <2>3. partial_pathlist' \in Seq(Path) /\ partial_offered' \subseteq Path
    <3>1. partial_pathlist \in Seq(Path) /\ partial_offered \subseteq Path /\ <<>> \in Seq(Path)
      BY EmptySeq DEF TypeOK
    <3>2. \/ partial_pathlist' = <<>> /\ partial_offered' = {}
          \/ partial_pathlist' = partial_pathlist /\ partial_offered' = partial_offered
      BY <1>12 DEF FinishCheapest
    <3> QED
      BY ONLY <3>1, <3>2
  <2> QED
    BY <1>12, <2>2, <2>3, IdleType DEF FinishCheapest, TypeOK, JobType
<1>13. CASE mark_dummy_rel
  <2>1. NewPath(DummyShape, made + 1, {}) \in Path
    BY NoPathType, NewPathType DEF TypeOK
  <2> QED
    BY <1>13, <2>1 DEF mark_dummy_rel, TypeOK, Job
<1>14. CASE UNCHANGED vars
  BY <1>14 DEF vars, TypeOK
<1> QED
  BY <1>1, <1>2, <1>3, <1>4, <1>5, <1>6, <1>7, <1>8, <1>9, <1>10, <1>11, <1>12,
     <1>13, <1>14 DEF Next

(* Every variable of the relation being planned keeps its type, and the     *)
(* loops of add_path, add_partial_path and set_cheapest stay within their   *)
(* list although RemoveOld deletes the cell they stand on.                  *)
THEOREM TypeCorrect == Spec => []TypeOK
<1>1. Init => TypeOK
  BY NoPathType DEF Init, TypeOK, Idle, Job, NoCheapest
<1> QED
  BY <1>1, TypeInvariance, PTL DEF Spec
=============================================================================
