------------------------------- MODULE AddPath -------------------------------
(***************************************************************************)
(* The tournament that keeps the worthwhile Paths of one relation:         *)
(* add_path, add_path_precheck, add_partial_path, generate_gather_paths,   *)
(* mark_dummy_rel and set_cheapest.  The loops of add_path and             *)
(* add_partial_path are one step per old path compared.                    *)
(***************************************************************************)
EXTENDS PathCost, SequencesExt

CONSTANTS
    Columns,    \* the canonical PathKeys
    Rels,       \* the relations a parameterized path may need
    Settings,   \* planner weights, the relation's kind and startup-cost policy
    Shapes,     \* what a Path may look like when it is built
    Slacks,     \* how far below the final cost a join's initial cost may be
    MaxPaths    \* bound on the Paths built for the relation, Gathers aside

Kinds == {"scan", "index", "bitmap", "join", "gather", "upper", "dummy"}

\* RelOptKind: a base relation, a child of an append relation, a join, the
\* result of grouping and the like
RelOptKinds == {"BASEREL", "OTHER_MEMBER_REL", "JOINREL", "UPPER_REL"}

ASSUME SettingsAssumption ==
    Settings \subseteq [time_weight : Nat, power_weight : Nat,
                        consider_startup : BOOLEAN, consider_param_startup : BOOLEAN,
                        reloptkind : RelOptKinds]
ASSUME ShapesAssumption ==
    \A sh \in Shapes :
        sh \in [kind : Kinds, startup : Int, total : Int, power : Int,
                keys : Seq(Columns), outer : SUBSET Rels, rows : Nat, safe : BOOLEAN]

VARIABLES
    setting,            \* time_weight, power_weight, consider_[param_]startup, reloptkind
    pathlist,           \* RelOptInfo.pathlist
    partial_pathlist,   \* RelOptInfo.partial_pathlist
    job,                \* the add_path or add_partial_path call in progress
    phase,              \* where the relation is in its life
    gather,             \* generate_gather_paths: next partial path, 0 for the first
    cheapest,           \* the fields set_cheapest fills in
    made,               \* number of Paths allocated so far
    freed,              \* ids of the Paths handed to pfree
    offered,            \* history: Paths given to add_path
    partial_offered     \* history: Paths given to add_partial_path

vars == <<setting, pathlist, partial_pathlist, job, phase, gather, cheapest,
          made, freed, offered, partial_offered>>

\* A Path: its shape, its identity and the Paths of the same relation it uses
NewPath(sh, n, sub) ==
    [id |-> n, sub |-> sub, kind |-> sh.kind, startup |-> sh.startup,
     total |-> sh.total, power |-> sh.power, keys |-> sh.keys,
     outer |-> sh.outer, rows |-> sh.rows, safe |-> sh.safe]

NoPath == [id |-> 0, sub |-> {}, kind |-> "scan", startup |-> 0, total |-> 0,
           power |-> 0, keys |-> <<>>, outer |-> {}, rows |-> 0, safe |-> FALSE]

DummyShape == [kind |-> "dummy", startup |-> ZeroCost, total |-> ZeroCost,
               power |-> ZeroCost, keys |-> <<>>, outer |-> {}, rows |-> 0,
               safe |-> TRUE]

NoCheapest == [startup |-> NoPath, total |-> NoPath, best |-> NoPath, params |-> <<>>]

Job(list, p) == [list |-> list, path |-> p, i |-> 1, insert_after |-> 0]
Idle == Job("none", NoPath)
-----------------------------------------------------------------------------
(* add_path's verdict on a pair of Paths                                   *)
\* mutant: parallel safety is not compared
NoWorseUnsafe(a, b) == a.outer \subseteq b.outer /\ a.rows <= b.rows

NoWorse(a, b) == a.outer \subseteq b.outer /\ a.rows <= b.rows /\ (b.safe => a.safe)

\* same cost, keys and outer rels: parallel safety, then rows, then cost
WinsTie(s, new, old) ==
    \/ new.safe /\ ~old.safe
    \/ /\ new.safe = old.safe
       /\ \/ new.rows < old.rows
          \/ /\ new.rows = old.rows
             /\ compare_path_costs_fuzzily(s, new, old, "tiny") = "COSTS_BETTER1"

\* remove_old: new dominates old
Removes(s, new, old) ==
    LET costcmp  == compare_path_costs_fuzzily(s, new, old, "std")
        keyscmp  == compare_pathkeys(TournamentKeys(new), TournamentKeys(old))
        outercmp == bms_subset_compare(new.outer, old.outer)
    IN \/ costcmp = "COSTS_EQUAL" /\ keyscmp = "PATHKEYS_BETTER1" /\ NoWorse(new, old)
       \/ /\ costcmp = "COSTS_EQUAL" /\ keyscmp = "PATHKEYS_EQUAL"
          /\ \/ outercmp = "BMS_EQUAL" /\ WinsTie(s, new, old)
             \/ outercmp = "BMS_SUBSET1" /\ NoWorse(new, old)
       \/ /\ costcmp = "COSTS_BETTER1" /\ keyscmp \in {"PATHKEYS_EQUAL", "PATHKEYS_BETTER1"}
          /\ NoWorse(new, old)

\* accept_new = false: old dominates new
Rejects(s, new, old) ==
    LET costcmp  == compare_path_costs_fuzzily(s, new, old, "std")
        keyscmp  == compare_pathkeys(TournamentKeys(new), TournamentKeys(old))
        outercmp == bms_subset_compare(new.outer, old.outer)
    IN \/ costcmp = "COSTS_EQUAL" /\ keyscmp = "PATHKEYS_BETTER2" /\ NoWorse(old, new)
       \/ /\ costcmp = "COSTS_EQUAL" /\ keyscmp = "PATHKEYS_EQUAL"
          /\ \/ outercmp = "BMS_EQUAL" /\ ~WinsTie(s, new, old)
             \/ outercmp = "BMS_SUBSET2" /\ NoWorse(old, new)
       \/ /\ costcmp = "COSTS_BETTER2" /\ keyscmp \in {"PATHKEYS_EQUAL", "PATHKEYS_BETTER2"}
          /\ NoWorse(old, new)

(* add_partial_path's verdict: sort order and raw total cost only          *)
\* mutant: between paths of the same order and about the same cost, the new wins
PartialRemovesTie(new, old) ==
    /\ compare_pathkeys(new.keys, old.keys) \in {"PATHKEYS_EQUAL", "PATHKEYS_BETTER1"}
    /\ ~RawGt(new.total, old.total, "std")

PartialRemoves(new, old) ==
    LET keyscmp == compare_pathkeys(new.keys, old.keys)
    IN /\ keyscmp # "PATHKEYS_DIFFERENT"
       /\ ~RawGt(new.total, old.total, "std")
       /\ \/ RawGt(old.total, new.total, "std") /\ keyscmp # "PATHKEYS_BETTER2"
          \/ /\ ~RawGt(old.total, new.total, "std")
             /\ \/ keyscmp = "PATHKEYS_BETTER1"
                \/ keyscmp = "PATHKEYS_EQUAL" /\ RawGt(old.total, new.total, "tiny")

PartialRejects(new, old) ==
    LET keyscmp == compare_pathkeys(new.keys, old.keys)
    IN /\ keyscmp # "PATHKEYS_DIFFERENT"
       /\ \/ RawGt(new.total, old.total, "std") /\ keyscmp # "PATHKEYS_BETTER1"
          \/ /\ ~RawGt(new.total, old.total, "std")
             /\ ~RawGt(old.total, new.total, "std")
             /\ \/ keyscmp = "PATHKEYS_BETTER2"
                \/ keyscmp = "PATHKEYS_EQUAL" /\ ~RawGt(old.total, new.total, "tiny")

\* FALSE when some old path, reached before the scan stops at the first one
\* that is not cheaper, dominates a path with these costs, keys and outer rels
add_path_precheck(s, list, startup, total, keys, outer) ==
    LET newkeys == IF outer = {} THEN keys ELSE <<>>
    IN ~ \E i \in 1 .. Len(list) :
           /\ \A j \in 1 .. i : RawGt(total, list[j].total, "std")
           /\ RawGt(startup, list[i].startup, "std") \/ ~ConsiderStartup(s, outer)
           /\ pathkeys_contained_in(newkeys, TournamentKeys(list[i]))
           /\ outer = list[i].outer

add_partial_path_precheck(s, list, partials, total, keys) ==
    LET keyscmp(i) == compare_pathkeys(keys, partials[i].keys)
        inferior(i) == /\ keyscmp(i) \in {"PATHKEYS_EQUAL", "PATHKEYS_BETTER2"}
                       /\ RawGt(total, partials[i].total, "std")
        superior(i) == /\ keyscmp(i) \in {"PATHKEYS_EQUAL", "PATHKEYS_BETTER1"}
                       /\ RawGt(partials[i].total, total, "std")
        decided == {i \in 1 .. Len(partials) : inferior(i) \/ superior(i)}
    IN IF decided # {}
       THEN superior(CHOOSE i \in decided : \A j \in decided : i <= j)
       ELSE add_path_precheck(s, list, total, total, keys, {})
-----------------------------------------------------------------------------
Init ==
    /\ setting \in Settings
    /\ pathlist = <<>> /\ partial_pathlist = <<>>
    /\ job = Idle /\ phase = "building" /\ gather = 0
    /\ cheapest = NoCheapest
    /\ made = 0 /\ freed = {} /\ offered = {} /\ partial_offered = {}

\* A call add_path(rel, p) with a newly built p begins
CallAddPath(sh, sub) ==
    LET p == NewPath(sh, made + 1, sub)
    IN /\ made' = made + 1
       /\ job' = Job("full", p)
       /\ offered' = offered \cup {p}
       /\ UNCHANGED <<setting, pathlist, partial_pathlist, cheapest, freed,
                      partial_offered>>

CallAddPartialPath(sh, sub) ==
    LET p == NewPath(sh, made + 1, sub)
    IN /\ made' = made + 1
       /\ job' = Job("partial", p)
       /\ partial_offered' = partial_offered \cup {p}
       /\ UNCHANGED <<setting, pathlist, partial_pathlist, cheapest, freed, offered>>

is_dummy_rel == cheapest.total.kind = "dummy"

\* no more paths are built for a relation proven empty
Building == phase = "building" /\ job = Idle /\ made < MaxPaths /\ ~is_dummy_rel

IsUpper == setting.reloptkind = "UPPER_REL"
IsJoin  == setting.reloptkind = "JOINREL"
IsScan  == setting.reloptkind \in {"BASEREL", "OTHER_MEMBER_REL"}

\* scan and upper-relation paths, which no precheck guards
ConsiderPath(sh) ==
    /\ Building
    /\ \/ IsScan /\ sh.kind \in {"scan", "index"}
       \/ IsUpper /\ sh.kind = "upper"
    /\ CallAddPath(sh, {})
    /\ UNCHANGED <<phase, gather>>

\* a BitmapHeapPath over an IndexPath built earlier, kept in pathlist or not
ConsiderBitmap(sh, ipath) ==
    /\ Building /\ IsScan /\ sh.kind = "bitmap" /\ ipath.kind = "index"
    /\ CallAddPath(sh, {ipath.id})
    /\ UNCHANGED <<phase, gather>>

\* create_partial_bitmap_paths, for an unparameterized bitmap condition
ConsiderPartialBitmap(sh, ipath) ==
    /\ Building /\ IsScan /\ sh.kind = "bitmap" /\ sh.outer = {} /\ sh.safe
    /\ ipath.kind = "index" /\ ipath.outer = {}
    /\ CallAddPartialPath(sh, {ipath.id})
    /\ UNCHANGED <<phase, gather>>

\* partial scans, and the partially aggregated paths of a grouped relation,
\* all of which are built before its first complete path
ConsiderPartial(sh) ==
    /\ Building /\ sh.outer = {} /\ sh.safe
    /\ \/ IsScan /\ sh.kind \in {"scan", "index"}
       \/ IsUpper /\ sh.kind = "upper" /\ offered = {}
    /\ CallAddPartialPath(sh, {})
    /\ UNCHANGED <<phase, gather>>

\* a grouped relation's complete path over a Gather of its front partial path
\* or a Gather Merge of that one or of a sorted one
FinalizeGrouping(sh, i) ==
    /\ Building /\ IsUpper /\ sh.kind = "upper"
    /\ i = 1 \/ partial_pathlist[i].keys # <<>>
    /\ CallAddPath(sh, {partial_pathlist[i].id})
    /\ UNCHANGED <<phase, gather>>

\* a cost before the join clauses are charged; nothing is less than 0
Initial(cost, slack) == IF cost = ZeroCost THEN cost ELSE cost - slack

\* try_nestloop_path and its siblings: precheck with the initial costs
TryJoinPath(sh, s, t) ==
    /\ Building /\ IsJoin /\ sh.kind = "join"
    /\ add_path_precheck(setting, pathlist, Initial(sh.startup, s), Initial(sh.total, t),
                         sh.keys, sh.outer)
    /\ CallAddPath(sh, {})
    /\ UNCHANGED <<phase, gather>>

TryPartialJoinPath(sh, t) ==
    /\ Building /\ IsJoin /\ sh.kind = "join" /\ sh.outer = {} /\ sh.safe
    /\ add_partial_path_precheck(setting, pathlist, partial_pathlist, Initial(sh.total, t), sh.keys)
    /\ CallAddPartialPath(sh, {})
    /\ UNCHANGED <<phase, gather>>

\* mutant: IndexPaths are freed like any other path
FreeAll(p) == freed' = freed \cup {p.id}

\* pfree, which add_path withholds from IndexPaths
Free(p) == freed' = IF p.kind = "index" THEN freed ELSE freed \cup {p.id}

\* one iteration of add_path's loop: the old path at position i
RejectNew ==
    /\ job.list = "full" /\ job.i <= Len(pathlist)
    /\ Rejects(setting, job.path, pathlist[job.i])
    /\ Free(job.path)
    /\ job' = Idle
    /\ UNCHANGED <<setting, pathlist, partial_pathlist, phase, gather, cheapest,
                   made, offered, partial_offered>>

RemoveOld ==
    /\ job.list = "full" /\ job.i <= Len(pathlist)
    /\ Removes(setting, job.path, pathlist[job.i])
    /\ pathlist' = RemoveAt(pathlist, job.i)
    /\ Free(pathlist[job.i])
    /\ UNCHANGED <<setting, partial_pathlist, job, phase, gather, cheapest, made,
                   offered, partial_offered>>

\* mutant: insert_after points one cell too far
KeepBothOffByOne ==
    /\ job.list = "full" /\ job.i <= Len(pathlist)
    /\ ~Rejects(setting, job.path, pathlist[job.i])
    /\ ~Removes(setting, job.path, pathlist[job.i])
    /\ job' = [job EXCEPT !.i = @ + 1, !.insert_after = job.i + 1]
    /\ UNCHANGED <<setting, pathlist, partial_pathlist, phase, gather, cheapest,
                   made, freed, offered, partial_offered>>

KeepBoth ==
    /\ job.list = "full" /\ job.i <= Len(pathlist)
    /\ ~Rejects(setting, job.path, pathlist[job.i])
    /\ ~Removes(setting, job.path, pathlist[job.i])
    /\ job' = [job EXCEPT !.i = @ + 1,
                          !.insert_after = IF job.path.total >= pathlist[job.i].total
                                           THEN job.i ELSE @]
    /\ UNCHANGED <<setting, pathlist, partial_pathlist, phase, gather, cheapest,
                   made, freed, offered, partial_offered>>

\* mutant: the new path always goes to the front
AcceptNewInFront ==
    /\ job.list = "full" /\ job.i > Len(pathlist)
    /\ pathlist' = InsertAt(pathlist, 1, job.path)
    /\ job' = Idle
    /\ UNCHANGED <<setting, partial_pathlist, phase, gather, cheapest, made,
                   freed, offered, partial_offered>>

AcceptNew ==
    /\ job.list = "full" /\ job.i > Len(pathlist)
    /\ pathlist' = InsertAt(pathlist, job.insert_after + 1, job.path)
    /\ job' = Idle
    /\ UNCHANGED <<setting, partial_pathlist, phase, gather, cheapest, made,
                   freed, offered, partial_offered>>

\* the same for add_partial_path, which frees every path it drops
PartialRejectNew ==
    /\ job.list = "partial" /\ job.i <= Len(partial_pathlist)
    /\ PartialRejects(job.path, partial_pathlist[job.i])
    /\ freed' = freed \cup {job.path.id}
    /\ job' = Idle
    /\ UNCHANGED <<setting, pathlist, partial_pathlist, phase, gather, cheapest,
                   made, offered, partial_offered>>

PartialRemoveOld ==
    /\ job.list = "partial" /\ job.i <= Len(partial_pathlist)
    /\ PartialRemoves(job.path, partial_pathlist[job.i])
    /\ partial_pathlist' = RemoveAt(partial_pathlist, job.i)
    /\ freed' = freed \cup {partial_pathlist[job.i].id}
    /\ UNCHANGED <<setting, pathlist, job, phase, gather, cheapest, made,
                   offered, partial_offered>>

PartialKeepBoth ==
    /\ job.list = "partial" /\ job.i <= Len(partial_pathlist)
    /\ ~PartialRejects(job.path, partial_pathlist[job.i])
    /\ ~PartialRemoves(job.path, partial_pathlist[job.i])
    /\ job' = [job EXCEPT !.i = @ + 1,
                          !.insert_after = IF job.path.total >= partial_pathlist[job.i].total
                                           THEN job.i ELSE @]
    /\ UNCHANGED <<setting, pathlist, partial_pathlist, phase, gather, cheapest,
                   made, freed, offered, partial_offered>>

PartialAcceptNew ==
    /\ job.list = "partial" /\ job.i > Len(partial_pathlist)
    /\ partial_pathlist' = InsertAt(partial_pathlist, job.insert_after + 1, job.path)
    /\ job' = Idle
    /\ UNCHANGED <<setting, pathlist, phase, gather, cheapest, made, freed,
                   offered, partial_offered>>

\* generate_gather_paths is called for base relations and joins only
StartGather ==
    /\ phase = "building" /\ job = Idle /\ setting.reloptkind \in {"BASEREL", "JOINREL"}
    /\ phase' = "gathering"
    /\ UNCHANGED <<setting, pathlist, partial_pathlist, job, gather, cheapest,
                   made, freed, offered, partial_offered>>

Gathering == phase = "gathering" /\ job = Idle /\ gather <= Len(partial_pathlist)

\* generate_gather_paths: a Gather on the front partial path ...
AddGather(sh) ==
    /\ Gathering /\ partial_pathlist # <<>> /\ gather = 0
    /\ sh.kind = "gather"
    /\ CallAddPath([sh EXCEPT !.keys = <<>>], {partial_pathlist[1].id})
    /\ gather' = 1
    /\ UNCHANGED phase

\* ... then a Gather Merge on each sorted one
AddGatherMerge(sh) ==
    /\ Gathering /\ gather > 0 /\ partial_pathlist[gather].keys # <<>>
    /\ sh.kind = "gather"
    /\ CallAddPath([sh EXCEPT !.keys = partial_pathlist[gather].keys],
                   {partial_pathlist[gather].id})
    /\ gather' = gather + 1
    /\ UNCHANGED phase

SkipGatherMerge ==
    /\ Gathering /\ gather > 0 /\ partial_pathlist[gather].keys = <<>>
    /\ gather' = gather + 1
    /\ UNCHANGED <<setting, pathlist, partial_pathlist, job, phase, cheapest,
                   made, freed, offered, partial_offered>>

\* the paths are complete: gathered, or of a relation that is not gathered
Gathered ==
    \/ phase = "gathering" /\ (partial_pathlist = <<>> \/ gather > Len(partial_pathlist))
    \/ phase = "building" /\ setting.reloptkind \in {"OTHER_MEMBER_REL", "UPPER_REL"}

\* set_cheapest's choice between the best path so far and the next
CheaperOf(s, best, p, criterion) ==
    LET cmp == compare_path_costs(s, best, p, criterion)
    IN IF \/ cmp > 0
          \/ cmp = 0 /\ compare_pathkeys(best.keys, p.keys) = "PATHKEYS_BETTER2"
       THEN p ELSE best

\* mutant: the cheapest parameterized path, whatever it needs
BestParamByCost(s, best, p) ==
    IF best = NoPath \/ compare_path_costs(s, p, best, "TOTAL_COST") < 0 THEN p ELSE best

BestParam(s, best, p) ==
    CASE best = NoPath -> p
      [] best # NoPath /\ bms_subset_compare(p.outer, best.outer) = "BMS_SUBSET1" -> p
      [] best # NoPath /\ p.outer = best.outer ->
            IF compare_path_costs(s, p, best, "TOTAL_COST") < 0 THEN p ELSE best
      [] OTHER -> best

ScanPath(s, acc, p) ==
    IF Parameterized(p)
    THEN [acc EXCEPT !.params = Append(@, p),
                     !.best = IF acc.total # NoPath THEN @ ELSE BestParam(s, @, p)]
    ELSE IF acc.total = NoPath
    THEN [acc EXCEPT !.startup = p, !.total = p]
    ELSE [acc EXCEPT !.startup = CheaperOf(s, @, p, "STARTUP_COST"),
                     !.total   = CheaperOf(s, @, p, "TOTAL_COST")]

\* set_cheapest, at the end of planning for this relation or of
\* mark_dummy_rel: an empty pathlist is an error, else scan it
StartCheapest ==
    /\ job = Idle /\ (Gathered \/ phase = "dummy")
    /\ IF pathlist = <<>>
       THEN phase' = "error" /\ UNCHANGED <<job, cheapest>>
       ELSE /\ job' = Job("cheapest", NoPath)
            /\ cheapest' = NoCheapest
            /\ UNCHANGED phase
    /\ UNCHANGED <<setting, pathlist, partial_pathlist, gather, made, freed,
                   offered, partial_offered>>

ScanCheapest ==
    /\ job.list = "cheapest" /\ job.i <= Len(pathlist)
    /\ cheapest' = ScanPath(setting, cheapest, pathlist[job.i])
    /\ job' = [job EXCEPT !.i = @ + 1]
    /\ UNCHANGED <<setting, pathlist, partial_pathlist, phase, gather, made,
                   freed, offered, partial_offered>>

\* the last step of set_cheapest; a grouped relation's partially aggregated
\* paths are then forgotten
FinishCheapest ==
    /\ job.list = "cheapest" /\ job.i > Len(pathlist)
    /\ cheapest' = IF cheapest.total # NoPath
                   THEN [cheapest EXCEPT !.params = <<cheapest.total>> \o @]
                   ELSE [cheapest EXCEPT !.total = cheapest.best]
    /\ job' = Idle
    /\ phase' = IF phase = "dummy" THEN "building" ELSE "done"
    /\ IF IsUpper
       THEN partial_pathlist' = <<>> /\ partial_offered' = {}
       ELSE UNCHANGED <<partial_pathlist, partial_offered>>
    /\ UNCHANGED <<setting, pathlist, gather, made, freed, offered>>

\* mark_dummy_rel: evict every path, then add_path the dummy Append
mark_dummy_rel ==
    LET p == NewPath(DummyShape, made + 1, {})
    IN /\ Building /\ ~IsUpper
       /\ made' = made + 1
       /\ pathlist' = <<>> /\ partial_pathlist' = <<>>
       /\ job' = Job("full", p)
       /\ offered' = {p} /\ partial_offered' = {}
       /\ phase' = "dummy"
       /\ UNCHANGED <<setting, gather, cheapest, freed>>

Next ==
    \/ \E sh \in Shapes :
        \/ ConsiderPath(sh)
        \/ \E ipath \in offered : ConsiderBitmap(sh, ipath) \/ ConsiderPartialBitmap(sh, ipath)
        \/ ConsiderPartial(sh)
        \/ \E i \in 1 .. Len(partial_pathlist) : FinalizeGrouping(sh, i)
        \/ \E t \in Slacks : TryPartialJoinPath(sh, t) \/ \E s \in Slacks : TryJoinPath(sh, s, t)
        \/ AddGather(sh) \/ AddGatherMerge(sh)
    \/ RejectNew \/ RemoveOld \/ KeepBoth \/ AcceptNew
    \/ PartialRejectNew \/ PartialRemoveOld \/ PartialKeepBoth \/ PartialAcceptNew
    \/ StartGather \/ SkipGatherMerge
    \/ StartCheapest \/ ScanCheapest \/ FinishCheapest
    \/ mark_dummy_rel

Spec == Init /\ [][Next]_vars
-----------------------------------------------------------------------------
(* A Path object of the relation *)
Path == [id : Nat, sub : SUBSET Nat, kind : Kinds, startup : Int, total : Int,
         power : Int, keys : Seq(Columns), outer : SUBSET Rels, rows : Nat,
         safe : BOOLEAN]

\* Every variable of the planner's relation holds a value of its C type, and
\* the scan position and insertion point of a call lie within the list.
TypeOK ==
    /\ setting \in Settings
    /\ pathlist \in Seq(Path) /\ partial_pathlist \in Seq(Path) /\ gather \in Nat
    /\ phase \in {"building", "gathering", "dummy", "done", "error"}
    /\ job \in [list : {"none", "full", "partial", "cheapest"}, path : Path, i : Nat, insert_after : Nat]
    /\ job.list # "none" =>
         LET n == Len(IF job.list = "partial" THEN partial_pathlist ELSE pathlist)
         IN job.i \in 1 .. n + 1 /\ job.insert_after \in 0 .. job.i - 1
    /\ cheapest \in [startup : Path, total : Path, best : Path, params : Seq(Path)]
    /\ made \in Nat /\ freed \subseteq Nat
    /\ offered \subseteq Path /\ partial_offered \subseteq Path

InHand(which) == IF job.list = which THEN {job.path} ELSE {}
LivePaths        == ToSet(pathlist) \cup InHand("full")
LivePartialPaths == ToSet(partial_pathlist) \cup InHand("partial")

\* r can stand in for q: at least as sorted, needs no more outer rels, and is
\* no less parallel-safe
Covers(r, q) ==
    /\ pathkeys_contained_in(TournamentKeys(q), TournamentKeys(r))
    /\ r.outer \subseteq q.outer
    /\ q.safe => r.safe

\* add_path may drop a path, old or new, only for another that can stand in
\* for it: whatever sequence of paths was offered, each one is still covered
\* by a path of the list (or the one in hand), across chains of removals and
\* in spite of NaN and fuzzy costs.
Coverage == \A q \in offered : \E r \in LivePaths : Covers(r, q)

\* r can stand in for q under a Gather or Gather Merge: at least as sorted,
\* and dearer by less than the fuzz for each column it is sorted on beyond q
PartialCovers(r, q) ==
    /\ pathkeys_contained_in(q.keys, r.keys)
    /\ r.total <= q.total + (FuzzLevels - 1) * (Len(r.keys) - Len(q.keys))

\* add_partial_path gives up a little cost for a better order, and repeats
\* it along a chain of removals.  However long the chain, each partial path
\* offered has a stand-in in the list (or in hand) that keeps its order and
\* costs at most the fuzz more for each extra sort column, so the front path
\* generate_gather_paths calls the cheapest is within that of the cheapest.
PartialCoverage ==
    \A q \in partial_offered : \E r \in LivePartialPaths : PartialCovers(r, q)

SortedByTotal(list) ==
    \A i, j \in 1 .. Len(list) : i < j => list[i].total <= list[j].total

\* Both lists stay sorted by total_cost: add_path_precheck stops at the first
\* path that is not cheaper, and callers take linitial(partial_pathlist).
Sorted == SortedByTotal(pathlist) /\ SortedByTotal(partial_pathlist)

\* No path that is still in use, in a list, in hand, chosen as cheapest or referenced by such a path, has been pfree'd.
NoDangling ==
    LET inUse == LivePaths \cup LivePartialPaths
                 \cup (IF phase = "done" THEN {cheapest.total} \cup ToSet(cheapest.params) ELSE {})
    IN \A p \in inUse : p.id \notin freed /\ p.sub \cap freed = {}

Comparable(p) == WeightedCost(setting, p).class # "nan"

\* When no weighted cost is NaN, the paths set_cheapest leaves in the relation
\* are least: no unparameterized path beats cheapest_total_path or
\* cheapest_startup_path, and without one, no path needs fewer outer rels than
\* cheapest_total_path, nor the same at a lower cost.
CheapestIsBest ==
    phase = "done" /\ (\A p \in ToSet(pathlist) : Comparable(p)) =>
      LET unparam == {p \in ToSet(pathlist) : ~Parameterized(p)}
      IN /\ \A p \in unparam :
               /\ compare_path_costs(setting, p, cheapest.total, "TOTAL_COST") >= 0
               /\ compare_path_costs(setting, p, cheapest.startup, "STARTUP_COST") >= 0
         /\ unparam = {} => \A p \in ToSet(pathlist) :
               /\ ~(p.outer \subseteq cheapest.total.outer /\ p.outer # cheapest.total.outer)
               /\ p.outer = cheapest.total.outer =>
                    compare_path_costs(setting, p, cheapest.total, "TOTAL_COST") >= 0

\* Comment of set_cheapest: "cheapest_total_path is normally the
\* cheapest-total-cost unparameterized path".  With power_weight at its
\* default of 0 that is, up to the fuzz of the comparison, the least
\* total_cost of the paths offered.
DefaultPicksLeastTotal ==
    phase = "done" /\ setting.power_weight = 0 /\ setting.time_weight > 0 =>
      \A p \in offered : ~Parameterized(p) =>
        ~GtFuzz(Fin(cheapest.total.total), Fin(p.total), "std")

\* Comment of add_path_precheck: "Cost comparisons here should match
\* compare_path_costs_fuzzily".  A join path it turns away, of the row count
\* of its parameterization, would also have been turned away by add_path.
PrecheckMatches ==
    phase = "building" /\ job = Idle => \A sh \in Shapes :
        LET p == NewPath(sh, 0, {})
        IN /\ sh.kind = "join"
           /\ ~add_path_precheck(setting, pathlist, sh.startup, sh.total, sh.keys, sh.outer)
           => \E old \in ToSet(pathlist) : Rejects(setting, p, old)
=============================================================================
