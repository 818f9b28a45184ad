------------------------------ MODULE PathCost ------------------------------
(***************************************************************************)
(* How the energy-aware planner compares two Paths (pathnode.c,            *)
(* pathkeys.c, bitmapset.c).  No state: operators only.                    *)
(*                                                                         *)
(* A Cost is a level: level k stands for 1.005^k, so log(cost) is k times  *)
(* a positive unit that cancels in every comparison, and the 1% fuzz on a  *)
(* raw cost is FuzzLevels levels (1.005^2 > 1.01 > 1.005^1).  Cost 0 and a *)
(* negative cost, whose logarithms are -inf and NaN, have levels of their  *)
(* own.  The planner weights are integers: every comparison of weighted    *)
(* costs is homogeneous in them.                                           *)
(***************************************************************************)
EXTENDS Integers, Sequences

ZeroCost   == -1000000      \* the level of cost 0
NegCost    == -2000000      \* the level of any cost below 0
FuzzLevels == 2             \* a > 1.01 * b  iff  a is 2 or more levels above b
-----------------------------------------------------------------------------
(* Doubles that may be -inf or NaN.                                        *)
Fin(n) == [class |-> "fin", v |-> n]
NegInf == [class |-> "-inf", v |-> 0]
NaN    == [class |-> "nan", v |-> 0]

\* weight * log(cost)
WeightedLog(weight, cost) ==
    CASE cost = NegCost                 -> NaN
      [] cost = ZeroCost /\ weight = 0  -> NaN
      [] cost = ZeroCost /\ weight > 0  -> NegInf
      [] OTHER                          -> Fin(weight * cost)

Plus(x, y) ==
    CASE "nan"  \in {x.class, y.class} -> NaN
      [] "-inf" \in {x.class, y.class} /\ "nan" \notin {x.class, y.class} -> NegInf
      [] OTHER -> Fin(x.v + y.v)

\* time_weight * log(total_cost) + power_weight * log(power_cost)
WeightedCost(s, p) == Plus(WeightedLog(s.time_weight, p.total),
                           WeightedLog(s.power_weight, p.power))

\* x > y, as IEEE compares them
Gt(x, y) ==
    /\ "nan" \notin {x.class, y.class}
    /\ x.class = "fin"
    /\ y.class = "fin" => x.v > y.v

\* x > y * fuzz.  1.0000000001 moves an integer n to just beyond it, away
\* from zero; 1.01 is 101/100.
GtFuzz(x, y, fuzz) ==
    /\ "nan" \notin {x.class, y.class}
    /\ x.class = "fin"
    /\ y.class = "fin" => IF fuzz = "std" THEN 100 * x.v > 101 * y.v
                          ELSE x.v > y.v \/ (x.v = y.v /\ y.v < 0)

\* a > b * fuzz on raw costs (startup_cost, total_cost), which are >= 0
RawGt(a, b, fuzz) == a >= b + (IF fuzz = "std" THEN FuzzLevels ELSE 1)
-----------------------------------------------------------------------------
Parameterized(p) == p.outer # {}

ConsiderStartup(s, outer) ==
    IF outer = {} THEN s.consider_startup ELSE s.consider_param_startup

Sign(lt, gt) == IF lt THEN -1 ELSE IF gt THEN 1 ELSE 0

\* criterion is "STARTUP_COST" or "TOTAL_COST"
compare_path_costs(s, p1, p2, criterion) ==
    LET t1 == WeightedCost(s, p1)
        t2 == WeightedCost(s, p2)
        byTotal   == Sign(Gt(t2, t1), Gt(t1, t2))
        byStartup == Sign(p1.startup < p2.startup, p1.startup > p2.startup)
        first  == IF criterion = "STARTUP_COST" THEN byStartup ELSE byTotal
        second == IF criterion = "STARTUP_COST" THEN byTotal ELSE byStartup
    IN IF first # 0 THEN first ELSE second

compare_path_costs_fuzzily(s, p1, p2, fuzz) ==
    LET t1 == WeightedCost(s, p1)
        t2 == WeightedCost(s, p2)
        startupWorse1 == RawGt(p1.startup, p2.startup, fuzz)
        startupWorse2 == RawGt(p2.startup, p1.startup, fuzz)
    IN IF GtFuzz(t1, t2, fuzz)
       THEN IF ConsiderStartup(s, p1.outer) /\ startupWorse2
            THEN "COSTS_DIFFERENT" ELSE "COSTS_BETTER2"
       ELSE IF GtFuzz(t2, t1, fuzz)
       THEN IF ConsiderStartup(s, p2.outer) /\ startupWorse1
            THEN "COSTS_DIFFERENT" ELSE "COSTS_BETTER1"
       ELSE IF startupWorse1 THEN "COSTS_BETTER2"
       ELSE IF startupWorse2 THEN "COSTS_BETTER1"
       ELSE "COSTS_EQUAL"
-----------------------------------------------------------------------------
pathkeys_contained_in(k1, k2) ==
    Len(k1) <= Len(k2) /\ \A i \in 1 .. Len(k1) : k1[i] = k2[i]

compare_pathkeys(k1, k2) ==
    IF pathkeys_contained_in(k1, k2)
    THEN IF Len(k1) = Len(k2) THEN "PATHKEYS_EQUAL" ELSE "PATHKEYS_BETTER2"
    ELSE IF pathkeys_contained_in(k2, k1) THEN "PATHKEYS_BETTER1"
    ELSE "PATHKEYS_DIFFERENT"

bms_subset_compare(a, b) ==
    IF a = b THEN "BMS_EQUAL"
    ELSE IF a \subseteq b THEN "BMS_SUBSET1"
    ELSE IF b \subseteq a THEN "BMS_SUBSET2"
    ELSE "BMS_DIFFERENT"

\* a parameterized path counts as unsorted
TournamentKeys(p) == IF Parameterized(p) THEN <<>> ELSE p.keys
=============================================================================
