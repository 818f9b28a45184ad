----------------------------- MODULE MCAddPath -----------------------------
(* Small instances of AddPath.  A level of 0 is a cost of 1, 739 is 39.9     *)
(* (the regression's base power), 900 is about 89.                          *)
EXTENDS AddPath

Shape(kind, startup, total, power, keys, outer, rows, safe) ==
    [kind |-> kind, startup |-> startup, total |-> total, power |-> power,
     keys |-> keys, outer |-> outer, rows |-> rows, safe |-> safe]

Policy(tw, pw, cs, cps, kind) ==
    [time_weight |-> tw, power_weight |-> pw, consider_startup |-> cs,
     consider_param_startup |-> cps, reloptkind |-> kind]

(* Paths that differ in every dimension add_path compares, with costs on    *)
(* both sides of each fuzz limit, a power_cost of 0 (a ForeignPath or an     *)
(* upper-relation path whose constructor never sets it)                      *)
(* and one below 0 (the regression on a very large cpu_cost).  Each order    *)
(* <<>>, <<"a">>, <<"a", "b">> comes within the fuzz of the one before, and  *)
(* the path that needs r alone is dearer than those that need r and t.      *)
MixedShapes ==
    {Shape("scan",   ZeroCost, 900, 739, <<>>, {}, 2, TRUE),
     Shape("scan",   ZeroCost, 901, ZeroCost, <<>>, {}, 2, FALSE),
     Shape("index",  ZeroCost, 901, 745, <<"a">>, {}, 2, TRUE),
     Shape("index",  600, 902, 745, <<"a", "b">>, {}, 2, TRUE),
     Shape("index",  ZeroCost, 800, 739, <<"a">>, {"r"}, 1, TRUE),
     Shape("index",  600, 700, 739, <<>>, {"r", "t"}, 1, TRUE),
     Shape("index",  500, 720, 745, <<>>, {"r", "t"}, 1, TRUE),
     Shape("bitmap", 700, 899, 739, <<>>, {}, 2, TRUE),
     Shape("join",   600, 860, NegCost, <<>>, {}, 2, TRUE),
     Shape("join",   610, 861, 739, <<"a">>, {}, 2, TRUE),
     Shape("join",   0, 862, 730, <<"a", "b">>, {}, 2, TRUE),
     Shape("join",   0, 840, 730, <<>>, {"r"}, 1, TRUE),
     Shape("gather", 690, 880, 760, <<>>, {}, 3, FALSE),
     Shape("upper",  900, 905, 740, <<>>, {}, 2, TRUE),
     Shape("upper",  ZeroCost, 950, ZeroCost, <<"a">>, {}, 2, TRUE),
     Shape("upper",  901, 904, 745, <<>>, {}, 1, FALSE)}
MixedSettings == {Policy(1, 0, FALSE, FALSE, "BASEREL"), Policy(0, 1, FALSE, TRUE, "BASEREL"),
                  Policy(1, 1, TRUE, TRUE, "OTHER_MEMBER_REL"),
                  Policy(1, 0, FALSE, FALSE, "JOINREL"), Policy(1, 1, TRUE, FALSE, "JOINREL"),
                  Policy(1, 0, TRUE, FALSE, "UPPER_REL")}

(* DISTINCT: a HashAggregate, whose power_cost is set, against Unique over a *)
(* sorted input, whose constructor leaves power_cost at 0.                  *)
DistinctShapes == {Shape("upper", 900, 905, 740, <<>>, {}, 2, TRUE),
                   Shape("upper", ZeroCost, 950, ZeroCost, <<"a">>, {}, 2, TRUE)}
DefaultSettings == {Policy(1, 0, FALSE, FALSE, "UPPER_REL")}

(* Join paths whose time and power trade off against each other.            *)
JoinShapes == {Shape("join", 600, t, pw, <<>>, {}, 2, TRUE) : t \in {890, 900}, pw \in {739, 860}}
EnergySettings == {Policy(1, 1, FALSE, FALSE, "JOINREL")}
=============================================================================
