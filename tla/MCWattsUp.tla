----------------------------- MODULE MCWattsUp -----------------------------
(* Small instances of WattsUp.                                              *)
EXTENDS WattsUp

Plain == [interval |-> "absent", mode |-> "absent", user |-> "absent",
          count |-> 0, count_bad |-> FALSE, cal |-> FALSE, header |-> FALSE, info_all |-> FALSE,
          set_only |-> FALSE, no_data |-> FALSE, final |-> FALSE]

(* wattsup <device> watts, as the UI's worker runs it, wattsup -c 2, as the  *)
(* UI tests the meter with a count, and command lines that take every path   *)
(* of main() between them.                                                  *)
MixedOptions == [p \in Proc |->
    {Plain, [Plain EXCEPT !.count = 2],
     [Plain EXCEPT !.interval = "value", !.mode = "value", !.count = 1, !.final = TRUE],
     [Plain EXCEPT !.user = "value", !.mode = "bad", !.header = TRUE, !.set_only = TRUE],
     [Plain EXCEPT !.info_all = TRUE, !.no_data = TRUE],
     [Plain EXCEPT !.interval = "bare", !.cal = TRUE],
     [Plain EXCEPT !.user = "bare", !.count_bad = TRUE],
     [Plain EXCEPT !.user = "value", !.count_bad = TRUE],
     [Plain EXCEPT !.count = -5]}]
DataOptions  == [p \in Proc |-> {Plain, [Plain EXCEPT !.count = 2], [Plain EXCEPT !.no_data = TRUE]}]
FeedAndCheck == [p \in Proc |-> {IF p = "worker" THEN Plain ELSE [Plain EXCEPT !.count = 1]}]
FinalOption  == [p \in Proc |-> {[Plain EXCEPT !.count = 1, !.final = TRUE]}]
UserOption   == [p \in Proc |-> {[Plain EXCEPT !.user = "value", !.no_data = TRUE]}]
=============================================================================
