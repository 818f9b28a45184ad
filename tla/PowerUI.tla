------------------------------ MODULE PowerUI ------------------------------
(* The measuring side of the Java front end (JavaApp): the button handlers   *)
(* of NFrame, which all run on the Swing event thread, the WattsUpWorker     *)
(* thread that reads the meter driver's output, and the chart thread.  They  *)
(* share static fields without synchronisation, so every read and write of   *)
(* one is a step of its own.                                                *)
(*                                                                          *)
(* Samples are numbered in the order the worker reads them; a sum of samples *)
(* is the set of their numbers.                                             *)
EXTENDS Integers, Sequences, FiniteSets

CONSTANTS Query,        \* texts of queries
          MaxSamples,   \* bound: lines the driver prints
          MaxClicks     \* bound: buttons pressed

ASSUME UIAssumption == MaxSamples \in Nat /\ MaxClicks \in Nat

VARIABLES
    ui,          \* the event thread: what it is doing and its locals
    clicks,
    app,         \* NFrame.app: the meter has been tested
    notlauch,    \* CProcess.notlauch: the worker has not been started
    brun, tp, Cqpower,     \* shared by the event thread and the worker
    val,         \* NFrame.val: how many samples the worker has added
    w,           \* the worker thread and its locals
    chart,       \* the chart thread and its locals
    Qst,         \* CProcess.Qst: an entry for each query explained
    measurep,    \* CProcess.measurep: an entry for each query measured
    explain      \* NFrame.explain: a query has been explained

measuring == <<notlauch, brun, tp, Cqpower>>
worker    == <<val, w>>
results   == <<Qst, measurep, explain>>
vars      == <<ui, clicks, app, measuring, worker, chart, results>>

None == "none"
\* from, since, to and last only record, for the properties, how far the worker
\* was when the sums were cleared, when brun was set and when it was cleared
Idle == [pc |-> "idle", handler |-> None, q |-> None, multi |-> FALSE,
         from |-> 0, since |-> 0, to |-> 0, last |-> 0, avg |-> {}, n |-> 0]
Init ==
    /\ ui = Idle /\ clicks = 0 /\ app = FALSE
    /\ notlauch = TRUE /\ brun = FALSE /\ tp = 0 /\ Cqpower = {}
    /\ val = 0 /\ w = [pc |-> "off", t |-> 0, c |-> {}]
    /\ chart = [pc |-> "off", len |-> 0, i |-> 0]
    /\ Qst = <<>> /\ measurep = <<>> /\ explain = FALSE

\* the last sample the worker is through with
Done == IF w.pc \in {"off", "read", "dead"} THEN val ELSE val - 1
\* the last one it has added or will, even if brun is false from now on
Taken == IF w.pc = "test" THEN val - 1 ELSE val

(* --------------------------- the worker thread -------------------------- *)
\* WattsUpWorker.run, one line: append it, and if brun add it to the sums
ReadLine ==
    /\ w.pc = "read" /\ val < MaxSamples
    /\ val' = val + 1 /\ w' = [w EXCEPT !.pc = "test"]
    /\ UNCHANGED <<ui, clicks, app, measuring, chart, results>>
\* the driver ends, prints a line that is no number, or could not be started
WorkerDies ==
    /\ w.pc = "read" /\ w' = [w EXCEPT !.pc = "dead"]
    /\ UNCHANGED <<ui, clicks, app, measuring, val, chart, results>>
TestBrunAlways ==
    /\ w.pc = "test" /\ w' = [w EXCEPT !.pc = "tp read"]
    /\ UNCHANGED <<ui, clicks, app, measuring, val, chart, results>>
TestBrun ==
    /\ w.pc = "test" /\ w' = [w EXCEPT !.pc = IF brun THEN "tp read" ELSE "read"]
    /\ UNCHANGED <<ui, clicks, app, measuring, val, chart, results>>
ReadTp ==
    /\ w.pc = "tp read" /\ w' = [w EXCEPT !.pc = "tp write", !.t = tp]
    /\ UNCHANGED <<ui, clicks, app, measuring, val, chart, results>>
WriteTpBack ==
    /\ w.pc = "tp write" /\ tp' = w.t - 1 /\ w' = [w EXCEPT !.pc = "sum read"]
    /\ UNCHANGED <<ui, clicks, app, notlauch, brun, Cqpower, val, chart, results>>
WriteTp ==
    /\ w.pc = "tp write" /\ tp' = w.t + 1 /\ w' = [w EXCEPT !.pc = "sum read"]
    /\ UNCHANGED <<ui, clicks, app, notlauch, brun, Cqpower, val, chart, results>>
ReadSum ==
    /\ w.pc = "sum read" /\ w' = [w EXCEPT !.pc = "sum write", !.c = Cqpower]
    /\ UNCHANGED <<ui, clicks, app, measuring, val, chart, results>>
WriteSumLost ==
    /\ w.pc = "sum write" /\ Cqpower' = {val} /\ w' = [w EXCEPT !.pc = "read"]
    /\ UNCHANGED <<ui, clicks, app, notlauch, brun, tp, val, chart, results>>
WriteSum ==
    /\ w.pc = "sum write" /\ Cqpower' = w.c \cup {val} /\ w' = [w EXCEPT !.pc = "read"]
    /\ UNCHANGED <<ui, clicks, app, notlauch, brun, tp, val, chart, results>>
Worker == ReadLine \/ WorkerDies \/ TestBrun \/ ReadTp \/ WriteTp \/ ReadSum \/ WriteSum

(* --------------------------- the chart thread --------------------------- *)
\* MySwingWorker.doInBackground: the array is sized once, the loop asks for
\* the size again; an exception ends the thread
SizeArray ==
    /\ chart.pc = "size"
    /\ chart' = IF val = 0 THEN [chart EXCEPT !.pc = "dead"]
                ELSE [pc |-> "fill", len |-> val - 1, i |-> 0]
    /\ UNCHANGED <<ui, clicks, app, measuring, worker, results>>
FillArray ==
    /\ chart.pc = "fill"
    /\ chart' = IF chart.i >= val - 1 THEN [chart EXCEPT !.pc = "size"]
                ELSE IF chart.i = chart.len THEN [chart EXCEPT !.pc = "dead"]
                ELSE [chart EXCEPT !.i = @ + 1]
    /\ UNCHANGED <<ui, clicks, app, measuring, worker, results>>
CloseChart ==
    /\ chart.pc \in {"size", "fill"} /\ chart' = [chart EXCEPT !.pc = "off"]
    /\ UNCHANGED <<ui, clicks, app, measuring, worker, results>>

(* --------------------------- the event thread --------------------------- *)
Entry(q) == [q |-> q, real |-> None]
Ui(pc)   == ui' = [ui EXCEPT !.pc = pc]

Handlers == {"check", "run", "explain", "estimate", "graph", "timeline"}
Press(h, pc) ==
    /\ ui.pc = "idle" /\ clicks < MaxClicks /\ clicks' = clicks + 1
    /\ \E q \in Query, m \in BOOLEAN :
         ui' = [Idle EXCEPT !.handler = h, !.q = q, !.multi = m, !.pc = pc]
    /\ UNCHANGED <<app, measuring, worker, chart, Qst, measurep>>

\* the buttons, each up to the first call its handler makes
Check_Power == Press("check", "wait") /\ UNCHANGED explain
BRun        == Press("run", "process") /\ UNCHANGED explain
BExplain    == Press("explain", "explain") /\ explain' = TRUE
BPowerEs    == Press("estimate", "explain") /\ UNCHANGED explain
DisplGr     == Press("graph", IF explain THEN "idle" ELSE "explain") /\ UNCHANGED explain
Ptimeline   == Press("timeline", IF app THEN "timeline" ELSE "exited") /\ UNCHANGED explain
Click == Check_Power \/ BRun \/ BExplain \/ BPowerEs \/ DisplGr \/ Ptimeline

\* the driver that Check_Power runs with -c 1 has ended
MeterTested ==
    /\ ui.pc = "wait" /\ Ui("idle")
    /\ \E ok \in BOOLEAN : app' = (app \/ ok)
    /\ UNCHANGED <<clicks, measuring, worker, chart, results>>

\* ExplainQuery: an entry of Qst, for the query or the only query of a file.
\* From the second call on NodesEdges looks up the new plan's nodes in the first
\* plan, and a plan with more nodes than that ends the handler.  An error of
\* the server, or a second query in the file (whose execution closes the
\* result of the first), adds no entry; BPowerEs then goes on to the copying.
\* DisplGr notes that a query was explained only when that went well.
ExplainQuery ==
    /\ ui.pc = "explain"
    /\ \/ /\ Qst' = Append(Qst, Entry(ui.q))
          /\ \/ /\ Ui(IF ui.handler = "estimate" /\ app THEN "process" ELSE "idle")
                /\ explain' = (explain \/ ui.handler = "graph")
             \/ Qst # <<>> /\ Ui("idle") /\ UNCHANGED explain
       \/ /\ UNCHANGED <<Qst, explain>>
          /\ Ui(IF ui.handler = "estimate" /\ app THEN "copy" ELSE "idle")
    /\ UNCHANGED <<clicks, app, measuring, worker, chart, measurep>>
\* Without the meter, for a file of queries (whose test is FenP.app, which
\* stays false in this program) and when the server refuses a setting,
\* ProcessQuery measures nothing
RunUnmeasured ==
    /\ ui.pc = "process"
    /\ Ui(IF ui.handler = "estimate" THEN "copy" ELSE "idle")
    /\ UNCHANGED <<clicks, app, measuring, worker, chart, results>>
\* the worker is started once in the life of the program
Launch ==
    /\ notlauch /\ notlauch' = FALSE /\ w' = [w EXCEPT !.pc = "read"]
    /\ UNCHANGED <<clicks, app, brun, tp, Cqpower, val, chart, results>>
LaunchAndMeasure == ui.pc = "process" /\ app /\ ~ui.multi /\ Launch /\ Ui("brun")
LaunchForChart   == ui.pc = "timeline" /\ Launch /\ Ui("chart")
SkipLaunch ==
    /\ ~notlauch
    /\ \/ ui.pc = "process" /\ app /\ ~ui.multi /\ Ui("brun")
       \/ ui.pc = "timeline" /\ Ui("chart")
    /\ UNCHANGED <<clicks, app, measuring, worker, chart, results>>
\* each press opens another chart window; one of them is modelled
StartChart ==
    /\ ui.pc = "chart" /\ Ui("idle")
    /\ chart' = IF chart.pc = "off" THEN [chart EXCEPT !.pc = "size"] ELSE chart
    /\ UNCHANGED <<clicks, app, measuring, worker, results>>

\* ProcessQuery: brun = true; tp = 0; Cqpower = 0; executeQuery; brun = false
SetBrun ==
    /\ ui.pc = "brun" /\ brun' = TRUE
    /\ ui' = [ui EXCEPT !.pc = "tp", !.since = Done]
    /\ UNCHANGED <<clicks, app, notlauch, tp, Cqpower, worker, chart, results>>
ZeroTp ==
    /\ ui.pc = "tp" /\ tp' = 0 /\ Ui("sum")
    /\ UNCHANGED <<clicks, app, notlauch, brun, Cqpower, worker, chart, results>>
ZeroSum ==
    /\ ui.pc = "sum" /\ Cqpower' = {}
    /\ ui' = [ui EXCEPT !.pc = "execute", !.from = val]
    /\ UNCHANGED <<clicks, app, notlauch, brun, tp, worker, chart, results>>
ExecuteQuery ==
    /\ ui.pc = "execute"
    /\ \/ Ui("clear")
       \/ Ui(IF ui.handler = "estimate" THEN "copy" ELSE "idle")   \* SQLException
    /\ UNCHANGED <<clicks, app, measuring, worker, chart, results>>
ClearBrun ==
    /\ ui.pc = "clear" /\ brun' = FALSE
    /\ ui' = [ui EXCEPT !.pc = "average", !.to = Done, !.last = Taken]
    /\ UNCHANGED <<clicks, app, notlauch, tp, Cqpower, worker, chart, results>>
\* aa.add(Cqpower/(1+tp)); aa.add(Cqpower); measurep.add(aa)
ReadAverage ==
    /\ ui.pc = "average" /\ ui' = [ui EXCEPT !.pc = "divide", !.avg = Cqpower]
    /\ UNCHANGED <<clicks, app, measuring, worker, chart, results>>
Divide ==
    /\ ui.pc = "divide" /\ ui' = [ui EXCEPT !.pc = "energy", !.n = 1 + tp]
    /\ UNCHANGED <<clicks, app, measuring, worker, chart, results>>
\* variant: the sum of the average is read after the count
AddMeasureSumLast ==
    /\ ui.pc = "energy"
    /\ measurep' = Append(measurep, [q |-> ui.q, avg |-> Cqpower, n |-> ui.n, energy |-> Cqpower,
                                     from |-> ui.from, since |-> ui.since, to |-> ui.to,
                                     last |-> ui.last])
    /\ Ui(IF ui.handler = "estimate" THEN "copy" ELSE "idle")
    /\ UNCHANGED <<clicks, app, measuring, worker, chart, Qst, explain>>
AddMeasure ==
    /\ ui.pc = "energy"
    /\ measurep' = Append(measurep, [q |-> ui.q, avg |-> ui.avg, n |-> ui.n, energy |-> Cqpower,
                                     from |-> ui.from, since |-> ui.since, to |-> ui.to,
                                     last |-> ui.last])
    /\ Ui(IF ui.handler = "estimate" THEN "copy" ELSE "idle")
    /\ UNCHANGED <<clicks, app, measuring, worker, chart, Qst, explain>>
\* BPowerEs: measurement i is taken for that of entry i; a measurement too
\* many ends the handler with an exception
CopyRealPower ==
    /\ ui.pc = "copy" /\ Ui("idle")
    /\ Qst' = [i \in DOMAIN Qst |-> IF i <= Len(measurep)
                                    THEN [Qst[i] EXCEPT !.real = measurep[i].q] ELSE Qst[i]]
    /\ UNCHANGED <<clicks, app, measuring, worker, chart, measurep, explain>>

Swing == MeterTested \/ ExplainQuery \/ RunUnmeasured \/ LaunchAndMeasure \/ LaunchForChart
         \/ SkipLaunch \/ StartChart \/ SetBrun \/ ZeroTp \/ ZeroSum \/ ExecuteQuery \/ ClearBrun
         \/ ReadAverage \/ Divide \/ AddMeasure \/ CopyRealPower
\* System.exit ends all threads
Next == ui.pc # "exited" /\ (Click \/ Swing \/ Worker \/ SizeArray \/ FillArray \/ CloseChart)
Spec == Init /\ [][Next]_vars
-----------------------------------------------------------------------------
UiPcs == {"idle", "exited", "wait", "explain", "process", "timeline", "chart", "brun", "tp", "sum",
          "execute", "clear", "average", "divide", "energy", "copy"}
WorkerPcs == {"off", "read", "test", "tp read", "tp write", "sum read", "sum write", "dead"}
Measure == [q : Query, avg : SUBSET Nat, n : Nat, energy : SUBSET Nat,
            from : Nat, since : Int, to : Int, last : Int]

UiType == [pc : UiPcs, handler : Handlers \cup {None},
           q : Query \cup {None}, multi : BOOLEAN, from : Nat, since : Int, to : Int,
           last : Int, avg : SUBSET Nat, n : Nat]
WorkerType == [pc : WorkerPcs, t : Nat, c : SUBSET Nat]
ChartType  == [pc : {"off", "size", "fill", "dead"}, len : Nat, i : Nat]
EntryType  == [q : Query, real : Query \cup {None}]

(* What the threads hold: a handler under way has a query, the number of      *)
(* samples in tp is never negative, an array length of the chart never is.    *)
TypeOK ==
    /\ ui \in UiType /\ (ui.pc \notin {"idle", "exited"} => ui.q \in Query)
    /\ clicks \in Nat /\ app \in BOOLEAN /\ notlauch \in BOOLEAN /\ brun \in BOOLEAN
    /\ tp \in Nat /\ Cqpower \in SUBSET Nat /\ val \in Nat
    /\ w \in WorkerType /\ chart \in ChartType
    /\ Qst \in Seq(EntryType) /\ measurep \in Seq(Measure) /\ explain \in BOOLEAN

(* ProcessQuery against WattsUpWorker.run: a sample that the worker reads    *)
(* after Cqpower was cleared and is through with when brun is cleared is in   *)
(* the average and the energy recorded for the query, and counted in the      *)
(* divisor, in spite of the unsynchronised sums.                              *)
CountedIn(m) == /\ m.from + 1 .. m.to \subseteq m.avg \cap m.energy
                /\ m.n > m.to - m.from
InsideCounted == \A k \in 1 .. Len(measurep) : CountedIn(measurep[k])

(* No sample read after the query ended is charged to it: the last one is    *)
(* the sample the worker was adding as brun was cleared, if any, and else the *)
(* last one it was through with.                                              *)
NothingAfter == \A k \in 1 .. Len(measurep) :
                    \A x \in measurep[k].avg \cup measurep[k].energy : x <= measurep[k].last

(* Cqpower/(1+tp) against tp++ in WattsUpWorker.run: the query's own samples  *)
(* in the average are from, if the worker had it in hand when the sums were   *)
(* cleared, and those after; the divisor, read in another step than the sum,  *)
(* is never less than their number.  (Samples before from, which              *)
(* EnergyIsOfQuery is about, come without being counted.)                     *)
DivisorCovers == \A k \in 1 .. Len(measurep) :
                     \A x \in measurep[k].avg : x < measurep[k].from + measurep[k].n

(* "observe real-time energy consumption for queries": the energy recorded    *)
(* for a query holds no sample dealt with before its handler set brun.        *)
EnergyIsOfQuery == \A k \in 1 .. Len(measurep) :
                       \A x \in measurep[k].energy : x > measurep[k].since

(* "for real energy comparaison": the measured power that BPowerEs sets       *)
(* beside a query's estimate was measured for that query.                     *)
RealPowerIsOwn == \A i \in 1 .. Len(Qst) : Qst[i].real \in {None, Qst[i].q}

(* "real-time visualization of energy consumption": the chart thread is not   *)
(* ended by an exception while the worker goes on reading.                    *)
ChartSurvives == chart.pc # "dead"
=============================================================================
