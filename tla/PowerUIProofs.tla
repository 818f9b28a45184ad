--------------------------- MODULE PowerUIProofs ---------------------------
(* Proofs that the unsynchronised sums of the front end still count every    *)
(* sample taken while a query runs, for any number of samples and clicks.    *)
EXTENDS PowerUI, SequenceTheorems, TLAPS

LEMMA IdleType == Idle \in UiType
BY DEF Idle, UiType, UiPcs, None

\* setting the pc keeps the type
LEMMA UiStep ==
  ASSUME ui \in UiType, NEW pc \in UiPcs, Ui(pc)
  PROVE  /\ ui' \in UiType /\ ui'.pc = pc /\ ui'.q = ui.q /\ ui'.from = ui.from
         /\ ui'.to = ui.to /\ ui'.last = ui.last /\ ui'.avg = ui.avg /\ ui'.n = ui.n
         /\ ui'.since = ui.since
BY DEF Ui, UiType

\* a button starts its handler
LEMMA ClickStep ==
  ASSUME Click
  PROVE  /\ clicks' = clicks + 1 /\ UNCHANGED <<app, measuring, worker, chart, Qst, measurep>>
         /\ \E h \in Handlers, q \in Query, m \in BOOLEAN,
               pc \in {"wait", "process", "explain", "idle", "timeline", "exited"} :
              ui' = [Idle EXCEPT !.handler = h, !.q = q, !.multi = m, !.pc = pc]
<1> DEFINE Firsts == {"wait", "process", "explain", "idle", "timeline", "exited"}
<1>1. PICK h \in Handlers, pc \in Firsts : Press(h, pc)
  BY DEF Click, Check_Power, BRun, BExplain, BPowerEs, DisplGr, Ptimeline, Handlers
<1> QED
  BY <1>1, Zenon DEF Press

LEMMA DoneType == val \in Nat => Done \in Int /\ Done <= val /\ val <= Done + 1
BY DEF Done

LEMMA ListTypes ==
  ASSUME TypeOK
  PROVE  \A q \in Query : Append(Qst, Entry(q)) \in Seq(EntryType)
<1>1. \A q \in Query : Entry(q) \in EntryType
  BY DEF Entry, EntryType
<1>2. Qst \in Seq(EntryType)
  BY DEF TypeOK
<1> QED
  BY <1>1, <1>2, AppendProperties

LEMMA CopyType ==
  ASSUME TypeOK, CopyRealPower
  PROVE  Qst' \in Seq(EntryType)
<1>1. Qst \in Seq(EntryType) /\ measurep \in Seq(Measure)
  BY DEF TypeOK
<1>2. DOMAIN Qst = 1 .. Len(Qst) /\ Len(Qst) \in Nat /\ Len(measurep) \in Nat
  BY <1>1, LenProperties
<1>3. \A i \in 1 .. Len(Qst) : Qst[i] \in EntryType
  BY <1>1, ElementOfSeq
<1>4. \A i \in 1 .. Len(measurep) : measurep[i].q \in Query
  <2>1. \A i \in 1 .. Len(measurep) : measurep[i] \in Measure
    BY <1>1, ElementOfSeq
  <2> QED
    BY <2>1 DEF Measure
<1>5. \A i \in 1 .. Len(Qst) :
        (IF i <= Len(measurep) THEN [Qst[i] EXCEPT !.real = measurep[i].q] ELSE Qst[i]) \in EntryType
  <2> SUFFICES ASSUME NEW i \in 1 .. Len(Qst)
               PROVE  (IF i <= Len(measurep) THEN [Qst[i] EXCEPT !.real = measurep[i].q]
                       ELSE Qst[i]) \in EntryType
    OBVIOUS
  <2>1. Qst[i] \in EntryType
    BY <1>3
  <2>2. CASE i <= Len(measurep)
    <3>1. measurep[i].q \in Query
      BY <1>2, <1>4, <2>2
    <3> DEFINE r == measurep[i].q
    <3>2. r \in Query
      BY <3>1
    <3> HIDE DEF r
    <3>3. [Qst[i] EXCEPT !.real = r] \in EntryType
      BY <2>1, <3>2 DEF EntryType
    <3> QED
      BY <2>2, <3>3 DEF r
  <2> QED
    BY <2>1, <2>2
<1>6. Qst' = [i \in 1 .. Len(Qst) |->
               IF i <= Len(measurep) THEN [Qst[i] EXCEPT !.real = measurep[i].q] ELSE Qst[i]]
  BY <1>2 DEF CopyRealPower
<1>7. Qst' \in [1 .. Len(Qst) -> EntryType]
  BY <1>5, <1>6
<1> QED
  BY <1>2, <1>7, SeqDef

\* the parts of TypeOK that no thread's pc enters
Rest == /\ clicks \in Nat /\ app \in BOOLEAN /\ notlauch \in BOOLEAN /\ brun \in BOOLEAN
        /\ tp \in Nat /\ Cqpower \in SUBSET Nat /\ val \in Nat
        /\ w \in WorkerType /\ chart \in ChartType
        /\ Qst \in Seq(EntryType) /\ measurep \in Seq(Measure)

LEMMA TypeParts == TypeOK <=> /\ ui \in UiType
                              /\ (ui.pc \notin {"idle", "exited"} => ui.q \in Query)
                              /\ explain \in BOOLEAN /\ Rest
BY DEF TypeOK, Rest

\* only the handlers of BExplain and DisplGr write explain, and only truth values
LEMMA ExplainType == explain \in BOOLEAN /\ (Click \/ Swing) => explain' \in BOOLEAN
<1> SUFFICES ASSUME explain \in BOOLEAN, Click \/ Swing PROVE explain' \in BOOLEAN
  OBVIOUS
<1>1. CASE Click
  BY <1>1, Zenon DEF Click, Check_Power, BRun, BExplain, BPowerEs, DisplGr, Ptimeline
<1>2. CASE ExplainQuery
  BY <1>2, Zenon DEF ExplainQuery
<1>3. CASE ~ExplainQuery /\ Swing
  <2>1. explain' = explain
    BY <1>3 DEF Swing, MeterTested, RunUnmeasured, LaunchAndMeasure, LaunchForChart, Launch,
                SkipLaunch, StartChart, SetBrun, ZeroTp, ZeroSum, ExecuteQuery, ClearBrun,
                ReadAverage, Divide, AddMeasure, CopyRealPower, results
  <2> QED
    BY <2>1
<1> QED
  BY <1>1, <1>2, <1>3

\* the worker and the chart thread keep the types
LEMMA ThreadType == TypeOK /\ (Worker \/ SizeArray \/ FillArray \/ CloseChart) => TypeOK'
<1> SUFFICES ASSUME TypeOK, Worker \/ SizeArray \/ FillArray \/ CloseChart PROVE TypeOK'
  OBVIOUS
<1> USE DEF TypeOK, measuring, results, worker
<1>1. CASE ReadLine
  <2>1. w' \in WorkerType
    BY <1>1 DEF ReadLine, WorkerType, WorkerPcs
  <2>2. val' \in Nat
    BY <1>1 DEF ReadLine
  <2> QED
    BY <1>1, <2>1, <2>2 DEF ReadLine
<1>2. CASE WorkerDies
  <2>1. w' \in WorkerType
    BY <1>2 DEF WorkerDies, WorkerType, WorkerPcs
  <2> QED
    BY <1>2, <2>1 DEF WorkerDies
<1>3. CASE TestBrun
  <2>1. w' \in WorkerType
    BY <1>3 DEF TestBrun, WorkerType, WorkerPcs
  <2> QED
    BY <1>3, <2>1 DEF TestBrun
<1>4. CASE ReadTp
  <2>1. w' \in WorkerType
    BY <1>4 DEF ReadTp, WorkerType, WorkerPcs
  <2> QED
    BY <1>4, <2>1 DEF ReadTp
<1>5. CASE WriteTp
  <2>1. w' \in WorkerType
    BY <1>5 DEF WriteTp, WorkerType, WorkerPcs
  <2>2. tp' \in Nat
    <3>1. w.t \in Nat
      BY DEF WorkerType
    <3>2. tp' = w.t + 1
      BY <1>5 DEF WriteTp
    <3> QED
      BY ONLY <3>1, <3>2
  <2> QED
    BY <1>5, <2>1, <2>2 DEF WriteTp
<1>6. CASE ReadSum
  <2>1. w' \in WorkerType
    BY <1>6 DEF ReadSum, WorkerType, WorkerPcs
  <2> QED
    BY <1>6, <2>1 DEF ReadSum
<1>7. CASE WriteSum
  <2>1. w' \in WorkerType
    BY <1>7 DEF WriteSum, WorkerType, WorkerPcs
  <2>2. Cqpower' \in SUBSET Nat
    <3>1. w.c \in SUBSET Nat
      BY DEF WorkerType
    <3> QED
      BY <1>7, <3>1 DEF WriteSum
  <2> QED
    BY <1>7, <2>1, <2>2 DEF WriteSum
<1>8. CASE SizeArray
  BY <1>8 DEF SizeArray, ChartType
<1>9. CASE FillArray
  BY <1>9 DEF FillArray, ChartType
<1>10. CASE CloseChart
  BY <1>10 DEF CloseChart, ChartType
<1> QED
  BY <1>1, <1>2, <1>3, <1>4, <1>5, <1>6, <1>7, <1>8, <1>9, <1>10 DEF Worker

\* so does the event thread, handler by handler
LEMMA SwingType == TypeOK /\ (Click \/ Swing) => TypeOK'
<1> SUFFICES ASSUME TypeOK, Click \/ Swing PROVE TypeOK'
  OBVIOUS
<1>a. ui \in UiType /\ (ui.pc \notin {"idle", "exited"} => ui.q \in Query) /\ Rest
  BY TypeParts
<1>e. explain' \in BOOLEAN
  BY ExplainType, TypeParts
<1>b. SUFFICES /\ ui' \in UiType
               /\ (ui.pc' \notin {"idle", "exited"} => ui.q' \in Query)
               /\ Rest'
  BY <1>e DEF TypeOK, Rest
<1> USE DEF measuring, results, worker
<1>c. \A pc \in UiPcs : Ui(pc) => ui' \in UiType /\ ui'.pc = pc /\ ui'.q = ui.q
  BY <1>a DEF Ui, UiType
<1>d. ASSUME NEW pc \in UiPcs, Ui(pc), ui.pc \notin {"idle", "exited"}
      PROVE  ui' \in UiType /\ ui'.q \in Query
  BY <1>a, <1>c, <1>d
<1>1. CASE Click
  <2>1. PICK h \in Handlers, q \in Query, m \in BOOLEAN,
             pc \in {"wait", "process", "explain", "idle", "timeline", "exited"} :
          ui' = [Idle EXCEPT !.handler = h, !.q = q, !.multi = m, !.pc = pc]
    BY <1>1, ClickStep
  <2>2. pc \in UiPcs
    BY DEF UiPcs
  <2>3. ui' \in UiType /\ ui'.q \in Query
    BY <2>1, <2>2, IdleType DEF UiType
  <2>4. clicks' \in Nat
    <3>1. clicks \in Nat
      BY <1>a DEF Rest
    <3>2. clicks' = clicks + 1
      BY <1>1, ClickStep
    <3> QED
      BY ONLY <3>1, <3>2
  <2> QED
    BY <1>1, <1>a, <2>3, <2>4, ClickStep DEF Rest
<1>2. CASE MeterTested
  <2>1. ui' \in UiType /\ ui'.q \in Query
    BY <1>2, <1>a, <1>d DEF MeterTested, UiPcs
  <2> QED
    BY <1>2, <1>a, <2>1 DEF MeterTested, Rest
<1>3. CASE ExplainQuery
  <2>1. ui' \in UiType /\ ui'.q \in Query
    BY <1>3, <1>a, <1>d DEF ExplainQuery, UiPcs
  <2>2. Qst' \in Seq(EntryType)
    <3>1. Qst \in Seq(EntryType) /\ ui.q \in Query
      BY <1>3, <1>a DEF ExplainQuery, Rest
    <3> QED
      BY <1>3, <3>1, ListTypes DEF ExplainQuery
  <2> QED
    BY <1>3, <1>a, <2>1, <2>2 DEF ExplainQuery, Rest
<1>4. CASE RunUnmeasured
  <2>1. ui' \in UiType /\ ui'.q \in Query
    BY <1>4, <1>a, <1>d DEF RunUnmeasured, UiPcs
  <2> QED
    BY <1>4, <1>a, <2>1 DEF RunUnmeasured, Rest
<1>5. CASE LaunchAndMeasure
  <2>1. ui' \in UiType /\ ui'.q \in Query
    BY <1>5, <1>a, <1>d DEF LaunchAndMeasure, UiPcs, Launch
  <2>2. w' \in WorkerType
    BY <1>5, <1>a DEF LaunchAndMeasure, Launch, Rest, WorkerType, WorkerPcs
  <2> QED
    BY <1>5, <1>a, <2>1, <2>2 DEF LaunchAndMeasure, Rest, Launch
<1>6. CASE LaunchForChart
  <2>1. ui' \in UiType /\ ui'.q \in Query
    BY <1>6, <1>a, <1>d DEF LaunchForChart, UiPcs, Launch
  <2>2. w' \in WorkerType
    BY <1>6, <1>a DEF LaunchForChart, Launch, Rest, WorkerType, WorkerPcs
  <2> QED
    BY <1>6, <1>a, <2>1, <2>2 DEF LaunchForChart, Rest, Launch
<1>7. CASE SkipLaunch
  <2>1. ui' \in UiType /\ ui'.q \in Query
    BY <1>7, <1>a, <1>d DEF SkipLaunch, UiPcs
  <2> QED
    BY <1>7, <1>a, <2>1 DEF SkipLaunch, Rest
<1>8. CASE StartChart
  <2>1. ui' \in UiType /\ ui'.q \in Query
    BY <1>8, <1>a, <1>d DEF StartChart, UiPcs
  <2>2. chart' \in ChartType
    BY <1>8, <1>a DEF StartChart, Rest, ChartType
  <2> QED
    BY <1>8, <1>a, <2>1, <2>2 DEF StartChart, Rest
<1>9. CASE SetBrun
  <2>0. Done \in Int /\ val \in Nat
    BY <1>a, DoneType DEF Rest
  <2>1. ui' \in UiType /\ ui'.q \in Query
    BY <1>9, <1>a, <2>0 DEF SetBrun, UiType, UiPcs
  <2> QED
    BY <1>9, <1>a, <2>1 DEF SetBrun, Rest
<1>10. CASE ZeroTp
  <2>1. ui' \in UiType /\ ui'.q \in Query
    BY <1>10, <1>a, <1>d DEF ZeroTp, UiPcs
  <2> QED
    BY <1>10, <1>a, <2>1 DEF ZeroTp, Rest
<1>11. CASE ZeroSum
  <2>0. Done \in Int /\ val \in Nat
    BY <1>a, DoneType DEF Rest
  <2>1. ui' \in UiType /\ ui'.q \in Query
    BY <1>11, <1>a, <2>0 DEF ZeroSum, UiType, UiPcs
  <2> QED
    BY <1>11, <1>a, <2>1 DEF ZeroSum, Rest
<1>12. CASE ExecuteQuery
  <2>1. ui' \in UiType /\ ui'.q \in Query
    BY <1>12, <1>a, <1>d DEF ExecuteQuery, UiPcs
  <2> QED
    BY <1>12, <1>a, <2>1 DEF ExecuteQuery, Rest
<1>13. CASE ClearBrun
  <2>0. Done \in Int /\ val \in Nat /\ Taken \in Int
    BY <1>a, DoneType DEF Rest, Taken
  <2>1. ui' \in UiType /\ ui'.q \in Query
    BY <1>13, <1>a, <2>0 DEF ClearBrun, UiType, UiPcs
  <2> QED
    BY <1>13, <1>a, <2>1 DEF ClearBrun, Rest
<1>14. CASE ReadAverage
  <2>0. Cqpower \in SUBSET Nat
    BY <1>a DEF Rest
  <2>1. ui' \in UiType /\ ui'.q \in Query
    BY <1>14, <1>a, <2>0 DEF ReadAverage, UiType, UiPcs
  <2> QED
    BY <1>14, <1>a, <2>1 DEF ReadAverage, Rest
<1>15. CASE Divide
  <2>0. 1 + tp \in Nat
    BY <1>a DEF Rest
  <2>1. ui' \in UiType /\ ui'.q \in Query
    BY <1>15, <1>a, <2>0 DEF Divide, UiType, UiPcs
  <2> QED
    BY <1>15, <1>a, <2>1 DEF Divide, Rest
<1>16. CASE AddMeasure
  <2>1. ui' \in UiType /\ ui'.q \in Query
    BY <1>16, <1>a, <1>d DEF AddMeasure, UiPcs
  <2>2. measurep' \in Seq(Measure)
    <3> DEFINE m == [q |-> ui.q, avg |-> ui.avg, n |-> ui.n, energy |-> Cqpower,
                     from |-> ui.from, since |-> ui.since, to |-> ui.to, last |-> ui.last]
    <3>1. m \in Measure
      BY <1>16, <1>a DEF AddMeasure, Rest, UiType, Measure
    <3>2. measurep' = Append(measurep, m) /\ measurep \in Seq(Measure)
      BY <1>16, <1>a DEF AddMeasure, Rest
    <3> HIDE DEF m
    <3> QED
      BY <3>1, <3>2, AppendProperties
  <2> QED
    BY <1>16, <1>a, <2>1, <2>2 DEF AddMeasure, Rest
<1>17. CASE CopyRealPower
  <2>1. ui' \in UiType /\ ui'.q \in Query
    BY <1>17, <1>a, <1>d DEF CopyRealPower, UiPcs
  <2>2. Qst' \in Seq(EntryType)
    BY <1>17, CopyType
  <2> QED
    BY <1>17, <1>a, <2>1, <2>2 DEF CopyRealPower, Rest
<1> QED
  BY <1>1, <1>2, <1>3, <1>4, <1>5, <1>6, <1>7, <1>8, <1>9, <1>10, <1>11, <1>12, <1>13, <1>14, <1>15, <1>16, <1>17 DEF Swing

LEMMA InitType == Init => TypeOK
<1>1. <<>> \in Seq(EntryType) /\ <<>> \in Seq(Measure)
  BY EmptySeq
<1>2. Idle.pc = "idle"
  BY DEF Idle
<1>3. /\ [pc |-> "off", t |-> 0, c |-> {}] \in WorkerType
      /\ [pc |-> "off", len |-> 0, i |-> 0] \in ChartType
  BY DEF WorkerType, WorkerPcs, ChartType
<1>4. Init => Rest /\ explain \in BOOLEAN
  <2> SUFFICES ASSUME Init PROVE Rest /\ explain \in BOOLEAN
    OBVIOUS
  <2>1. w \in WorkerType /\ chart \in ChartType
    BY <1>3 DEF Init
  <2>2. Qst \in Seq(EntryType) /\ measurep \in Seq(Measure)
    BY <1>1 DEF Init
  <2>3. clicks \in Nat /\ tp \in Nat /\ val \in Nat /\ Cqpower \in SUBSET Nat
    BY DEF Init
  <2>4. app \in BOOLEAN /\ explain \in BOOLEAN /\ notlauch \in BOOLEAN /\ brun \in BOOLEAN
    BY Zenon DEF Init
  <2> QED
    BY <2>1, <2>2, <2>3, <2>4 DEF Rest
<1> QED
  BY <1>2, <1>4, IdleType, TypeParts DEF Init

\* ProcessQuery, BPowerEs, WattsUpWorker.run and the chart keep their types
THEOREM TypeCorrect == Spec => []TypeOK
<1>1. TypeOK /\ [Next]_vars => TypeOK'
  <2> SUFFICES ASSUME TypeOK, [Next]_vars PROVE TypeOK'
    OBVIOUS
  <2>1. CASE UNCHANGED vars
    BY <2>1 DEF TypeOK, vars, measuring, worker, results
  <2> QED
    BY <2>1, ThreadType, SwingType DEF Next
<1> QED
  BY InitType, <1>1, PTL DEF Spec
-----------------------------------------------------------------------------
(* The inductive invariant: what the sums and the worker's copies of them     *)
(* hold at each point of ProcessQuery.                                        *)
Adding == {"tp read", "tp write", "sum read", "sum write"}

\* no sum holds a sample that was not taken
SumsRead == Cqpower \subseteq 0 .. Taken /\ w.c \subseteq 0 .. Taken

\* from brun = true to brun = false the worker adds every sample
Open == ui.pc \in {"tp", "sum", "execute", "clear"} => brun

\* while the query runs, all samples since from are in the sums, or about to be
WindowSum == ui.pc \in {"execute", "clear"} =>
    /\ ui.from <= val
    /\ ui.from + 1 .. Done \subseteq Cqpower
    /\ w.pc = "sum write" => ui.from + 1 .. Done \subseteq w.c
WindowTp == ui.pc \in {"execute", "clear"} =>
    /\ tp >= Done - ui.from
    /\ w.pc = "tp write" => w.t >= Done - ui.from
    /\ w.pc \in {"sum read", "sum write"} => tp >= val - ui.from

\* while the result is put together, the worker can only finish one sample
RecordSum == ui.pc \in {"average", "divide", "energy"} =>
    /\ ui.from + 1 .. ui.to \subseteq Cqpower
    /\ w.pc = "sum write" => ui.from + 1 .. ui.to \subseteq w.c
    /\ ui.pc # "average" => ui.from + 1 .. ui.to \subseteq ui.avg
RecordTp == ui.pc \in {"average", "divide", "energy"} =>
    /\ tp >= ui.to - ui.from
    /\ w.pc = "tp write" => w.t >= ui.to - ui.from
    /\ ui.pc = "energy" => ui.n > ui.to - ui.from
RecordEnd == ui.pc \in {"average", "divide", "energy"} =>
    /\ ~brun /\ ui.last <= ui.to + 1
    /\ w.pc \in Adding => val <= ui.last
    /\ \A x \in Cqpower : x <= ui.last
    /\ w.pc = "sum write" => \A x \in w.c : x <= ui.last
    /\ ui.pc # "average" => \A x \in ui.avg : x <= ui.last

\* once it is cleared tp only grows, and no sample gets into the sum before it
\* is counted
TpGrows == ui.pc \in {"sum", "execute", "clear", "average", "divide"} =>
    (w.pc = "tp write" => w.t >= tp)
SumCounted == ui.pc \in {"execute", "clear", "average", "divide"} =>
    /\ \A x \in Cqpower : x <= ui.from + tp
    /\ w.pc = "sum write" => \A x \in w.c : x <= ui.from + tp
    /\ w.pc \in {"sum read", "sum write"} => val <= ui.from + tp
    /\ ui.pc = "divide" => \A x \in ui.avg : x <= ui.from + tp
Divided == ui.pc = "energy" => \A x \in ui.avg : x < ui.from + ui.n
IInv == /\ TypeOK /\ SumsRead /\ Open /\ WindowSum /\ WindowTp
        /\ RecordSum /\ RecordTp /\ RecordEnd /\ TpGrows /\ SumCounted /\ Divided
        /\ InsideCounted /\ NothingAfter /\ DivisorCovers

LEMMA TakenBounds == val \in Nat => Taken <= Done + 1 /\ (w.pc \in Adding => val <= Taken)
<1> SUFFICES ASSUME val \in Nat PROVE Taken <= Done + 1 /\ (w.pc \in Adding => val <= Taken)
  OBVIOUS
<1>1. val <= val + 1 /\ val <= (val - 1) + 1 /\ val - 1 <= (val - 1) + 1 /\ val <= val
  OBVIOUS
<1>2. CASE w.pc = "test"
  <2>1. Taken = val - 1 /\ Done = val - 1 /\ w.pc \notin Adding
    BY <1>2 DEF Taken, Done, Adding
  <2> QED
    BY ONLY <1>1, <2>1
<1>3. CASE w.pc # "test"
  <2>1. Taken = val /\ Done \in {val, val - 1}
    BY <1>3 DEF Taken, Done
  <2> QED
    BY ONLY <1>1, <2>1
<1> QED
  BY <1>2, <1>3

\* the pcs at which a measurement is under way
Busy == {"tp", "sum", "execute", "clear", "average", "divide", "energy"}

LEMMA FieldTypes ==
  TypeOK => /\ ui.from \in Nat /\ ui.to \in Int /\ ui.avg \in SUBSET Nat /\ ui.n \in Nat
            /\ w.t \in Nat /\ w.c \in SUBSET Nat /\ w.pc \in WorkerPcs
            /\ tp \in Nat /\ val \in Nat /\ Cqpower \in SUBSET Nat /\ Done \in Int
            /\ ui.last \in Int /\ Taken \in Int
BY DoneType DEF TypeOK, UiType, WorkerType, Taken

\* a step after which no measurement is under way and that adds no result
LEMMA QuietStep ==
  ASSUME IInv, TypeOK', ui'.pc \notin Busy, w'.c = w.c, w'.pc = "test" => w.pc = "test",
         UNCHANGED <<val, Cqpower, measurep>>
  PROVE  IInv'
<1>1. SumsRead'
  <2>1. val \in Nat /\ Taken \in Int /\ Taken' \in Int /\ Taken <= Taken'
    <3>1. val \in Nat /\ val' = val
      BY DEF IInv, TypeOK
    <3> QED
      BY <3>1 DEF Taken
  <2>2. 0 .. Taken \subseteq 0 .. Taken'
    BY ONLY <2>1
  <2> QED
    BY <2>2 DEF IInv, SumsRead
<1>2. InsideCounted' /\ NothingAfter' /\ DivisorCovers'
  BY DEF IInv, InsideCounted, NothingAfter, DivisorCovers, CountedIn
<1>3. Open' /\ WindowSum' /\ WindowTp' /\ RecordSum' /\ RecordTp' /\ RecordEnd'
  BY DEF Busy, Open, WindowSum, WindowTp, RecordSum, RecordTp, RecordEnd
<1>4. TpGrows' /\ SumCounted' /\ Divided'
  BY DEF Busy, TpGrows, SumCounted, Divided
<1> QED
  BY <1>1, <1>2, <1>3, <1>4 DEF IInv

\* a step that leaves the measurement alone
LEMMA OtherStep ==
  ASSUME IInv, TypeOK', UNCHANGED <<ui, brun, tp, Cqpower, val, w, measurep>>
  PROVE  IInv'
<1>1. SumsRead' /\ Open' /\ WindowSum' /\ WindowTp' /\ RecordSum' /\ RecordTp' /\ RecordEnd'
  BY DEF IInv, SumsRead, Open, WindowSum, WindowTp, RecordSum, RecordTp, RecordEnd, Adding, Done, Taken
<1>2. TpGrows' /\ SumCounted' /\ Divided'
  BY DEF IInv, TpGrows, SumCounted, Divided
<1>3. InsideCounted' /\ NothingAfter' /\ DivisorCovers'
  BY DEF IInv, InsideCounted, NothingAfter, DivisorCovers, CountedIn
<1> QED
  BY <1>1, <1>2, <1>3 DEF IInv

\* what each step of the worker does to its own record
LEMMA WorkerStep ==
  ASSUME TypeOK, Worker
  PROVE  /\ UNCHANGED <<ui, brun, measurep>>
         /\ ReadLine  => w.pc = "read" /\ w'.pc = "test" /\ w'.t = w.t /\ w'.c = w.c
                         /\ val' = val + 1 /\ UNCHANGED <<tp, Cqpower>>
         /\ WorkerDies => w.pc = "read" /\ w'.pc = "dead" /\ w'.t = w.t /\ w'.c = w.c
                         /\ UNCHANGED <<val, tp, Cqpower>>
         /\ TestBrun  => w.pc = "test" /\ w'.pc = (IF brun THEN "tp read" ELSE "read")
                         /\ w'.t = w.t /\ w'.c = w.c /\ UNCHANGED <<val, tp, Cqpower>>
         /\ ReadTp    => w.pc = "tp read" /\ w'.pc = "tp write" /\ w'.t = tp /\ w'.c = w.c
                         /\ UNCHANGED <<val, tp, Cqpower>>
         /\ WriteTp   => w.pc = "tp write" /\ w'.pc = "sum read" /\ w'.t = w.t /\ w'.c = w.c
                         /\ tp' = w.t + 1 /\ UNCHANGED <<val, Cqpower>>
         /\ ReadSum   => w.pc = "sum read" /\ w'.pc = "sum write" /\ w'.t = w.t /\ w'.c = Cqpower
                         /\ UNCHANGED <<val, tp, Cqpower>>
         /\ WriteSum  => w.pc = "sum write" /\ w'.pc = "read" /\ w'.t = w.t /\ w'.c = w.c
                         /\ Cqpower' = w.c \cup {val} /\ UNCHANGED <<val, tp>>
<1>0. w \in WorkerType
  BY DEF TypeOK
<1> USE DEF measuring, results, WorkerType
<1>1. UNCHANGED <<ui, brun, measurep>>
  BY DEF Worker, ReadLine, WorkerDies, TestBrun, ReadTp, WriteTp, ReadSum, WriteSum
<1> QED
  BY <1>0, <1>1 DEF ReadLine, WorkerDies, TestBrun, ReadTp, WriteTp, ReadSum, WriteSum

\* the worker keeps the invariant
\* the worker counts a sample before it adds it
LEMMA WorkerCounts == IInv /\ Worker => TpGrows' /\ SumCounted' /\ Divided'
<1> SUFFICES ASSUME IInv, Worker PROVE TpGrows' /\ SumCounted' /\ Divided'
  OBVIOUS
<1>a. TypeOK
  BY DEF IInv
<1>b. ui' = ui
  BY <1>a, WorkerStep
<1>t. /\ ui.from \in Nat /\ ui.to \in Int /\ ui.last \in Int /\ w.t \in Nat /\ tp \in Nat
      /\ val \in Nat /\ w.c \in SUBSET Nat /\ Cqpower \in SUBSET Nat /\ ui.avg \in SUBSET Nat
  BY <1>a, FieldTypes
<1>i. TpGrows /\ SumCounted /\ Divided
  BY DEF IInv
<1>c. Divided'
  BY <1>b, <1>i DEF Divided
<1>1. CASE ReadLine \/ WorkerDies \/ TestBrun
  <2>1. /\ w'.pc \notin {"tp write", "sum read", "sum write"}
        /\ tp' = tp /\ Cqpower' = Cqpower
    BY <1>1, <1>a, WorkerStep
  <2> QED
    BY <1>b, <1>c, <1>i, <2>1 DEF TpGrows, SumCounted
<1>2. CASE ReadTp
  <2>1. w'.pc = "tp write" /\ w'.t = tp /\ tp' = tp /\ Cqpower' = Cqpower
    BY <1>2, <1>a, WorkerStep
  <2>2. TpGrows'
    <3>1. tp >= tp
      BY ONLY <1>t
    <3>2. w'.t >= tp'
      BY ONLY <2>1, <3>1
    <3> QED
      BY <3>2 DEF TpGrows
  <2>3. SumCounted'
    BY <1>b, <1>i, <2>1 DEF SumCounted
  <2> QED
    BY <1>c, <2>2, <2>3
<1>3. CASE WriteTp
  <2>1. /\ w.pc = "tp write" /\ w'.pc = "sum read" /\ tp' = w.t + 1 /\ val' = val
        /\ Cqpower' = Cqpower
    BY <1>3, <1>a, WorkerStep
  <2>2. TpGrows'
    BY <2>1 DEF TpGrows
  <2>3. SumCounted'
    <3> SUFFICES ASSUME ui.pc \in {"execute", "clear", "average", "divide"}
                 PROVE  /\ \A x \in Cqpower : x <= ui.from + tp'
                        /\ val <= ui.from + tp'
                        /\ ui.pc = "divide" => \A x \in ui.avg : x <= ui.from + tp'
      BY <1>b, <2>1 DEF SumCounted
    <3> DEFINE t == w.t
               f == ui.from
    <3>1. t \in Nat /\ f \in Nat /\ tp \in Nat /\ t >= tp /\ tp' = t + 1
      BY <1>i, <1>t, <2>1 DEF TpGrows
    <3>2. val \in Nat /\ val <= f + (t + 1)
      <4>1. CASE ui.pc \in {"execute", "clear"}
        <5>1. w.t >= Done - ui.from /\ Done = val - 1
          BY <2>1, <4>1 DEF IInv, WindowTp, Done
        <5>2. t >= (val - 1) - f
          BY <5>1
        <5> HIDE DEF t, f
        <5> QED
          BY ONLY <1>t, <3>1, <5>2
      <4>2. CASE ui.pc \in {"average", "divide"}
        <5> DEFINE o == ui.to
                   l == ui.last
        <5>1. val <= l /\ l <= o + 1 /\ t >= o - f
          BY <2>1, <4>2 DEF IInv, RecordTp, RecordEnd, Adding
        <5>2. o \in Int /\ l \in Int /\ val \in Nat
          BY <1>t
        <5> HIDE DEF t, f, o, l
        <5> QED
          BY ONLY <3>1, <5>1, <5>2
      <4> QED
        BY <4>1, <4>2
    <3>3. /\ \A x \in Cqpower : x \in Nat /\ x <= f + tp
          /\ ui.pc = "divide" => \A x \in ui.avg : x \in Nat /\ x <= f + tp
      BY <1>i, <1>t DEF SumCounted
    <3> HIDE DEF t, f
    <3>4. \A x \in Nat : x <= f + tp => x <= f + tp'
      BY ONLY <3>1
    <3>5. val <= f + tp'
      BY ONLY <3>1, <3>2
    <3> QED
      BY <3>3, <3>4, <3>5 DEF f
  <2> QED
    BY <1>c, <2>2, <2>3
<1>4. CASE ReadSum
  <2>1. /\ w.pc = "sum read" /\ w'.pc = "sum write" /\ w'.c = Cqpower
        /\ tp' = tp /\ val' = val /\ Cqpower' = Cqpower
    BY <1>4, <1>a, WorkerStep
  <2> QED
    BY <1>b, <1>c, <1>i, <2>1 DEF TpGrows, SumCounted
<1>5. CASE WriteSum
  <2>1. /\ w.pc = "sum write" /\ w'.pc = "read" /\ Cqpower' = w.c \cup {val}
        /\ tp' = tp /\ val' = val
    BY <1>5, <1>a, WorkerStep
  <2> QED
    BY <1>b, <1>c, <1>i, <2>1 DEF TpGrows, SumCounted
<1> QED
  BY <1>1, <1>2, <1>3, <1>4, <1>5 DEF Worker

LEMMA WorkerInv == IInv /\ Worker => IInv'
<1> SUFFICES ASSUME IInv, Worker PROVE IInv'
  OBVIOUS
<1>a. TypeOK /\ TypeOK'
  BY ThreadType DEF IInv
<1>b. /\ ui' = ui /\ brun' = brun /\ measurep' = measurep
  BY <1>a, WorkerStep
<1>c. InsideCounted' /\ NothingAfter' /\ DivisorCovers' /\ Open'
  BY <1>b DEF IInv, InsideCounted, NothingAfter, DivisorCovers, CountedIn, Open
<1>g. TpGrows' /\ SumCounted' /\ Divided'
  BY WorkerCounts
<1>t. /\ ui.from \in Nat /\ ui.to \in Int /\ ui.last \in Int /\ w.t \in Nat /\ tp \in Nat /\ val \in Nat
      /\ w.c \in SUBSET Nat /\ Cqpower \in SUBSET Nat
  BY <1>a, FieldTypes
<1>i. SumsRead /\ Open /\ WindowSum /\ WindowTp /\ RecordSum /\ RecordTp /\ RecordEnd
  BY DEF IInv
<1>1. CASE ReadLine
  <2>0. /\ w.pc = "read" /\ w'.pc = "test" /\ w'.t = w.t /\ w'.c = w.c
        /\ val' = val + 1 /\ tp' = tp /\ Cqpower' = Cqpower
    BY <1>1, <1>a, WorkerStep
  <2>d. Done = val /\ Done' = val /\ Taken = val /\ Taken' = val
    BY <1>t, <2>0 DEF Done, Taken
  <2> USE <1>b, <1>t, <1>i, <2>0, <2>d
  <2>1. SumsRead'
    BY DEF SumsRead
  <2>2. WindowSum'
    BY DEF WindowSum, Open
  <2>3. WindowTp'
    BY DEF WindowTp, Open
  <2>4. RecordSum'
    BY DEF RecordSum
  <2>5. RecordTp'
    BY DEF RecordTp
  <2>6. RecordEnd'
    BY DEF RecordEnd, Adding
  <2> QED
    BY <1>a, <1>c, <1>g, <2>1, <2>2, <2>3, <2>4, <2>5, <2>6 DEF IInv
<1>2. CASE WorkerDies
  <2>0. /\ w.pc = "read" /\ w'.pc = "dead" /\ w'.t = w.t /\ w'.c = w.c
        /\ val' = val /\ tp' = tp /\ Cqpower' = Cqpower
    BY <1>2, <1>a, WorkerStep
  <2>d. Done = val /\ Done' = val /\ Taken = val /\ Taken' = val
    BY <2>0 DEF Done, Taken
  <2> USE <1>b, <1>t, <1>i, <2>0, <2>d
  <2>1. SumsRead'
    BY DEF SumsRead
  <2>2. WindowSum'
    BY DEF WindowSum, Open
  <2>3. WindowTp'
    BY DEF WindowTp, Open
  <2>4. RecordSum'
    BY DEF RecordSum
  <2>5. RecordTp'
    BY DEF RecordTp
  <2>6. RecordEnd'
    BY DEF RecordEnd, Adding
  <2> QED
    BY <1>a, <1>c, <1>g, <2>1, <2>2, <2>3, <2>4, <2>5, <2>6 DEF IInv
<1>3. CASE TestBrun
  <2>0. /\ w.pc = "test" /\ w'.pc = (IF brun THEN "tp read" ELSE "read") /\ w'.t = w.t
        /\ w'.c = w.c /\ val' = val /\ tp' = tp /\ Cqpower' = Cqpower
    BY <1>3, <1>a, WorkerStep
  <2>d. /\ Done = val - 1 /\ Done' = (IF brun THEN val - 1 ELSE val)
        /\ Taken = val - 1 /\ Taken' = val
    BY <2>0 DEF Done, Taken
  <2> USE <1>b, <1>t, <1>i, <2>0, <2>d
  <2>1. SumsRead'
    <3>1. 0 .. val - 1 \subseteq 0 .. val
      BY ONLY <1>t
    <3> QED
      BY <3>1 DEF SumsRead
  <2>2. WindowSum'
    BY DEF WindowSum, Open
  <2>3. WindowTp'
    BY DEF WindowTp, Open
  <2>4. RecordSum'
    BY DEF RecordSum
  <2>5. RecordTp'
    BY DEF RecordTp
  <2>6. RecordEnd'
    BY DEF RecordEnd, Adding
  <2> QED
    BY <1>a, <1>c, <1>g, <2>1, <2>2, <2>3, <2>4, <2>5, <2>6 DEF IInv
<1>4. CASE ReadTp
  <2>0. /\ w.pc = "tp read" /\ w'.pc = "tp write" /\ w'.t = tp /\ w'.c = w.c
        /\ val' = val /\ tp' = tp /\ Cqpower' = Cqpower
    BY <1>4, <1>a, WorkerStep
  <2>d. Done = val - 1 /\ Done' = val - 1 /\ Taken = val /\ Taken' = val
    BY <2>0 DEF Done, Taken
  <2> USE <1>b, <1>t, <1>i, <2>0, <2>d
  <2>1. SumsRead'
    BY DEF SumsRead
  <2>2. WindowSum'
    BY DEF WindowSum, Open
  <2>3. WindowTp'
    BY DEF WindowTp, Open
  <2>4. RecordSum'
    BY DEF RecordSum
  <2>5. RecordTp'
    BY DEF RecordTp
  <2>6. RecordEnd'
    BY DEF RecordEnd, Adding
  <2> QED
    BY <1>a, <1>c, <1>g, <2>1, <2>2, <2>3, <2>4, <2>5, <2>6 DEF IInv
<1>5. CASE WriteTp
  <2>0. /\ w.pc = "tp write" /\ w'.pc = "sum read" /\ w'.t = w.t /\ w'.c = w.c
        /\ val' = val /\ tp' = w.t + 1 /\ Cqpower' = Cqpower
    BY <1>5, <1>a, WorkerStep
  <2>d. Done = val - 1 /\ Done' = val - 1 /\ Taken = val /\ Taken' = val
    BY <2>0 DEF Done, Taken
  <2> USE <1>b, <1>t, <1>i, <2>0, <2>d
  <2>1. SumsRead'
    BY DEF SumsRead
  <2>2. WindowSum'
    BY DEF WindowSum, Open
  <2>3. WindowTp'
    <3> SUFFICES ASSUME ui.pc \in {"execute", "clear"}
                 PROVE  tp' >= Done' - ui.from /\ tp' >= val' - ui.from
      BY DEF WindowTp
    <3>1. w.t >= Done - ui.from
      BY DEF WindowTp
    <3> DEFINE t == w.t
              f == ui.from
    <3>2. t \in Nat /\ f \in Nat /\ val \in Nat /\ t >= val - 1 - f /\ tp' = t + 1
      BY <3>1
    <3> HIDE DEF t, f
    <3>3. tp' >= val - f /\ tp' >= val - 1 - f
      BY ONLY <3>2
    <3> QED
      BY <3>3 DEF f
  <2>4. RecordSum'
    BY DEF RecordSum
  <2>5. RecordTp'
    <3> SUFFICES ASSUME ui.pc \in {"average", "divide", "energy"}
                 PROVE  tp' >= ui.to - ui.from /\ (ui.pc = "energy" => ui.n > ui.to - ui.from)
      BY DEF RecordTp
    <3>1. /\ w.t >= ui.to - ui.from
          /\ (ui.pc = "energy" => ui.n > ui.to - ui.from)
      BY DEF RecordTp
    <3> DEFINE t == w.t
              d == ui.to - ui.from
    <3>2. t \in Nat /\ d \in Int /\ t >= d /\ tp' = t + 1
      <4>1. ui.to - ui.from \in Int
        BY ONLY <1>t
      <4>2. w.t \in Nat /\ tp' = w.t + 1
        BY ONLY <1>t, <2>0
      <4> QED
        BY ONLY <3>1, <4>1, <4>2 DEF t, d
    <3> HIDE DEF t, d
    <3>3. tp' >= d
      BY ONLY <3>2
    <3> QED
      BY <3>1, <3>3 DEF d
  <2>6. RecordEnd'
    BY DEF RecordEnd, Adding
  <2> QED
    BY <1>a, <1>c, <1>g, <2>1, <2>2, <2>3, <2>4, <2>5, <2>6 DEF IInv
<1>6. CASE ReadSum
  <2>0. /\ w.pc = "sum read" /\ w'.pc = "sum write" /\ w'.t = w.t /\ w'.c = Cqpower
        /\ val' = val /\ tp' = tp /\ Cqpower' = Cqpower
    BY <1>6, <1>a, WorkerStep
  <2>d. Done = val - 1 /\ Done' = val - 1 /\ Taken = val /\ Taken' = val
    BY <2>0 DEF Done, Taken
  <2> USE <1>b, <1>t, <1>i, <2>0, <2>d
  <2>1. SumsRead'
    BY DEF SumsRead
  <2>2. WindowSum'
    BY DEF WindowSum, Open
  <2>3. WindowTp'
    BY DEF WindowTp, Open
  <2>4. RecordSum'
    BY DEF RecordSum
  <2>5. RecordTp'
    BY DEF RecordTp
  <2>6. RecordEnd'
    BY DEF RecordEnd, Adding
  <2> QED
    BY <1>a, <1>c, <1>g, <2>1, <2>2, <2>3, <2>4, <2>5, <2>6 DEF IInv
<1>7. CASE WriteSum
  <2>0. /\ w.pc = "sum write" /\ w'.pc = "read" /\ w'.t = w.t /\ w'.c = w.c
        /\ val' = val /\ tp' = tp /\ Cqpower' = w.c \cup {val}
    BY <1>7, <1>a, WorkerStep
  <2>d. Done = val - 1 /\ Done' = val /\ Taken = val /\ Taken' = val
    BY <2>0 DEF Done, Taken
  <2> USE <1>b, <1>t, <1>i, <2>0, <2>d
  <2>1. SumsRead'
    <3>0. val \in 0 .. val
      BY ONLY <1>t
    <3>1. w.c \subseteq 0 .. val /\ val \in 0 .. val
      BY ONLY <1>i, <2>d, <3>0 DEF SumsRead
    <3>2. w.c \cup {val} \subseteq 0 .. val
      BY ONLY <3>1
    <3> QED
      BY <3>1, <3>2 DEF SumsRead
  <2>2. WindowSum'
    <3> SUFFICES ASSUME ui.pc \in {"execute", "clear"}
                 PROVE  ui.from <= val /\ ui.from + 1 .. val \subseteq Cqpower'
      BY DEF WindowSum
    <3>1. ui.from <= val /\ ui.from + 1 .. val - 1 \subseteq w.c
      BY DEF WindowSum
    <3>2. ui.from + 1 .. val \subseteq (ui.from + 1 .. val - 1) \cup {val}
      <4> DEFINE f == ui.from
      <4>1. f \in Nat /\ val \in Nat
        OBVIOUS
      <4> HIDE DEF f
      <4>2. \A x \in f + 1 .. val : x \in f + 1 .. val - 1 \/ x = val
        BY ONLY <4>1
      <4> QED
        BY ONLY <4>2 DEF f
    <3> QED
      BY <3>1, <3>2
  <2>3. WindowTp'
    BY DEF WindowTp, Open
  <2>4. RecordSum'
    BY DEF RecordSum
  <2>5. RecordTp'
    BY DEF RecordTp
  <2>6. RecordEnd'
    BY DEF RecordEnd, Adding
  <2> QED
    BY <1>a, <1>c, <1>g, <2>1, <2>2, <2>3, <2>4, <2>5, <2>6 DEF IInv
<1> QED
  BY <1>1, <1>2, <1>3, <1>4, <1>5, <1>6, <1>7 DEF Worker

\* the event thread keeps it
\* and ProcessQuery reads the sum before the count
LEMMA SwingCounts == IInv /\ (Click \/ Swing) => TpGrows' /\ SumCounted' /\ Divided'
<1> SUFFICES ASSUME IInv, Click \/ Swing PROVE TpGrows' /\ SumCounted' /\ Divided'
  OBVIOUS
<1>t. /\ ui \in UiType /\ ui.from \in Nat /\ ui.avg \in SUBSET Nat
      /\ w.t \in Nat /\ tp \in Nat /\ val \in Nat /\ Taken \in Int
      /\ w.c \in SUBSET Nat /\ Cqpower \in SUBSET Nat
  BY FieldTypes DEF IInv, TypeOK
<1>i. TpGrows /\ SumCounted /\ Divided /\ SumsRead
  BY DEF IInv
<1>u. \A pc \in UiPcs : Ui(pc) => ui'.pc = pc /\ ui'.from = ui.from /\ ui'.avg = ui.avg
  BY <1>t DEF Ui, UiType
<1>q. ui'.pc \notin {"sum", "execute", "clear", "average", "divide", "energy"}
        => TpGrows' /\ SumCounted' /\ Divided'
  BY DEF TpGrows, SumCounted, Divided
<1> USE DEF measuring, worker, results
<1>1. CASE Click
  <2>1. PICK h \in Handlers, q \in Query, m \in BOOLEAN,
             pc \in {"wait", "process", "explain", "idle", "timeline", "exited"} :
          ui' = [Idle EXCEPT !.handler = h, !.q = q, !.multi = m, !.pc = pc]
    BY <1>1, ClickStep
  <2>2. pc \notin Busy
    BY DEF Busy
  <2>3. ui'.pc \notin Busy
    BY <2>1, <2>2, IdleType DEF UiType
  <2> QED
    BY <1>q, <2>3 DEF Busy
<1>2. CASE MeterTested \/ RunUnmeasured \/ StartChart \/ AddMeasure \/ CopyRealPower
  BY <1>2, <1>q, <1>u DEF MeterTested, RunUnmeasured, StartChart, AddMeasure, CopyRealPower, UiPcs
<1>3. CASE ExplainQuery
  BY <1>3, <1>q, <1>u DEF ExplainQuery, UiPcs
<1>4. CASE LaunchAndMeasure \/ LaunchForChart \/ SkipLaunch
  BY <1>4, <1>q, <1>u DEF LaunchAndMeasure, LaunchForChart, SkipLaunch, UiPcs
<1>5. CASE SetBrun
  <2>1. ui'.pc = "tp"
    BY <1>5, <1>t DEF SetBrun, UiType
  <2> QED
    BY <1>q, <2>1
<1>6. CASE ZeroTp
  <2>1. ui'.pc = "sum" /\ tp' = 0 /\ w' = w
    BY <1>6, <1>u DEF ZeroTp, UiPcs
  <2>2. w'.t >= tp'
    <3>1. w'.t = w.t /\ w.t \in Nat /\ tp' = 0
      BY <1>t, <2>1
    <3> QED
      BY ONLY <3>1
  <2> QED
    BY <2>1, <2>2 DEF TpGrows, SumCounted, Divided
<1>7. CASE ZeroSum
  <2>1. /\ ui.pc = "sum" /\ ui'.pc = "execute" /\ ui'.from = val /\ Cqpower' = {}
        /\ tp' = tp /\ w' = w /\ val' = val
    BY <1>7, <1>t DEF ZeroSum, UiType
  <2>2. val <= val + tp /\ \A x \in w.c : x <= val + tp
    <3>1. \A x \in 0 .. Taken : x <= val + tp
      BY <1>t DEF Taken
    <3>2. val <= val + tp
      BY ONLY <1>t
    <3> QED
      BY ONLY <1>i, <3>1, <3>2 DEF SumsRead
  <2> QED
    BY <1>i, <2>1, <2>2 DEF TpGrows, SumCounted, Divided
<1>8. CASE ExecuteQuery
  <2>1. /\ ui.pc = "execute" /\ ui'.pc \in {"clear", "copy", "idle"} /\ ui'.from = ui.from
        /\ tp' = tp /\ w' = w /\ val' = val /\ Cqpower' = Cqpower
    BY <1>8, <1>u DEF ExecuteQuery, UiPcs
  <2> QED
    BY <1>i, <2>1 DEF TpGrows, SumCounted, Divided
<1>9. CASE ClearBrun
  <2>1. /\ ui.pc = "clear" /\ ui'.pc = "average" /\ ui'.from = ui.from
        /\ tp' = tp /\ w' = w /\ val' = val /\ Cqpower' = Cqpower
    BY <1>9, <1>t DEF ClearBrun, UiType
  <2> QED
    BY <1>i, <2>1 DEF TpGrows, SumCounted, Divided
<1>10. CASE ReadAverage
  <2>1. /\ ui.pc = "average" /\ ui'.pc = "divide" /\ ui'.from = ui.from /\ ui'.avg = Cqpower
        /\ tp' = tp /\ w' = w /\ val' = val /\ Cqpower' = Cqpower
    BY <1>10, <1>t DEF ReadAverage, UiType
  <2> QED
    BY <1>i, <2>1 DEF TpGrows, SumCounted, Divided
<1>11. CASE Divide
  <2>1. /\ ui.pc = "divide" /\ ui'.pc = "energy" /\ ui'.from = ui.from /\ ui'.avg = ui.avg
        /\ ui'.n = 1 + tp
    BY <1>11, <1>t DEF Divide, UiType
  <2>2. \A x \in ui.avg : x < ui.from + (1 + tp)
    <3> DEFINE f == ui.from
    <3>1. f \in Nat /\ tp \in Nat /\ \A x \in ui.avg : x \in Nat /\ x <= f + tp
      BY <1>i, <1>t, <2>1 DEF SumCounted
    <3> HIDE DEF f
    <3>2. \A x \in Nat : x <= f + tp => x < f + (1 + tp)
      BY ONLY <3>1
    <3> QED
      BY <3>1, <3>2 DEF f
  <2> QED
    BY <2>1, <2>2 DEF TpGrows, SumCounted, Divided
<1> QED
  BY <1>1, <1>2, <1>3, <1>4, <1>5, <1>6, <1>7, <1>8, <1>9, <1>10, <1>11 DEF Swing

LEMMA SwingInv == IInv /\ (Click \/ Swing) => IInv'
<1> SUFFICES ASSUME IInv, Click \/ Swing PROVE IInv'
  OBVIOUS
<1>a. TypeOK /\ TypeOK'
  BY SwingType DEF IInv
<1>t. /\ ui \in UiType /\ ui.from \in Nat /\ ui.to \in Int /\ ui.last \in Int /\ ui.avg \in SUBSET Nat /\ ui.n \in Nat
      /\ w.t \in Nat /\ tp \in Nat /\ val \in Nat /\ Done \in Int /\ Taken \in Int
      /\ w.c \in SUBSET Nat /\ Cqpower \in SUBSET Nat
  BY <1>a, FieldTypes DEF TypeOK
<1>i. /\ SumsRead /\ Open /\ WindowSum /\ WindowTp /\ RecordSum /\ RecordTp /\ RecordEnd
      /\ InsideCounted /\ NothingAfter /\ DivisorCovers
  BY DEF IInv
<1>u. \A pc \in UiPcs : Ui(pc) => /\ ui'.pc = pc /\ ui'.from = ui.from /\ ui'.to = ui.to
        /\ ui'.last = ui.last
                                  /\ ui'.avg = ui.avg /\ ui'.n = ui.n /\ ui'.last = ui.last
  BY <1>t DEF Ui, UiType
<1>r. measurep' = measurep => InsideCounted' /\ NothingAfter' /\ DivisorCovers'
  BY <1>i DEF InsideCounted, NothingAfter, DivisorCovers, CountedIn
<1>d. w' = w /\ val' = val => Done' = Done /\ Taken' = Taken
  BY DEF Done, Taken
<1>w. w' = w => w'.c = w.c /\ w'.pc = w.pc
  OBVIOUS
<1>g. TpGrows' /\ SumCounted' /\ Divided'
  BY SwingCounts
<1> USE DEF measuring, worker, results
<1>1. CASE Click
  <2>1. PICK h \in Handlers, q \in Query, m \in BOOLEAN,
             pc \in {"wait", "process", "explain", "idle", "timeline", "exited"} :
          ui' = [Idle EXCEPT !.handler = h, !.q = q, !.multi = m, !.pc = pc]
    BY <1>1, ClickStep
  <2>2. pc \notin Busy
    BY DEF Busy
  <2>3. ui'.pc \notin Busy
    BY <2>1, <2>2, IdleType DEF UiType
  <2> QED
    BY <1>1, <1>a, <1>w, <2>3, ClickStep, QuietStep
<1>2. CASE MeterTested
  <2>1. ui'.pc \notin Busy
    BY <1>2, <1>u DEF MeterTested, UiPcs, Busy
  <2> QED
    BY <1>2, <1>a, <1>w, <2>1, QuietStep DEF MeterTested
<1>3. CASE ExplainQuery
  <2>1. ui'.pc \notin Busy
    BY <1>3, <1>u DEF ExplainQuery, UiPcs, Busy
  <2> QED
    BY <1>3, <1>a, <1>w, <2>1, QuietStep DEF ExplainQuery
<1>4. CASE RunUnmeasured
  <2>1. ui'.pc \notin Busy
    BY <1>4, <1>u DEF RunUnmeasured, UiPcs, Busy
  <2> QED
    BY <1>4, <1>a, <1>w, <2>1, QuietStep DEF RunUnmeasured
<1>5. CASE LaunchAndMeasure
  <2>1. ui'.pc \notin Busy
    BY <1>5, <1>u DEF LaunchAndMeasure, UiPcs, Busy
  <2>2. w'.c = w.c /\ w'.pc = "read"
    BY <1>5, <1>a DEF LaunchAndMeasure, Launch, TypeOK, WorkerType
  <2> QED
    BY <1>5, <1>a, <1>w, <2>1, <2>2, QuietStep DEF LaunchAndMeasure, Launch
<1>6. CASE LaunchForChart
  <2>1. ui'.pc \notin Busy
    BY <1>6, <1>u DEF LaunchForChart, UiPcs, Busy
  <2>2. w'.c = w.c /\ w'.pc = "read"
    BY <1>6, <1>a DEF LaunchForChart, Launch, TypeOK, WorkerType
  <2> QED
    BY <1>6, <1>a, <1>w, <2>1, <2>2, QuietStep DEF LaunchForChart, Launch
<1>7. CASE SkipLaunch
  <2>1. ui'.pc \notin Busy
    BY <1>7, <1>u DEF SkipLaunch, UiPcs, Busy
  <2> QED
    BY <1>7, <1>a, <1>w, <2>1, QuietStep DEF SkipLaunch
<1>8. CASE StartChart
  <2>1. ui'.pc \notin Busy
    BY <1>8, <1>u DEF StartChart, UiPcs, Busy
  <2> QED
    BY <1>8, <1>a, <1>w, <2>1, QuietStep DEF StartChart
<1>9. CASE CopyRealPower
  <2>1. ui'.pc \notin Busy
    BY <1>9, <1>u DEF CopyRealPower, UiPcs, Busy
  <2> QED
    BY <1>9, <1>a, <1>w, <2>1, QuietStep DEF CopyRealPower
<1>10. CASE SetBrun
  <2>0. ui'.pc = "tp" /\ brun' = TRUE /\ Cqpower' = Cqpower
    BY <1>10, <1>t, <1>u DEF SetBrun, UiPcs, UiType
  <2>1. w' = w /\ val' = val /\ measurep' = measurep /\ Done' = Done /\ Taken' = Taken
    BY <1>10, <1>d DEF SetBrun
  <2> USE <1>t, <1>i, <2>0, <2>1
  <2>2. SumsRead'
    BY DEF SumsRead
  <2>3. Open'
    BY DEF Open
  <2>4. WindowSum'
    BY DEF WindowSum
  <2>5. WindowTp'
    BY DEF WindowTp
  <2>6. RecordSum'
    BY DEF RecordSum
  <2>7. RecordTp'
    BY DEF RecordTp
  <2>8. RecordEnd'
    BY DEF RecordEnd
  <2> QED
    BY <1>a, <1>g, <1>r, <2>2, <2>3, <2>4, <2>5, <2>6, <2>7, <2>8 DEF IInv
<1>11. CASE ZeroTp
  <2>0. ui.pc = "tp" /\ ui'.pc = "sum" /\ brun' = brun /\ Cqpower' = Cqpower
    BY <1>11, <1>t, <1>u DEF ZeroTp, UiPcs, UiType
  <2>1. w' = w /\ val' = val /\ measurep' = measurep /\ Done' = Done /\ Taken' = Taken
    BY <1>11, <1>d DEF ZeroTp
  <2> USE <1>t, <1>i, <2>0, <2>1
  <2>2. SumsRead'
    BY DEF SumsRead
  <2>3. Open'
    BY DEF Open
  <2>4. WindowSum'
    BY DEF WindowSum
  <2>5. WindowTp'
    BY DEF WindowTp
  <2>6. RecordSum'
    BY DEF RecordSum
  <2>7. RecordTp'
    BY DEF RecordTp
  <2>8. RecordEnd'
    BY DEF RecordEnd
  <2> QED
    BY <1>a, <1>g, <1>r, <2>2, <2>3, <2>4, <2>5, <2>6, <2>7, <2>8 DEF IInv
<1>12. CASE ZeroSum
  <2>0. /\ ui.pc = "sum" /\ ui'.pc = "execute" /\ ui'.from = val
        /\ brun' = brun /\ tp' = tp /\ Cqpower' = {}
    BY <1>12, <1>t, <1>u DEF ZeroSum, UiPcs, UiType
  <2>1. w' = w /\ val' = val /\ measurep' = measurep /\ Done' = Done /\ Taken' = Taken
    BY <1>12, <1>d DEF ZeroSum
  <2>a. Done \in Int /\ Done <= val /\ val \in Nat
    BY <1>t, DoneType
  <2> USE <1>t, <1>i, <2>0, <2>1
  <2>2. SumsRead'
    BY DEF SumsRead
  <2>3. Open'
    BY DEF Open
  <2>4. WindowSum'
    <3>1. \A x \in val + 1 .. Done : FALSE
      BY <2>a
    <3>2. val + 1 .. Done \subseteq {} /\ val + 1 .. Done \subseteq w.c
      BY ONLY <3>1
    <3>3. ui'.from <= val' /\ (ui'.from + 1 .. Done') = (val + 1 .. Done)
      BY ONLY <1>t, <2>0, <2>1
    <3> QED
      BY ONLY <2>0, <2>1, <3>2, <3>3 DEF WindowSum
  <2>5. WindowTp'
    <3>1. tp >= Done - val /\ w.t >= Done - val /\ tp >= val - val
      BY ONLY <1>t, <2>a
    <3> QED
      BY <3>1 DEF WindowTp
  <2>6. RecordSum'
    BY DEF RecordSum
  <2>7. RecordTp'
    BY DEF RecordTp
  <2>8. RecordEnd'
    BY DEF RecordEnd
  <2> QED
    BY <1>a, <1>g, <1>r, <2>2, <2>3, <2>4, <2>5, <2>6, <2>7, <2>8 DEF IInv
<1>13. CASE ClearBrun
  <2>0. /\ ui.pc = "clear" /\ ui'.pc = "average" /\ ui'.from = ui.from /\ ui'.to = Done
        /\ ui'.last = Taken
        /\ brun' = FALSE /\ tp' = tp /\ Cqpower' = Cqpower
    BY <1>13, <1>t, <1>u DEF ClearBrun, UiPcs, UiType
  <2>1. w' = w /\ val' = val /\ measurep' = measurep /\ Done' = Done /\ Taken' = Taken
    BY <1>13, <1>d DEF ClearBrun
  <2> USE <1>t, <1>i, <2>0, <2>1
  <2>2. SumsRead'
    BY DEF SumsRead
  <2>3. Open'
    BY DEF Open
  <2>4. WindowSum'
    BY DEF WindowSum
  <2>5. WindowTp'
    BY DEF WindowTp
  <2>6. RecordSum'
    BY DEF RecordSum, WindowSum
  <2>7. RecordTp'
    BY DEF RecordTp, WindowTp
  <2>8. RecordEnd'
    <3>1. Taken <= Done + 1 /\ (w.pc \in Adding => val <= Taken)
      BY ONLY <1>t, TakenBounds
    <3>2. (\A x \in Cqpower : x <= Taken) /\ (\A x \in w.c : x <= Taken)
      BY ONLY <1>t, <1>i DEF SumsRead
    <3> QED
      BY <3>1, <3>2 DEF RecordEnd
  <2> QED
    BY <1>a, <1>g, <1>r, <2>2, <2>3, <2>4, <2>5, <2>6, <2>7, <2>8 DEF IInv
<1>14. CASE ReadAverage
  <2>0. /\ ui.pc = "average" /\ ui'.pc = "divide" /\ ui'.from = ui.from /\ ui'.to = ui.to
        /\ ui'.last = ui.last
        /\ ui'.avg = Cqpower /\ brun' = brun /\ tp' = tp /\ Cqpower' = Cqpower
    BY <1>14, <1>t, <1>u DEF ReadAverage, UiPcs, UiType
  <2>1. w' = w /\ val' = val /\ measurep' = measurep /\ Done' = Done /\ Taken' = Taken
    BY <1>14, <1>d DEF ReadAverage
  <2> USE <1>t, <1>i, <2>0, <2>1
  <2>2. SumsRead'
    BY DEF SumsRead
  <2>3. Open'
    BY DEF Open
  <2>4. WindowSum'
    BY DEF WindowSum
  <2>5. WindowTp'
    BY DEF WindowTp
  <2>6. RecordSum'
    BY DEF RecordSum
  <2>7. RecordTp'
    BY DEF RecordTp
  <2>8. RecordEnd'
    BY DEF RecordEnd
  <2> QED
    BY <1>a, <1>g, <1>r, <2>2, <2>3, <2>4, <2>5, <2>6, <2>7, <2>8 DEF IInv
<1>15. CASE Divide
  <2>0. /\ ui.pc = "divide" /\ ui'.pc = "energy" /\ ui'.from = ui.from /\ ui'.to = ui.to
        /\ ui'.last = ui.last
        /\ ui'.avg = ui.avg /\ ui'.n = 1 + tp
        /\ brun' = brun /\ tp' = tp /\ Cqpower' = Cqpower
    BY <1>15, <1>t, <1>u DEF Divide, UiPcs, UiType
  <2>1. w' = w /\ val' = val /\ measurep' = measurep /\ Done' = Done /\ Taken' = Taken
    BY <1>15, <1>d DEF Divide
  <2> USE <1>t, <1>i, <2>0, <2>1
  <2>2. SumsRead'
    BY DEF SumsRead
  <2>3. Open'
    BY DEF Open
  <2>4. WindowSum'
    BY DEF WindowSum
  <2>5. WindowTp'
    BY DEF WindowTp
  <2>6. RecordSum'
    BY DEF RecordSum
  <2>7. RecordTp'
    <3>1. tp >= ui.to - ui.from /\ (w.pc = "tp write" => w.t >= ui.to - ui.from)
      BY DEF RecordTp
    <3>2. 1 + tp > ui.to - ui.from
      <4> DEFINE d == ui.to - ui.from
      <4>1. d \in Int
        BY ONLY <1>t DEF d
      <4>2. tp \in Nat /\ tp >= d
        BY <3>1
      <4> HIDE DEF d
      <4>3. 1 + tp > d
        BY ONLY <4>1, <4>2
      <4> QED
        BY <4>3 DEF d
    <3> QED
      BY <3>1, <3>2 DEF RecordTp
  <2>8. RecordEnd'
    BY DEF RecordEnd
  <2> QED
    BY <1>a, <1>g, <1>r, <2>2, <2>3, <2>4, <2>5, <2>6, <2>7, <2>8 DEF IInv
<1>16. CASE ExecuteQuery
  <2>0. ui.pc = "execute" /\ UNCHANGED <<brun, tp, Cqpower, val, w, measurep>>
    BY <1>16 DEF ExecuteQuery
  <2>1. CASE Ui("clear")
    <3>1. /\ ui'.pc = "clear" /\ ui'.from = ui.from
      BY <1>u, <2>1 DEF UiPcs
    <3>2. Done' = Done /\ Taken' = Taken
      BY <1>d, <2>0
    <3>3. SumsRead' /\ Open' /\ RecordSum' /\ RecordTp' /\ RecordEnd'
      BY <1>i, <2>0, <3>1, <3>2 DEF SumsRead, Open, RecordSum, RecordTp, RecordEnd
    <3>4. WindowSum' /\ WindowTp'
      BY <1>i, <2>0, <3>1, <3>2 DEF WindowSum, WindowTp
    <3> QED
      BY <1>a, <1>g, <1>r, <2>0, <3>3, <3>4 DEF IInv
  <2>2. CASE Ui(IF ui.handler = "estimate" THEN "copy" ELSE "idle")
    <3>1. ui'.pc \notin Busy
      BY <1>u, <2>2 DEF UiPcs, Busy
    <3> QED
      BY <1>a, <1>w, <2>0, <3>1, QuietStep
  <2> QED
    BY <1>16, <2>1, <2>2 DEF ExecuteQuery
<1>17. CASE AddMeasure
  <2> DEFINE m == [q |-> ui.q, avg |-> ui.avg, n |-> ui.n, energy |-> Cqpower,
                   from |-> ui.from, since |-> ui.since, to |-> ui.to, last |-> ui.last]
  <2>1. /\ ui.pc = "energy" /\ measurep' = Append(measurep, m)
        /\ UNCHANGED <<brun, tp, Cqpower, val, w>>
    BY <1>17 DEF AddMeasure
  <2>2. ui'.pc \notin Busy
    BY <1>17, <1>u DEF AddMeasure, UiPcs, Busy
  <2>3. CountedIn(m)
    BY <1>i, <2>1 DEF CountedIn, RecordSum, RecordTp
  <2>4. \A x \in m.avg \cup m.energy : x <= m.last
    BY <1>i, <2>1 DEF RecordEnd
  <2>o. \A x \in m.avg : x < m.from + m.n
    <3>1. m.avg = ui.avg /\ m.from = ui.from /\ m.n = ui.n
      OBVIOUS
    <3>2. \A x \in ui.avg : x < ui.from + ui.n
      BY <2>1 DEF IInv, Divided
    <3> HIDE DEF m
    <3> QED
      BY ONLY <3>1, <3>2
  <2> HIDE DEF m
  <2>5. /\ Len(measurep') = Len(measurep) + 1 /\ Len(measurep) \in Nat
        /\ \A k \in 1 .. Len(measurep) : measurep'[k] = measurep[k]
        /\ measurep'[Len(measurep) + 1] = m
    <3>1. measurep \in Seq(Measure)
      BY <1>a DEF TypeOK
    <3>2. measurep \in Seq(Measure \cup {m}) /\ m \in Measure \cup {m}
      BY <3>1, SeqMonotonic
    <3> QED
      BY <2>1, <3>2, AppendProperties, LenProperties
  <2>6. \A k \in 1 .. Len(measurep') : k \in 1 .. Len(measurep) \/ k = Len(measurep) + 1
    BY <2>5
  <2>7. InsideCounted'
    <3> SUFFICES ASSUME NEW k \in 1 .. Len(measurep') PROVE CountedIn(measurep'[k])
      BY DEF InsideCounted, CountedIn
    <3>1. CASE k \in 1 .. Len(measurep)
      BY <1>i, <2>5, <3>1 DEF InsideCounted
    <3>2. CASE k = Len(measurep) + 1
      BY <2>3, <2>5, <3>2
    <3> QED
      BY <2>6, <3>1, <3>2
  <2>8. NothingAfter'
    <3> SUFFICES ASSUME NEW k \in 1 .. Len(measurep')
                 PROVE  \A x \in measurep'[k].avg \cup measurep'[k].energy : x <= measurep'[k].last
      BY DEF NothingAfter
    <3>1. CASE k \in 1 .. Len(measurep)
      BY <1>i, <2>5, <3>1 DEF NothingAfter
    <3>2. CASE k = Len(measurep) + 1
      BY <2>4, <2>5, <3>2
    <3> QED
      BY <2>6, <3>1, <3>2
  <2>10. DivisorCovers'
    <3> SUFFICES ASSUME NEW k \in 1 .. Len(measurep')
                 PROVE  \A x \in measurep'[k].avg : x < measurep'[k].from + measurep'[k].n
      BY DEF DivisorCovers
    <3>1. CASE k \in 1 .. Len(measurep)
      BY <1>i, <2>5, <3>1 DEF DivisorCovers
    <3>2. CASE k = Len(measurep) + 1
      BY <2>o, <2>5, <3>2
    <3> QED
      BY <2>6, <3>1, <3>2
  <2>9. SumsRead' /\ Open' /\ WindowSum' /\ WindowTp' /\ RecordSum' /\ RecordTp' /\ RecordEnd'
    BY <1>d, <1>i, <2>1, <2>2 DEF SumsRead, Open, WindowSum, WindowTp, RecordSum, RecordTp, RecordEnd, Busy
  <2> QED
    BY <1>a, <1>g, <2>7, <2>8, <2>9, <2>10 DEF IInv
<1> QED
  BY <1>1, <1>2, <1>3, <1>4, <1>5, <1>6, <1>7, <1>8, <1>9, <1>10, <1>11, <1>12, <1>13, <1>14, <1>15, <1>16, <1>17 DEF Swing

LEMMA Inductive == IInv /\ [Next]_vars => IInv'
<1> SUFFICES ASSUME IInv, [Next]_vars PROVE IInv'
  OBVIOUS
<1>1. CASE SizeArray \/ FillArray \/ CloseChart
  <2>1. TypeOK'
    BY <1>1, ThreadType DEF IInv
  <2> QED
    BY <1>1, <2>1, OtherStep DEF SizeArray, FillArray, CloseChart, measuring, worker, results
<1>2. CASE UNCHANGED vars
  <2>1. TypeOK'
    BY <1>2 DEF IInv, TypeOK, vars, measuring, worker, results
  <2> QED
    BY <1>2, <2>1, OtherStep DEF vars, measuring, worker, results
<1> QED
  BY <1>1, <1>2, WorkerInv, SwingInv DEF Next

LEMMA Invariance == Spec => []IInv
<1>1. Init => IInv
  <2> SUFFICES ASSUME Init PROVE IInv
    OBVIOUS
  <2>1. TypeOK
    BY InitType
  <2>2. ui.pc = "idle" /\ Cqpower = {} /\ w.c = {} /\ val = 0 /\ Len(measurep) = 0
    BY DEF Init, Idle
  <2> QED
    BY <2>1, <2>2 DEF IInv, SumsRead, Open, WindowSum, WindowTp, RecordSum, RecordTp, RecordEnd,
                      TpGrows, SumCounted, Divided, InsideCounted, NothingAfter, DivisorCovers, Taken
<1> QED
  BY <1>1, Inductive, PTL DEF Spec

\* ProcessQuery and WattsUpWorker.run: whatever the interleaving, every sample
\* read after the sums were cleared and dealt with before brun was cleared is
\* in the recorded average and energy, and counted in the divisor
THEOREM InsideCountedAlways == Spec => []InsideCounted
<1>1. IInv => InsideCounted
  BY DEF IInv
<1> QED
  BY <1>1, Invariance, PTL

\* ProcessQuery charges a query with no sample read after it ended, whatever the
\* worker does while the result is put together
THEOREM NothingAfterAlways == Spec => []NothingAfter
<1>1. IInv => NothingAfter
  BY DEF IInv
<1> QED
  BY <1>1, Invariance, PTL

\* ProcessQuery divides by a count that WattsUpWorker.run never lets fall behind
\* the query's own samples in the sum, though sum and count are read apart
THEOREM DivisorCoversAlways == Spec => []DivisorCovers
<1>1. IInv => DivisorCovers
  BY DEF IInv
<1> QED
  BY <1>1, Invariance, PTL
=============================================================================
