# A TLA+ model of GreenPipelineDB

GreenPipelineDB is three programs:

* **PostgreSQL 10.3 with an energy dimension** (`src/postgresql10.3`). Every path
  the planner builds carries a `power_cost` beside `total_cost`, and paths are
  compared by `time_weight*log(total_cost) + power_weight*log(power_cost)`.
* **`wattsup`** (`src/watts-up-linux`), the command-line driver of a Watts up? PRO
  meter on a serial line.
* **JavaApp** (`src/JavaApp`), a Swing program that runs and explains queries,
  reads the driver's output in a thread, and sets the energy it measured beside
  the planner's estimate.

The UI starts the driver as a process (once, endlessly, to feed its thread; and
once per press of *Check* with `-c 1`), and is a client of the server. The model
follows the energy path through the three: how the planner chooses
(`AddPath`), how the meter is read (`WattsUp`), how a measurement is made
(`PowerUI`).

## Modules

| module | models | proofs |
|---|---|---|
| `PathCost` | comparison of two paths: `pathnode.c`, `pathkeys.c`, `bitmapset.c` | |
| `AddPath` | `add_path`, `add_partial_path`, the prechecks, `generate_gather_paths`, `mark_dummy_rel`, `set_cheapest` | `AddPathProofs`, `AddPathCoverage`, `AddPathOrder` |
| `WattsUp` | `main`, the reading loop and the commands of the driver, several processes, and (external) the meter and the line | |
| `PowerUI` | the handlers of `NFrame` with `CProcess.ProcessQuery`/`ExplainQuery`, the `WattsUpWorker` thread, the chart thread | `PowerUIProofs` |
| `MCAddPath`, `MCWattsUp`, `MCPowerUI` | the instances TLC checks | |

`PROJECT.json` maps each definition to its lines. An operator whose comment or
name marks it as a variant (`FreeAll`, `AfterBadNoStop`, ...) is a plausible bug
of the operator that follows; with it in place the run named beside it in
`PROJECT.json` fails, which shows that the property notices.

### PathCost and AddPath

A cost is a *level*: level k is 1.005^k. Logarithms become linear, the 1% fuzz on
raw costs is two levels, and the 1% fuzz on the weighted sum is a ratio of
integers. Zero and negative costs have levels of their own, because their
logarithms are -inf and NaN and the C comparisons are then all false: this is
what constructors that never set `power_cost` produce, and it is kept.

`AddPath` is one relation's life. Its state is the two path lists, the call in
progress (`job`: the new path, the loop's position, `insert_after`), what
`set_cheapest` filled in, which paths were freed, and the history of what was
offered. Each iteration of the loops of `add_path` and `add_partial_path` is a
step (`RejectNew`, `RemoveOld`, `KeepBoth`, then `AcceptNew`). Which path is built
next, in which shape and at which cost, is any member of `Shapes`: the cost
formulas are inputs. The relation's kind (`reloptkind`) decides which paths it is
offered. Base and other-member relations get scans, bitmap scans over an index path
and the partial forms of both. A join is offered only if the precheck lets it
through, with initial startup and total costs up to `Slacks` below the final ones.
A grouped (upper) relation first collects partially aggregated paths and then
complete ones over a Gather of them (`FinalizeGrouping`); `FinishCheapest` forgets the
partial ones as `create_grouping_paths` does. `generate_gather_paths` runs for base
relations and joins only (`StartGather`) and adds a Gather over the first partial
path and a Gather Merge over each sorted one.

### WattsUp

`main()` is straight-line code selected by options. A process keeps it as a
`script` of calls and works it off; a call that talks to the meter is a write and,
for some, a read, with other processes and the meter free to run in between.
`wu_read_data` is `GoodRecord`/`BadRecord`: up to `wu_max_retry` bad reads, a reset
(stop, clear, start, put in front of the script), one more, then giving up. A
process can be killed at any point and started again. The meter is external: it
handles commands in order and while logging sends records, any of which may be
lost, late or cut. `parse_packet` is kept as "takes the first whole record, may
take a cut one, skips a tail". `resets`, `bad` and `lost` are history; `lost` holds the
commands whose *latest* sending went astray, so a command that a reset repeats is
no longer an excuse. A negative sample count is accepted and never reached, as in
the code (short of the counter's wrap-around); `CountedRunEnds` is about counts of
1 or more.

### PowerUI

All handlers run on the Swing event thread (`ui`), beside the meter thread (`w`)
and the chart thread (`chart`). `brun`, `tp` and `Cqpower` are shared without
synchronisation, so `tp++` and `Cqpower += x` are a read and a write, and
`brun = true; tp = 0; Cqpower = 0` are three steps. Samples are numbered and a sum
is the set of numbers in it, which tells a lost sample from one counted for the
wrong query. Accesses are taken to be sequentially consistent: the threads do I/O
between them, but the fields are not volatile (`Cqpower`, a `double`, may even tear on
a 32-bit JVM) and weaker orders are not modelled. `from`, `since`, `to` and `last` in
`ui` and in a measurement are history: where the worker was when the sums had been
cleared, when `brun` was set and when it was cleared (`to` the last sample it was
through with, `last` the last one it had added or was adding). The six buttons are
`Check_Power`, `BRun`, `BExplain`, `BPowerEs`, `DisplGr` and `Ptimeline`, each up to the first
call of its handler; the calls are the steps that follow.

## Runs

| run | states | what it shows |
|---|---|---|
| `add_path` | 607 thousand | nothing offered is lost (`Coverage`, `PartialCoverage`), lists sorted, no freed path in use, the chosen paths are least ones |
| `default_weights` | violation | with the default weights a dearer `Unique` beats a `HashAggregate`, because 0*log(0) is NaN |
| `precheck` | violation | the join precheck looks at `total_cost` alone |
| `driver` | 306 thousand | retry and reset discipline, exact sample count, the meter is left stopped, reading only while it logs |
| `driver_ends` | 204 thousand | liveness: a counted run ends whatever the meter does; any run ends if the meter is silent |
| `two_drivers` | 225 thousand | liveness: the endless reader gets the meter logging again after another driver stopped it or its first start was lost |
| `final_stamp` | violation | `--final` prints a late data record as the final time stamp |
| `user_parameters` | violation | `--user` never sends the values it is given |
| `measuring` | 3.7 million | every sample inside a query's window is counted, none read after it is charged, the divisor covers the query's samples in the sum |
| `energy_of_query` | violation | an addition in progress undoes the reset and charges a query with earlier samples |
| `real_power` | violation | measurements and estimates are paired by position in lists that grow apart |
| `chart` | violation | the chart thread dies when a sample arrives between sizing and filling its array, or before the first sample |

Three limits of these properties. `CheapestIsBest` speaks of relations in which no
weighted cost is NaN; what NaN costs do to the choice is the `default_weights` run,
and that they lose no alternative is `Coverage`. `RetryDiscipline` is checked with one
process, in which a record stolen by another process is a timeout.
`DivisorCovers` counts the query's own samples: the earlier ones that the race of
`energy_of_query` brings back into the sum are not in the divisor.

The violation runs are findings; `PROJECT.json` quotes the line of the repository
each one contradicts.

### Bounds

* `add_path`: `MaxPaths = 4` paths plus Gathers, sixteen shapes that differ in every
  dimension `add_path` compares, with costs on both sides of each fuzz limit, two
  sort columns (and chains of orders each within the fuzz of the one before), two
  outer relations, six settings over the four kinds of relation. Three paths give every
  chain "new removes old, is removed in turn"; the fourth lets a chain meet a
  path kept for another reason. The proofs lift the bound for most properties.
* `driver`: `MaxRetry = 3` for the code's 10 (below, at and above the limit all
  occur), two starts so that the second finds what a killed first one left, two
  chunks on the line, two commands waiting. `driver_ends` takes `MaxRetry = 2` and
  one start with nine command lines that reach every call of `main()`; `two_drivers`
  takes `MaxRetry = 1`, one start each, a line and an inbox of one: one bad read resets
  the meter and the next one ends the driver, so the reset, which is what the
  property is about, meets the other process at every point.
* `measuring`: three samples and three presses: meter test, a query, and another
  query that meets what the first one left. Two query texts.

Deadlock is not checked where the bounds end the run: paths are used up, drivers
have ended, clicks are spent.

### Fairness

Only `WattsUp` has liveness, under weak fairness of each driver process's own
steps: the operating system schedules it, `select` has a two-second timeout, and
no other call of it blocks. Nothing is assumed of the meter, of the
user, of `Start` or of `Kill`.

## Proofs

For every value of the constants (any number of paths, any costs and settings;
any number of samples, clicks and queries):

| theorem | states |
|---|---|
| `AddPathProofs!TypeCorrect` | `Spec => []TypeOK`; the loops never leave their lists |
| `AddPathCoverage!NothingLost` | `Spec => []Coverage /\ []PartialCoverage` |
| `AddPathOrder!AlwaysSorted` | `Spec => []Sorted` |
| `PowerUIProofs!TypeCorrect` | `Spec => []TypeOK` |
| `PowerUIProofs!InsideCountedAlways` | `Spec => []InsideCounted` |
| `PowerUIProofs!NothingAfterAlways` | `Spec => []NothingAfter` |
| `PowerUIProofs!DivisorCoversAlways` | `Spec => []DivisorCovers` |

Assumptions: `ShapesAssumption` (the types of the paths offered) for `AddPath`;
`PowerUI`'s proofs use none.

* **Nothing is lost.** `Covers` is a preorder (`CoversRefl`, `CoversTrans`), and both
  verdicts imply it: a path that removes or rejects another covers it
  (`RemovesCovers`, `RejectsCovers`), *whatever the cost comparison answers*. That is
  why NaN and non-transitive fuzzy costs cannot lose a sort order. The path in
  hand counts as live, so each step replaces a live path by one that covers it.
  In particular `pathlist` is not empty between calls once `add_path` was given a path.
* **Little is given away.** `add_partial_path` may drop a cheaper partial path for one
  with a better order that is up to the fuzz dearer, and that one may be dropped in
  turn. `PartialCovers` pays the fuzz out of the sort columns gained, which makes it a
  preorder (`PartialCoversTrans`): a chain of any length costs at most the fuzz for
  each column, so at most that separates the front partial path from the cheapest.
* **Sorted.** `Sorted` is not inductive: it does not say where the insertion point
  is. `OrderInv` adds that everything up to `insert_after` is no dearer than the new
  path and everything between there and the loop's position is dearer.
* **Every sample is counted.** `IInv` says, at each point of `ProcessQuery`, what
  `Cqpower`, `tp` *and the worker's private copies of them* hold. While the query
  runs only the worker writes, so its read copy is never stale (`WindowSum`,
  `WindowTp`); once `brun` is cleared it can only finish the sample in hand
  (`RecordEnd`), and that addition keeps what was there (`RecordSum`, `RecordTp`).
  For the divisor, `TpGrows` says that the worker's pending write of `tp` never lowers
  it once it was cleared, and `SumCounted` that no sample gets into the sum, or the
  worker's copy of it, before it is in `tp`; as `ProcessQuery` reads the sum first,
  the divisor it reads next covers it.
  TLC confirms `IInv` on the instance of `measuring`.

Only model-checked: `NoDangling`, `CheapestIsBest`, everything about `WattsUp`. The
liveness properties are out of the proof system's reach (fairness, `ENABLED`).

## Not modelled

Of the driver: printing, field filters, labels, time stamps, the sysfs walk of
`open_device`, the characters of a record. Of the UI: the
R models, the plan tree and its HTML, the result tables, `FenP` (the
old window, never opened by `GodPostgreSQL`), more than one chart at a time. Of
PostgreSQL: the cost formulas, and all the parts the energy work does not touch
(parser, executor, storage, locking, WAL, replication, catalogs, tools), listed one by
one in `PROJECT.json` with the reason.

## Plan

1. `parse_packet` at the level of fields, against a reference parser; a refinement of
   `WattsUp`'s `ParsePacket`.
2. `PowerUI` composed with `WattsUp`: the worker's lines are the driver's records, the
   meter test shares the tty with the worker.
3. `PowerModel`: the signs, zeros and monotonicity of `count_power_cost` and of the
   power terms in `costsize.c` (which constructors leave `power_cost` unset).
4. An abstract specification of the tournament (a set of paths closed under
   `Covers`) that `AddPath` implements; proofs of `NoDangling` and `CheapestIsBest`.
5. Proof of `RetryDiscipline` and `CountExact`.
6. The plan tree of `CProcess` (stale index into `nodesplan`).
7. Parallel query under a Gather: `shm_mq.c`, `parallel.c`, `nodeGather.c`, then
   `lwlock.c`; the join search above `AddPath`.
