------------------------------ MODULE WattsUp ------------------------------
(* The command-line driver of the power meter (watts-up-linux/wattsup.c and  *)
(* util.c): processes that open the serial device, send it commands and     *)
(* print the records it sends back.                                         *)
(*                                                                          *)
(* main() is a fixed order of calls chosen by the options; it is kept here  *)
(* as a script that each process works off.  A call that talks to the       *)
(* device is a write and, for some, a read: two steps, between which the    *)
(* device and the other processes run.  The meter and the serial line are   *)
(* external: commands reach the meter in order, records are cut, lost or    *)
(* late.                                                                    *)
EXTENDS Integers, Sequences, FiniteSets

CONSTANTS Proc,          \* driver processes (the UI can start two at a time)
          Options,       \* Options[p]: the command lines of p, see OptionType
          MaxRetry,      \* wu_max_retry, 10 in the code
          MaxRuns,       \* bound: how often a process is started
          MaxLine,       \* bound: chunks waiting on the serial line
          MaxInbox       \* bound: commands waiting there; more are refused

\* An option with a parameter is absent, given without it ("bare"), given with
\* a usable one ("value") or with one that does not parse ("bad").  A count of
\* 0 is wu_count's default; count_bad says that the text given is no number.
Param      == {"absent", "bare", "value", "bad"}
OptionType == [interval : Param, mode : Param, user : Param, count : Int, count_bad : BOOLEAN,
               cal : BOOLEAN, header : BOOLEAN, info_all : BOOLEAN,
               set_only : BOOLEAN, no_data : BOOLEAN, final : BOOLEAN]

ASSUME DriverAssumption ==
    /\ Options \in [Proc -> SUBSET OptionType \ {{}}]
    /\ MaxRetry \in Nat \ {0} /\ {MaxRuns, MaxLine, MaxInbox} \subseteq Nat

VARIABLES
    drv,       \* [Proc -> process state]
    inbox,     \* commands written and not yet handled by the meter
    line,      \* chunks sent by the meter and not yet read
    logging,   \* the meter sends a record every interval
    applied    \* parameters the meter has been told to change

vars   == <<drv, inbox, line, logging, applied>>
device == <<inbox, line, logging, applied>>

(* ------------------------------ the options ----------------------------- *)
Stores == {"store_interval", "store_mode", "store_user"}
Shows  == {"show_cal", "show_header", "show_interval", "show_mode", "show_user"}
OptionOf(op) == CASE op \in {"store_interval", "show_interval"} -> "interval"
                  [] op \in {"store_mode", "show_mode"} -> "mode"
                  [] op \in {"store_user", "show_user"} -> "user"
                  [] op = "show_cal" -> "cal"
                  [] op = "show_header" -> "header"

\* wu_check_option_show, wu_check_option_store: the option's flag is set
Flagged(o, op) ==
    IF op \in {"show_cal", "show_header"} THEN o[OptionOf(op)] ELSE o[OptionOf(op)] # "absent"
Chosen(o, ops) == SelectSeq(ops, LAMBDA op : Flagged(o, op))

\* main(): the calls that follow setup_serial_device, in order
ShowScript(o) ==
    IF o.info_all
    THEN <<"show_cal", "show_header", "show_interval", "show_mode", "show_user">>
    ELSE Chosen(o, <<"show_cal", "show_header">>)
         \o IF o.set_only THEN <<>>
            ELSE Chosen(o, <<"show_interval", "show_mode", "show_user">>)
DataScript(o) ==
    IF o.no_data THEN <<>>
    ELSE <<"store_count", "start_log", "read_data", "stop_log">>
Script(o) == <<"clear">> \o Chosen(o, <<"store_interval", "store_mode", "store_user">>)
             \o ShowScript(o) \o DataScript(o)
ResetScriptSwapped == <<"restart_log", "stop_log", "clear">>
ResetScript == <<"stop_log", "clear", "restart_log">>

\* The command letters of each packet.  wu_write_user sends a read request.
Command(op) ==
    CASE op = "clear" -> "RW"
      [] op \in {"start_log", "restart_log"} -> "LW"
      [] op = "stop_log" -> "LR"
      [] op = "store_interval" -> "SW"
      [] op = "store_mode" -> "MW"
      [] op \in {"store_user", "show_user"} -> "UR"
      [] op = "show_interval" -> "SR"
      [] op = "show_mode" -> "MR"
      [] op = "show_cal" -> "FR"
      [] op = "show_header" -> "HR"
Writers  == Stores \cup Shows \cup {"clear", "start_log", "restart_log", "stop_log"}
AwaitsReply(op) == op \in Shows \cup {"clear", "stop_log"}

(* ---------------------------- reading the line -------------------------- *)
\* One read returns some of the waiting chunks.  parse_packet looks for the
\* first '#': a tail of a record has none and is skipped, a whole record is
\* taken, a cut one fails unless only its last field is cut (or what follows
\* it in the buffer passes for its fields).
\* A record is data ("d"), the answer to a stop ("L") or to another command.
Chunk == [cmd : {"d", "L", "other"}, part : {"whole", "head", "tail"}]
ParsePacket(chunks) ==
    LET c == SelectSeq(chunks, LAMBDA x : x.part # "tail")
    IN  IF c = <<>> THEN {"error"}
        ELSE IF c[1].part = "whole" THEN {c[1].cmd} ELSE {c[1].cmd, "error"}

\* wu_read: select() times out or fails, or the read() does; else everything
\* that the one read() returns is gone, whether or not it was parsed.
WuRead(result) ==
    \/ result = "error" /\ UNCHANGED line
    \/ \E k \in 1 .. Len(line) :
         /\ result \in ParsePacket(SubSeq(line, 1, k))
         /\ line' = SubSeq(line, k + 1, Len(line))
Results == {"error", "d", "L", "other"}

(* ------------------------------ the processes --------------------------- *)
Off(o, exit) == [opt |-> o, pc |-> "off", script |-> <<>>, retry |-> 0, i |-> 0,
                 exit |-> exit, runs |-> 0, final |-> "none",
                 bad |-> 0, resets |-> 0, lost |-> {}]
Init ==
    /\ drv = [p \in Proc |-> Off(CHOOSE o \in Options[p] : TRUE, "none")]
    /\ inbox = <<>> /\ line = <<>> /\ logging \in BOOLEAN /\ applied = {}

Op(p)   == Head(drv[p].script)
At(p, ops) == drv[p].pc = "step" /\ drv[p].script # <<>> /\ Op(p) \in ops
Advance(d) == [d EXCEPT !.pc = "step", !.script = Tail(@)]
Exit(d, how) == [d EXCEPT !.pc = "off", !.script = <<>>, !.exit = how]

\* a process is started with parse_args accepting the command line
Start(p) ==
    /\ drv[p].pc = "off" /\ drv[p].runs < MaxRuns
    /\ \E o \in Options[p] :
         drv' = [drv EXCEPT ![p] = [Off(o, "none") EXCEPT !.pc = "open", !.runs = drv[p].runs + 1]]
    /\ UNCHANGED device

\* open_device and setup_serial_device; the latter drops unread input
OpenSetup(p) ==
    /\ drv[p].pc = "open"
    /\ \/ /\ drv' = [drv EXCEPT ![p] = [@ EXCEPT !.pc = "step", !.script = Script(drv[p].opt)]]
          /\ line' = <<>>
       \/ drv' = [drv EXCEPT ![p] = Exit(@, "error")] /\ UNCHANGED line
    /\ UNCHANGED <<inbox, logging, applied>>

\* wu_store_interval, _mode and _user look at their parameter first: strtol of
\* the NULL of a bare option does not return, wu_store_user checks for it.
\* After its last number wu_store_user runs off the end of the string looking
\* for a digit; the process may die there.
StoreFails(p) ==
    /\ At(p, Stores)
    /\ LET v == drv[p].opt[OptionOf(Op(p))]
       IN  \/ v = "bad" \/ (v = "bare" /\ Op(p) = "store_user")
    /\ drv' = [drv EXCEPT ![p] = Exit(@, "error")] /\ UNCHANGED device
StoreCrashes(p) ==
    /\ At(p, Stores)
    /\ LET v == drv[p].opt[OptionOf(Op(p))]
       IN  \/ v = "bare" /\ Op(p) # "store_user"
           \/ v = "value" /\ Op(p) = "store_user"
    /\ drv' = [drv EXCEPT ![p] = Exit(@, "crash")] /\ UNCHANGED device

\* wu_store_count: any number will do, a negative one too
StoreCount(p) ==
    /\ At(p, {"store_count"})
    /\ drv' = [drv EXCEPT ![p] = IF @.opt.count_bad THEN Exit(@, "error") ELSE Advance(@)]
    /\ UNCHANGED device

\* What a call does once wu_write has returned: store_* and the first start_log
\* send main() to Close on an error; clear reads even then; the others return,
\* and neither main() nor the reset looks at what they return.
AfterWriteAlwaysReads(d, op, ok) ==
    IF ~ok /\ op \in Stores \cup {"start_log"} THEN Exit(d, "error") ELSE [d EXCEPT !.pc = "await"]
AfterWrite(d, op, ok) ==
    CASE AwaitsReply(op) /\ (ok \/ op = "clear") -> [d EXCEPT !.pc = "await"]
      [] ~ok /\ op \in Stores \cup {"start_log"} -> Exit(d, "error")
      [] OTHER -> Advance(d)
\* wu_write: a short write is reported but returned as success
MayWrite(p) == At(p, Writers) /\ (Op(p) \in Stores => drv[p].opt[OptionOf(Op(p))] = "value")
Write(p) ==
    /\ MayWrite(p) /\ Len(inbox) < MaxInbox
    /\ inbox' = Append(inbox, Command(Op(p)))
    /\ drv' = [drv EXCEPT ![p] = [AfterWrite(@, Op(p), TRUE) EXCEPT !.lost = @ \ {Command(Op(p))}]]
    /\ UNCHANGED <<line, logging, applied>>
WriteLost(p) ==
    /\ MayWrite(p)
    /\ \E ok \in BOOLEAN :
         drv' = [drv EXCEPT ![p] = [AfterWrite(@, Op(p), ok) EXCEPT
                   !.lost = @ \cup ({Command(Op(p))} \ {"RW"})]]
    /\ UNCHANGED device

\* the read of show_*, clear and stop_log; its result is printed or dropped
Reply(p) ==
    /\ drv[p].pc = "await"
    /\ \E r \in Results :
         /\ WuRead(r)
         /\ drv' = [drv EXCEPT ![p] = [Advance(@) EXCEPT
                      !.final = IF Op(p) = "stop_log" /\ drv[p].opt.final /\ r # "error"
                                THEN r ELSE @]]
    /\ UNCHANGED <<inbox, logging, applied>>

\* resets |-> and bad |-> only record, for the properties, the resets and bad
\* reads since the last good one; lost |-> the commands whose last sending went
\* astray.
\* wu_read_data, one iteration: a record is read and printed.  With a positive
\* count i is compared with it; a negative count is never reached.
AfterGoodStaleRetry(d) ==
    LET e == [d EXCEPT !.i = IF d.opt.count > 0 THEN @ + 1 ELSE @, !.bad = 0, !.resets = 0]
    IN  IF e.opt.count > 0 /\ e.i = e.opt.count THEN Advance(e) ELSE e
AfterGoodOneMore(d) ==
    LET e == [d EXCEPT !.retry = 0, !.i = IF d.opt.count > 0 THEN @ + 1 ELSE @, !.bad = 0, !.resets = 0]
    IN  IF d.opt.count > 0 /\ d.i = d.opt.count THEN Advance(e) ELSE e
AfterGood(d) ==
    LET e == [d EXCEPT !.retry = 0, !.i = IF d.opt.count > 0 THEN @ + 1 ELSE @, !.bad = 0, !.resets = 0]
    IN  IF e.opt.count > 0 /\ e.i = e.opt.count THEN Advance(e) ELSE e
GoodRecord(p) ==
    /\ At(p, {"read_data"})
    /\ \E r \in Results \ {"error"} : WuRead(r)
    /\ drv' = [drv EXCEPT ![p] = AfterGood(@)]
    /\ UNCHANGED <<inbox, logging, applied>>
\* Or it is not: retry, reset the meter once, give up
AfterBadNoStop(d) ==
    CASE d.retry < MaxRetry -> d
      [] d.retry = MaxRetry -> [d EXCEPT !.script = ResetScript \o @, !.resets = @ + 1]
      [] OTHER -> [d EXCEPT !.script = <<>>, !.exit = "gave up"]
AfterBadForever(d) ==
    IF d.retry < MaxRetry THEN d
    ELSE [d EXCEPT !.script = ResetScript \o @, !.retry = 0, !.bad = 0]
AfterBadUncounted(d) == [d EXCEPT !.retry = 0, !.bad = 0]
AfterBad(d) ==
    CASE d.retry < MaxRetry -> d
      [] d.retry = MaxRetry -> [d EXCEPT !.script = ResetScript \o @, !.resets = @ + 1]
      [] OTHER -> [Advance(d) EXCEPT !.exit = "gave up"]
BadRecord(p) ==
    /\ At(p, {"read_data"})
    /\ WuRead("error")
    /\ drv' = [drv EXCEPT ![p] = AfterBad([@ EXCEPT !.retry = @ + 1, !.bad = @ + 1])]
    /\ UNCHANGED <<inbox, logging, applied>>

\* close(fd) at the end of main()
Close(p) ==
    /\ drv[p].pc = "step" /\ drv[p].script = <<>>
    /\ drv' = [drv EXCEPT ![p] = Exit(@, IF @.exit = "gave up" THEN @.exit ELSE "done")]
    /\ UNCHANGED device

\* the process is killed; the UI destroys the one it reads from
Kill(p) ==
    /\ drv[p].pc # "off"
    /\ drv' = [drv EXCEPT ![p] = Exit(@, "killed")] /\ UNCHANGED device

(* ------------------------- the meter (external) ------------------------- *)
Send(cmd) == \/ UNCHANGED line
             \/ /\ Len(line) < MaxLine
                /\ \E part \in {"whole", "head", "tail"} :
                     line' = Append(line, [cmd |-> cmd, part |-> part])
Answer(cmd) == IF cmd = "LR" THEN "L" ELSE "other"
Handle ==
    /\ inbox # <<>> /\ inbox' = Tail(inbox)
    /\ LET cmd == Head(inbox)
       IN  /\ logging' = IF cmd = "LW" THEN TRUE ELSE IF cmd = "LR" THEN FALSE ELSE logging
           /\ applied' = applied \cup ({cmd} \cap {"SW", "MW", "UW"})
           /\ IF cmd \in {"LW", "SW", "MW"} THEN UNCHANGED line ELSE Send(Answer(cmd))
    /\ UNCHANGED drv
Sample == logging /\ Send("d") /\ UNCHANGED <<drv, inbox, logging, applied>>

Driver(p) == OpenSetup(p) \/ StoreFails(p) \/ StoreCrashes(p) \/ StoreCount(p) \/ Write(p)
             \/ WriteLost(p) \/ Reply(p) \/ GoodRecord(p) \/ BadRecord(p) \/ Close(p)
Next == (\E p \in Proc : Start(p) \/ Driver(p) \/ Kill(p)) \/ Handle \/ Sample

\* A driver process is scheduled by the operating system and every call it
\* makes returns; nothing is assumed of the meter, nor of the user.
Spec == Init /\ [][Next]_vars /\ \A p \in Proc : WF_vars(Driver(p))
-----------------------------------------------------------------------------
(* The counters of wu_read_data stay within wu_max_retry, a process waits    *)
(* only for calls that read an answer, and the line within its bounds.       *)
TypeOK ==
    /\ \A p \in Proc :
         /\ drv[p].opt \in Options[p] /\ drv[p].pc \in {"off", "open", "step", "await"}
         /\ drv[p].script \in Seq(Writers \cup {"store_count", "read_data"})
         /\ drv[p].retry \in 0 .. MaxRetry + 1 /\ drv[p].i \in Nat /\ drv[p].runs \in 0 .. MaxRuns
         /\ drv[p].exit \in {"none", "error", "crash", "gave up", "done", "killed"}
         /\ drv[p].pc = "await" => AwaitsReply(Op(p))
    /\ Len(inbox) <= MaxInbox /\ line \in Seq(Chunk) /\ Len(line) <= MaxLine
    /\ logging \in BOOLEAN /\ applied \subseteq {"SW", "MW", "UW"}

(* wu_read_data: between two good records the meter is reset at most once,   *)
(* after exactly wu_max_retry bad reads, and the driver gives up only when   *)
(* the read after that reset is bad too, however the bad reads are spread    *)
(* over timeouts, cut records and the records another process steals.        *)
RetryDiscipline ==
    \A p \in Proc : LET d == drv[p] IN
        /\ d.resets = IF d.bad >= MaxRetry THEN 1 ELSE 0
        /\ d.exit = "gave up" => d.bad = MaxRetry + 1

(* wu_read_data: a driver told to take n samples (-c n) that ends without    *)
(* giving up has printed exactly n, never more, resets included.             *)
CountExact ==
    \A p \in Proc : LET d == drv[p] IN
        d.opt.count > 0 => /\ d.i <= d.opt.count
                           /\ d.exit = "done" /\ ~d.opt.no_data => d.i = d.opt.count

\* whether the meter will be logging once it has handled what it was sent
LoggingAfter == LET L == SelectSeq(inbox, LAMBDA c : c \in {"LW", "LR"})
                IN  IF L = <<>> THEN logging ELSE L[Len(L)] = "LW"

(* main(): a driver that has the device to itself and ends, by count or by   *)
(* giving up, leaves the meter not logging, even if it was logging before    *)
(* (an earlier driver was killed).  A stop lost in a reset is made good; only *)
(* the loss of the last stop, which nobody repeats, is an excuse.            *)
StopsLogging ==
    \A p \in Proc : LET d == drv[p] IN
        d.pc = "off" /\ d.exit \in {"done", "gave up"} /\ ~d.opt.no_data /\ "LR" \notin d.lost
          => ~LoggingAfter

(* wu_read_data: the driver waits for records only while the meter logs (or  *)
(* is about to), the reset in the middle of the loop included: lost stops do *)
(* no harm, and a lost start none beyond the reset that repeats it.          *)
LogsWhileReading ==
    \A p \in Proc : At(p, {"read_data"}) /\ "LW" \notin drv[p].lost => LoggingAfter

(* Whatever the meter does, a driver with a count of samples to take (1 or   *)
(* more), one whose count is refused, or one told not to read data, ends:    *)
(* the UI waits for it (Process.waitFor).                                    *)
Limited(o) == o.count > 0 \/ o.count_bad \/ o.no_data
CountedRunEnds ==
    \A p \in Proc : (drv[p].pc = "open" /\ Limited(drv[p].opt)) ~> (drv[p].pc = "off")

(* A driver without a count, or with a negative one, ends as well if the     *)
(* meter stays silent.                                                       *)
SilentMeterEnds ==
    \A p \in Proc : (drv[p].pc # "off") ~> (drv[p].pc = "off" \/ line # <<>>)

(* A driver that reads while another one has stopped the meter (the UI can   *)
(* test the meter while its worker reads it), or whose first start command   *)
(* was lost, gets it logging again by its reset, or ends.  Whatever else is  *)
(* lost, only the loss of the reset's own start command is an excuse.        *)
FeedRecovers ==
    \A p \in Proc : (At(p, {"read_data"}) /\ ~logging /\ ~LoggingAfter)
                       ~> \/ logging \/ LoggingAfter \/ drv[p].pc = "off"
                          \/ drv[p].resets > 0 /\ "LW" \in drv[p].lost

(* Option --final, "Print final interval information": what wu_stop_log      *)
(* prints as the final time stamp is the meter's answer to the stop command. *)
FinalIsStamp == \A p \in Proc : drv[p].final \in {"none", "L"}

(* Options -i, -m and -u, "W/ that parameter, they set that option": when a  *)
(* driver that lost no command ends, each parameter given was sent.          *)
ParametersAreSet ==
    \A p \in Proc : LET d == drv[p]
                         sent(c) == c \in applied \/ \E k \in DOMAIN inbox : inbox[k] = c
                     IN  d.exit = "done" /\ d.lost = {} =>
                           /\ d.opt.interval = "value" => sent("SW")
                           /\ d.opt.mode = "value" => sent("MW")
                           /\ d.opt.user = "value" => sent("UW")
=============================================================================
