---------------------------- MODULE SimMainProofs ----------------------------
(***************************************************************************)
(* Theorems about the simulation program, for every delay and duration of  *)
(* the reset, every command line, and every set of files and memories.     *)
(***************************************************************************)
EXTENDS SimMain, TLAPS

-----------------------------------------------------------------------------
(* The inductive invariant.                                                *)

\* Where nothing has been simulated, and where the loop is.
SetupPcs == {"main", "options", "extensions", "memory", "start"}
LoopPcs  == {"announce", "clear", "dump", "check", "tick", "final"}

FlagsTypeOK ==
    /\ pc \in SetupPcs \cup LoopPcs \cup {"exited"}
    /\ clk \in BOOLEAN /\ reset \in BOOLEAN
    /\ tracing_possible_ \in BOOLEAN /\ tracing_enabled_ \in BOOLEAN
    /\ tracing_enabled_changed_ \in BOOLEAN /\ tracing_ever_enabled_ \in BOOLEAN
    /\ tracer_open \in BOOLEAN /\ announced \in BOOLEAN /\ raced \in BOOLEAN
    /\ request_stop_ \in BOOLEAN /\ simulation_success_ \in BOOLEAN
    /\ gotFinish \in BOOLEAN /\ failed \in BOOLEAN

CountsTypeOK ==
    /\ time_ \in Nat /\ time_ <= TimeCap
    /\ edges \in Nat /\ resets \in Nat
    /\ term_after_cycles_ \in Int /\ 2 * term_after_cycles_ <= TimeCap

\* A failure can be requested in the loop only, and is remembered.
StopInv ==
    /\ failed => ~simulation_success_ /\ pc \notin SetupPcs
    /\ pc = "exited" /\ failed => exit_code = 1

\* A trace that is on, or whose file is open, is remembered for the end.
TraceInv ==
    /\ tracing_enabled_ \/ tracer_open => tracing_ever_enabled_
    /\ tracing_ever_enabled_ => tracing_possible_
    /\ tracer_open => pc \in LoopPcs
    /\ (~tracing_enabled_changed_ \/ pc = "clear") /\ ~raced
          => announced = tracing_enabled_

\* The resets seen after a number of rising edges.
Window(n) ==
    IF n <= initial_reset_delay_cycles_ THEN 0
    ELSE IF n <= initial_reset_delay_cycles_ + reset_duration_cycles_
    THEN n - initial_reset_delay_cycles_ ELSE reset_duration_cycles_

\* The edges count the time, and reset is up in its window only.
ClockInv ==
    /\ time_ = 2 * edges - (IF clk THEN 1 ELSE 0)
    /\ pc \in SetupPcs => time_ = 0
    /\ reset => edges > initial_reset_delay_cycles_
    /\ resets = Window(edges)

\* A tick is made before the time is over, and the loop left for a reason.
TermInv ==
    /\ term_after_cycles_ > 0 => edges <= term_after_cycles_
    /\ pc = "tick" /\ term_after_cycles_ > 0 => time_ \div 2 < term_after_cycles_
    /\ pc = "final" => request_stop_ \/ gotFinish \/ TimedOut

CtrlInv == FlagsTypeOK /\ CountsTypeOK /\ StopInv /\ TraceInv /\ ClockInv /\ TermInv

\* What is held at each step of a load.
Held == [idle |-> {}, open |-> {}, begin |-> {"fd"}, inspect |-> {"fd", "elf"},
         copy |-> {"fd", "elf", "buf"}, words |-> {"buf"}, loaded |-> {},
         failed |-> {}]

LoadInv ==
    /\ "step" \in DOMAIN job
    /\ job.step \in DOMAIN Held
    /\ held = Held[job.step]
    /\ job.step \in {"idle", "loaded", "failed"} => svScope = NoScope

-----------------------------------------------------------------------------
(* Operators.                                                              *)

LEMMA Halves ==
    ASSUME NEW k \in Nat
    PROVE  (2 * k) \div 2 = k /\ (2 * k + 1) \div 2 = k
OBVIOUS

LEMMA TwoElements ==
    ASSUME NEW x \in Int, NEW y \in Int
    PROVE  /\ Max({x, y}) = IF x >= y THEN x ELSE y
           /\ Min({x, y}) = IF x <= y THEN x ELSE y
<1>1. \E m \in {x, y} : \A n \in {x, y} : m >= n
  OBVIOUS
<1>2. \E m \in {x, y} : \A n \in {x, y} : m <= n
  OBVIOUS
<1>3. Max({x, y}) \in {x, y} /\ \A n \in {x, y} : Max({x, y}) >= n
  BY <1>1 DEF Max
<1>4. Min({x, y}) \in {x, y} /\ \A n \in {x, y} : Min({x, y}) <= n
  BY <1>2 DEF Min
<1> QED
  BY <1>3, <1>4

-----------------------------------------------------------------------------
(* Steps.                                                                  *)

\* The steps up to the loop that do not parse the controller's options.
Setup == \/ Main \/ ParseCLIArguments \/ Loading \/ MemoryWritten
         \/ ExtensionsParsed \/ Start \/ OptionsParsed

\* They leave the clock, the traces and the stop requests alone.
LEMMA SetupFrame ==
    ASSUME FlagsTypeOK, Setup
    PROVE  /\ pc \in SetupPcs
           /\ pc' \in SetupPcs \cup {"announce", "exited"}
           /\ pc' \notin {"clear", "tick", "final"}
           /\ UNCHANGED <<term_after_cycles_, time_, clk, edges, resets,
                          tracing_possible_, traceVars, stopVars>>
           /\ reset' \in BOOLEAN /\ (reset' => reset)
<1>0. reset \in BOOLEAN
  BY DEF FlagsTypeOK
<1> USE <1>0 DEF SetupPcs, LoopPcs, parseVars, clockVars, traceVars, switchVars, stopVars
<1>1. CASE Main
  BY <1>1 DEF Main
<1>2. CASE ParseCLIArguments
  <2>1. /\ pc = "extensions"
        /\ UNCHANGED <<argv, term_after_cycles_, clockVars, tracing_possible_,
                       traceVars, stopVars>>
    BY <1>2 DEF ParseCLIArguments
  <2>2. pc' \in {"memory", "exited", "start", pc}
    BY <1>2 DEF ParseCLIArguments, Exit
  <2> QED
    BY <2>1, <2>2
<1>3. CASE Loading
  BY <1>3 DEF Loading, ctrlVars
<1>4. CASE MemoryWritten
  BY <1>4 DEF MemoryWritten, Exit
<1>5. CASE ExtensionsParsed
  BY <1>5 DEF ExtensionsParsed, Exit
<1>6. CASE Start
  BY <1>6 DEF Start
<1>7. CASE OptionsParsed
  BY <1>7 DEF OptionsParsed
<1> QED
  BY <1>1, <1>2, <1>3, <1>4, <1>5, <1>6, <1>7 DEF Setup

\* The state that the theorems about the loop speak of.
loopVars == <<pc, exit_code, term_after_cycles_, clockVars, tracing_possible_,
              traceVars, stopVars>>

\* What a step is, seen from the loop.
LEMMA StepCases ==
    ASSUME [Next]_vars
    PROVE  \/ Setup \/ ParseOption \/ Announce \/ Clear \/ Dump \/ Check \/ Final
           \/ \E stop \in {{}, {TRUE}, {FALSE}}, finish \in BOOLEAN :
                  Tick(stop, finish)
           \/ SigInt \/ SigUsr1
           \/ UNCHANGED loopVars
<1>1. CASE MainStep
  BY <1>1 DEF MainStep, RunStep, Setup
<1>2. CASE Signal
  BY <1>2 DEF Signal
<1>3. CASE UNCHANGED vars
  BY <1>3 DEF vars, ctrlVars, loopVars, parseVars
<1> QED
  BY <1>1, <1>2, <1>3 DEF Next, Exited

LEMMA Defs ==
    /\ SetupPcs = {"main", "options", "extensions", "memory", "start"}
    /\ LoopPcs = {"announce", "clear", "dump", "check", "tick", "final"}
BY DEF SetupPcs, LoopPcs

\* Nothing takes back a request to stop as a failure.
LEMMA StopStep ==
    ASSUME FlagsTypeOK, StopInv, [Next]_vars
    PROVE  StopInv'
<1>1. CASE Setup
  <2>1. /\ pc \in SetupPcs /\ pc' \in SetupPcs \cup {"announce", "exited"}
        /\ UNCHANGED stopVars
    BY <1>1, SetupFrame
  <2> QED
    BY <2>1, Defs DEF StopInv, stopVars
<1> USE Defs DEF StopInv, FlagsTypeOK
<1>2. CASE ParseOption
  BY <1>2 DEF ParseOption, stopVars, Exit
<1>3. CASE Announce
  BY <1>3 DEF Announce, stopVars
<1>4. CASE Clear
  BY <1>4 DEF Clear, stopVars
<1>5. CASE Dump
  BY <1>5 DEF Dump, stopVars
<1>6. CASE Check
  BY <1>6 DEF Check, stopVars
<1>7. CASE Final
  BY <1>7 DEF Final, Exit, stopVars
<1>8. ASSUME NEW stop \in {{}, {TRUE}, {FALSE}}, NEW finish \in BOOLEAN,
             Tick(stop, finish)
      PROVE  StopInv'
  BY <1>8 DEF Tick, RequestStop, Success
<1>9. CASE SigInt
  BY <1>9 DEF SigInt, RequestStop, Success, HandlersRegistered
<1>10. CASE SigUsr1
  BY <1>10 DEF SigUsr1, HandlersRegistered, stopVars
<1>11. CASE UNCHANGED loopVars
  BY <1>11 DEF loopVars, stopVars
<1> QED
  BY <1>1, <1>2, <1>3, <1>4, <1>5, <1>6, <1>7, <1>8, <1>9, <1>10, <1>11,
     StepCases

\* Switching a trace, from the command line or by a signal.
LEMMA TraceInvStep ==
    ASSUME FlagsTypeOK, TraceInv, [Next]_vars
    PROVE  TraceInv'
<1>1. CASE Setup
  <2>1. /\ pc \in SetupPcs /\ pc' # "clear"
        /\ UNCHANGED <<tracing_possible_, traceVars>>
    BY <1>1, SetupFrame
  <2> QED
    BY <2>1, Defs DEF TraceInv, traceVars, switchVars
<1> USE Defs DEF TraceInv, FlagsTypeOK, traceVars, switchVars
<1>2. CASE ParseOption
  BY <1>2 DEF ParseOption, Exit, TraceOn
<1>3. CASE Announce
  BY <1>3 DEF Announce
<1>4. CASE Clear
  BY <1>4 DEF Clear
<1>5. CASE Dump
  BY <1>5 DEF Dump
<1>6. CASE Check
  BY <1>6 DEF Check
<1>7. CASE Final
  BY <1>7 DEF Final, Exit, ClosesTrace
<1>8. ASSUME NEW stop \in {{}, {TRUE}, {FALSE}}, NEW finish \in BOOLEAN,
             Tick(stop, finish)
      PROVE  TraceInv'
  BY <1>8 DEF Tick
<1>9. CASE SigInt
  BY <1>9 DEF SigInt
<1>10. CASE SigUsr1
  BY <1>10 DEF SigUsr1, HandlersRegistered, TraceOn, TraceOff, OffChanges
<1>11. CASE UNCHANGED loopVars
  BY <1>11 DEF loopVars
<1> QED
  BY <1>1, <1>2, <1>3, <1>4, <1>5, <1>6, <1>7, <1>8, <1>9, <1>10, <1>11,
     StepCases

LEMMA FlagsStep ==
    ASSUME FlagsTypeOK, [Next]_vars
    PROVE  FlagsTypeOK'
<1>1. CASE Setup
  <2>1. /\ pc' \in SetupPcs \cup {"announce", "exited"}
        /\ reset' \in BOOLEAN /\ (reset' => reset)
        /\ UNCHANGED <<clk, tracing_possible_, traceVars, stopVars>>
    BY <1>1, SetupFrame
  <2> QED
    BY <2>1, Defs DEF FlagsTypeOK, traceVars, switchVars, stopVars
<1> USE Defs DEF FlagsTypeOK, traceVars, switchVars, stopVars, clockVars
<1>2. CASE ParseOption
  BY <1>2 DEF ParseOption, Exit, TraceOn
<1>3. CASE Announce
  BY <1>3 DEF Announce
<1>4. CASE Clear
  BY <1>4, ZenonT(30) DEF Clear
<1>5. CASE Dump
  BY <1>5 DEF Dump
<1>6. CASE Check
  BY <1>6 DEF Check
<1>7. CASE Final
  BY <1>7 DEF Final, Exit
<1>8. ASSUME NEW stop \in {{}, {TRUE}, {FALSE}}, NEW finish \in BOOLEAN,
             Tick(stop, finish)
      PROVE  FlagsTypeOK'
  BY <1>8, ZenonT(30) DEF Tick, RequestStop, Success
<1>9. CASE SigInt
  BY <1>9 DEF SigInt, RequestStop, Success
<1>10. CASE SigUsr1
  BY <1>10, ZenonT(30) DEF SigUsr1, TraceOn, TraceOff, OffChanges
<1>11. CASE UNCHANGED loopVars
  BY <1>11 DEF loopVars
<1> QED
  BY <1>1, <1>2, <1>3, <1>4, <1>5, <1>6, <1>7, <1>8, <1>9, <1>10, <1>11,
     StepCases

-----------------------------------------------------------------------------
(* The clock.                                                              *)

LEMMA CapIsEven == \E h \in Nat : TimeCap = 2 * h
BY SimCtrlAssumption

\* The argument of -c is a number or counts as 0.
LEMMA AtoiType ==
    ASSUME NEW arg
    PROVE  Atoi(arg) \in Int /\ 2 * Atoi(arg) <= TimeCap
BY SimCtrlAssumption DEF Atoi

\* Half a clock period: a rising edge is counted unless the time is capped,
\* which it is only behind the reset.
LEMMA TickEdge ==
    ASSUME FlagsTypeOK, CountsTypeOK, ClockInv,
           NEW stop, NEW finish, Tick(stop, finish)
    PROVE  /\ time_' \in Nat /\ time_' <= TimeCap
           /\ edges' \in Nat /\ resets' \in Nat
           /\ ClockInv'
           /\ edges' = edges
              \/ (edges' = edges + 1 /\ time_ = 2 * edges /\ time_ \div 2 = edges)
<1>1. PICK h \in Nat : TimeCap = 2 * h
  BY CapIsEven
<1>2. /\ initial_reset_delay_cycles_ \in Nat /\ reset_duration_cycles_ \in Nat
      /\ TimeCap \in Nat /\ TimeCap > 2 * (initial_reset_delay_cycles_ + reset_duration_cycles_)
  BY SimCtrlAssumption
<1> DEFINE d == initial_reset_delay_cycles_
           n == reset_duration_cycles_
<1>3. /\ clk \in BOOLEAN /\ reset \in BOOLEAN
      /\ time_ \in Nat /\ time_ <= TimeCap /\ edges \in Nat /\ resets \in Nat
      /\ time_ = 2 * edges - (IF clk THEN 1 ELSE 0)
      /\ reset => edges > d
      /\ resets = Window(edges)
  BY DEF FlagsTypeOK, CountsTypeOK, ClockInv
<1>4. /\ reset' = IF time_ \div 2 >= n + d THEN FALSE
                  ELSE IF time_ \div 2 >= d THEN TRUE ELSE reset
      /\ clk' = ~clk
      /\ time_' = IF time_ < TimeCap THEN time_ + 1 ELSE TimeCap - 1
      /\ IF clk' /\ time_ < TimeCap - 1
         THEN edges' = edges + 1 /\ resets' = resets + (IF reset' THEN 1 ELSE 0)
         ELSE UNCHANGED <<edges, resets>>
      /\ pc' = "announce"
  BY DEF Tick, ResetEnds, ResetBegins
<1>5. pc' \notin SetupPcs
  BY <1>4 DEF SetupPcs
<1> DEFINE Goal == /\ time_' \in Nat /\ time_' <= TimeCap
                   /\ edges' \in Nat /\ resets' \in Nat
                   /\ time_' = 2 * edges' - (IF clk' THEN 1 ELSE 0)
                   /\ reset' => edges' > d
                   /\ resets' = Window(edges')
                   /\ edges' = edges
                      \/ /\ edges' = edges + 1
                         /\ time_ = 2 * edges /\ time_ \div 2 = edges
<1> SUFFICES Goal
  BY <1>5 DEF Goal, ClockInv, Window
<1>6. CASE ~clk /\ time_ < TimeCap
  <2>1. time_ = 2 * edges /\ time_ \div 2 = edges
    BY <1>3, <1>6, Halves
  <2>2. time_ < TimeCap - 1
    BY <1>1, <1>3, <1>6, <2>1
  <2>3. clk' /\ time_' = time_ + 1 /\ edges' = edges + 1
    BY <1>4, <1>6, <2>2
  <2>4. reset' <=> d <= edges /\ edges < n + d
    BY <1>2, <1>3, <1>4, <2>1
  <2>5. resets' = resets + (IF reset' THEN 1 ELSE 0)
    BY <1>4, <1>6, <2>2
  <2>6. resets' = Window(edges + 1)
    BY <1>2, <1>3, <2>4, <2>5 DEF Window
  <2> QED
    BY <1>1, <1>2, <1>3, <2>1, <2>2, <2>3, <2>4, <2>5, <2>6 DEF Goal
<1>7. CASE clk
  <2>1. edges >= 1 /\ time_ = 2 * (edges - 1) + 1 /\ edges - 1 \in Nat
    BY <1>3, <1>7
  <2>2. time_ \div 2 = edges - 1
    BY <2>1, Halves
  <2>3. time_ < TimeCap
    BY <1>1, <1>3, <2>1
  <2>4. ~clk' /\ time_' = time_ + 1 /\ edges' = edges /\ resets' = resets
    BY <1>4, <1>7, <2>3
  <2>5. reset' => edges > d
    <3>1. reset' => edges - 1 >= d \/ reset
      BY <1>3, <1>4, <2>2
    <3> QED
      BY <1>2, <1>3, <2>1, <3>1
  <2> QED
    BY <1>1, <1>3, <2>1, <2>3, <2>4, <2>5 DEF Goal
<1>8. CASE ~clk /\ time_ >= TimeCap
  <2>1. time_ = 2 * edges /\ time_ = TimeCap /\ time_ \div 2 = edges
    BY <1>1, <1>3, <1>8, Halves
  <2>2. clk' /\ time_' = TimeCap - 1 /\ edges' = edges /\ resets' = resets
    <3>1. ~(time_ < TimeCap) /\ ~(time_ < TimeCap - 1)
      BY <1>1, <1>3, <2>1
    <3> QED
      BY <1>4, <1>8, <3>1
  <2>3. ~reset'
    BY <1>2, <1>3, <1>4, <2>1
  <2>4. TimeCap >= 1
    BY <1>2
  <2> QED
    BY <1>1, <1>3, <2>1, <2>2, <2>3, <2>4 DEF Goal
<1>9. time_ < TimeCap \/ time_ >= TimeCap
  BY <1>2, <1>3
<1> QED
  BY <1>6, <1>7, <1>8, <1>9

LEMMA CountsStep ==
    ASSUME FlagsTypeOK, CountsTypeOK, ClockInv, [Next]_vars
    PROVE  CountsTypeOK'
<1> USE DEF CountsTypeOK
<1>1. CASE Setup
  <2>1. UNCHANGED <<term_after_cycles_, time_, edges, resets>>
    BY <1>1, SetupFrame
  <2> QED
    BY <2>1
<1>2. CASE ParseOption
  <2>1. /\ UNCHANGED clockVars
        /\ \E arg : term_after_cycles_' \in {Atoi(arg), term_after_cycles_}
    BY <1>2 DEF ParseOption
  <2> QED
    BY <2>1, AtoiType DEF clockVars
<1>3. ASSUME NEW stop \in {{}, {TRUE}, {FALSE}}, NEW finish \in BOOLEAN,
             Tick(stop, finish)
      PROVE  CountsTypeOK'
  <2>1. UNCHANGED term_after_cycles_
    BY <1>3 DEF Tick, parseVars
  <2> QED
    BY <1>3, <2>1, TickEdge
<1>4. CASE UNCHANGED <<parseVars, clockVars>>
  BY <1>4 DEF parseVars, clockVars
<1>5. CASE UNCHANGED loopVars
  BY <1>5 DEF loopVars, clockVars
<1>6. Announce \/ Clear \/ Dump \/ Check \/ Final \/ SigInt \/ SigUsr1
        => UNCHANGED <<parseVars, clockVars>>
  BY DEF Announce, Clear, Dump, Check, Final, SigInt, SigUsr1
<1> QED
  BY <1>1, <1>2, <1>3, <1>4, <1>5, <1>6, StepCases

LEMMA ClockStep ==
    ASSUME FlagsTypeOK, CountsTypeOK, ClockInv, [Next]_vars
    PROVE  ClockInv'
<1>1. CASE Setup
  <2>1. /\ pc \in SetupPcs
        /\ UNCHANGED <<time_, clk, edges, resets>> /\ (reset' => reset)
    BY <1>1, SetupFrame
  <2> QED
    BY <2>1 DEF ClockInv, Window
<1>2. CASE ParseOption
  <2>1. UNCHANGED clockVars /\ pc \in SetupPcs
    BY <1>2, Defs DEF ParseOption
  <2> QED
    BY <2>1 DEF ClockInv, Window, clockVars
<1>3. ASSUME NEW stop \in {{}, {TRUE}, {FALSE}}, NEW finish \in BOOLEAN,
             Tick(stop, finish)
      PROVE  ClockInv'
  BY <1>3, TickEdge
<1>4. CASE UNCHANGED clockVars /\ (pc' \in SetupPcs => pc \in SetupPcs)
  BY <1>4 DEF ClockInv, Window, clockVars
<1>5. UNCHANGED loopVars => UNCHANGED <<pc, clockVars>>
  BY DEF loopVars
<1>6. Announce \/ Clear \/ Dump \/ Check \/ Final \/ SigInt \/ SigUsr1
        => UNCHANGED clockVars /\ (pc' \in SetupPcs => pc \in SetupPcs)
  BY Defs DEF Announce, Clear, Dump, Check, Final, Exit, SigInt, SigUsr1
<1> QED
  BY <1>1, <1>2, <1>3, <1>4, <1>5, <1>6, StepCases

\* The loop goes on as long as it has to, and not longer.
LEMMA TermStep ==
    ASSUME FlagsTypeOK, CountsTypeOK, ClockInv, TermInv, [Next]_vars
    PROVE  TermInv'
<1> USE Defs DEF TermInv, TimedOut
<1>1. CASE Setup
  <2>1. /\ pc' \notin {"tick", "final"}
        /\ UNCHANGED <<term_after_cycles_, edges>>
    BY <1>1, SetupFrame
  <2> QED
    BY <2>1
<1>2. CASE ParseOption
  <2>1. pc' \notin {"tick", "final"} /\ UNCHANGED clockVars /\ pc \in SetupPcs
    BY <1>2 DEF ParseOption, Exit
  <2>2. edges = 0
    BY <2>1 DEF ClockInv, CountsTypeOK, FlagsTypeOK
  <2>3. term_after_cycles_' \in Int
    BY CountsStep DEF CountsTypeOK
  <2> QED
    BY <2>1, <2>2, <2>3 DEF clockVars
<1>3. ASSUME NEW stop \in {{}, {TRUE}, {FALSE}}, NEW finish \in BOOLEAN,
             Tick(stop, finish)
      PROVE  TermInv'
  <2>1. pc = "tick" /\ pc' = "announce" /\ UNCHANGED term_after_cycles_
    BY <1>3 DEF Tick, parseVars
  <2>2. edges' = edges \/ (edges' = edges + 1 /\ time_ \div 2 = edges)
    BY <1>3, TickEdge
  <2> QED
    BY <2>1, <2>2 DEF CountsTypeOK
<1>4. CASE Announce \/ Clear
  BY <1>4 DEF Announce, Clear, parseVars, clockVars, stopVars
<1>5. CASE Dump
  <2>1. 0 \div 2 = 0
    BY Halves
  <2> QED
    BY <1>5, <2>1 DEF Dump, parseVars, clockVars, stopVars, CountsTypeOK
<1>6. CASE Check
  <2>1. time_ \div 2 \in Int
    BY DEF CountsTypeOK
  <2> QED
    BY <1>6, <2>1 DEF Check, LoopEnds, parseVars, clockVars, stopVars, CountsTypeOK
<1>7. CASE Final
  BY <1>7 DEF Final, Exit, parseVars, clockVars
<1>8. CASE SigInt
  BY <1>8 DEF SigInt, RequestStop, parseVars, clockVars
<1>9. CASE SigUsr1
  BY <1>9 DEF SigUsr1, parseVars, clockVars, stopVars
<1>10. CASE UNCHANGED loopVars
  BY <1>10 DEF loopVars, clockVars, stopVars
<1> QED
  BY <1>1, <1>2, <1>3, <1>4, <1>5, <1>6, <1>7, <1>8, <1>9, <1>10, StepCases

-----------------------------------------------------------------------------
(* The loader.                                                             *)

LEMMA HeldValues ==
    /\ DOMAIN Held = {"idle", "open", "begin", "inspect", "copy", "words",
                      "loaded", "failed"}
    /\ Held["idle"] = {} /\ Held["open"] = {} /\ Held["begin"] = {"fd"}
    /\ Held["inspect"] = {"fd", "elf"} /\ Held["copy"] = {"fd", "elf", "buf"}
    /\ Held["words"] = {"buf"} /\ Held["loaded"] = {} /\ Held["failed"] = {}
BY DEF Held

\* A step of the load in progress.
LEMMA AdvanceJob ==
    ASSUME "step" \in DOMAIN job, NEW step
    PROVE  /\ "step" \in DOMAIN [job EXCEPT !.step = step]
           /\ [job EXCEPT !.step = step].step = step
OBVIOUS

\* MemWrite begins with nothing held, and leaves nothing when it ends at once.
LEMMA MemWriteStep ==
    ASSUME LoadInv, NEW name, NEW path, NEW type, MemWrite(name, path, type)
    PROVE  LoadInv'
<1>1. /\ job.step = "idle"
      /\ UNCHANGED held
      /\ \/ \E area : job' = [step |-> "open", path |-> path, area |-> area]
         \/ /\ UNCHANGED svScope
            /\ \E ok : job' = [step |-> IF ok THEN "loaded" ELSE "failed"]
  BY DEF MemWrite, Ends
<1>2. held = {} /\ svScope = NoScope
  BY <1>1, HeldValues DEF LoadInv
<1>3. CASE \E area : job' = [step |-> "open", path |-> path, area |-> area]
  BY <1>1, <1>2, <1>3, HeldValues DEF LoadInv
<1>4. CASE /\ UNCHANGED svScope
           /\ \E ok : job' = [step |-> IF ok THEN "loaded" ELSE "failed"]
  BY <1>1, <1>2, <1>4, HeldValues DEF LoadInv
<1> QED
  BY <1>1, <1>3, <1>4

\* Whichever call fails, the exit it takes releases what is held there.
LEMMA LoadStepStep ==
    ASSUME LoadInv, LoadStep
    PROVE  LoadInv'
<1> USE HeldValues
<1> DEFINE Advances(step) == job' = [job EXCEPT !.step = step]
<1>1. \A h : LoadFails(h) /\ h \subseteq {"buf"} => LoadInv'
  <2> SUFFICES ASSUME NEW h, LoadFails(h), h \subseteq {"buf"}
               PROVE  LoadInv'
    OBVIOUS
  <2>1. job' = [step |-> "failed"] /\ held' = {} /\ svScope' = NoScope
    BY DEF LoadFails, Ends
  <2> QED
    BY <2>1 DEF LoadInv
<1>2. ASSUME NEW ok \in BOOLEAN, OpenElf(ok)
      PROVE  LoadInv'
  <2>1. held = {}
    BY <1>2 DEF OpenElf, LoadInv
  <2>2. \/ Advances("begin") /\ held' = {"fd"}
        \/ LoadFails(held)
    BY <1>2 DEF OpenElf
  <2> QED
    BY <1>1, <2>1, <2>2, AdvanceJob DEF LoadInv
<1>3. ASSUME NEW ok \in BOOLEAN, BeginElf(ok)
      PROVE  LoadInv'
  <2>1. held = {"fd"}
    BY <1>3 DEF BeginElf, LoadInv
  <2>2. \/ Advances("inspect") /\ held' = held \cup {"elf"}
        \/ LoadFails(ReturnFdEnd(held))
    BY <1>3 DEF BeginElf
  <2>3. ReturnFdEnd(held) \subseteq {"buf"}
    BY <2>1 DEF ReturnFdEnd
  <2>4. held \cup {"elf"} = {"fd", "elf"}
    BY <2>1
  <2> QED
    BY <1>1, <2>2, <2>3, <2>4, AdvanceJob DEF LoadInv
<1>4. ASSUME NEW ok \in BOOLEAN, InspectElf(ok)
      PROVE  LoadInv'
  <2>1. held = {"fd", "elf"}
    BY <1>4 DEF InspectElf, LoadInv
  <2>2. \/ Advances("copy") /\ held' = held \cup {"buf"}
        \/ LoadFails(ReturnElfEnd(held))
    BY <1>4 DEF InspectElf
  <2>3. ReturnElfEnd(held) \subseteq {"buf"}
    BY <2>1 DEF ReturnElfEnd, ReturnFdEnd
  <2>4. held \cup {"buf"} = {"fd", "elf", "buf"}
    BY <2>1
  <2> QED
    BY <1>1, <2>2, <2>3, <2>4, AdvanceJob DEF LoadInv
<1>5. ASSUME NEW ok \in BOOLEAN, CopySegments(ok)
      PROVE  LoadInv'
  <2>1. held = {"fd", "elf", "buf"}
    BY <1>5 DEF CopySegments, LoadInv
  <2>2. \/ Advances("words") /\ held' = ReturnElfEnd(held)
        \/ LoadFails(ReturnElfEnd(held \ {"buf"}))
    BY <1>5 DEF CopySegments
  <2>3. ReturnElfEnd(held \ {"buf"}) \subseteq {"buf"}
    BY <2>1 DEF ReturnElfEnd, ReturnFdEnd
  <2>4. ReturnElfEnd(held) = {"buf"}
    BY <2>1 DEF ReturnElfEnd, ReturnFdEnd
  <2> QED
    BY <1>1, <2>2, <2>3, <2>4, AdvanceJob DEF LoadInv
<1>6. CASE WriteWords
  <2>1. held = {"buf"}
    BY <1>6 DEF WriteWords, LoadInv
  <2>2. /\ job' \in {[step |-> "loaded"], [step |-> "failed"]}
        /\ svScope' = NoScope /\ held' = held \ {"buf"}
    BY <1>6 DEF WriteWords, Ends
  <2> QED
    BY <2>1, <2>2 DEF LoadInv
<1> QED
  BY <1>2, <1>3, <1>4, <1>5, <1>6 DEF LoadStep

LEMMA LoadInvStep ==
    ASSUME LoadInv, [Next]_vars
    PROVE  LoadInv'
<1>1. CASE UNCHANGED <<job, held, svScope>>
  BY <1>1 DEF LoadInv
<1>2. CASE ParseCLIArguments
  <2>1. \/ \E name, path, type : MemWrite(name, path, type)
        \/ UNCHANGED memVars
    BY <1>2 DEF ParseCLIArguments
  <2> QED
    BY <1>1, <2>1, MemWriteStep DEF memVars
<1>3. CASE Loading
  BY <1>3, LoadStepStep DEF Loading
<1>4. CASE MemoryWritten
  <2>1. /\ job.step \in {"loaded", "failed"} /\ job' = Idle
        /\ UNCHANGED <<held, svScope>>
    BY <1>4 DEF MemoryWritten
  <2> QED
    BY <2>1, HeldValues DEF LoadInv, Idle
<1>5. Main \/ ExtensionsParsed \/ Start => UNCHANGED <<job, held, svScope>>
  BY DEF Main, RegisterMemoryArea, ExtensionsParsed, Start, memVars
<1>6. UNCHANGED memVars => UNCHANGED <<job, held, svScope>>
  BY DEF memVars
<1> QED
  BY <1>1, <1>2, <1>3, <1>4, <1>5, <1>6 DEF Next, MainStep, Exited, vars

-----------------------------------------------------------------------------
(* Theorems.                                                               *)

IInv == CtrlInv /\ LoadInv

\* What the proofs rest on: the invariant holds initially and is kept by
\* every step of the program and by every signal.
THEOREM Invariance == Spec => []IInv
<1>1. Init => IInv
  <2> SUFFICES ASSUME Init
               PROVE  IInv
    OBVIOUS
  <2>1. FlagsTypeOK /\ StopInv /\ TraceInv
    BY Defs DEF Init, CtrlInit, FlagsTypeOK, StopInv, TraceInv
  <2>2. TermInv
    BY DEF Init, CtrlInit, TermInv
  <2>3. CountsTypeOK
    BY SimCtrlAssumption DEF Init, CtrlInit, CountsTypeOK
  <2>4. ClockInv
    <3>1. /\ time_ = 0 /\ edges = 0 /\ resets = 0 /\ ~clk /\ ~reset
          /\ initial_reset_delay_cycles_ \in Nat
      BY SimCtrlAssumption DEF Init, CtrlInit
    <3>2. Window(edges) = 0
      BY <3>1 DEF Window
    <3>3. time_ = 2 * edges - (IF clk THEN 1 ELSE 0)
      <4>1. (IF clk THEN 1 ELSE 0) = 0
        BY <3>1
      <4>2. time_ = 2 * edges - 0
        BY <3>1
      <4> QED
        BY <4>1, <4>2
    <3> QED
      BY <3>1, <3>2, <3>3 DEF ClockInv
  <2>5. LoadInv
    BY HeldValues DEF Init, MemInit, LoadInv, Idle
  <2> QED
    BY <2>1, <2>2, <2>3, <2>4, <2>5 DEF IInv, CtrlInv
<1>2. IInv /\ [Next]_vars => IInv'
  BY FlagsStep, CountsStep, StopStep, TraceInvStep, ClockStep, TermStep,
     LoadInvStep DEF IInv, CtrlInv
<1> QED
  BY <1>1, <1>2, PTL DEF Spec

\* A failure that any stop request reports decides the exit code, whatever
\* requests come before or after it (RequestStop).
THEOREM FailureKept == Spec => []FailureSticks
<1>1. IInv => FailureSticks
  BY DEF IInv, CtrlInv, StopInv, FailureSticks
<1> QED
  BY <1>1, Invariance, PTL

\* The design sees reset for the configured number of rising edges after the
\* configured delay, for every delay and duration (SetInitialResetDelay).
THEOREM ResetAsConfigured == Spec => []ResetWindow
<1>1. IInv => ResetWindow
  <2> SUFFICES ASSUME IInv
               PROVE  ResetWindow
    OBVIOUS
  <2> DEFINE d == edges - initial_reset_delay_cycles_
             n == reset_duration_cycles_
  <2>1. d \in Int /\ n \in Nat /\ edges \in Nat
        /\ initial_reset_delay_cycles_ \in Nat
    BY SimCtrlAssumption DEF IInv, CtrlInv, CountsTypeOK
  <2> HIDE DEF d, n
  <2>2. Min({d, n}) = IF d <= n THEN d ELSE n
    BY <2>1, TwoElements
  <2>3. Max({0, Min({d, n})}) = IF 0 >= Min({d, n}) THEN 0 ELSE Min({d, n})
    BY <2>1, <2>2, TwoElements
  <2>4. resets = Window(edges)
    BY DEF IInv, CtrlInv, ClockInv
  <2> QED
    BY <2>1, <2>2, <2>3, <2>4 DEF Window, ResetWindow, d, n
<1> QED
  BY <1>1, Invariance, PTL

\* --term-after-cycles=N runs N cycles, and fewer only after another request
\* to stop (the loop of RunSimulation).
THEOREM TerminationExact == Spec => []TermExact
<1>1. IInv => TermExact
  <2> SUFFICES ASSUME IInv, term_after_cycles_ > 0
               PROVE  /\ edges <= term_after_cycles_
                      /\ pc = "final" /\ ~request_stop_ /\ ~gotFinish
                            => edges = term_after_cycles_
    BY DEF TermExact
  <2>1. /\ edges \in Nat /\ time_ \in Nat /\ term_after_cycles_ \in Int
        /\ clk \in BOOLEAN
        /\ edges <= term_after_cycles_
        /\ time_ = 2 * edges - (IF clk THEN 1 ELSE 0)
    BY DEF IInv, CtrlInv, CountsTypeOK, FlagsTypeOK, ClockInv, TermInv
  <2>2. time_ \div 2 <= edges
    <3>1. CASE clk
      <4>1. time_ = 2 * (edges - 1) + 1 /\ edges - 1 \in Nat
        BY <2>1, <3>1
      <4> QED
        BY <2>1, <4>1, Halves
    <3>2. CASE ~clk
      BY <2>1, <3>2, Halves
    <3> QED
      BY <2>1, <3>1, <3>2
  <2>3. pc = "final" /\ ~request_stop_ /\ ~gotFinish
           => time_ \div 2 >= term_after_cycles_
    BY DEF IInv, CtrlInv, TermInv, TimedOut
  <2> QED
    BY <2>1, <2>2, <2>3
<1> QED
  BY <1>1, Invariance, PTL

\* A trace file that was opened is closed when the program ends, however
\* often tracing was switched (the end of Run).
THEOREM TraceClosed == Spec => []TraceFileClosed
<1>1. IInv => TraceFileClosed
  BY Defs DEF IInv, CtrlInv, TraceInv, TraceFileClosed
<1> QED
  BY <1>1, Invariance, PTL

\* The messages follow the switching of the trace unless a signal comes
\* between a message and its acknowledgement (Trace).
THEOREM ChangesToldOf == Spec => []ChangesAnnounced
<1>1. IInv => ChangesAnnounced
  BY DEF IInv, CtrlInv, TraceInv, ChangesAnnounced
<1> QED
  BY <1>1, Invariance, PTL

\* No descriptor, ELF handle, buffer or scope outlives a load, whichever call
\* fails in it (the exits of ElfFileToBinary and WriteElfToMem).
THEOREM NothingLeft == Spec => []LoadLeavesNothing
<1>1. IInv => LoadLeavesNothing
  BY HeldValues DEF IInv, LoadInv, LoadLeavesNothing
<1> QED
  BY <1>1, Invariance, PTL
=============================================================================
