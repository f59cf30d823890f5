---------------------------- MODULE SimpleSystem ----------------------------
(***************************************************************************)
(* The hello-world program of the simple system                            *)
(* (examples/sw/simple_system/common/simple_system_common.c and            *)
(* hello_test/hello_test.c) on its timer and on the core's counters.       *)
(*                                                                         *)
(* A step is a clock cycle.  In it the core does nothing, or an access to  *)
(* the timer, a CSR or a variable, or takes the timer interrupt; while the *)
(* timer is in use at most MaxIdle cycles pass between two of these.       *)
(* The two parts of main share no state, and a behaviour is one of them.   *)
(***************************************************************************)
EXTENDS Timer, Sequences

CONSTANTS
    Increments,     \* the values of time_base
    BootTimes,      \* values of mtime when main is called
    BootCounts,     \* values of the counters then
    TickLimit,      \* main's loop ends after more ticks than this
    MaxIdle,        \* bound: idle cycles between two steps of the core
    MaxTime         \* bound: mtime stops here

ASSUME SimpleSystemAssumption ==
    /\ Increments \subseteq Nat /\ BootTimes \subseteq 0 .. MaxTime - 1
    /\ BootCounts \subseteq Nat /\ TickLimit \in Nat
    /\ MaxIdle \in Nat /\ MaxTime \in Nat

VARIABLES
    mpc,            \* where main is
    hpc,            \* where the interrupt handler is, or "none"
    rd_h, rd_l,     \* locals of timer_read
    new_time,       \* the argument of timecmp_update
    time_increment, time_elapsed, last_elapsed_time,
    mie, mstatus_mie,
    mcountinhibit,  \* both counters are stopped
    counts,         \* minstret and mcycle
    cleared,        \* instructions of pcount_reset executed
    idle,           \* cycles since the last step
    called,         \* history: mtime when timer_read was called
    measured        \* history: what the counters have to show

readVars  == <<rd_h, rd_l, new_time, called>>
tickVars  == <<time_increment, time_elapsed, last_elapsed_time>>
csrVars   == <<mie, mstatus_mie, mcountinhibit, cleared>>
countVars == <<counts, measured>>
vars == <<timerVars, mpc, hpc, readVars, tickVars, csrVars, countVars, idle>>

Counters == {"minstret", "mcycle"}
HighOf   == [minstret |-> "minstreth", mcycle |-> "mcycleh"]

-----------------------------------------------------------------------------
(* A clock cycle.                                                          *)

\* Whether main measures, its last instruction included.
Measures == mpc \in {"puts", "off2"}

\* The core retires an instruction in the cycle, or none.
CountersClock(a, retire) ==
    LET inc == [minstret |-> retire, mcycle |-> TRUE]
    IN  /\ counts' = [c \in Counters |->
              CounterD(counts[c], a, c, HighOf[c], inc[c] /\ ~mcountinhibit)]
        /\ measured' = [c \in Counters |->
              measured[c] + (IF Measures /\ inc[c] THEN 1 ELSE 0)]

Clock(a, retire) == /\ mtime_q < MaxTime
                    /\ TimerClock(a)
                    /\ CountersClock(a, retire)

Asleep == mpc = "asleep" /\ hpc = "none"

\* The printing and whatever precedes main's use of the timer take any time.
Waits == mpc \in {"puts", "enable"} \/ (Asleep /\ ~interrupt_q)

Idle == /\ Waits \/ idle < MaxIdle
        /\ idle' = IF Waits THEN 0 ELSE idle + 1
        /\ Clock(NoAccess, FALSE)
        /\ UNCHANGED <<mpc, hpc, readVars, tickVars, csrVars>>

\* An enabled interrupt is taken before the next instruction.
Interrupted == interrupt_q /\ mie /\ mstatus_mie

\* One instruction of main or of the handler.
Step(a) == ~Interrupted /\ Clock(a, TRUE) /\ idle' = 0

MainAt(at, next) == hpc = "none" /\ mpc = at /\ mpc' = next /\ UNCHANGED hpc

-----------------------------------------------------------------------------
(* Performance counters: main before timer_enable.                         *)

PcountEnable(at, next, enable) ==
    /\ MainAt(at, next)
    /\ Step(NoAccess)
    /\ mcountinhibit' = ~enable
    /\ UNCHANGED <<readVars, tickVars, mie, mstatus_mie, cleared>>

\* Defect for the model's own test: only the low halves are cleared.
ResetOrderLow == <<"minstret", "mcycle">>

\* The order in which pcount_reset clears the halves of the counters.
ResetOrder == <<"minstret", "mcycle", "minstreth", "mcycleh">>

PcountReset ==
    /\ cleared < Len(ResetOrder)
    /\ MainAt("reset", IF cleared + 1 = Len(ResetOrder) THEN "on" ELSE "reset")
    /\ Step(Write(ResetOrder[cleared + 1], 0))
    /\ cleared' = cleared + 1
    /\ UNCHANGED <<readVars, tickVars, mie, mstatus_mie, mcountinhibit>>

\* puts, puthex and putchar, any number of instructions.
Puts == /\ \E next \in {"puts", "off2"} : MainAt("puts", next)
        /\ Step(NoAccess)
        /\ UNCHANGED <<readVars, tickVars, csrVars>>

-----------------------------------------------------------------------------
(* increment_timecmp, in main (inlined in timer_enable) or in the handler. *)

Pc == IF hpc = "none" THEN mpc ELSE hpc
GoesTo(next) == IF hpc = "none" THEN mpc' = next /\ UNCHANGED hpc
                                ELSE hpc' = next /\ UNCHANGED mpc

\* Defect: the result is not checked.
ReadAgainNever(h) == FALSE

\* The high word has changed since it was read.
ReadAgain(h) == h # Rdata("MTIMEH")

\* timer_read, and the addition of the increment.
ReadHigh == /\ Pc = "read_h" /\ GoesTo("read_l") /\ Step(NoAccess)
            /\ rd_h' = Rdata("MTIMEH")
            /\ called' = mtime_q
            /\ UNCHANGED <<rd_l, new_time, tickVars, csrVars>>

ReadLow == /\ Pc = "read_l" /\ GoesTo("check_h") /\ Step(NoAccess)
           /\ rd_l' = Rdata("MTIME")
           /\ UNCHANGED <<rd_h, new_time, called, tickVars, csrVars>>

CheckHigh ==
    /\ Pc = "check_h" /\ Step(NoAccess)
    /\ IF ReadAgain(rd_h)
       THEN GoesTo("read_h") /\ UNCHANGED <<rd_h, rd_l, new_time, called>>
       ELSE /\ GoesTo("write_max")
            /\ new_time' = Join(rd_h, rd_l) + time_increment
            /\ rd_h' = 0 /\ rd_l' = 0
            /\ UNCHANGED called
    /\ UNCHANGED <<tickVars, csrVars>>

\* timecmp_update.
Compare(at, next, reg, val) ==
    /\ Pc = at /\ GoesTo(next)
    /\ Step(Write(reg, val))
    /\ UNCHANGED <<readVars, tickVars, csrVars>>

UpdateCompare ==
    \/ Compare("write_max", "write_h", "MTIMECMP", B - 1)
    \/ Compare("write_h", "write_l", "MTIMECMPH", High(new_time))
    \/ Compare("write_l", "updated", "MTIMECMP", Low(new_time))

-----------------------------------------------------------------------------
(* timer_enable and the rest of main.                                      *)

TimerEnable ==
    /\ MainAt("enable", "read_h") /\ Step(NoAccess)
    /\ time_elapsed' = 0
    /\ time_increment' \in Increments
    /\ UNCHANGED <<last_elapsed_time, readVars, csrVars>>

EnableTimerIrq == /\ MainAt("updated", "mstatus") /\ Step(NoAccess)
                  /\ mie' = TRUE
                  /\ UNCHANGED <<readVars, tickVars, mstatus_mie, mcountinhibit, cleared>>

EnableIrqs == /\ MainAt("mstatus", "first") /\ Step(NoAccess)
              /\ mstatus_mie' = TRUE
              /\ UNCHANGED <<readVars, tickVars, mie, mcountinhibit, cleared>>

\* The test of main's loop.
LoopTest(last) == IF last <= TickLimit THEN "get" ELSE "halted"

\* get_elapsed_time, before the loop and in it.  The count is far from the
\* size of a word, so its two words are one access.
GetElapsed ==
    /\ \/ MainAt("first", LoopTest(time_elapsed))
       \/ MainAt("get", IF time_elapsed # last_elapsed_time THEN "print1" ELSE "wfi")
    /\ Step(NoAccess)
    /\ last_elapsed_time' = time_elapsed
    /\ UNCHANGED <<time_increment, time_elapsed, readVars, csrVars>>

\* Tick! or Tock!, abstracted to a few instructions.
PrintTick ==
    /\ \/ MainAt("print1", "print2") \/ MainAt("print2", "print3")
       \/ MainAt("print3", "wfi")
    /\ Step(NoAccess)
    /\ UNCHANGED <<readVars, tickVars, csrVars>>

\* The core sleeps until an interrupt is pending.
Wfi == /\ MainAt("wfi", "asleep") /\ Step(NoAccess)
       /\ UNCHANGED <<readVars, tickVars, csrVars>>

-----------------------------------------------------------------------------
(* simple_timer_handler.                                                   *)

TakeInterrupt ==
    /\ Interrupted
    /\ hpc' = "read_h"
    /\ mpc' = IF mpc = "asleep" THEN LoopTest(last_elapsed_time) ELSE mpc
    /\ mstatus_mie' = FALSE
    /\ Clock(NoAccess, FALSE) /\ idle' = 0
    /\ UNCHANGED <<readVars, tickVars, mie, mcountinhibit, cleared>>

CountTick == /\ hpc = "updated" /\ hpc' = "mret" /\ Step(NoAccess)
             /\ time_elapsed' = time_elapsed + 1
             /\ UNCHANGED <<mpc, readVars, time_increment, last_elapsed_time, csrVars>>

Mret == /\ hpc = "mret" /\ hpc' = "none" /\ Step(NoAccess)
        /\ mstatus_mie' = TRUE
        /\ UNCHANGED <<mpc, readVars, tickVars, mie, mcountinhibit, cleared>>

-----------------------------------------------------------------------------
\* sim_halt, the end of the first part, or the bound.
Over == \/ mpc \in {"halted", "measured"} /\ hpc = "none"
        \/ mtime_q = MaxTime
Ended == Over /\ UNCHANGED vars

Init ==
    /\ mtime_q \in BootTimes
    \* mtimecmp is 0 after reset, so the timer raises its interrupt at once.
    /\ mtimecmp_q = 0 /\ interrupt_q = (mtime_q > 0)
    /\ mpc \in {"off1", "enable"} /\ hpc = "none"
    /\ rd_h = 0 /\ rd_l = 0 /\ new_time = 0 /\ called = 0
    /\ time_increment = 0 /\ time_elapsed = 0 /\ last_elapsed_time = 0
    /\ mie = FALSE /\ mstatus_mie = FALSE
    /\ cleared = 0 /\ idle = 0
    /\ measured = [c \in Counters |-> 0]
    \* The second part runs with stopped counters and does not read them.
    /\ mcountinhibit = (mpc = "enable")
    /\ IF mpc = "enable" THEN counts = measured
                         ELSE counts \in [Counters -> BootCounts]

CoreStep ==
    \/ PcountEnable("off1", "reset", FALSE) \/ PcountReset
    \/ PcountEnable("on", "puts", TRUE) \/ Puts
    \/ PcountEnable("off2", "measured", FALSE)
    \/ TimerEnable \/ ReadHigh \/ ReadLow \/ CheckHigh \/ UpdateCompare
    \/ EnableTimerIrq \/ EnableIrqs \/ GetElapsed \/ PrintTick \/ Wfi
    \/ TakeInterrupt \/ CountTick \/ Mret

Next == (~Over /\ (Idle \/ CoreStep)) \/ Ended

Spec == Init /\ [][Next]_vars

-----------------------------------------------------------------------------
(* Properties.                                                             *)

\* timer_read returns a time between its call and its return, although it
\* reads a running 64-bit counter in two words.
ReadInWindow == Pc = "write_max" => new_time - time_increment \in called .. mtime_q

\* The timer waits for the time the program has set.
Armed == /\ mpc \notin {"enable", "read_h", "read_l", "check_h", "write_max",
                        "write_h", "write_l"}
         /\ hpc \in {"none", "updated", "mret"}

\* However the words of mtimecmp were written while mtime went on, also when
\* the deadline passed before the last of them, the request is up in the next
\* cycle: no tick is lost.
NoLostTick == [][Armed /\ Armed' /\ mtime_q >= new_time => interrupt_q']_vars

\* Two ticks are at least the increment apart: neither the half-written
\* mtimecmp nor the request of the former deadline makes an early tick.
NoEarlyTick ==
    [][hpc = "none" /\ hpc' # "none" => mtime_q >= called + time_increment]_vars

\* Cycles of the handler's nine instructions, an idle time before each.
PassTime == 9 * (MaxIdle + 1)

\* A tick that falls between get_elapsed_time and wfi is seen by main only
\* after the next one wakes it, but never later.
MainKeepsUp ==
    time_increment >= PassTime => time_elapsed <= last_elapsed_time + 2

\* The counters show what was retired and how long it took between the two
\* calls of pcount_enable, although their halves are cleared one by one.
CountersExact == mpc = "measured" => counts = measured
=============================================================================
