------------------------------ MODULE SimCtrl ------------------------------
(***************************************************************************)
(* The controller of the Verilator simulations                             *)
(* (dv/verilator/simutil_verilator/cpp/verilator_sim_ctrl.cc): options,    *)
(* the main loop with its clock and reset, stop requests, tracing, and     *)
(* the signals that arrive between any two steps of the main program.      *)
(***************************************************************************)
EXTENDS Integers, Getopt

CONSTANTS
    initial_reset_delay_cycles_, reset_duration_cycles_,
    Numbers,        \* argument -> number, where atoi finds one
    TimeCap         \* bound: time_ stays here, keeping its parity

ASSUME SimCtrlAssumption ==
    /\ initial_reset_delay_cycles_ \in Nat /\ reset_duration_cycles_ \in Nat
    /\ TimeCap \in Nat /\ TimeCap % 2 = 0
    /\ TimeCap > 2 * (initial_reset_delay_cycles_ + reset_duration_cycles_)
    /\ \A a \in DOMAIN Numbers : Numbers[a] \in Int /\ 2 * Numbers[a] <= TimeCap

Pcs == {"main", "options", "extensions", "memory", "start", "announce", "clear",
        "dump", "check", "tick", "final", "exited"}

VARIABLES
    pc,                         \* where the main program is
    argv,                       \* its command line, until the simulation starts
    scan,                       \* getopt's scan of it
    exit_app, exit_code,
    time_, clk, reset,          \* the design's inputs; reset: it is asserted
    tracing_possible_,          \* fixed: VM_TRACE
    tracing_enabled_, tracing_enabled_changed_, tracing_ever_enabled_,
    tracer_open,                \* the trace file is open
    request_stop_, simulation_success_,
    gotFinish,                  \* the design called $finish
    term_after_cycles_,
    edges, resets,              \* history: rising edges, and those in reset
    announced,                  \* history: what the last message on tracing said
    raced,                      \* history: a signal came between message and
                                \* acknowledgement
    failed                      \* history: a stop was requested as a failure

parseVars == <<argv, scan, exit_app, term_after_cycles_>>
clockVars == <<time_, clk, reset, edges, resets>>
switchVars == <<tracing_enabled_, tracing_enabled_changed_, tracing_ever_enabled_>>
traceVars == <<switchVars, tracer_open, announced, raced>>
stopVars  == <<request_stop_, simulation_success_, gotFinish, failed>>
ctrlVars  == <<pc, parseVars, exit_code, clockVars, tracing_possible_, traceVars,
               stopVars>>

-----------------------------------------------------------------------------
(* Stop requests and tracing, from the main program or a signal handler.   *)

\* Defect for the model's own test: the last request decides.
SuccessLast(old, new) == new

\* A failure is not taken back by a later request.
Success(old, new) == old /\ new

RequestStop(success) ==
    /\ request_stop_' = TRUE
    /\ simulation_success_' = Success(simulation_success_, success)
    /\ failed' = (failed \/ ~success)

TraceOn ==
    /\ tracing_enabled_' = tracing_possible_
    /\ tracing_ever_enabled_' = tracing_enabled_'
    /\ tracing_enabled_changed_' =
          (tracing_enabled_changed_ \/ tracing_enabled_ # tracing_enabled_')

\* Defect: the flag is tested after it was cleared.
OffChangesNever(enabled) == FALSE

\* Turning tracing off is a change if it was on.
OffChanges(enabled) == enabled

TraceOff ==
    /\ tracing_enabled_' = FALSE
    /\ tracing_enabled_changed_' =
          (tracing_enabled_changed_ \/ OffChanges(tracing_enabled_))
    /\ UNCHANGED tracing_ever_enabled_

\* The handlers are in place from the beginning of Exec to the end.
HandlersRegistered == pc \notin {"main", "exited"}

SigInt == /\ HandlersRegistered
          /\ RequestStop(TRUE)
          /\ UNCHANGED <<pc, parseVars, exit_code, clockVars, tracing_possible_,
                         traceVars, gotFinish>>

SigUsr1 == /\ HandlersRegistered
           /\ IF tracing_enabled_ THEN TraceOff ELSE TraceOn
           /\ raced' = (raced \/ pc = "clear")
           /\ UNCHANGED <<pc, parseVars, exit_code, clockVars, tracing_possible_,
                          tracer_open, announced, stopVars>>

-----------------------------------------------------------------------------
(* Exec: options.                                                          *)

Atoi(arg) == IF arg \in DOMAIN Numbers THEN Numbers[arg] ELSE 0

Exit(code) == pc' = "exited" /\ exit_code' = code

\* One option of ParseCommandArgs; unknown ones are left to the extensions.
ParseOption ==
    /\ pc = "options" /\ ~Finished(scan)
    /\ LET n == NextOption(scan, {"c", "t", "h"}, {"c"}) IN
       /\ scan' = n.scan
       /\ IF n.opt = ":" \/ (n.opt = "t" /\ ~tracing_possible_)
          THEN Exit(1) ELSE UNCHANGED <<pc, exit_code>>
       /\ IF n.opt = "t" /\ tracing_possible_ THEN TraceOn
                                              ELSE UNCHANGED switchVars
       /\ term_after_cycles_' = IF n.opt = "c" THEN Atoi(n.arg)
                                               ELSE term_after_cycles_
       /\ exit_app' = (exit_app \/ n.opt = "h")
    /\ UNCHANGED <<argv, clockVars, tracing_possible_, tracer_open, announced,
                   raced, stopVars>>

\* The extensions parse the permuted command line from its beginning.
OptionsParsed ==
    /\ pc = "options" /\ Finished(scan)
    /\ pc' = "extensions"
    /\ scan' = ScanOf(Permuted(scan))
    /\ UNCHANGED <<argv, exit_app, term_after_cycles_, exit_code, clockVars,
                   tracing_possible_, traceVars, stopVars>>

-----------------------------------------------------------------------------
(* RunSimulation.                                                          *)

\* Trace(): the message, its acknowledgement, then the dump.
Announce ==
    /\ pc = "announce"
    /\ IF tracing_enabled_changed_
       THEN announced' = tracing_enabled_ /\ pc' = "clear"
       ELSE announced' = announced /\ pc' = "dump"
    /\ UNCHANGED <<parseVars, exit_code, clockVars, tracing_possible_, switchVars,
                   tracer_open, raced, stopVars>>

Clear ==
    /\ pc = "clear"
    /\ tracing_enabled_changed_' = FALSE
    /\ pc' = "dump"
    /\ UNCHANGED <<parseVars, exit_code, clockVars, tracing_possible_,
                   tracing_enabled_, tracing_ever_enabled_, tracer_open, announced,
                   raced, stopVars>>

Dump ==
    /\ pc = "dump"
    /\ tracer_open' = (tracer_open \/ tracing_enabled_)
    /\ pc' = IF time_ = 0 THEN "tick" ELSE "check"
    /\ UNCHANGED <<parseVars, exit_code, clockVars, tracing_possible_, switchVars,
                   announced, raced, stopVars>>

ResetBegins(t) == t \div 2 >= initial_reset_delay_cycles_

\* Defect: the duration is counted from the start of the simulation.
ResetEndsEarly(t) == t \div 2 >= reset_duration_cycles_

ResetEnds(t) == t \div 2 >= reset_duration_cycles_ + initial_reset_delay_cycles_

\* Half a clock period.  On the rising edge an extension's OnClock, and in
\* eval the design through a DPI function, may request a stop.
Tick(stop, finish) ==
    /\ pc = "tick"
    /\ reset' = IF ResetEnds(time_) THEN FALSE
                ELSE IF ResetBegins(time_) THEN TRUE ELSE reset
    /\ clk' = ~clk
    /\ time_' = IF time_ < TimeCap THEN time_ + 1 ELSE TimeCap - 1
    /\ IF clk' /\ time_ < TimeCap - 1
       THEN edges' = edges + 1 /\ resets' = resets + (IF reset' THEN 1 ELSE 0)
       ELSE UNCHANGED <<edges, resets>>
    /\ \/ stop = {} /\ UNCHANGED <<request_stop_, simulation_success_, failed>>
       \/ \E success \in stop : RequestStop(success)
    /\ gotFinish' = (gotFinish \/ finish)
    /\ pc' = "announce"
    /\ UNCHANGED <<parseVars, exit_code, tracing_possible_, traceVars>>

\* Defect: half periods are taken for cycles.
TimedOutHalf == term_after_cycles_ > 0 /\ time_ >= term_after_cycles_

\* A negative number of cycles is compared as an unsigned one.
TimedOut == term_after_cycles_ > 0 /\ time_ \div 2 >= term_after_cycles_

\* Defect: request_stop_ is read once, before the loop.
LoopEndsDeaf == gotFinish \/ TimedOut

LoopEnds == request_stop_ \/ gotFinish \/ TimedOut

Check ==
    /\ pc = "check"
    /\ pc' = IF LoopEnds THEN "final" ELSE "tick"
    /\ UNCHANGED <<parseVars, exit_code, clockVars, tracing_possible_, traceVars,
                   stopVars>>

\* Defect: only a trace that is still on is closed.
ClosesTraceIfOn == tracing_enabled_

ClosesTrace == tracing_ever_enabled_

\* The end of Run and of Exec.
Final ==
    /\ pc = "final"
    /\ tracer_open' = (tracer_open /\ ~ClosesTrace)
    /\ Exit(IF simulation_success_ THEN 0 ELSE 1)
    /\ UNCHANGED <<parseVars, clockVars, tracing_possible_, switchVars, announced,
                   raced, stopVars>>

RunStep == \/ Announce \/ Clear \/ Dump \/ Check \/ Final
           \/ \E stop \in {{}, {TRUE}, {FALSE}}, finish \in BOOLEAN : Tick(stop, finish)

Signal == SigInt \/ SigUsr1

CtrlInit ==
    /\ pc = "main"
    /\ scan = ScanOf(argv)
    /\ exit_app = FALSE /\ exit_code = 0
    /\ time_ = 0 /\ clk = FALSE /\ reset = FALSE
    /\ tracing_possible_ \in BOOLEAN
    /\ tracing_enabled_ = FALSE /\ tracing_enabled_changed_ = FALSE
    /\ tracing_ever_enabled_ = FALSE /\ tracer_open = FALSE
    /\ request_stop_ = FALSE /\ simulation_success_ = TRUE
    /\ gotFinish = FALSE
    /\ term_after_cycles_ = 0
    /\ edges = 0 /\ resets = 0
    /\ announced = FALSE /\ raced = FALSE /\ failed = FALSE

-----------------------------------------------------------------------------
(* Properties.                                                             *)

\* The design sees the reset asserted for exactly the configured number of
\* rising edges after the configured delay, whatever else happens
\* (SetInitialResetDelay, SetResetDuration).
ResetWindow ==
    resets = Max({0, Min({edges - initial_reset_delay_cycles_,
                          reset_duration_cycles_})})

\* A failure reported by any of several stop requests, in any order with
\* Ctrl-C, $finish and the timeout, decides the exit code.
FailureSticks == pc = "exited" /\ failed => exit_code = 1

\* --term-after-cycles=N runs N cycles at most, and N cycles if nothing else
\* stops the simulation.
TermExact ==
    term_after_cycles_ > 0 =>
        /\ edges <= term_after_cycles_
        /\ pc = "final" /\ ~request_stop_ /\ ~gotFinish => edges = term_after_cycles_

\* However often tracing is switched, a trace file is closed in the end.
TraceFileClosed == pc = "exited" => ~tracer_open

\* The messages follow the switching of the trace (the comment in Trace()),
\* unless a signal comes between a message and its acknowledgement.
ChangesAnnounced ==
    ~tracing_enabled_changed_ /\ ~raced => announced = tracing_enabled_
=============================================================================
