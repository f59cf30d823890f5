------------------------------- MODULE CsBench -------------------------------
(***************************************************************************)
(* The test bench of the CSRs (dv/cs_registers): its top level, the        *)
(* drivers of transactions and resets, the monitor, and the control that   *)
(* ends the run and gives the verdict, around the registers and the model. *)
(*                                                                         *)
(* A rising clock edge runs two processes of tb_cs_registers.sv in either  *)
(* order, and the registers take their inputs from before the edge.  The   *)
(* reset that VerilatorSimCtrl drives falls into the first of the bench.   *)
(***************************************************************************)
EXTENDS CsRegisters

CONSTANTS
    Wdata,          \* sets of transactions: write data for each register in use
    Delays,         \* cycles from one transaction to the next (1 to 20)
    ResetDelays,    \* cycles from one reset to the next (100 to 1000)
    StopAfter       \* transactions of a run (10000)

ASSUME CsBenchAssumption ==
    /\ \A w \in Wdata : w \in [DOMAIN w -> SUBSET Words] /\ DOMAIN w \subseteq Addrs
    /\ Delays \subseteq Nat \ {0} /\ ResetDelays \subseteq Nat \ 0 .. 3
    /\ StopAfter \in Nat \ {0}

VARIABLES
    wdata_dist,             \* the member of Wdata that the run uses
    dut_ok,                 \* the registers are those of CsRegisters
    transactions_driven_, delay_, reg_access_,
    reset_delay_, reset_duration_,
    dpi_rst_ni, rst_fell,   \* the reset, and its falling edge
    todo,                   \* processes that still run in this time step
    rst_n, csr_rdata_o,     \* what the monitor is given in this time step
    next_transaction_,      \* and the transaction that is driven then
    simctrl_, test_passed,
    finished,               \* $finish was called
    passing                 \* history: the verdict at the last clock edge

runVars    == <<wdata_dist, dut_ok>>
driverVars == <<transactions_driven_, delay_, reg_access_>>
resetVars  == <<reset_delay_, reset_duration_, dpi_rst_ni, rst_fell>>
inputVars  == <<rst_n, csr_rdata_o, next_transaction_>>
endVars    == <<test_passed, finished>>
vars == <<register_value_, rtlVars, runVars, driverVars, resetVars, inputVars,
          endVars, todo, simctrl_, passing>>

NoTransaction == [op |-> "none", addr |-> 0, wdata |-> {}]

-----------------------------------------------------------------------------
(* Edges of the clock and of the reset.                                    *)

\* A register that is not implemented as in CsRegisters may read as another
\* value than it should.
Seen(addr) == IF dut_ok THEN Rdata(addr)
              ELSE Rdata(addr) \union {v \union {0} : v \in Rdata(addr)}

\* RegisterTransaction::Randomize.  A transaction is chosen at the edge that
\* takes it and not at the one before; in reset none is taken.
Transactions ==
    IF reg_access_ /\ dpi_rst_ni
    THEN UNION {{[op |-> op, addr |-> addr, wdata |-> w] :
                    w \in IF op = "Read" THEN {{}} ELSE wdata_dist[addr]} :
                op \in Ops, addr \in DOMAIN wdata_dist}
    ELSE {NoTransaction}

Clocked(t) ==
    CASE ~dpi_rst_ni -> RtlReset
      [] dpi_rst_ni /\ reg_access_ /\ t.op # "Read" ->
             \E v \in Rdata(t.addr) : RtlWrite(t.addr, WdataInt(t.op, t.wdata, v))
      [] OTHER -> UNCHANGED rtlVars

Posedge ==
    /\ ~finished /\ todo = {} /\ ~rst_fell
    /\ todo' = {"env", "reg"}
    /\ rst_n' = dpi_rst_ni
    /\ \E t \in Transactions :
          /\ next_transaction_' = t
          /\ csr_rdata_o' \in IF t = NoTransaction THEN {{}} ELSE Seen(t.addr)
          /\ Clocked(t)
    /\ passing' = simctrl_.success
    /\ UNCHANGED <<register_value_, runVars, driverVars, resetVars, endVars, simctrl_>>

\* The falling reset starts the second process once more.
Negedge ==
    /\ todo = {} /\ rst_fell
    /\ todo' = {"reg"}
    /\ rst_n' = FALSE
    /\ rst_fell' = FALSE
    /\ RtlReset
    /\ UNCHANGED <<register_value_, runVars, driverVars, reset_delay_,
                   reset_duration_, dpi_rst_ni, csr_rdata_o, next_transaction_,
                   endVars, simctrl_, passing>>

-----------------------------------------------------------------------------
(* The first process: env_tick, rst_tick and $finish.                      *)

ResetLow(duration) == duration < 3

DriveReset ==
    LET restart  == reset_delay_ = 1
        duration == IF restart THEN 0 ELSE reset_duration_
    IN  /\ reset_delay_' \in IF restart THEN ResetDelays ELSE {reset_delay_ - 1}
        /\ reset_duration_' = IF ResetLow(duration) THEN duration + 1 ELSE duration
        /\ dpi_rst_ni' = ~ResetLow(duration)
        /\ rst_fell' = (dpi_rst_ni /\ ResetLow(duration))

GetStopReq  == simctrl_.stop
GetTestPass == simctrl_.success

EnvTick ==
    /\ "env" \in todo /\ todo' = todo \ {"env"}
    /\ test_passed' = GetTestPass
    /\ finished' = GetStopReq
    /\ DriveReset
    /\ UNCHANGED <<register_value_, rtlVars, runVars, driverVars, inputVars, simctrl_, passing>>

-----------------------------------------------------------------------------
(* The second process: monitor_tick and driver_tick.                       *)

\* Defect for the model's own test: the last request decides.
RequestStopLast(sc, success) == [stop |-> TRUE, success |-> success]

RequestStop(sc, success) == [stop |-> TRUE, success |-> sc.success /\ success]

AllDriven == transactions_driven_ >= StopAfter

DrivesNext == delay_ = 1

Captured == rst_n /\ next_transaction_ # NoTransaction

MonitorTick ==
    LET t == next_transaction_
    IN  CASE ~rst_n   -> RegisterReset
          [] Captured -> ProcessTransaction(t.addr, t.op, t.wdata)
          [] OTHER    -> UNCHANGED register_value_

\* The requests of the monitor's capture and of OnClock, in this order.
StopRequests ==
    LET found == IF Captured /\ Mismatch(next_transaction_.addr, csr_rdata_o)
                 THEN RequestStop(simctrl_, FALSE) ELSE simctrl_
    IN  simctrl_' = IF AllDriven THEN RequestStop(found, TRUE) ELSE found

\* Defect: what a reset swallows does not count.
RandomizeCounted ==
    /\ delay_' \in Delays
    /\ transactions_driven_' = transactions_driven_ + (IF rst_n THEN 1 ELSE 0)

Randomize == /\ delay_' \in Delays
             /\ transactions_driven_' = transactions_driven_ + 1

OnClock == /\ reg_access_' = DrivesNext
           /\ IF DrivesNext THEN Randomize
              ELSE delay_' = delay_ - 1 /\ UNCHANGED transactions_driven_

RegTick ==
    /\ "reg" \in todo /\ todo' = todo \ {"reg"}
    /\ MonitorTick
    /\ StopRequests
    /\ OnClock
    /\ rst_n' = FALSE /\ csr_rdata_o' = {} /\ next_transaction_' = NoTransaction
    /\ UNCHANGED <<rtlVars, runVars, resetVars, endVars, passing>>

-----------------------------------------------------------------------------
\* main returns; Exec succeeds, for no extension asks it for a failure.
ExitCode == IF test_passed THEN 0 ELSE 1

\* Between two time steps.
Settled == todo = {} /\ ~rst_fell

Ended == finished /\ Settled /\ UNCHANGED vars

Init ==
    /\ ModelInit /\ RtlInit
    /\ wdata_dist \in Wdata /\ dut_ok \in BOOLEAN
    /\ transactions_driven_ = 0 /\ delay_ = 1
    /\ reg_access_ = FALSE
    /\ reset_delay_ = 1 /\ reset_duration_ = 0
    /\ dpi_rst_ni \in BOOLEAN       \* not initialized
    /\ rst_fell = FALSE
    /\ todo = {} /\ rst_n = FALSE /\ csr_rdata_o = {}
    /\ next_transaction_ = NoTransaction
    /\ simctrl_ = [stop |-> FALSE, success |-> TRUE]
    /\ test_passed = FALSE /\ finished = FALSE /\ passing = TRUE

Next == Posedge \/ Negedge \/ EnvTick \/ RegTick \/ Ended

\* The simulator goes on.
FairSpec == Init /\ [][Next]_vars /\ WF_vars(Next)

-----------------------------------------------------------------------------
(* Properties.                                                             *)

\* Two implementations of the same registers, one of them in C++ that locks
\* and legalizes whole words, stay equal through all transactions and resets,
\* also when a reset falls on a clock edge that drives a transaction; and the
\* bench finds no fault with registers that are right.
ModelAgrees ==
    /\ Settled /\ transactions_driven_ > 0 =>
          \A a \in Addrs \ {MCycle, MCycleH} : Rdata(a) = {RegisterRead(a)}
    /\ dut_ok => simctrl_.success

\* A mismatch is in the exit code, although it and the end of the run request
\* the stop in either order; the run ends at the next clock edge.  Only a
\* mismatch captured at the last edge itself can miss the exit code.  And a
\* run that passes has driven all its transactions.
VerdictRight ==
    /\ ~passing /\ "env" \notin todo => finished /\ ExitCode = 1
    /\ finished /\ ExitCode = 0 => transactions_driven_ >= StopAfter

\* Through all resets the run comes to its end.
RunEnds == <>finished
=============================================================================
