----------------------------- MODULE Controller -----------------------------
(***************************************************************************)
(* The controller, rtl/ibex_controller.sv, without writeback stage: the    *)
(* state machine that starts the core, runs instructions, flushes the      *)
(* pipeline for those that need it, puts the core to sleep and redirects   *)
(* it to the handlers of interrupts, exceptions and debug requests.        *)
(*                                                                         *)
(* One action is one clock cycle in one state of the machine (FLUSH has    *)
(* one per kind of flush).  The level of irq_nm_i, irq_pending_i and       *)
(* debug_req_i in a cycle is the variable `lines'; the other inputs of a   *)
(* cycle are the record i, see IdStage, with two more fields:              *)
(*   start   fetch_enable_i                                                *)
(*   clear   the CSR instruction in ID clears bits (CSRRC)                 *)
(* pc_if stands for the fetch stage, which delivers from there in order    *)
(* what memory holds (InstrStream).  Privilege levels are left out: ebreak *)
(* of dcsr_q is the one of the current level, and an instruction illegal   *)
(* in U-mode is of kind "illegal".                                         *)
(***************************************************************************)
EXTENDS IdStage, TrapCsrs

CONSTANTS
    BootPc, IrqPc, NmiPc, ExcPc, DbgPc, DbgExcPc,   \* the handlers
    Target                                      \* of branches and jumps

ASSUME ControllerAssumption ==
    /\ {BootPc, IrqPc, NmiPc, ExcPc, DbgPc, DbgExcPc} \subseteq Pcs
    /\ Target \in [Pcs -> Pcs]

VARIABLES
    ctrl_fsm_cs,
    nmi_mode_q,
    debug_mode_q,
    exc_req_q,
    lsu_err_q,      \* load_err_q or store_err_q
    lines,
    pc_if           \* pc_if_o: the address of the next instruction for ID

ctrlVars == <<ctrl_fsm_cs, nmi_mode_q, debug_mode_q, exc_req_q, lsu_err_q,
              lines, pc_if>>

Lines      == workload.lines
HoldsLines == workload.holds

CtrlTypeOK ==
    /\ ctrl_fsm_cs \in {"RESET", "BOOT_SET", "WAIT_SLEEP", "SLEEP",
                        "FIRST_FETCH", "DECODE", "FLUSH", "IRQ_TAKEN",
                        "DBG_TAKEN_IF", "DBG_TAKEN_ID"}
    /\ {nmi_mode_q, debug_mode_q, exc_req_q, lsu_err_q} \subseteq BOOLEAN
    /\ lines \subseteq Lines
    /\ pc_if \in Pcs

-----------------------------------------------------------------------------
(* Requests.                                                               *)

\* `dret' and the debug registers exist in debug mode only.
IllegalInsn == Is("illegal") \/ ((Is("dret") \/ Is("dcsr")) /\ ~debug_mode_q)

ExcReqD == /\ ctrl_fsm_cs # "FLUSH"
           /\ Is("ecall") \/ Is("ebreak") \/ IllegalInsn \/ FetchErr

ExcReqLsu(i) == i.lsuValid /\ i.lsuErr

\* Writing or setting mstatus bits, and clearing debug register bits.
CsrPipeFlush(i) == InstrDone(i) /\ IF i.clear THEN Is("dcsr") ELSE Is("mstatus")

SpecialReqAll(i) == \/ Is("mret") \/ Is("dret") \/ Is("wfi") \/ CsrPipeFlush(i)
                    \/ ExcReqD \/ ExcReqLsu(i)

EnterDebugMode == /\ "debug" \in lines \/ (dcsr_q.step /\ instr_valid_id_q)
                  /\ ~debug_mode_q

EbreakIntoDebug == dcsr_q.ebreak

\* Defect for the model's own test: an NMI handler is interrupted like any other code.
HandleIrqNested == /\ ~debug_mode_q
                   /\ "nmi" \in lines \/ ("irq" \in lines /\ mstatus_q.mie)

HandleIrq == /\ ~debug_mode_q /\ ~nmi_mode_q
             /\ "nmi" \in lines \/ ("irq" \in lines /\ mstatus_q.mie)

-----------------------------------------------------------------------------
(* The clock edge.                                                         *)

\* The raised lines whose handler does not run yet.
Unheard == {l \in lines : CASE l = "debug" -> ~debug_mode_q
                             [] l = "nmi"   -> ~nmi_mode_q
                             [] l = "irq"   -> mstatus_q.mie}

\* Everything but the state machine and the trap registers.
Edge(i, halt, flush, pcSet, target) ==
    /\ IdClock(i, halt, flush, pcSet, pc_if)
    /\ pc_if' = IF pcSet THEN target
                ELSE IF i.fetchValid /\ IdInReady(i, halt) THEN After(pc_if)
                ELSE pc_if
    /\ exc_req_q' = ExcReqD
    /\ lsu_err_q' = ExcReqLsu(i)
    /\ lines' \in SUBSET Lines
    /\ HoldsLines => Unheard \subseteq lines'

Redirect(i, halt, flush, target) == Edge(i, halt, flush, TRUE, target)
Continue(i, halt, flush) == Edge(i, halt, flush, FALSE, pc_if)

KeepModes == UNCHANGED <<nmi_mode_q, debug_mode_q>>

-----------------------------------------------------------------------------
(* Starting, sleeping.                                                     *)

Reset(i) ==
    /\ ctrl_fsm_cs = "RESET"
    /\ ctrl_fsm_cs' = IF i.start THEN "BOOT_SET" ELSE "RESET"
    /\ Redirect(i, FALSE, FALSE, BootPc)
    /\ KeepModes /\ UNCHANGED csrVars

BootSet(i) ==
    /\ ctrl_fsm_cs = "BOOT_SET"
    /\ ctrl_fsm_cs' = "FIRST_FETCH"
    /\ Redirect(i, FALSE, FALSE, BootPc)
    /\ KeepModes /\ UNCHANGED csrVars

WaitSleep(i) ==
    /\ ctrl_fsm_cs = "WAIT_SLEEP"
    /\ ctrl_fsm_cs' = "SLEEP"
    /\ Continue(i, TRUE, TRUE)
    /\ KeepModes /\ UNCHANGED csrVars

\* Defect: a non-maskable interrupt does not wake the core.
WakeUpMaskable == lines \cap {"irq", "debug"} # {} \/ debug_mode_q \/ dcsr_q.step

\* Any request wakes the core, taken or not; debugged code does not sleep.
WakeUp == lines # {} \/ debug_mode_q \/ dcsr_q.step

Sleep(i) ==
    /\ ctrl_fsm_cs = "SLEEP"
    /\ ctrl_fsm_cs' = IF WakeUp THEN "FIRST_FETCH" ELSE "SLEEP"
    /\ Continue(i, TRUE, TRUE)
    /\ KeepModes /\ UNCHANGED csrVars

FirstFetch(i) ==
    LET halt == EnterDebugMode \/ HandleIrq
    IN  /\ ctrl_fsm_cs = "FIRST_FETCH"
        /\ ctrl_fsm_cs' = IF EnterDebugMode THEN "DBG_TAKEN_IF"
                          ELSE IF HandleIrq THEN "IRQ_TAKEN"
                          ELSE IF IdInReady(i, halt) THEN "DECODE"
                          ELSE "FIRST_FETCH"
        /\ Continue(i, halt, FALSE)
        /\ KeepModes /\ UNCHANGED csrVars

-----------------------------------------------------------------------------
(* Running instructions.                                                   *)

\* Defect: a request takes the pipeline over while ID is busy.
TakesRequestAtOnce(i) == ~SpecialReqAll(i) /\ (EnterDebugMode \/ HandleIrq)

TakesRequest(i) ==
    /\ ~Stall(i) /\ ~SpecialReqAll(i)
    /\ EnterDebugMode \/ HandleIrq

\* Defect: a request that is taken lets IF go on.
HaltsSpecial(i) == instr_valid_id_q /\ SpecialReqAll(i)

\* IF waits; the instruction in ID stays there.
Halts(i) == \/ instr_valid_id_q /\ SpecialReqAll(i)
            \/ instr_valid_id_q /\ (EnterDebugMode \/ HandleIrq) /\ Stall(i)
            \/ TakesRequest(i)

SetsPc(i) == instr_valid_id_q /\ (branch_set_q \/ JumpSet(i)) /\ ~FetchErr

WritesCsr(i) == InstrDone(i) /\ ~IllegalInsn

Decode(i) ==
    /\ ctrl_fsm_cs = "DECODE"
    /\ ctrl_fsm_cs' =
           IF instr_valid_id_q /\ SpecialReqAll(i) THEN "FLUSH"
           ELSE IF ~TakesRequest(i) THEN "DECODE"
           ELSE IF EnterDebugMode THEN "DBG_TAKEN_IF"
           ELSE "IRQ_TAKEN"
    /\ IF SetsPc(i) THEN Redirect(i, Halts(i), FALSE, Target[instr_id.pc])
                    ELSE Continue(i, Halts(i), FALSE)
    /\ IF WritesCsr(i) /\ Is("mstatus") THEN WriteMstatus(i.clear)
       ELSE IF WritesCsr(i) /\ Is("dcsr") THEN WriteDcsr(i.clear)
       ELSE UNCHANGED csrVars
    /\ KeepModes

-----------------------------------------------------------------------------
(* Interrupts and debug requests.                                          *)

\* The request may have gone since DECODE; then nothing happens.
IrqTaken(i) ==
    /\ ctrl_fsm_cs = "IRQ_TAKEN"
    /\ ctrl_fsm_cs' = "DECODE"
    /\ IF HandleIrq
       THEN /\ Redirect(i, FALSE, FALSE, IF "nmi" \in lines THEN NmiPc ELSE IrqPc)
            /\ SaveTrap(pc_if, debug_mode_q)
            /\ nmi_mode_q' = ("nmi" \in lines)
       ELSE /\ Continue(i, FALSE, FALSE)
            /\ UNCHANGED <<csrVars, nmi_mode_q>>
    /\ UNCHANGED debug_mode_q

DbgTakenIf(i) ==
    /\ ctrl_fsm_cs = "DBG_TAKEN_IF"
    /\ ctrl_fsm_cs' = "DECODE"
    /\ IF dcsr_q.step \/ "debug" \in lines
       THEN /\ Redirect(i, FALSE, TRUE, DbgPc)
            /\ SaveDebug(pc_if)
            /\ debug_mode_q' = TRUE
       ELSE /\ Continue(i, FALSE, FALSE)
            /\ UNCHANGED <<csrVars, debug_mode_q>>
    /\ UNCHANGED nmi_mode_q

DbgTakenId(i) ==
    /\ ctrl_fsm_cs = "DBG_TAKEN_ID"
    /\ ctrl_fsm_cs' = "DECODE"
    /\ Redirect(i, FALSE, TRUE, DbgPc)
    /\ IF EbreakIntoDebug /\ ~debug_mode_q THEN SaveDebug(instr_id.pc)
                                           ELSE UNCHANGED csrVars
    /\ debug_mode_q' = TRUE
    /\ UNCHANGED nmi_mode_q

-----------------------------------------------------------------------------
(* FLUSH.  A debug request that is up now comes next.                      *)

FlushNext(next) ==
    /\ ctrl_fsm_cs = "FLUSH"
    /\ ctrl_fsm_cs' = IF EnterDebugMode THEN "DBG_TAKEN_IF" ELSE next

Exception == exc_req_q \/ lsu_err_q

EbreakToDebug == /\ Exception /\ Is("ebreak") /\ ~FetchErr
                 /\ debug_mode_q \/ EbreakIntoDebug

\* Defect: exceptions save the address of the next instruction.
ExceptionPcNext == pc_if

ExceptionPc == instr_id.pc

FlushException(i) ==
    /\ Exception /\ ~EbreakToDebug
    /\ FlushNext("DECODE")
    /\ Redirect(i, TRUE, TRUE, IF debug_mode_q THEN DbgExcPc ELSE ExcPc)
    /\ SaveTrap(ExceptionPc, debug_mode_q)
    /\ KeepModes

\* The EBREAK stays in ID for DBG_TAKEN_ID.
FlushEbreak(i) ==
    /\ EbreakToDebug
    /\ FlushNext("DBG_TAKEN_ID")
    /\ Continue(i, TRUE, FALSE)
    /\ KeepModes /\ UNCHANGED csrVars

\* Leaves an NMI handler too.
FlushMret(i) ==
    /\ ~Exception /\ Is("mret")
    /\ FlushNext("DECODE")
    /\ Redirect(i, TRUE, TRUE, mepc_q)
    /\ RestoreMret(nmi_mode_q)
    /\ nmi_mode_q' = FALSE
    /\ UNCHANGED debug_mode_q

FlushDret(i) ==
    /\ ~Exception /\ Is("dret")
    /\ FlushNext("DECODE")
    /\ Redirect(i, TRUE, TRUE, depc_q)
    /\ debug_mode_q' = FALSE
    /\ UNCHANGED <<csrVars, nmi_mode_q>>

FlushWfi(i) ==
    /\ ~Exception /\ Is("wfi")
    /\ FlushNext("WAIT_SLEEP")
    /\ Continue(i, TRUE, TRUE)
    /\ KeepModes /\ UNCHANGED csrVars

\* csr_pipe_flush is high in DECODE only, so handle_irq is not looked at.
FlushCsr(i) ==
    /\ ~Exception /\ ~(Is("mret") \/ Is("dret") \/ Is("wfi"))
    /\ FlushNext("DECODE")
    /\ Continue(i, TRUE, TRUE)
    /\ KeepModes /\ UNCHANGED csrVars

CtrlInit ==
    /\ ctrl_fsm_cs = "RESET"
    /\ nmi_mode_q = FALSE
    /\ debug_mode_q = FALSE
    /\ exc_req_q = FALSE
    /\ lsu_err_q = FALSE
    /\ lines \in SUBSET Lines
    /\ pc_if = BootPc
=============================================================================
