---------------------------- MODULE CorePipeline ----------------------------
(***************************************************************************)
(* The controller, the ID/EX stage and the trap registers running together *)
(* on an arbitrary program, and beside them what the program is entitled   *)
(* to: `npc', the address of the instruction that comes next in program    *)
(* order.  An instruction moves npc when it retires, a trap or a debug     *)
(* entry moves it to the handler, mret and dret move it back; nothing in   *)
(* the pipeline reads it.  `interrupted' remembers what an NMI handler has *)
(* to give back.                                                           *)
(***************************************************************************)
EXTENDS Controller

VARIABLES
    npc,
    interrupted     \* [mpie, epc], or Nothing

vars == <<idVars, csrVars, ctrlVars, npc, interrupted>>

Nothing == [mpie |-> FALSE, epc |-> NoPc]

TypeOK ==
    /\ IdTypeOK /\ CsrTypeOK(Pcs) /\ CtrlTypeOK
    /\ npc \in Pcs
    /\ interrupted \in [mpie : BOOLEAN, epc : Pcs \cup {NoPc}]

Init == /\ IdInit /\ CsrInit /\ CtrlInit
        /\ npc = BootPc
        /\ interrupted = Nothing

\* What the other units may do in this cycle.
Inputs ==
    {i \in [run : {ctrl_fsm_cs = "DECODE"}, decision : BOOLEAN,
            exValid : BOOLEAN, lsuValid : BOOLEAN, lsuErr : BOOLEAN,
            fetchValid : BOOLEAN, start : BOOLEAN, clear : BOOLEAN] :
        /\ i.decision => Is("branch")
        /\ Is("muldiv") \/ i.exValid
        /\ i.lsuValid => lsu = "answering"
        /\ i.lsuErr => i.lsuValid
        /\ i.start => ctrl_fsm_cs = "RESET"
        /\ i.clear => Is("mstatus") \/ Is("dcsr")}

-----------------------------------------------------------------------------
(* Program order.                                                          *)

Retires(i) == /\ InstrDone(i)
              /\ ~ExcReqD /\ ~ExcReqLsu(i) /\ ~Is("mret") /\ ~Is("dret")

NextPc == IF id_fsm_q = "MULTI_CYCLE" /\ (Is("branch") \/ Is("jump"))
          THEN Target[instr_id.pc]
          ELSE After(instr_id.pc)

TakesIrq == ctrl_fsm_cs = "IRQ_TAKEN" /\ HandleIrq
TakesNmi == TakesIrq /\ "nmi" \in lines
TakesException == ctrl_fsm_cs = "FLUSH" /\ Exception /\ ~EbreakToDebug

Keep == UNCHANGED <<npc, interrupted>>
Goes(pc) == npc' = pc /\ UNCHANGED interrupted

Step(i) ==
    \/ Reset(i) /\ Keep
    \/ BootSet(i) /\ Keep
    \/ FirstFetch(i) /\ Keep
    \/ WaitSleep(i) /\ Keep
    \/ Sleep(i) /\ Keep
    \/ Decode(i) /\ Goes(IF Retires(i) THEN NextPc ELSE npc)
    \/ /\ IrqTaken(i)
       /\ npc' = CASE TakesNmi -> NmiPc
                   [] TakesIrq /\ ~TakesNmi -> IrqPc
                   [] ~TakesIrq -> npc
       /\ interrupted' = IF TakesNmi
                         THEN [mpie |-> mstatus_q.mpie, epc |-> mepc_q]
                         ELSE interrupted
    \/ DbgTakenIf(i) /\ Goes(IF debug_mode_q' THEN DbgPc ELSE npc)
    \/ DbgTakenId(i) /\ Goes(DbgPc)
    \/ /\ FlushException(i)
       /\ npc' = IF debug_mode_q THEN DbgExcPc ELSE ExcPc
       /\ interrupted' = IF debug_mode_q THEN interrupted ELSE Nothing
    \/ FlushEbreak(i) /\ Keep
    \/ FlushMret(i) /\ npc' = mepc_q /\ interrupted' = Nothing
    \/ FlushDret(i) /\ Goes(depc_q)
    \/ FlushWfi(i) /\ Keep
    \/ FlushCsr(i) /\ Keep

Next == \E i \in Inputs : Step(i)

Spec == Init /\ [][Next]_vars

\* Clocks run (the clock is gated only when nothing is to be done), the core
\* is started, memory answers and the divider finishes.
FairSpec ==
    /\ Spec
    /\ WF_vars(Next)
    /\ WF_vars(\E i \in Inputs : i.start /\ Step(i))
    /\ WF_vars(lsu = "granting" /\ Next /\ lsu' = "answering")
    /\ WF_vars(\E i \in Inputs : i.lsuValid /\ Step(i))
    /\ WF_vars(\E i \in Inputs : Is("muldiv") /\ i.exValid /\ Step(i))

-----------------------------------------------------------------------------
(* Properties.                                                             *)

\* Every instruction is executed once and in program order, whatever
\* interrupts, exceptions, debug requests and waits come between: the
\* instruction the controller runs is the one at npc.
RunsProgramOrder ==
    (ctrl_fsm_cs = "DECODE" /\ instr_valid_id_q) => instr_id.pc = npc

\* Traps are precise: an exception saves the address of the instruction
\* that caused it, an interrupt that of the next instruction in program
\* order; none in between is lost or done twice (csr_save_if/id in IRQ_TAKEN
\* and FLUSH, exception_pc of the CSRs).
TrapsPrecise ==
    [][(TakesIrq \/ (TakesException /\ ~debug_mode_q)) => mepc_q' = npc]_vars

\* So is debug entry on a halt request or a single step: dpc is where dret
\* has to resume (csr_save_if_o in DBG_TAKEN_IF).
DebugPrecise ==
    [][(~debug_mode_q /\ debug_mode_q' /\ ~Is("ebreak")) => depc_q' = npc]_vars

\* When an EBREAK leads into debug mode, dpc is its own address ("dpc (set to
\* the address of the EBREAK, i.e. set to PC in ID stage)", DBG_TAKEN_ID).
EbreakPrecise ==
    [][(~debug_mode_q /\ debug_mode_q' /\ Is("ebreak"))
           => depc_q' = instr_id.pc]_vars

\* A load or store in flight always belongs to the instruction in ID, which
\* is being executed: no redirection leaves its answer for another one.
AccessOwned ==
    lsu # "idle" => /\ ctrl_fsm_cs = "DECODE"
                    /\ IsLsu /\ ~FetchErr /\ id_fsm_q = "MULTI_CYCLE"

\* The ID-EX state machine is back in FIRST_CYCLE whenever an instruction
\* leaves ID, so none starts in its second cycle; a registered branch is
\* the one in ID (and so never set for two cycles, NeverDoubleBranch).
MultiCycleOwned ==
    /\ id_fsm_q = "MULTI_CYCLE" =>
           /\ ctrl_fsm_cs = "DECODE" /\ instr_valid_id_q /\ ~FetchErr
           /\ instr_id.kind \in {"load", "store", "muldiv", "branch", "jump",
                                 "alu2"}
    /\ branch_set_q => Is("branch") /\ id_fsm_q = "MULTI_CYCLE"

\* An NMI that comes in a trap handler is recoverable: unless an exception
\* happened in the NMI handler, its mret gives mepc and mstatus.MPIE back.
NmiRecoverable ==
    [][(nmi_mode_q /\ ~nmi_mode_q' /\ interrupted # Nothing)
           => /\ mepc_q' = interrupted.epc
              /\ mstatus_q'.mpie = interrupted.mpie]_vars

\* Nothing interrupts debug mode or an NMI handler: mepc changes there by an
\* exception's trap only, and dpc never in debug mode.
HandlersShielded ==
    [][/\ debug_mode_q /\ debug_mode_q' => UNCHANGED depc_q
       /\ (debug_mode_q \/ nmi_mode_q) /\ ~TakesException /\ nmi_mode_q'
              => UNCHANGED mepc_q]_vars

\* A non-maskable interrupt that stays up is taken, also by a sleeping core
\* and by one that runs into exceptions again and again.
NmiTaken ==
    ("nmi" \in lines /\ ~nmi_mode_q /\ ~debug_mode_q)
        ~> (nmi_mode_q \/ debug_mode_q \/ "nmi" \notin lines)
=============================================================================
