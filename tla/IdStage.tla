------------------------------ MODULE IdStage ------------------------------
(***************************************************************************)
(* The ID/EX stage, rtl/ibex_id_stage.sv, in the configuration without     *)
(* writeback stage and without branch target ALU (the defaults of          *)
(* rtl/ibex_core.sv): the instruction in the IF-ID pipeline register, the  *)
(* state machine that keeps it there for as many cycles as it needs, and   *)
(* the handshakes with the multiplier/divider and the load-store unit.     *)
(*                                                                         *)
(* The input record `i' of a cycle has, for this module, the fields        *)
(*   run                  controller_run_o: the controller is in DECODE    *)
(*   decision             the comparison of a conditional branch           *)
(*   exValid              the multiplier/divider has its result            *)
(*   lsuValid, lsuErr     the load-store unit answers, with an error       *)
(*   fetchValid           the fetch stage offers an instruction            *)
(***************************************************************************)
EXTENDS Naturals

CONSTANTS
    NPcs,       \* addresses of instructions; they wrap around
    Workloads   \* what a behaviour may consist of, see `workload'

AllKinds == {"alu", "alu2", "muldiv", "load", "store", "branch", "jump",
             "ecall", "ebreak", "mret", "dret", "wfi", "mstatus", "dcsr",
             "illegal"}

ASSUME IdStageAssumption == /\ NPcs \in Nat \ {0}
                            /\ Workloads \subseteq
                                 [kinds : SUBSET AllKinds,
                                  fetchErrs : SUBSET BOOLEAN,
                                  lines : SUBSET {"nmi", "irq", "debug"},
                                  holds : BOOLEAN]

Pcs == 0 .. NPcs - 1
NoPc == NPcs

\* Defect for the model's own test: the address counter is a bit too wide.
AfterUnwrapped(pc) == pc + 1

After(pc) == IF pc = NPcs - 1 THEN 0 ELSE pc + 1

VARIABLES
    workload,           \* fixed in a behaviour: the kinds of instructions the
                        \* program consists of, whether fetches fail, the
                        \* request lines that may be raised, and whether a
                        \* raised one stays until its handler runs
    instr_valid_id_q,   \* ID holds an instruction
    instr_id,           \* that instruction (instr_rdata_id_o, pc_id_o, ...)
    id_fsm_q,           \* FIRST_CYCLE or MULTI_CYCLE
    branch_set_q,       \* the branch in ID is taken in this cycle
    lsu                 \* what the load-store unit does for ID, see LoadStoreUnit

idVars == <<workload, instr_valid_id_q, instr_id, id_fsm_q, branch_set_q, lsu>>

Kinds     == workload.kinds
FetchErrs == workload.fetchErrs

\* An instruction; of one that could not be fetched the decoder sees garbage.
Instr == [pc : Pcs, kind : Kinds, fetchErr : FetchErrs]
NoInstr == [pc |-> NoPc, kind |-> "none", fetchErr |-> FALSE]

IdTypeOK ==
    /\ workload \in Workloads
    /\ instr_valid_id_q \in BOOLEAN
    /\ instr_id \in Instr \cup {NoInstr}
    /\ id_fsm_q \in {"FIRST_CYCLE", "MULTI_CYCLE"}
    /\ branch_set_q \in BOOLEAN
    /\ lsu \in {"idle", "granting", "answering"}

\* The decoder's outputs, qualified with instr_valid_i.
Is(kind) == instr_valid_id_q /\ instr_id.kind = kind
FetchErr == instr_valid_id_q /\ instr_id.fetchErr
IsLsu == Is("load") \/ Is("store")

-----------------------------------------------------------------------------
(* The ID-EX state machine.                                                *)

FirstCycle == instr_valid_id_q /\ id_fsm_q = "FIRST_CYCLE"

Executing(i) == instr_valid_id_q /\ ~FetchErr /\ i.run

\* Starts what takes more than this cycle.
EntersMulti(i) ==
    /\ Executing(i) /\ FirstCycle
    /\ \/ IsLsu
       \/ Is("muldiv") /\ ~i.exValid
       \/ Is("branch") /\ i.decision
       \/ Is("jump")
       \/ Is("alu2")

MulticycleDone(i) == IF IsLsu THEN i.lsuValid ELSE i.exValid

BranchSetD(i) == Executing(i) /\ FirstCycle /\ Is("branch") /\ i.decision
JumpSet(i) == Executing(i) /\ FirstCycle /\ Is("jump")

IdFsmD(i) ==
    IF EntersMulti(i) THEN "MULTI_CYCLE"
    ELSE IF Executing(i) /\ MulticycleDone(i) THEN "FIRST_CYCLE"
    ELSE id_fsm_q

\* The load-store unit is asked in the first cycle of a load or store only,
\* and ID waits for its answer.
LsuReq(i) == Executing(i) /\ FirstCycle /\ IsLsu

\* Defect: a load or store waits for the grant only.
StallMemGranted(i) == lsu = "granting" \/ (IsLsu /\ FirstCycle)

StallMem(i) == instr_valid_id_q /\ (\/ lsu = "granting"
                                    \/ IsLsu /\ (~i.lsuValid \/ FirstCycle))

Stall(i) == \/ StallMem(i)
            \/ EntersMulti(i)
            \/ /\ Executing(i) /\ id_fsm_q = "MULTI_CYCLE"
               /\ Is("muldiv") \/ Is("branch") \/ Is("jump")
               /\ ~MulticycleDone(i)

\* The instruction in ID leaves it, having done its work unless it traps.
InstrDone(i) == Executing(i) /\ ~Stall(i)

-----------------------------------------------------------------------------
(* The clock edge, given the controller's halt_if, flush_id and pc_set.    *)

\* ID takes the next instruction; a redirection makes it invalid at once.
IdInReady(i, halt) == ~Stall(i) /\ ~halt

\* Defect: flush_id does not reach a halted stage.
InstrValidClearHalted(i, halt, flush) == ~(Stall(i) \/ halt)

InstrValidClear(i, halt, flush) == ~(Stall(i) \/ halt) \/ flush

IdRegister(i, halt, flush, pcSet, pc) ==
    LET enters == i.fetchValid /\ IdInReady(i, halt) /\ ~pcSet
        stays  == instr_valid_id_q /\ ~InstrValidClear(i, halt, flush)
    IN  /\ instr_valid_id_q' = (enters \/ stays)
        /\ IF enters
           THEN \E kind \in Kinds, fetchErr \in FetchErrs :
                    instr_id' = [pc |-> pc, kind |-> kind, fetchErr |-> fetchErr]
           ELSE instr_id' = IF stays THEN instr_id ELSE NoInstr

\* The load-store unit takes a request, waits for its grants and for its
\* answer.
LsuHandshake(i) ==
    CASE lsu = "idle"      -> IF LsuReq(i) THEN lsu' \in {"granting", "answering"}
                                           ELSE lsu' = lsu
      [] lsu = "granting"  -> lsu' \in {"granting", "answering"}
      [] lsu = "answering" -> lsu' = IF i.lsuValid THEN "idle" ELSE lsu

IdClock(i, halt, flush, pcSet, pc) ==
    /\ id_fsm_q' = IdFsmD(i)
    /\ branch_set_q' = BranchSetD(i)
    /\ IdRegister(i, halt, flush, pcSet, pc)
    /\ LsuHandshake(i)
    /\ UNCHANGED workload

IdInit ==
    /\ workload \in Workloads
    /\ instr_valid_id_q = FALSE
    /\ instr_id = NoInstr
    /\ id_fsm_q = "FIRST_CYCLE"
    /\ branch_set_q = FALSE
    /\ lsu = "idle"
=============================================================================
