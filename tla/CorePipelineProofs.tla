------------------------- MODULE CorePipelineProofs -------------------------
(***************************************************************************)
(* Theorems about the pipeline, for every number of addresses and every    *)
(* choice of handlers and branch targets: what the stage and the trap      *)
(* registers keep for every workload, and program order, precise traps and *)
(* precise debug entry for those in which no access meets an interrupt.    *)
(***************************************************************************)
EXTENDS CorePipeline, TLAPS

Accesses == {"load", "store"}

\* Where program order can be kept at all: an access that an interrupt meets
\* is done twice, and so may an access or an EBREAK that meets a debug
\* request which is withdrawn before it is taken.
Undisturbed ==
    \A w \in Workloads :
        /\ w.kinds \cap Accesses # {} => w.lines \subseteq {"debug"}
        /\ w.kinds \cap (Accesses \cup {"ebreak"}) # {} /\ "debug" \in w.lines
              => w.holds

-----------------------------------------------------------------------------
(* The inductive invariants.                                               *)

MultiKinds == {"load", "store", "muldiv", "branch", "jump", "alu2"}

\* What takes several cycles belongs to the instruction in ID.
OwnedInv ==
    /\ instr_valid_id_q => instr_id \in Instr
    /\ id_fsm_q = "MULTI_CYCLE" =>
           /\ ctrl_fsm_cs = "DECODE" /\ instr_valid_id_q /\ ~FetchErr
           /\ instr_id.kind \in MultiKinds
    /\ branch_set_q <=> Is("branch") /\ id_fsm_q = "MULTI_CYCLE"
    /\ lsu # "idle" <=> IsLsu /\ id_fsm_q = "MULTI_CYCLE"

\* What each state of the controller relies on.
StateInv ==
    /\ ctrl_fsm_cs = "FLUSH" => instr_valid_id_q
    /\ ctrl_fsm_cs = "DBG_TAKEN_ID" => Is("ebreak")
    /\ ctrl_fsm_cs = "DBG_TAKEN_IF" => ~debug_mode_q

\* What an NMI saved, unless an exception in its handler has overwritten it.
NmiInv == nmi_mode_q /\ interrupted # Nothing =>
              mstack_q.mpie = interrupted.mpie /\ mstack_q.epc = interrupted.epc

IInv == TypeOK /\ OwnedInv /\ StateInv /\ NmiInv

\* Where the fetch stage stands behind the instruction in ID.
Following == IF Is("jump") /\ id_fsm_q = "MULTI_CYCLE"
             THEN Target[instr_id.pc] ELSE After(instr_id.pc)

DebugStays == dcsr_q.step \/ "debug" \in lines

\* The address that comes next in program order, state by state.
OrderInv ==
    /\ ctrl_fsm_cs \in {"RESET", "BOOT_SET"} => npc = BootPc
    /\ ctrl_fsm_cs \in {"RESET", "BOOT_SET", "WAIT_SLEEP", "SLEEP", "FIRST_FETCH"}
           => ~instr_valid_id_q /\ pc_if = npc
    /\ ctrl_fsm_cs = "DECODE" =>
           IF instr_valid_id_q THEN instr_id.pc = npc /\ pc_if = Following
                               ELSE pc_if = npc
    /\ ctrl_fsm_cs = "FLUSH" =>
           /\ Exception => instr_id.pc = npc
           /\ ~Exception /\ ~Is("mret") /\ ~Is("dret") => pc_if = npc
    /\ ctrl_fsm_cs = "IRQ_TAKEN" => pc_if = npc /\ ~IsLsu
    /\ ctrl_fsm_cs = "DBG_TAKEN_IF" =>
           /\ ~Is("ebreak") => pc_if = npc
           /\ Is("ebreak") \/ IsLsu => DebugStays

-----------------------------------------------------------------------------
(* One clock cycle of the ID/EX stage.                                     *)

\* What becomes of the instruction in ID at a clock edge.
Held == /\ instr_valid_id_q' = instr_valid_id_q
        /\ instr_valid_id_q => instr_id' = instr_id
Cleared == ~instr_valid_id_q'
Entered(pc) == /\ instr_valid_id_q'
               /\ instr_id' \in Instr
               /\ instr_id'.pc = pc

\* The fields of an input record, and what the units can say when.
LEMMA InputFacts ==
    ASSUME NEW i \in Inputs
    PROVE  /\ i.run = (ctrl_fsm_cs = "DECODE")
           /\ i.decision \in BOOLEAN /\ i.exValid \in BOOLEAN
           /\ i.lsuValid \in BOOLEAN /\ i.lsuErr \in BOOLEAN
           /\ i.fetchValid \in BOOLEAN
           /\ Is("muldiv") \/ i.exValid
           /\ i.lsuValid => lsu = "answering"
BY DEF Inputs

\* The IF-ID register: held by a stall or a halt, cleared by a flush or a
\* redirection, filled from pc_if otherwise; and pc_if moves with it.
LEMMA RegisterFacts ==
    ASSUME TypeOK, OwnedInv, NEW i \in Inputs, NEW halt \in BOOLEAN,
           NEW flush \in BOOLEAN, NEW pcSet \in BOOLEAN, NEW target,
           Edge(i, halt, flush, pcSet, target)
    PROVE  /\ (Stall(i) \/ halt) /\ ~flush => Held
           /\ flush /\ (halt \/ pcSet) => Cleared
           /\ ~Stall(i) /\ ~halt /\ (pcSet \/ ~i.fetchValid) => Cleared
           /\ ~Stall(i) /\ ~halt /\ ~pcSet /\ i.fetchValid
                  => Entered(pc_if) /\ pc_if' = After(pc_if)
           /\ pcSet => pc_if' = target
           /\ ~pcSet /\ (Stall(i) \/ halt \/ ~i.fetchValid) => pc_if' = pc_if
           /\ instr_valid_id_q' \in BOOLEAN
           /\ instr_id' \in Instr \cup {NoInstr}
           /\ instr_valid_id_q' => instr_id' \in Instr
           /\ workload' = workload
  <1>1. i.fetchValid \in BOOLEAN
    BY InputFacts
  <1>2. pc_if \in Pcs /\ instr_valid_id_q \in BOOLEAN
        /\ instr_id \in Instr \cup {NoInstr}
    BY DEF TypeOK, IdTypeOK, CtrlTypeOK
  <1>3. instr_valid_id_q => instr_id \in Instr
    BY DEF OwnedInv
  <1>4. \A kind \in Kinds, fetchErr \in FetchErrs :
            /\ [pc |-> pc_if, kind |-> kind, fetchErr |-> fetchErr] \in Instr
            /\ [pc |-> pc_if, kind |-> kind, fetchErr |-> fetchErr].pc = pc_if
    BY <1>2 DEF Instr
  <1>5. IdRegister(i, halt, flush, pcSet, pc_if) /\ workload' = workload
    BY DEF Edge, IdClock
  <1>6. pc_if' = IF pcSet THEN target
                 ELSE IF i.fetchValid /\ ~Stall(i) /\ ~halt THEN After(pc_if)
                 ELSE pc_if
    BY DEF Edge, IdInReady
  <1>7. CASE i.fetchValid /\ ~Stall(i) /\ ~halt /\ ~pcSet
    <2>1. instr_valid_id_q' = TRUE
      BY <1>1, <1>5, <1>7 DEF IdRegister, IdInReady
    <2>2. \E kind \in Kinds, fetchErr \in FetchErrs :
              instr_id' = [pc |-> pc_if, kind |-> kind, fetchErr |-> fetchErr]
      BY <1>5, <1>7 DEF IdRegister, IdInReady
    <2>3. instr_id' \in Instr /\ instr_id'.pc = pc_if
      BY <2>2, <1>4
    <2> QED
      BY <2>1, <2>3, <1>5, <1>6, <1>7 DEF Entered
  <1>8. CASE ~(i.fetchValid /\ ~Stall(i) /\ ~halt /\ ~pcSet)
    <2>1. instr_valid_id_q' =
              (instr_valid_id_q /\ (Stall(i) \/ halt) /\ ~flush)
      BY <1>1, <1>2, <1>5, <1>8 DEF IdRegister, IdInReady, InstrValidClear
    <2>2. instr_id' = IF instr_valid_id_q /\ (Stall(i) \/ halt) /\ ~flush
                      THEN instr_id ELSE NoInstr
      BY <1>1, <1>2, <1>5, <1>8 DEF IdRegister, IdInReady, InstrValidClear
    <2> QED
      BY <1>1, <1>2, <1>3, <2>1, <2>2, <1>5, <1>6, <1>8 DEF Held, Cleared
  <1> QED
    BY <1>7, <1>8

\* The load-store unit of a stage that asks for nothing, and of one that does.
LEMMA LsuFacts ==
    ASSUME TypeOK, NEW i, LsuHandshake(i)
    PROVE  /\ lsu = "idle" /\ ~LsuReq(i) => lsu' = "idle"
           /\ lsu = "idle" /\ LsuReq(i) => lsu' \in {"granting", "answering"}
           /\ lsu = "granting" => lsu' \in {"granting", "answering"}
           /\ lsu = "answering" /\ i.lsuValid => lsu' = "idle"
           /\ lsu = "answering" /\ ~i.lsuValid => lsu' = "answering"
  <1>1. CASE lsu = "idle"
    BY <1>1, Zenon DEF LsuHandshake
  <1>2. CASE lsu = "granting"
    BY <1>2, Zenon DEF LsuHandshake
  <1>3. CASE lsu = "answering"
    BY <1>3, Zenon DEF LsuHandshake
  <1> QED
    BY <1>1, <1>2, <1>3 DEF TypeOK, IdTypeOK

-----------------------------------------------------------------------------
(* The ID/EX stage outside and inside DECODE.                              *)

\* Outside DECODE nothing is executed: the state machine rests, the
\* load-store unit is not asked, and no stage stalls for anything but an
\* access that waits in ID to be executed.
LEMMA AwayFromDecode ==
    ASSUME TypeOK, OwnedInv, NEW i \in Inputs, NEW halt, NEW flush,
           NEW pcSet, NEW target,
           Edge(i, halt, flush, pcSet, target), ctrl_fsm_cs # "DECODE"
    PROVE  /\ id_fsm_q = "FIRST_CYCLE" /\ id_fsm_q' = "FIRST_CYCLE"
           /\ branch_set_q' = FALSE
           /\ lsu' = "idle"
           /\ ~IsLsu => ~Stall(i)
           /\ ~Executing(i) /\ ~InstrDone(i) /\ ~i.lsuValid
  <1>1. id_fsm_q = "FIRST_CYCLE" /\ lsu = "idle"
    BY DEF OwnedInv, TypeOK, IdTypeOK
  <1>2. ~i.run /\ ~i.lsuValid
    BY <1>1, InputFacts
  <1>3. ~Executing(i)
    BY <1>2 DEF Executing
  <1>4. LsuHandshake(i) /\ id_fsm_q' = IdFsmD(i) /\ branch_set_q' = BranchSetD(i)
    BY DEF Edge, IdClock
  <1>5. lsu' = "idle"
    BY <1>1, <1>3, <1>4, LsuFacts DEF LsuReq
  <1>6. ~EntersMulti(i)
    BY <1>3 DEF EntersMulti
  <1>7. id_fsm_q' = "FIRST_CYCLE" /\ branch_set_q' = FALSE
    BY <1>1, <1>3, <1>4, <1>6 DEF IdFsmD, BranchSetD
  <1>8. ~IsLsu => ~Stall(i)
    BY <1>1, <1>3, <1>6 DEF Stall, StallMem
  <1> QED
    BY <1>1, <1>2, <1>3, <1>5, <1>7, <1>8 DEF InstrDone

\* A first cycle that is not the last one.
LEMMA EnteringFacts ==
    ASSUME TypeOK, OwnedInv, NEW i \in Inputs, ctrl_fsm_cs = "DECODE",
           EntersMulti(i)
    PROVE  /\ FirstCycle /\ Executing(i) /\ instr_id.kind \in MultiKinds
           /\ Stall(i) /\ ~InstrDone(i) /\ ~branch_set_q
           /\ ~SpecialReqAll(i) /\ ~TakesRequest(i)
           /\ IdFsmD(i) = "MULTI_CYCLE"
           /\ lsu = "idle" /\ (LsuReq(i) <=> IsLsu)
           /\ BranchSetD(i) <=> Is("branch")
           /\ JumpSet(i) <=> Is("jump")
  <1>1. FirstCycle /\ Executing(i) /\ instr_id.kind \in MultiKinds
    BY DEF EntersMulti, Is, IsLsu, MultiKinds
  <1>2. lsu = "idle" /\ ~branch_set_q /\ ~i.lsuValid
    BY <1>1, InputFacts DEF OwnedInv, FirstCycle
  <1>3. Stall(i) /\ ~InstrDone(i) /\ IdFsmD(i) = "MULTI_CYCLE"
    BY DEF Stall, InstrDone, IdFsmD
  <1>4. ~ExcReqD /\ ~ExcReqLsu(i) /\ ~Is("mret") /\ ~Is("dret") /\ ~Is("wfi")
    BY <1>1, <1>2 DEF ExcReqD, ExcReqLsu, IllegalInsn, Is, MultiKinds, Executing
  <1>5. ~SpecialReqAll(i) /\ ~TakesRequest(i)
    BY <1>3, <1>4 DEF SpecialReqAll, CsrPipeFlush, TakesRequest
  <1>6. /\ LsuReq(i) <=> IsLsu
        /\ BranchSetD(i) <=> Is("branch")
        /\ JumpSet(i) <=> Is("jump")
    BY <1>1 DEF LsuReq, BranchSetD, JumpSet, EntersMulti, Is, IsLsu
  <1> QED
    BY <1>1, <1>2, <1>3, <1>5, <1>6

\* A later cycle: it ends when the unit answers, and only an access that
\* fails asks for a flush.
LEMMA MultiFacts ==
    ASSUME TypeOK, OwnedInv, NEW i \in Inputs, id_fsm_q = "MULTI_CYCLE"
    PROVE  /\ ctrl_fsm_cs = "DECODE" /\ Executing(i)
           /\ instr_id.kind \in MultiKinds
           /\ ~EntersMulti(i) /\ ~BranchSetD(i) /\ ~JumpSet(i) /\ ~LsuReq(i)
           /\ Stall(i) <=> ~MulticycleDone(i)
           /\ InstrDone(i) <=> MulticycleDone(i)
           /\ IdFsmD(i) = IF MulticycleDone(i) THEN "FIRST_CYCLE"
                                               ELSE "MULTI_CYCLE"
           /\ ~ExcReqD /\ (SpecialReqAll(i) <=> ExcReqLsu(i))
           /\ ExcReqLsu(i) => IsLsu /\ MulticycleDone(i)
           /\ Is("branch") \/ Is("jump") => MulticycleDone(i)
           /\ IsLsu => (MulticycleDone(i) <=> i.lsuValid)
  <1>1. /\ ctrl_fsm_cs = "DECODE" /\ instr_valid_id_q /\ ~FetchErr
        /\ instr_id.kind \in MultiKinds
    BY DEF OwnedInv
  <1>2. Executing(i)
    BY <1>1, InputFacts DEF Executing
  <1>3. ~FirstCycle
    BY DEF FirstCycle
  <1>4. ~EntersMulti(i) /\ ~BranchSetD(i) /\ ~JumpSet(i) /\ ~LsuReq(i)
    BY <1>3 DEF EntersMulti, BranchSetD, JumpSet, LsuReq
  <1>5. i.lsuValid => lsu = "answering" /\ IsLsu
    BY InputFacts DEF OwnedInv
  <1>6. IsLsu => ~Is("muldiv") /\ ~Is("branch") /\ ~Is("jump")
    BY DEF IsLsu, Is
  <1>7. lsu = "granting" => ~i.lsuValid /\ IsLsu
    BY InputFacts DEF OwnedInv
  <1>8. ~IsLsu /\ ~i.exValid => Is("muldiv")
    BY InputFacts
  <1>9. Stall(i) <=> ~MulticycleDone(i)
    BY <1>1, <1>2, <1>3, <1>4, <1>6, <1>7, <1>8 DEF Stall, StallMem, MulticycleDone
  <1>10. ~ExcReqD /\ ~Is("mret") /\ ~Is("dret") /\ ~Is("wfi")
         /\ ~Is("mstatus") /\ ~Is("dcsr")
    BY <1>1 DEF ExcReqD, IllegalInsn, Is, MultiKinds
  <1>11. ~CsrPipeFlush(i)
    BY <1>10 DEF CsrPipeFlush
  <1>12. Is("branch") \/ Is("jump") => ~IsLsu /\ ~Is("muldiv")
    BY DEF IsLsu, Is
  <1>13. Is("branch") \/ Is("jump") => MulticycleDone(i)
    BY <1>12, InputFacts DEF MulticycleDone
  <1>14. ExcReqLsu(i) => IsLsu /\ MulticycleDone(i)
    BY <1>5 DEF ExcReqLsu, MulticycleDone
  <1> QED
    BY <1>1, <1>2, <1>4, <1>9, <1>10, <1>11, <1>13, <1>14
       DEF IdFsmD, InstrDone, SpecialReqAll, MulticycleDone

\* An instruction that is done in its first cycle, or traps in it.
LEMMA SingleFacts ==
    ASSUME TypeOK, OwnedInv, NEW i \in Inputs, ctrl_fsm_cs = "DECODE",
           id_fsm_q = "FIRST_CYCLE", ~EntersMulti(i)
    PROVE  /\ lsu = "idle" /\ ~branch_set_q /\ ~i.lsuValid /\ ~ExcReqLsu(i)
           /\ ~LsuReq(i) /\ ~BranchSetD(i) /\ ~JumpSet(i)
           /\ IdFsmD(i) = "FIRST_CYCLE"
           /\ Stall(i) <=> IsLsu
           /\ IsLsu => ExcReqD
           /\ InstrDone(i) <=> instr_valid_id_q /\ ~FetchErr /\ ~IsLsu
  <1>1. lsu = "idle" /\ ~branch_set_q
    BY DEF OwnedInv, TypeOK, IdTypeOK
  <1>2. ~i.lsuValid /\ i.run
    BY <1>1, InputFacts
  <1>3. ~LsuReq(i) /\ ~BranchSetD(i) /\ ~JumpSet(i)
    BY DEF LsuReq, BranchSetD, JumpSet, EntersMulti
  <1>4. IdFsmD(i) = "FIRST_CYCLE"
    BY DEF IdFsmD
  <1>5. IsLsu => FetchErr
    BY <1>2 DEF EntersMulti, Executing, FirstCycle, IsLsu, Is, FetchErr
  <1>6. Stall(i) <=> IsLsu
    BY <1>1, <1>2 DEF Stall, StallMem, FirstCycle, IsLsu, Is
  <1>7. IsLsu => ExcReqD
    BY <1>5 DEF ExcReqD
  <1> QED
    BY <1>1, <1>2, <1>3, <1>4, <1>6, <1>7 DEF InstrDone, Executing, ExcReqLsu

-----------------------------------------------------------------------------
(* Every step is a clock edge.                                             *)

LEMMA AfterInPcs == \A pc \in Pcs : After(pc) \in Pcs
BY IdStageAssumption DEF Pcs, After

\* What DECODE does to the stage, as one edge.
LEMMA DecodeEdge ==
    ASSUME TypeOK, OwnedInv, NEW i \in Inputs, Decode(i)
    PROVE  /\ ctrl_fsm_cs = "DECODE"
           /\ Halts(i) \in BOOLEAN /\ SetsPc(i) \in BOOLEAN
           /\ \E target \in Pcs : /\ Edge(i, Halts(i), FALSE, SetsPc(i), target)
                                  /\ SetsPc(i) => target = Target[instr_id.pc]
  <1>1. ctrl_fsm_cs = "DECODE" /\ Halts(i) \in BOOLEAN /\ SetsPc(i) \in BOOLEAN
    BY DEF Decode, Halts, SetsPc
  <1>2. CASE SetsPc(i)
    <2>1. Edge(i, Halts(i), FALSE, TRUE, Target[instr_id.pc])
      BY <1>2 DEF Decode, Redirect
    <2>2. instr_id \in Instr
      BY <1>2 DEF SetsPc, OwnedInv
    <2>3. Target[instr_id.pc] \in Pcs
      BY <2>2, ControllerAssumption DEF Instr
    <2>4. SetsPc(i) = TRUE
      BY <1>1, <1>2
    <2> QED
      BY <1>1, <2>1, <2>3, <2>4
  <1>3. CASE ~SetsPc(i)
    <2>1. Edge(i, Halts(i), FALSE, FALSE, pc_if)
      BY <1>3 DEF Decode, Continue
    <2>2. pc_if \in Pcs
      BY DEF TypeOK, CtrlTypeOK
    <2>3. SetsPc(i) = FALSE
      BY <1>1, <1>3
    <2> QED
      BY <1>1, <2>1, <2>2, <2>3
  <1> QED
    BY <1>2, <1>3

\* So does every state of the controller.
LEMMA StepEdge ==
    ASSUME TypeOK, OwnedInv, NEW i \in Inputs, Step(i)
    PROVE  \E halt, flush, pcSet \in BOOLEAN, target \in Pcs :
               Edge(i, halt, flush, pcSet, target)
  <1>1. /\ {BootPc, IrqPc, NmiPc, ExcPc, DbgPc, DbgExcPc} \subseteq Pcs
        /\ pc_if \in Pcs /\ mepc_q \in Pcs /\ depc_q \in Pcs
    BY ControllerAssumption DEF TypeOK, CtrlTypeOK, CsrTypeOK
  <1>2. CASE Decode(i)
    BY <1>2, DecodeEdge
  <1>3. CASE Reset(i) \/ BootSet(i)
    BY <1>1, <1>3 DEF Reset, BootSet, Redirect
  <1>4. CASE WaitSleep(i) \/ Sleep(i)
    BY <1>1, <1>4 DEF WaitSleep, Sleep, Continue
  <1>5. CASE FirstFetch(i)
    <2>1. Edge(i, EnterDebugMode \/ HandleIrq, FALSE, FALSE, pc_if)
      BY <1>5 DEF FirstFetch, Continue
    <2>2. (EnterDebugMode \/ HandleIrq) \in BOOLEAN
      OBVIOUS
    <2> QED
      BY <1>1, <2>1, <2>2
  <1>6. CASE IrqTaken(i)
    BY <1>1, <1>6 DEF IrqTaken, Continue, Redirect
  <1>7. CASE DbgTakenIf(i) \/ DbgTakenId(i)
    BY <1>1, <1>7 DEF DbgTakenIf, DbgTakenId, Continue, Redirect
  <1>8. CASE FlushException(i)
    BY <1>1, <1>8 DEF FlushException, Redirect
  <1>9. CASE FlushMret(i) \/ FlushDret(i)
    BY <1>1, <1>9 DEF FlushMret, FlushDret, Redirect
  <1>10. CASE FlushEbreak(i) \/ FlushWfi(i) \/ FlushCsr(i)
    BY <1>1, <1>10 DEF FlushEbreak, FlushWfi, FlushCsr, Continue
  <1> QED
    BY <1>2, <1>3, <1>4, <1>5, <1>6, <1>7, <1>8, <1>9, <1>10 DEF Step

\* A stage that goes on with the instruction in ID stays in DECODE.
LEMMA StallStays ==
    ASSUME TypeOK, OwnedInv, NEW i \in Inputs, Decode(i),
           EntersMulti(i) \/ (id_fsm_q = "MULTI_CYCLE" /\ ~MulticycleDone(i))
    PROVE  Stall(i) /\ Held /\ ctrl_fsm_cs' = "DECODE"
           /\ id_fsm_q' = "MULTI_CYCLE"
  <1>1. PICK target \in Pcs : Edge(i, Halts(i), FALSE, SetsPc(i), target)
    BY DecodeEdge
  <1>2. ctrl_fsm_cs = "DECODE" /\ Halts(i) \in BOOLEAN /\ SetsPc(i) \in BOOLEAN
    BY DecodeEdge
  <1>3. Stall(i) /\ ~SpecialReqAll(i) /\ IdFsmD(i) = "MULTI_CYCLE"
    BY <1>2, EnteringFacts, MultiFacts
  <1>4. ctrl_fsm_cs' = "DECODE"
    BY <1>3 DEF Decode, TakesRequest
  <1>5. Held
    BY <1>1, <1>2, <1>3, RegisterFacts
  <1>6. id_fsm_q' = "MULTI_CYCLE"
    BY <1>1, <1>3 DEF Edge, IdClock
  <1> QED
    BY <1>3, <1>4, <1>5, <1>6

LEMMA OwnedStep ==
    ASSUME TypeOK, OwnedInv, NEW i \in Inputs, Step(i)
    PROVE  OwnedInv'
  <1>1. PICK halt \in BOOLEAN, flush \in BOOLEAN, pcSet \in BOOLEAN,
             target \in Pcs : Edge(i, halt, flush, pcSet, target)
    BY StepEdge
  <1>2. /\ id_fsm_q' = IdFsmD(i)
        /\ branch_set_q' = BranchSetD(i)
        /\ LsuHandshake(i)
    BY <1>1 DEF Edge, IdClock
  <1>3. instr_valid_id_q' => instr_id' \in Instr
    BY <1>1, RegisterFacts
  <1>4. Instr' = Instr
    BY <1>1, RegisterFacts DEF Instr, Kinds, FetchErrs
  <1>5. SUFFICES /\ id_fsm_q' = "MULTI_CYCLE" =>
                       /\ ctrl_fsm_cs' = "DECODE" /\ instr_valid_id_q'
                       /\ ~FetchErr'
                       /\ instr_id'.kind \in MultiKinds
                 /\ branch_set_q' <=> Is("branch")' /\ id_fsm_q' = "MULTI_CYCLE"
                 /\ lsu' # "idle" <=> IsLsu' /\ id_fsm_q' = "MULTI_CYCLE"
    BY <1>3, <1>4 DEF OwnedInv
  <1>6. CASE id_fsm_q' # "MULTI_CYCLE" /\ ~branch_set_q' /\ lsu' = "idle"
    BY <1>6
  <1>7. CASE ctrl_fsm_cs # "DECODE"
    BY <1>1, <1>6, <1>7, AwayFromDecode
  <1>8. CASE ctrl_fsm_cs = "DECODE"
    <2>1. Decode(i)
      BY <1>8 DEF Step, Reset, BootSet, FirstFetch, WaitSleep, Sleep, IrqTaken,
                  DbgTakenIf, DbgTakenId, FlushException, FlushEbreak, FlushMret,
                  FlushDret, FlushWfi, FlushCsr, FlushNext
    <2>2. CASE EntersMulti(i)
      <3>1. Held /\ ctrl_fsm_cs' = "DECODE"
        BY <2>1, <2>2, StallStays
      <3>2. /\ instr_valid_id_q /\ ~FetchErr /\ instr_id.kind \in MultiKinds
            /\ IdFsmD(i) = "MULTI_CYCLE"
            /\ BranchSetD(i) <=> Is("branch")
            /\ lsu = "idle" /\ (LsuReq(i) <=> IsLsu)
        BY <1>8, <2>2, EnteringFacts DEF FirstCycle, Executing
      <3>3. instr_valid_id_q' /\ instr_id' = instr_id
        BY <3>1, <3>2 DEF Held
      <3>4. ~FetchErr' /\ (Is("branch")' <=> Is("branch")) /\ (IsLsu' <=> IsLsu)
        BY <3>2, <3>3 DEF FetchErr, IsLsu, Is
      <3>5. lsu' # "idle" <=> IsLsu
        BY <3>2, <1>2, LsuFacts
      <3> QED
        BY <3>1, <3>2, <3>3, <3>4, <3>5, <1>2
    <2>3. CASE ~EntersMulti(i) /\ id_fsm_q = "FIRST_CYCLE"
      <3>1. IdFsmD(i) = "FIRST_CYCLE" /\ ~BranchSetD(i) /\ ~LsuReq(i)
            /\ lsu = "idle"
        BY <1>8, <2>3, SingleFacts
      <3>2. lsu' = "idle"
        BY <3>1, <1>2, LsuFacts
      <3> QED
        BY <3>1, <3>2, <1>2, <1>6
    <2>4. CASE id_fsm_q = "MULTI_CYCLE" /\ MulticycleDone(i)
      <3>1. /\ IdFsmD(i) = "FIRST_CYCLE" /\ ~BranchSetD(i) /\ ~LsuReq(i)
            /\ IsLsu => i.lsuValid
        BY <2>4, MultiFacts
      <3>2. lsu # "idle" => i.lsuValid /\ lsu = "answering"
        BY <3>1, InputFacts DEF OwnedInv
      <3>3. lsu' = "idle"
        BY <3>1, <3>2, <1>2, LsuFacts
      <3> QED
        BY <3>1, <3>3, <1>2, <1>6
    <2>5. CASE id_fsm_q = "MULTI_CYCLE" /\ ~MulticycleDone(i)
      <3>1. Held /\ ctrl_fsm_cs' = "DECODE" /\ id_fsm_q' = "MULTI_CYCLE"
        BY <2>1, <2>5, StallStays
      <3>2. /\ instr_valid_id_q /\ ~FetchErr /\ instr_id.kind \in MultiKinds
            /\ ~BranchSetD(i) /\ ~LsuReq(i)
            /\ Is("branch") => MulticycleDone(i)
            /\ IsLsu => ~i.lsuValid
        BY <2>5, MultiFacts DEF OwnedInv
      <3>3. instr_valid_id_q' /\ instr_id' = instr_id
        BY <3>1, <3>2 DEF Held
      <3>4. ~FetchErr' /\ ~Is("branch")' /\ (IsLsu' <=> IsLsu)
        BY <2>5, <3>2, <3>3 DEF FetchErr, IsLsu, Is
      <3>5. lsu # "idle" <=> IsLsu
        BY <2>5 DEF OwnedInv
      <3>6. lsu \in {"idle", "granting", "answering"}
        BY DEF TypeOK, IdTypeOK
      <3>7. lsu' # "idle" <=> IsLsu
        BY <3>2, <3>5, <3>6, <1>2, LsuFacts
      <3> QED
        BY <3>1, <3>2, <3>3, <3>4, <3>7, <1>2
    <2> QED
      BY <2>2, <2>3, <2>4, <2>5 DEF TypeOK, IdTypeOK
  <1> QED
    BY <1>7, <1>8

-----------------------------------------------------------------------------
(* Type correctness and the rest of the invariant.                         *)

\* Where IRQ_TAKEN goes on, and what it remembers.
LEMMA IrqFacts ==
    ASSUME NEW i, Step(i), ctrl_fsm_cs = "IRQ_TAKEN"
    PROVE  /\ IrqTaken(i)
           /\ HandleIrq => npc' = IF "nmi" \in lines THEN NmiPc ELSE IrqPc
           /\ ~HandleIrq => npc' = npc
           /\ interrupted' = IF HandleIrq /\ "nmi" \in lines
                             THEN [mpie |-> mstatus_q.mpie, epc |-> mepc_q]
                             ELSE interrupted
  <1>1. /\ IrqTaken(i)
        /\ npc' = CASE TakesNmi -> NmiPc
                    [] TakesIrq /\ ~TakesNmi -> IrqPc
                    [] ~TakesIrq -> npc
        /\ interrupted' = IF TakesNmi
                          THEN [mpie |-> mstatus_q.mpie, epc |-> mepc_q]
                          ELSE interrupted
    BY Zenon DEF Step, Reset, BootSet, FirstFetch, WaitSleep, Sleep, Decode, DbgTakenIf,
           DbgTakenId, FlushException, FlushEbreak, FlushMret, FlushDret, FlushWfi,
           FlushCsr, FlushNext
  <1>2. (TakesIrq <=> HandleIrq) /\ (TakesNmi <=> HandleIrq /\ "nmi" \in lines)
    BY DEF TakesIrq, TakesNmi
  <1>3. TakesNmi => TakesIrq
    BY DEF TakesNmi
  <1>4. TakesNmi => npc' = NmiPc
    BY <1>1, <1>3, Zenon
  <1>5. TakesIrq /\ ~TakesNmi => npc' = IrqPc
    BY <1>1, Zenon
  <1>6. ~TakesIrq => npc' = npc
    BY <1>1, <1>3, Zenon
  <1> QED
    BY <1>1, <1>2, <1>4, <1>5, <1>6

\* The actions of a step, by the state they belong to.
LEMMA StepByState ==
    ASSUME NEW i, Step(i), TypeOK
    PROVE  \/ ctrl_fsm_cs = "RESET" /\ Reset(i) /\ Keep
           \/ ctrl_fsm_cs = "BOOT_SET" /\ BootSet(i) /\ Keep
           \/ ctrl_fsm_cs = "FIRST_FETCH" /\ FirstFetch(i) /\ Keep
           \/ ctrl_fsm_cs = "WAIT_SLEEP" /\ WaitSleep(i) /\ Keep
           \/ ctrl_fsm_cs = "SLEEP" /\ Sleep(i) /\ Keep
           \/ /\ ctrl_fsm_cs = "DECODE" /\ Decode(i)
              /\ Goes(IF Retires(i) THEN NextPc ELSE npc)
           \/ ctrl_fsm_cs = "IRQ_TAKEN" /\ IrqTaken(i)
           \/ /\ ctrl_fsm_cs = "DBG_TAKEN_IF" /\ DbgTakenIf(i)
              /\ Goes(IF debug_mode_q' THEN DbgPc ELSE npc)
           \/ ctrl_fsm_cs = "DBG_TAKEN_ID" /\ DbgTakenId(i) /\ Goes(DbgPc)
           \/ /\ ctrl_fsm_cs = "FLUSH" /\ FlushException(i)
              /\ npc' = IF debug_mode_q THEN DbgExcPc ELSE ExcPc
              /\ interrupted' = IF debug_mode_q THEN interrupted ELSE Nothing
           \/ ctrl_fsm_cs = "FLUSH" /\ FlushEbreak(i) /\ Keep
           \/ /\ ctrl_fsm_cs = "FLUSH" /\ FlushMret(i)
              /\ npc' = mepc_q /\ interrupted' = Nothing
           \/ ctrl_fsm_cs = "FLUSH" /\ FlushDret(i) /\ Goes(depc_q)
           \/ ctrl_fsm_cs = "FLUSH" /\ FlushWfi(i) /\ Keep
           \/ ctrl_fsm_cs = "FLUSH" /\ FlushCsr(i) /\ Keep
  <1>1. /\ Reset(i) => ctrl_fsm_cs = "RESET"
        /\ BootSet(i) => ctrl_fsm_cs = "BOOT_SET"
        /\ FirstFetch(i) => ctrl_fsm_cs = "FIRST_FETCH"
        /\ WaitSleep(i) => ctrl_fsm_cs = "WAIT_SLEEP"
        /\ Sleep(i) => ctrl_fsm_cs = "SLEEP"
        /\ Decode(i) => ctrl_fsm_cs = "DECODE"
        /\ IrqTaken(i) => ctrl_fsm_cs = "IRQ_TAKEN"
        /\ DbgTakenIf(i) => ctrl_fsm_cs = "DBG_TAKEN_IF"
        /\ DbgTakenId(i) => ctrl_fsm_cs = "DBG_TAKEN_ID"
    BY DEF Reset, BootSet, FirstFetch, WaitSleep, Sleep, Decode, IrqTaken, DbgTakenIf,
           DbgTakenId
  <1>2. FlushException(i) \/ FlushEbreak(i) \/ FlushMret(i) \/ FlushDret(i)
        \/ FlushWfi(i) \/ FlushCsr(i) => ctrl_fsm_cs = "FLUSH"
    BY DEF FlushException, FlushEbreak, FlushMret, FlushDret, FlushWfi, FlushCsr,
           FlushNext
  <1> QED
    BY <1>1, <1>2, Zenon DEF Step

LEMMA CsrTypeStep ==
    ASSUME TypeOK, OwnedInv, StateInv, NEW i \in Inputs, Step(i)
    PROVE  CsrTypeOK(Pcs)'
  <1> USE DEF CsrTypeOK
  <1>1. CsrTypeOK(Pcs) /\ pc_if \in Pcs
    BY DEF TypeOK, CtrlTypeOK
  <1>2. Pcs' = Pcs
    BY DEF Pcs
  <1>3. CASE UNCHANGED csrVars
    BY <1>1, <1>2, <1>3 DEF csrVars
  <1>4. CASE Decode(i)
    <2>1. CASE \E clear : WriteMstatus(clear)
      BY <1>1, <1>2, <2>1 DEF WriteMstatus
    <2>2. CASE \E clear : WriteDcsr(clear)
      BY <1>1, <1>2, <2>2 DEF WriteDcsr
    <2> QED
      BY <1>3, <1>4, <2>1, <2>2 DEF Decode
  <1>5. ASSUME NEW pc \in Pcs, NEW mode, SaveTrap(pc, mode)
        PROVE  CsrTypeOK(Pcs)'
    <2>1. CASE ~mode
      <3>1. /\ mstatus_q' = [mie |-> FALSE, mpie |-> mstatus_q.mie]
            /\ mepc_q' = pc
            /\ mstack_q' = [mpie |-> mstatus_q.mpie, epc |-> mepc_q]
            /\ depc_q' = depc_q /\ dcsr_q' = dcsr_q
        BY <1>5, <2>1 DEF SaveTrap
      <3>2. mstatus_q.mie \in BOOLEAN /\ mstatus_q.mpie \in BOOLEAN
        BY <1>1
      <3> QED
        BY <1>1, <1>2, <1>5, <3>1, <3>2
    <2> QED
      BY <1>3, <1>5, <2>1 DEF SaveTrap
  <1>6. ASSUME NEW pc \in Pcs, SaveDebug(pc)
        PROVE  CsrTypeOK(Pcs)'
    BY <1>1, <1>2, <1>6 DEF SaveDebug
  <1>7. CASE IrqTaken(i)
    BY <1>1, <1>3, <1>5, <1>7 DEF IrqTaken
  <1>8. CASE DbgTakenIf(i)
    BY <1>1, <1>3, <1>6, <1>8 DEF DbgTakenIf
  <1>9. CASE DbgTakenId(i)
    <2>1. instr_id.pc \in Pcs
      BY <1>9 DEF DbgTakenId, StateInv, Is, OwnedInv, Instr
    <2> QED
      BY <1>3, <1>6, <1>9, <2>1 DEF DbgTakenId
  <1>10. CASE FlushException(i)
    <2>1. instr_id.pc \in Pcs
      BY <1>10 DEF FlushException, FlushNext, StateInv, OwnedInv, Instr
    <2> QED
      BY <1>5, <1>10, <2>1 DEF FlushException, ExceptionPc
  <1>11. CASE FlushMret(i)
    <2>1. RestoreMret(nmi_mode_q)
      BY <1>11 DEF FlushMret
    <2>2. mstack_q.mpie \in BOOLEAN /\ mstack_q.epc \in Pcs
          /\ mstatus_q.mpie \in BOOLEAN
      BY <1>1
    <2> QED
      BY <1>1, <1>2, <2>1, <2>2 DEF RestoreMret
  <1>12. CASE FlushEbreak(i) \/ FlushDret(i) \/ FlushWfi(i) \/ FlushCsr(i)
    BY <1>3, <1>12 DEF FlushEbreak, FlushDret, FlushWfi, FlushCsr
  <1>13. CASE Reset(i) \/ BootSet(i) \/ WaitSleep(i) \/ Sleep(i) \/ FirstFetch(i)
    BY <1>3, <1>13 DEF Reset, BootSet, WaitSleep, Sleep, FirstFetch
  <1> QED
    BY <1>4, <1>7, <1>8, <1>9, <1>10, <1>11, <1>12, <1>13, StepByState

LEMMA TypeStep ==
    ASSUME TypeOK, OwnedInv, StateInv, NEW i \in Inputs, Step(i)
    PROVE  TypeOK'
  <1>1. PICK halt \in BOOLEAN, flush \in BOOLEAN, pcSet \in BOOLEAN,
             target \in Pcs : Edge(i, halt, flush, pcSet, target)
    BY StepEdge
  <1>2. workload' = workload /\ Pcs' = Pcs /\ NoPc' = NoPc
    BY <1>1, RegisterFacts DEF Pcs, NoPc
  <1>3. IdTypeOK'
    <2>1. instr_valid_id_q' \in BOOLEAN /\ instr_id' \in Instr \cup {NoInstr}
      BY <1>1, RegisterFacts
    <2>2. Instr' = Instr /\ NoInstr' = NoInstr
      BY <1>2 DEF Instr, Kinds, FetchErrs, NoInstr
    <2>3. id_fsm_q' \in {"FIRST_CYCLE", "MULTI_CYCLE"} /\ branch_set_q' \in BOOLEAN
      BY <1>1 DEF Edge, IdClock, IdFsmD, BranchSetD, TypeOK, IdTypeOK
    <2>4. lsu' \in {"idle", "granting", "answering"}
      BY <1>1, LsuFacts, InputFacts DEF Edge, IdClock, TypeOK, IdTypeOK
    <2> QED
      BY <1>2, <2>1, <2>2, <2>3, <2>4 DEF IdTypeOK, TypeOK
  <1>4. CsrTypeOK(Pcs)'
    BY CsrTypeStep
  <1>5. CtrlTypeOK'
    <2>1. exc_req_q' \in BOOLEAN /\ lsu_err_q' \in BOOLEAN
      BY <1>1 DEF Edge, ExcReqD, ExcReqLsu
    <2>2. lines' \subseteq Lines'
      BY <1>1, <1>2 DEF Edge, Lines
    <2>3. pc_if' \in Pcs
      BY <1>1, AfterInPcs DEF Edge, TypeOK, CtrlTypeOK
    <2>4. nmi_mode_q' \in BOOLEAN /\ debug_mode_q' \in BOOLEAN
      <3>1. nmi_mode_q \in BOOLEAN /\ debug_mode_q \in BOOLEAN
        BY DEF TypeOK, CtrlTypeOK
      <3>2. \/ IrqTaken(i) /\ HandleIrq
            \/ nmi_mode_q' = nmi_mode_q
            \/ nmi_mode_q' = FALSE
        BY StepByState
           DEF KeepModes, Reset, BootSet, FirstFetch, WaitSleep, Sleep, Decode,
               DbgTakenIf, DbgTakenId, IrqTaken, FlushException, FlushEbreak, FlushMret,
               FlushDret, FlushWfi, FlushCsr
      <3>3. HandleIrq /\ IrqTaken(i) => nmi_mode_q' = ("nmi" \in lines)
        BY DEF IrqTaken
      <3>4. \/ debug_mode_q' = debug_mode_q
            \/ debug_mode_q' = TRUE
            \/ debug_mode_q' = FALSE
        BY StepByState
           DEF KeepModes, Reset, BootSet, FirstFetch, WaitSleep, Sleep, Decode,
               DbgTakenIf, DbgTakenId, IrqTaken, FlushException, FlushEbreak, FlushMret,
               FlushDret, FlushWfi, FlushCsr
      <3>5. ("nmi" \in lines) \in BOOLEAN
        OBVIOUS
      <3>6. nmi_mode_q' \in BOOLEAN
        BY <3>1, <3>2, <3>3, <3>5
      <3> QED
        BY <3>1, <3>4, <3>6
    <2>5. ctrl_fsm_cs' \in {"RESET", "BOOT_SET", "WAIT_SLEEP", "SLEEP",
                            "FIRST_FETCH", "DECODE", "FLUSH", "IRQ_TAKEN",
                            "DBG_TAKEN_IF", "DBG_TAKEN_ID"}
      BY StepByState
         DEF Reset, BootSet, FirstFetch, WaitSleep, Sleep, Decode, DbgTakenIf,
             DbgTakenId, IrqTaken, FlushException, FlushEbreak, FlushMret, FlushDret,
             FlushWfi, FlushCsr, FlushNext
    <2> QED
      BY <1>2, <2>1, <2>2, <2>3, <2>4, <2>5 DEF CtrlTypeOK
  <1>6. npc' \in Pcs /\ interrupted' \in [mpie : BOOLEAN, epc : Pcs \cup {NoPc}]
    <2>1. /\ npc \in Pcs /\ interrupted \in [mpie : BOOLEAN, epc : Pcs \cup {NoPc}]
          /\ mepc_q \in Pcs /\ depc_q \in Pcs /\ mstatus_q.mpie \in BOOLEAN
      BY DEF TypeOK, CsrTypeOK
    <2>2. {BootPc, IrqPc, NmiPc, ExcPc, DbgPc, DbgExcPc} \subseteq Pcs
      BY ControllerAssumption
    <2>3. Nothing \in [mpie : BOOLEAN, epc : Pcs \cup {NoPc}]
      BY DEF Nothing
    <2>4. Retires(i) => NextPc \in Pcs
      <3>1. Retires(i) => instr_id.pc \in Pcs
        BY DEF Retires, InstrDone, Executing, OwnedInv, Instr
      <3> QED
        BY <3>1, AfterInPcs, ControllerAssumption DEF NextPc
    <2>5. CASE ctrl_fsm_cs = "IRQ_TAKEN"
      BY <2>1, <2>2, <2>5, IrqFacts
    <2>6. CASE ctrl_fsm_cs # "IRQ_TAKEN"
      BY <2>1, <2>2, <2>3, <2>4, <2>6, StepByState DEF Keep, Goes
    <2> QED
      BY <2>5, <2>6
  <1> QED
    BY <1>2, <1>3, <1>4, <1>5, <1>6 DEF TypeOK

\* FLUSH and DBG_TAKEN_ID find the instruction they are for in ID.
LEMMA StateStep ==
    ASSUME TypeOK, OwnedInv, StateInv, NEW i \in Inputs, Step(i)
    PROVE  StateInv'
  <1>1. ASSUME ctrl_fsm_cs' = "FLUSH"
        PROVE  instr_valid_id_q'
    <2>1. Decode(i) /\ instr_valid_id_q /\ SpecialReqAll(i)
      BY <1>1, StepByState
         DEF Reset, BootSet, FirstFetch, WaitSleep, Sleep, Decode, DbgTakenIf,
             DbgTakenId, IrqTaken, FlushException, FlushEbreak, FlushMret, FlushDret,
             FlushWfi, FlushCsr, FlushNext
    <2>2. PICK target \in Pcs : Edge(i, Halts(i), FALSE, SetsPc(i), target)
      BY <2>1, DecodeEdge
    <2>3. Halts(i) /\ Halts(i) \in BOOLEAN /\ SetsPc(i) \in BOOLEAN
      BY <2>1, DecodeEdge DEF Halts
    <2>4. Held
      BY <2>2, <2>3, RegisterFacts
    <2> QED
      BY <2>1, <2>4 DEF Held
  <1>2. ASSUME ctrl_fsm_cs' = "DBG_TAKEN_ID"
        PROVE  Is("ebreak")'
    <2>1. FlushEbreak(i) /\ Is("ebreak")
      BY <1>2, StepByState
         DEF Reset, BootSet, FirstFetch, WaitSleep, Sleep, Decode, DbgTakenIf,
             DbgTakenId, IrqTaken, FlushException, FlushEbreak, FlushMret, FlushDret,
             FlushWfi, FlushCsr, FlushNext, EbreakToDebug
    <2>2. Edge(i, TRUE, FALSE, FALSE, pc_if)
      BY <2>1 DEF FlushEbreak, Continue
    <2>3. Held
      BY <2>2, RegisterFacts
    <2> QED
      BY <2>1, <2>3 DEF Held, Is
  <1>3. ASSUME ctrl_fsm_cs' = "DBG_TAKEN_IF"
        PROVE  ~debug_mode_q'
    BY <1>3, StepByState
       DEF Reset, BootSet, FirstFetch, WaitSleep, Sleep, Decode, DbgTakenIf,
           DbgTakenId, IrqTaken, FlushException, FlushEbreak, FlushMret, FlushDret,
           FlushWfi, FlushCsr, FlushNext, EnterDebugMode, TakesRequest, KeepModes
  <1> QED
    BY <1>1, <1>2, <1>3 DEF StateInv

\* The NMI's backup is overwritten by a trap only, and an exception is the
\* only trap an NMI handler can meet.
LEMMA NmiStep ==
    ASSUME TypeOK, StateInv, NmiInv, NEW i \in Inputs, Step(i)
    PROVE  NmiInv'
  <1>1. CASE UNCHANGED <<mstack_q, interrupted>> /\ nmi_mode_q' = nmi_mode_q
    BY <1>1 DEF NmiInv, Nothing, NoPc
  <1>2. CASE ~nmi_mode_q'
    BY <1>2 DEF NmiInv
  <1>3. CASE interrupted' = Nothing
    BY <1>3 DEF NmiInv, Nothing, NoPc
  <1>4. CASE ctrl_fsm_cs = "IRQ_TAKEN"
    <2>1. IrqTaken(i)
      BY <1>4, IrqFacts
    <2>2. CASE HandleIrq /\ "nmi" \in lines
      <3>1. interrupted' = [mpie |-> mstatus_q.mpie, epc |-> mepc_q]
        BY <1>4, <2>2, IrqFacts
      <3>2. mstack_q' = [mpie |-> mstatus_q.mpie, epc |-> mepc_q]
        BY <2>1, <2>2 DEF IrqTaken, SaveTrap, HandleIrq
      <3> QED
        BY <3>1, <3>2 DEF NmiInv
    <2>3. CASE HandleIrq /\ "nmi" \notin lines
      BY <1>2, <2>1, <2>3 DEF IrqTaken
    <2>4. CASE ~HandleIrq
      BY <1>1, <1>4, <2>1, <2>4, IrqFacts DEF IrqTaken, csrVars
    <2> QED
      BY <2>2, <2>3, <2>4
  <1>5. CASE FlushException(i) /\ interrupted' = IF debug_mode_q THEN interrupted
                                                                ELSE Nothing
    BY <1>1, <1>3, <1>5 DEF FlushException, SaveTrap, csrVars, KeepModes
  <1>6. CASE FlushMret(i)
    BY <1>2, <1>6 DEF FlushMret
  <1>7. CASE /\ ctrl_fsm_cs # "IRQ_TAKEN" /\ ~FlushMret(i)
             /\ ~(/\ FlushException(i)
                  /\ interrupted' = IF debug_mode_q THEN interrupted ELSE Nothing)
    <2>1. interrupted' = interrupted
      BY <1>7, StepByState DEF Keep, Goes
    <2>2. nmi_mode_q' = nmi_mode_q
      BY <1>7, StepByState
         DEF Reset, BootSet, FirstFetch, WaitSleep, Sleep, Decode, DbgTakenIf,
             DbgTakenId, FlushEbreak, FlushDret, FlushWfi, FlushCsr, KeepModes
    <2>3. mstack_q' = mstack_q
      BY <1>7, StepByState
         DEF Reset, BootSet, FirstFetch, WaitSleep, Sleep, Decode, DbgTakenIf,
             DbgTakenId, FlushEbreak, FlushDret, FlushWfi, FlushCsr, csrVars,
             WriteMstatus, WriteDcsr, SaveDebug
    <2> QED
      BY <1>1, <2>1, <2>2, <2>3
  <1> QED
    BY <1>4, <1>5, <1>6, <1>7

LEMMA InitHolds == Init => IInv
  <1> SUFFICES ASSUME Init PROVE IInv
    OBVIOUS
  <1>1. {BootPc, 0} \subseteq Pcs
    BY ControllerAssumption, IdStageAssumption DEF Pcs
  <1>2. IdTypeOK
    BY DEF Init, IdInit, IdTypeOK
  <1>3. CsrTypeOK(Pcs)
    BY <1>1 DEF Init, CsrInit, CsrTypeOK
  <1>4. CtrlTypeOK
    BY <1>1 DEF Init, CtrlInit, CtrlTypeOK
  <1>5. npc \in Pcs /\ interrupted \in [mpie : BOOLEAN, epc : Pcs \cup {NoPc}]
    BY <1>1 DEF Init, Nothing
  <1>6. TypeOK
    BY <1>2, <1>3, <1>4, <1>5 DEF TypeOK
  <1>7. OwnedInv
    BY DEF Init, IdInit, OwnedInv, Is, IsLsu
  <1>8. StateInv /\ NmiInv
    BY DEF Init, CtrlInit, StateInv, NmiInv
  <1> QED
    BY <1>6, <1>7, <1>8 DEF IInv

LEMMA NextHolds == IInv /\ [Next]_vars => IInv'
  <1> SUFFICES ASSUME IInv, [Next]_vars PROVE IInv'
    OBVIOUS
  <1>1. TypeOK /\ OwnedInv /\ StateInv /\ NmiInv
    BY DEF IInv
  <1>2. CASE Next
    <2>1. PICK i \in Inputs : Step(i)
      BY <1>2 DEF Next
    <2> QED
      BY <1>1, <2>1, TypeStep, OwnedStep, StateStep, NmiStep DEF IInv
  <1>3. CASE UNCHANGED vars
    <2>1. UNCHANGED idVars /\ UNCHANGED csrVars /\ UNCHANGED ctrlVars
          /\ UNCHANGED <<npc, interrupted>>
      BY <1>3 DEF vars
    <2> USE <2>1 DEF idVars, csrVars, ctrlVars
    <2>2. Pcs' = Pcs /\ NoPc' = NoPc /\ Instr' = Instr /\ NoInstr' = NoInstr
      BY DEF Pcs, NoPc, Instr, Kinds, FetchErrs, NoInstr
    <2>3. IdTypeOK'
      BY <1>1, <2>2 DEF TypeOK, IdTypeOK
    <2>4. CsrTypeOK(Pcs)'
      BY <1>1, <2>2 DEF TypeOK, CsrTypeOK
    <2>5. CtrlTypeOK'
      BY <1>1, <2>2 DEF TypeOK, CtrlTypeOK, Lines
    <2>6. TypeOK'
      BY <1>1, <2>2, <2>3, <2>4, <2>5 DEF TypeOK
    <2>7. OwnedInv'
      BY <1>1, <2>2 DEF OwnedInv, Is, IsLsu, FetchErr
    <2>8. StateInv'
      BY <1>1 DEF StateInv, Is
    <2>9. NmiInv'
      BY <1>1 DEF NmiInv, Nothing, NoPc
    <2> QED
      BY <2>6, <2>7, <2>8, <2>9 DEF IInv
  <1> QED
    BY <1>2, <1>3

-----------------------------------------------------------------------------
(* What holds for every workload.                                          *)

\* The inductive invariant holds in every reachable state, whatever program
\* runs and whichever lines are raised.
THEOREM Invariance == Spec => []IInv
<1> QED
  BY InitHolds, NextHolds, PTL DEF Spec

\* Every register of the pipeline stays in its range (the types of the RTL's
\* registers and their widths).
THEOREM TypeCorrect == Spec => []TypeOK
<1>1. IInv => TypeOK
  BY DEF IInv
<1> QED
  BY <1>1, Invariance, PTL

\* No redirection, interrupt or debug request leaves the answer of a load or
\* store to another instruction (stall_mem, controller_run of the ID stage).
THEOREM AccessesOwned == Spec => []AccessOwned
<1>1. IInv => AccessOwned
  BY DEF IInv, OwnedInv, AccessOwned
<1> QED
  BY <1>1, Invariance, PTL

\* No instruction starts in its second cycle and no branch is set twice
\* (id_fsm_q, NeverDoubleBranch).
THEOREM CyclesOwned == Spec => []MultiCycleOwned
<1>1. IInv => MultiCycleOwned
  BY DEF IInv, OwnedInv, MultiKinds, MultiCycleOwned
<1> QED
  BY <1>1, Invariance, PTL

\* Debug mode and NMI handlers are never interrupted in a way that changes
\* where they return to (handle_irq, enter_debug_mode).
THEOREM Shielded == Spec => HandlersShielded
<1>1. IInv /\ [Next]_vars =>
          [/\ debug_mode_q /\ debug_mode_q' => UNCHANGED depc_q
           /\ (debug_mode_q \/ nmi_mode_q) /\ ~TakesException /\ nmi_mode_q'
                  => UNCHANGED mepc_q]_vars
  <2> SUFFICES ASSUME IInv, Next
               PROVE  /\ debug_mode_q /\ debug_mode_q' => depc_q' = depc_q
                      /\ (debug_mode_q \/ nmi_mode_q) /\ ~TakesException
                            /\ nmi_mode_q' => mepc_q' = mepc_q
    OBVIOUS
  <2>1. PICK i \in Inputs : Step(i)
    BY DEF Next
  <2>2. TypeOK /\ StateInv
    BY DEF IInv
  <2>3. debug_mode_q /\ debug_mode_q' => depc_q' = depc_q
    BY <2>1, <2>2, StepByState
       DEF StateInv, Reset, BootSet, FirstFetch, WaitSleep, Sleep, Decode, DbgTakenIf,
           DbgTakenId, IrqTaken, FlushException, FlushEbreak, FlushMret, FlushDret,
           FlushWfi, FlushCsr, csrVars, WriteMstatus, WriteDcsr, SaveTrap, RestoreMret
  <2>4. ASSUME debug_mode_q \/ nmi_mode_q, ~TakesException, nmi_mode_q'
        PROVE  mepc_q' = mepc_q
    BY <2>1, <2>2, <2>4, StepByState
       DEF Reset, BootSet, FirstFetch, WaitSleep, Sleep, Decode, DbgTakenIf,
           DbgTakenId, IrqTaken, HandleIrq, FlushException, FlushEbreak, FlushMret,
           FlushDret, FlushWfi, FlushCsr, csrVars, WriteMstatus, WriteDcsr, SaveDebug,
           TakesException
  <2> QED
    BY <2>3, <2>4
<1> QED
  BY <1>1, Invariance, PTL DEF Spec, HandlersShielded

\* The mret of an NMI handler gives back what the NMI found, unless an
\* exception in the handler overwrote it (the mstack registers).
THEOREM NmisRecover == Spec => NmiRecoverable
<1>1. IInv /\ [Next]_vars =>
          [(nmi_mode_q /\ ~nmi_mode_q' /\ interrupted # Nothing)
               => /\ mepc_q' = interrupted.epc
                  /\ mstatus_q'.mpie = interrupted.mpie]_vars
  <2> SUFFICES ASSUME IInv, Next, nmi_mode_q, ~nmi_mode_q', interrupted # Nothing
               PROVE  /\ mepc_q' = interrupted.epc
                      /\ mstatus_q'.mpie = interrupted.mpie
    OBVIOUS
  <2>1. PICK i \in Inputs : Step(i)
    BY DEF Next
  <2>2. TypeOK
    BY DEF IInv
  <2>3. FlushMret(i)
    BY <2>1, <2>2, StepByState
       DEF Reset, BootSet, FirstFetch, WaitSleep, Sleep, Decode, DbgTakenIf,
           DbgTakenId, IrqTaken, HandleIrq, FlushException, FlushEbreak, FlushDret,
           FlushWfi, FlushCsr, KeepModes
  <2>4. mepc_q' = mstack_q.epc /\ mstatus_q'.mpie = mstack_q.mpie
    BY <2>3 DEF FlushMret, RestoreMret
  <2> QED
    BY <2>4 DEF IInv, NmiInv
<1> QED
  BY <1>1, Invariance, PTL DEF Spec, NmiRecoverable

-----------------------------------------------------------------------------
(* Program order.                                                          *)

\* An access never stands where an interrupt is taken.
LEMMA NoIrqAtAccess ==
    ASSUME Undisturbed, TypeOK, OwnedInv, IsLsu
    PROVE  ~HandleIrq
  <1>1. workload \in Workloads /\ lines \subseteq workload.lines
    BY DEF TypeOK, IdTypeOK, CtrlTypeOK, Lines
  <1>2. instr_id.kind \in workload.kinds \cap Accesses
    BY DEF IsLsu, Is, OwnedInv, Instr, Kinds, Accesses
  <1>3. lines \subseteq {"debug"}
    BY <1>1, <1>2 DEF Undisturbed
  <1> QED
    BY <1>3 DEF HandleIrq

\* A debug request that an access or an EBREAK meets is up until it is taken.
LEMMA DebugHeld ==
    ASSUME Undisturbed, TypeOK, OwnedInv, IsLsu \/ Is("ebreak"),
           "debug" \in lines, ~debug_mode_q,
           NEW i, NEW halt, NEW flush, NEW pcSet, NEW target,
           Edge(i, halt, flush, pcSet, target)
    PROVE  "debug" \in lines'
  <1>1. workload \in Workloads /\ lines \subseteq workload.lines
    BY DEF TypeOK, IdTypeOK, CtrlTypeOK, Lines
  <1>2. instr_id.kind \in workload.kinds \cap (Accesses \cup {"ebreak"})
    BY DEF IsLsu, Is, OwnedInv, Instr, Kinds, Accesses
  <1>3. HoldsLines
    BY <1>1, <1>2 DEF Undisturbed, HoldsLines
  <1>4. "debug" \in Unheard
    BY Zenon DEF Unheard
  <1> QED
    BY <1>3, <1>4 DEF Edge

\* A state after a redirection or a flush.
LEMMA ClearedAtNext ==
    ASSUME Cleared, pc_if' = npc', ctrl_fsm_cs' \notin {"RESET", "BOOT_SET", "FLUSH"}
    PROVE  OrderInv'
BY DEF Cleared, OrderInv, Is, IsLsu

\* A stage that was empty, or held what is done, and goes on from pc_if.
LEMMA GoesOn ==
    ASSUME TypeOK, OwnedInv, NEW i \in Inputs, NEW pcSet \in BOOLEAN, NEW target,
           Edge(i, FALSE, FALSE, pcSet, target), ~Stall(i),
           id_fsm_q' = "FIRST_CYCLE", ctrl_fsm_cs' = "DECODE",
           npc' = IF pcSet THEN target ELSE pc_if
    PROVE  OrderInv'
  <1>1. CASE pcSet \/ ~i.fetchValid
    BY <1>1, RegisterFacts, InputFacts, ClearedAtNext
  <1>2. CASE ~pcSet /\ i.fetchValid
    <2>1. Entered(pc_if) /\ pc_if' = After(pc_if)
      BY <1>2, RegisterFacts, InputFacts
    <2>2. Following' = After(instr_id'.pc)
      BY DEF Following, After
    <2> QED
      BY <1>2, <2>1, <2>2 DEF Entered, OrderInv
  <1> QED
    BY <1>1, <1>2

\* Where the fetch stage goes on when an instruction has done its work.
LEMMA DoneFacts ==
    ASSUME TypeOK, OwnedInv, NEW i \in Inputs, ctrl_fsm_cs = "DECODE",
           InstrDone(i), pc_if = Following
    PROVE  /\ instr_valid_id_q /\ ~Stall(i)
           /\ IdFsmD(i) = "FIRST_CYCLE"
           /\ NextPc = IF SetsPc(i) THEN Target[instr_id.pc] ELSE pc_if
  <1>1. instr_valid_id_q /\ ~Stall(i) /\ ~FetchErr
    BY DEF InstrDone, Executing
  <1>2. ~EntersMulti(i)
    BY <1>1 DEF Stall
  <1>3. ~JumpSet(i) /\ IdFsmD(i) = "FIRST_CYCLE"
    BY <1>2, SingleFacts, MultiFacts DEF TypeOK, IdTypeOK
  <1>4. SetsPc(i) <=> Is("branch") /\ id_fsm_q = "MULTI_CYCLE"
    BY <1>1, <1>3 DEF SetsPc, OwnedInv
  <1>5. ~(Is("branch") /\ Is("jump"))
    BY DEF Is
  <1> QED
    BY <1>1, <1>3, <1>4, <1>5 DEF NextPc, Following

\* A cycle of DECODE keeps program order.
LEMMA DecodeOrder ==
    ASSUME Undisturbed, TypeOK, OwnedInv, OrderInv, NEW i \in Inputs, Decode(i),
           Goes(IF Retires(i) THEN NextPc ELSE npc)
    PROVE  OrderInv'
  <1>1. /\ ctrl_fsm_cs = "DECODE"
        /\ Halts(i) \in BOOLEAN /\ SetsPc(i) \in BOOLEAN
    BY DecodeEdge
  <1>2. PICK target \in Pcs : /\ Edge(i, Halts(i), FALSE, SetsPc(i), target)
                              /\ SetsPc(i) => target = Target[instr_id.pc]
    BY DecodeEdge
  <1>3. /\ id_fsm_q' = IdFsmD(i)
        /\ exc_req_q' = ExcReqD /\ lsu_err_q' = ExcReqLsu(i)
    BY <1>2 DEF Edge, IdClock
  <1>4. npc' = IF Retires(i) THEN NextPc ELSE npc
    BY DEF Goes
  <1>5. instr_valid_id_q => instr_id.pc = npc /\ pc_if = Following
    BY <1>1 DEF OrderInv
  <1>6. (Stall(i) \/ Halts(i)) => Held
    BY <1>1, <1>2, RegisterFacts
  <1>7. (Stall(i) \/ Halts(i)) =>
            pc_if' = IF SetsPc(i) THEN Target[instr_id.pc] ELSE pc_if
    BY <1>1, <1>2, RegisterFacts
  <1>8. CASE EntersMulti(i)
    <2>1. Stall(i) /\ Held /\ ctrl_fsm_cs' = "DECODE" /\ id_fsm_q' = "MULTI_CYCLE"
      BY <1>8, StallStays
    <2>2. /\ instr_valid_id_q /\ ~FetchErr /\ ~InstrDone(i) /\ ~branch_set_q
          /\ JumpSet(i) <=> Is("jump")
          /\ id_fsm_q = "FIRST_CYCLE"
      BY <1>1, <1>8, EnteringFacts DEF FirstCycle, Executing
    <2>3. SetsPc(i) <=> Is("jump")
      BY <2>2 DEF SetsPc
    <2>4. npc' = npc
      BY <1>4, <2>2 DEF Retires
    <2>5. instr_id' = instr_id /\ instr_valid_id_q'
      BY <2>1, <2>2 DEF Held
    <2>6. Following = After(instr_id.pc)
      BY <2>2 DEF Following
    <2>7. Following' = IF Is("jump") THEN Target[instr_id.pc]
                                     ELSE After(instr_id.pc)
      BY <2>1, <2>2, <2>5 DEF Following, Is, After
    <2> QED
      BY <1>5, <1>7, <2>1, <2>2, <2>3, <2>4, <2>5, <2>6, <2>7 DEF OrderInv
  <1>9. CASE id_fsm_q = "MULTI_CYCLE" /\ ~MulticycleDone(i)
    <2>1. Stall(i) /\ Held /\ ctrl_fsm_cs' = "DECODE" /\ id_fsm_q' = "MULTI_CYCLE"
      BY <1>9, StallStays
    <2>2. /\ ~JumpSet(i) /\ ~InstrDone(i)
          /\ ~Is("branch") /\ ~Is("jump")
      BY <1>9, MultiFacts
    <2>3. instr_valid_id_q /\ ~SetsPc(i)
      BY <1>9, <2>2 DEF SetsPc, OwnedInv
    <2>4. npc' = npc
      BY <1>4, <2>2 DEF Retires
    <2>5. instr_id' = instr_id /\ instr_valid_id_q'
      BY <2>1, <2>3 DEF Held
    <2>6. Following' = Following
      BY <2>2, <2>3, <2>5 DEF Following, Is, After
    <2> QED
      BY <1>5, <1>7, <2>1, <2>3, <2>4, <2>5, <2>6 DEF OrderInv
  <1>10. CASE ~instr_valid_id_q
    <2>1. id_fsm_q = "FIRST_CYCLE" /\ ~EntersMulti(i)
      BY <1>10 DEF TypeOK, IdTypeOK, OwnedInv, EntersMulti, Executing
    <2>2. IdFsmD(i) = "FIRST_CYCLE" /\ ~Stall(i)
      BY <1>1, <1>10, <2>1, SingleFacts DEF IsLsu, Is
    <2>3. ~SetsPc(i) /\ ~Retires(i)
      BY <1>10 DEF SetsPc, Retires, InstrDone, Executing
    <2>4. pc_if = npc /\ npc' = npc
      BY <1>1, <1>4, <1>10, <2>3 DEF OrderInv
    <2>5. CASE Halts(i)
      <3>1. ctrl_fsm_cs' \in {"DBG_TAKEN_IF", "IRQ_TAKEN"}
        BY <1>10, <2>5 DEF Decode, Halts
      <3>2. Cleared
        BY <1>6, <1>10, <2>5 DEF Held, Cleared
      <3> QED
        BY <1>7, <2>3, <2>4, <2>5, <3>1, <3>2, ClearedAtNext
    <2>6. CASE ~Halts(i)
      <3>1. ctrl_fsm_cs' = "DECODE"
        BY <1>10, <2>6 DEF Decode, Halts
      <3>2. Halts(i) = FALSE /\ SetsPc(i) = FALSE
        BY <1>1, <2>3, <2>6
      <3>3. Edge(i, FALSE, FALSE, FALSE, target)
        BY <1>2, <3>2
      <3> QED
        BY <1>3, <2>2, <2>4, <3>1, <3>3, GoesOn
    <2> QED
      BY <2>5, <2>6
  <1>11. CASE instr_valid_id_q /\ Retires(i)
    <2>1. InstrDone(i) /\ ~ExcReqD /\ ~ExcReqLsu(i)
      BY <1>11 DEF Retires
    <2>2. /\ ~Stall(i) /\ IdFsmD(i) = "FIRST_CYCLE"
          /\ NextPc = IF SetsPc(i) THEN Target[instr_id.pc] ELSE pc_if
      BY <1>1, <1>5, <1>11, <2>1, DoneFacts
    <2>3. npc' = IF SetsPc(i) THEN Target[instr_id.pc] ELSE pc_if
      BY <1>4, <1>11, <2>2
    <2>4. ~Exception'
      BY <1>3, <2>1 DEF Exception
    <2>5. ASSUME Held
          PROVE  /\ Is("ebreak")' <=> Is("ebreak")
                 /\ IsLsu' <=> IsLsu
      BY <1>11, <2>5 DEF Held, Is, IsLsu
    <2>6. CASE SpecialReqAll(i)
      <3>1. ctrl_fsm_cs' = "FLUSH" /\ Halts(i)
        BY <1>11, <2>6 DEF Decode, Halts
      <3> QED
        BY <1>7, <2>3, <2>4, <3>1 DEF OrderInv
    <2>7. CASE ~SpecialReqAll(i) /\ TakesRequest(i)
      <3>1. Halts(i) /\ Held /\ pc_if' = npc'
        BY <1>6, <1>7, <2>3, <2>7 DEF Halts
      <3>2. CASE EnterDebugMode
        <4>1. ctrl_fsm_cs' = "DBG_TAKEN_IF"
          BY <2>7, <3>2 DEF Decode
        <4>2. ~Is("ebreak")'
          BY <1>1, <2>1, <2>5, <3>1 DEF ExcReqD
        <4>3. ASSUME IsLsu' PROVE DebugStays'
          <5>1. IsLsu
            BY <2>5, <3>1, <4>3
          <5>2. UNCHANGED csrVars
            BY <5>1 DEF Decode, IsLsu, Is
          <5>3. (dcsr_q.step \/ "debug" \in lines) /\ ~debug_mode_q
            BY <3>2 DEF EnterDebugMode
          <5>4. "debug" \in lines => "debug" \in lines'
            BY <1>2, <5>1, <5>3, DebugHeld
          <5> QED
            BY <5>2, <5>3, <5>4 DEF DebugStays, csrVars
        <4> QED
          BY <3>1, <4>1, <4>2, <4>3 DEF OrderInv
      <3>3. CASE ~EnterDebugMode
        <4>1. ctrl_fsm_cs' = "IRQ_TAKEN" /\ HandleIrq
          BY <2>7, <3>3 DEF Decode, TakesRequest
        <4>2. ~IsLsu'
          BY <2>5, <3>1, <4>1, NoIrqAtAccess
        <4> QED
          BY <3>1, <4>1, <4>2 DEF OrderInv
      <3> QED
        BY <3>2, <3>3
    <2>8. CASE ~SpecialReqAll(i) /\ ~TakesRequest(i)
      <3>1. ctrl_fsm_cs' = "DECODE" /\ ~Halts(i)
        BY <2>2, <2>8 DEF Decode, Halts
      <3>2. Halts(i) = FALSE
        BY <1>1, <3>1
      <3>3. Edge(i, FALSE, FALSE, SetsPc(i), target)
        BY <1>2, <3>2
      <3>4. npc' = IF SetsPc(i) THEN target ELSE pc_if
        BY <1>2, <2>3
      <3> QED
        BY <1>1, <1>3, <2>2, <3>1, <3>3, <3>4, GoesOn
    <2> QED
      BY <2>6, <2>7, <2>8
  <1>12. CASE /\ instr_valid_id_q /\ ~Retires(i) /\ ~EntersMulti(i)
              /\ ~(id_fsm_q = "MULTI_CYCLE" /\ ~MulticycleDone(i))
    <2>1. ExcReqD \/ ExcReqLsu(i) \/ Is("mret") \/ Is("dret")
      <3>1. CASE InstrDone(i)
        BY <1>12, <3>1 DEF Retires
      <3>2. CASE ~InstrDone(i)
        <4>1. id_fsm_q = "FIRST_CYCLE"
          BY <1>12, <3>2, MultiFacts DEF TypeOK, IdTypeOK
        <4>2. FetchErr \/ IsLsu
          BY <1>1, <1>12, <3>2, <4>1, SingleFacts
        <4> QED
          BY <1>1, <1>12, <4>1, <4>2, SingleFacts DEF ExcReqD
      <3> QED
        BY <3>1, <3>2
    <2>2. SpecialReqAll(i)
      BY <2>1 DEF SpecialReqAll
    <2>3. ctrl_fsm_cs' = "FLUSH" /\ Halts(i)
      BY <1>12, <2>2 DEF Decode, Halts
    <2>4. instr_valid_id_q' /\ instr_id' = instr_id /\ npc' = npc
      BY <1>4, <1>6, <1>12, <2>3 DEF Held
    <2>5. Exception' <=> ExcReqD \/ ExcReqLsu(i)
      BY <1>3 DEF Exception
    <2>6. (Is("mret") => Is("mret")') /\ (Is("dret") => Is("dret")')
      BY <1>12, <2>4 DEF Is
    <2> QED
      BY <1>5, <1>12, <2>1, <2>3, <2>4, <2>5, <2>6 DEF OrderInv
  <1> QED
    BY <1>8, <1>9, <1>10, <1>11, <1>12

\* So does a cycle of IRQ_TAKEN, whether the interrupt is still there or not.
LEMMA IrqOrder ==
    ASSUME TypeOK, OwnedInv, OrderInv, NEW i \in Inputs, Step(i),
           ctrl_fsm_cs = "IRQ_TAKEN"
    PROVE  OrderInv'
  <1>1. IrqTaken(i) /\ ctrl_fsm_cs' = "DECODE"
    BY IrqFacts DEF IrqTaken
  <1>2. pc_if = npc /\ ~IsLsu
    BY DEF OrderInv
  <1> DEFINE handler == IF "nmi" \in lines THEN NmiPc ELSE IrqPc
  <1>3. CASE HandleIrq
    <2>1. Edge(i, FALSE, FALSE, TRUE, handler)
      BY <1>1, <1>3 DEF IrqTaken, Redirect
    <2>2. npc' = handler
      BY <1>3, IrqFacts
    <2>3. ~Stall(i) /\ id_fsm_q' = "FIRST_CYCLE"
      BY <1>2, <2>1, AwayFromDecode
    <2> QED
      BY <1>1, <2>1, <2>2, <2>3, GoesOn
  <1>4. CASE ~HandleIrq
    <2>1. Edge(i, FALSE, FALSE, FALSE, pc_if)
      BY <1>1, <1>4 DEF IrqTaken, Continue
    <2>2. npc' = pc_if
      BY <1>2, <1>4, IrqFacts
    <2>3. ~Stall(i) /\ id_fsm_q' = "FIRST_CYCLE"
      BY <1>2, <2>1, AwayFromDecode
    <2> QED
      BY <1>1, <2>1, <2>2, <2>3, GoesOn
  <1> QED
    BY <1>3, <1>4

\* Debug entry, or its withdrawal.
LEMMA DebugOrder ==
    ASSUME TypeOK, OwnedInv, StateInv, OrderInv, NEW i \in Inputs,
           \/ /\ ctrl_fsm_cs = "DBG_TAKEN_IF" /\ DbgTakenIf(i)
              /\ Goes(IF debug_mode_q' THEN DbgPc ELSE npc)
           \/ ctrl_fsm_cs = "DBG_TAKEN_ID" /\ DbgTakenId(i) /\ Goes(DbgPc)
    PROVE  OrderInv'
  <1>1. ctrl_fsm_cs' = "DECODE"
    BY DEF DbgTakenIf, DbgTakenId
  <1>2. CASE Edge(i, FALSE, TRUE, TRUE, DbgPc) /\ npc' = DbgPc
    BY <1>1, <1>2, RegisterFacts, ClearedAtNext
  <1>3. CASE ctrl_fsm_cs = "DBG_TAKEN_IF" /\ DbgTakenIf(i) /\ DebugStays
             /\ Goes(IF debug_mode_q' THEN DbgPc ELSE npc)
    BY <1>2, <1>3 DEF DbgTakenIf, Redirect, Goes, DebugStays
  <1>4. CASE ctrl_fsm_cs = "DBG_TAKEN_IF" /\ DbgTakenIf(i) /\ ~DebugStays
             /\ Goes(IF debug_mode_q' THEN DbgPc ELSE npc)
    <2>1. pc_if = npc /\ ~IsLsu /\ ~debug_mode_q
      BY <1>4 DEF OrderInv, StateInv
    <2>2. Edge(i, FALSE, FALSE, FALSE, pc_if) /\ npc' = pc_if
      BY <1>4, <2>1 DEF DbgTakenIf, Continue, Goes, DebugStays
    <2>3. ~Stall(i) /\ id_fsm_q' = "FIRST_CYCLE"
      BY <1>4, <2>1, <2>2, AwayFromDecode
    <2> QED
      BY <1>1, <2>2, <2>3, GoesOn
  <1>5. CASE ctrl_fsm_cs = "DBG_TAKEN_ID" /\ DbgTakenId(i) /\ Goes(DbgPc)
    BY <1>2, <1>5 DEF DbgTakenId, Redirect, Goes
  <1> QED
    BY <1>3, <1>4, <1>5

\* FLUSH redirects what it flushes, or goes on behind it.
LEMMA FlushOrder ==
    ASSUME Undisturbed, TypeOK, OwnedInv, StateInv, OrderInv, NEW i \in Inputs,
           ctrl_fsm_cs = "FLUSH",
           \/ /\ FlushException(i)
              /\ npc' = IF debug_mode_q THEN DbgExcPc ELSE ExcPc
           \/ FlushEbreak(i) /\ Keep
           \/ FlushMret(i) /\ npc' = mepc_q
           \/ FlushDret(i) /\ Goes(depc_q)
           \/ FlushWfi(i) /\ Keep
           \/ FlushCsr(i) /\ Keep
    PROVE  OrderInv'
  <1>1. ctrl_fsm_cs' \in {"DECODE", "DBG_TAKEN_IF", "DBG_TAKEN_ID", "WAIT_SLEEP"}
    BY DEF FlushException, FlushEbreak, FlushMret, FlushDret, FlushWfi, FlushCsr,
           FlushNext
  <1>2. CASE \E target : Edge(i, TRUE, TRUE, TRUE, target) /\ npc' = target
    BY <1>1, <1>2, RegisterFacts, ClearedAtNext
  <1>3. CASE FlushException(i) /\ npc' = IF debug_mode_q THEN DbgExcPc ELSE ExcPc
    BY <1>2, <1>3 DEF FlushException, Redirect
  <1>4. CASE FlushMret(i) /\ npc' = mepc_q
    BY <1>2, <1>4 DEF FlushMret, Redirect
  <1>5. CASE FlushDret(i) /\ Goes(depc_q)
    BY <1>2, <1>5 DEF FlushDret, Redirect, Goes
  <1>6. CASE (FlushWfi(i) \/ FlushCsr(i)) /\ Keep
    <2>1. /\ Edge(i, TRUE, TRUE, FALSE, pc_if)
          /\ ~Exception /\ ~Is("mret") /\ ~Is("dret") /\ npc' = npc
      BY <1>6 DEF FlushWfi, FlushCsr, Continue, Keep, Is
    <2>2. pc_if = npc
      BY <2>1 DEF OrderInv
    <2>3. Cleared /\ pc_if' = pc_if
      BY <2>1, RegisterFacts
    <2> QED
      BY <1>1, <2>1, <2>2, <2>3, ClearedAtNext
  <1>7. CASE FlushEbreak(i) /\ Keep
    <2>1. /\ Edge(i, TRUE, FALSE, FALSE, pc_if) /\ Is("ebreak")
          /\ ctrl_fsm_cs' = IF EnterDebugMode THEN "DBG_TAKEN_IF"
                                              ELSE "DBG_TAKEN_ID"
          /\ UNCHANGED csrVars
      BY <1>7 DEF FlushEbreak, Continue, FlushNext, EbreakToDebug
    <2>2. Held
      BY <2>1, RegisterFacts
    <2>3. Is("ebreak")'
      BY <2>1, <2>2 DEF Held, Is
    <2>4. CASE EnterDebugMode
      <3>1. (dcsr_q.step \/ "debug" \in lines) /\ ~debug_mode_q
        BY <2>4 DEF EnterDebugMode
      <3>2. "debug" \in lines => "debug" \in lines'
        BY <2>1, <3>1, DebugHeld
      <3>3. DebugStays'
        BY <2>1, <3>1, <3>2 DEF DebugStays, csrVars
      <3> QED
        BY <2>1, <2>3, <2>4, <3>3 DEF OrderInv
    <2>5. CASE ~EnterDebugMode
      BY <2>1, <2>5 DEF OrderInv
    <2> QED
      BY <2>4, <2>5
  <1> QED
    BY <1>3, <1>4, <1>5, <1>6, <1>7

\* Starting and sleeping leave ID empty.
LEMMA EmptyOrder ==
    ASSUME TypeOK, OwnedInv, OrderInv, NEW i \in Inputs, Keep,
           \/ ctrl_fsm_cs = "RESET" /\ Reset(i)
           \/ ctrl_fsm_cs = "BOOT_SET" /\ BootSet(i)
           \/ ctrl_fsm_cs = "FIRST_FETCH" /\ FirstFetch(i)
           \/ ctrl_fsm_cs = "WAIT_SLEEP" /\ WaitSleep(i)
           \/ ctrl_fsm_cs = "SLEEP" /\ Sleep(i)
    PROVE  OrderInv'
  <1>1. ~instr_valid_id_q /\ pc_if = npc /\ npc' = npc
    BY DEF OrderInv, Keep
  <1>2. ~IsLsu
    BY <1>1 DEF IsLsu, Is
  <1>3. CASE \/ ctrl_fsm_cs = "RESET" /\ Reset(i)
             \/ ctrl_fsm_cs = "BOOT_SET" /\ BootSet(i)
    <2>1. /\ Edge(i, FALSE, FALSE, TRUE, BootPc)
          /\ ctrl_fsm_cs' \in {"RESET", "BOOT_SET", "FIRST_FETCH"}
      BY <1>3 DEF Reset, BootSet, Redirect
    <2>2. ~Stall(i)
      BY <1>2, <1>3, <2>1, AwayFromDecode
    <2>3. Cleared /\ pc_if' = BootPc
      BY <2>1, <2>2, RegisterFacts
    <2>4. npc = BootPc
      BY <1>3 DEF OrderInv
    <2> QED
      BY <1>1, <2>1, <2>3, <2>4 DEF Cleared, OrderInv
  <1>4. CASE \/ ctrl_fsm_cs = "WAIT_SLEEP" /\ WaitSleep(i)
             \/ ctrl_fsm_cs = "SLEEP" /\ Sleep(i)
    <2>1. /\ Edge(i, TRUE, TRUE, FALSE, pc_if)
          /\ ctrl_fsm_cs' \in {"SLEEP", "FIRST_FETCH"}
      BY <1>4 DEF WaitSleep, Sleep, Continue
    <2>2. Cleared /\ pc_if' = pc_if
      BY <2>1, RegisterFacts
    <2> QED
      BY <1>1, <2>1, <2>2, ClearedAtNext
  <1>5. CASE ctrl_fsm_cs = "FIRST_FETCH" /\ FirstFetch(i)
    <2> DEFINE halt == EnterDebugMode \/ HandleIrq
    <2>1. /\ Edge(i, halt, FALSE, FALSE, pc_if)
          /\ ctrl_fsm_cs' = IF EnterDebugMode THEN "DBG_TAKEN_IF"
                            ELSE IF HandleIrq THEN "IRQ_TAKEN"
                            ELSE IF ~Stall(i) THEN "DECODE" ELSE "FIRST_FETCH"
      BY <1>5 DEF FirstFetch, Continue, IdInReady
    <2>2. halt \in BOOLEAN
      OBVIOUS
    <2> HIDE DEF halt
    <2>3. ~Stall(i) /\ id_fsm_q' = "FIRST_CYCLE"
      BY <1>2, <1>5, <2>1, AwayFromDecode
    <2>4. CASE halt
      <3>1. Held /\ pc_if' = pc_if
        BY <2>1, <2>2, <2>4, RegisterFacts
      <3>2. ctrl_fsm_cs' \in {"DBG_TAKEN_IF", "IRQ_TAKEN"}
        BY <2>1, <2>4 DEF halt
      <3> QED
        BY <1>1, <3>1, <3>2, ClearedAtNext DEF Held, Cleared
    <2>5. CASE ~halt
      <3>1. halt = FALSE
        BY <2>2, <2>5
      <3>2. Edge(i, FALSE, FALSE, FALSE, pc_if)
        BY <2>1, <3>1
      <3>3. ctrl_fsm_cs' = "DECODE"
        BY <2>1, <2>3, <2>5 DEF halt
      <3> QED
        BY <1>1, <2>3, <3>2, <3>3, GoesOn
    <2> QED
      BY <2>4, <2>5
  <1> QED
    BY <1>3, <1>4, <1>5

LEMMA OrderStep ==
    ASSUME Undisturbed, IInv, OrderInv, [Next]_vars
    PROVE  OrderInv'
  <1>1. TypeOK /\ OwnedInv /\ StateInv
    BY DEF IInv
  <1>2. CASE Next
    <2>1. PICK i \in Inputs : Step(i)
      BY <1>2 DEF Next
    <2>2. CASE ctrl_fsm_cs \in {"RESET", "BOOT_SET", "FIRST_FETCH", "WAIT_SLEEP",
                                "SLEEP"}
      BY <1>1, <2>1, <2>2, StepByState, EmptyOrder
    <2>3. CASE ctrl_fsm_cs = "DECODE"
      BY <1>1, <2>1, <2>3, StepByState, DecodeOrder
    <2>4. CASE ctrl_fsm_cs = "IRQ_TAKEN"
      BY <1>1, <2>1, <2>4, IrqOrder
    <2>5. CASE ctrl_fsm_cs \in {"DBG_TAKEN_IF", "DBG_TAKEN_ID"}
      BY <1>1, <2>1, <2>5, StepByState, DebugOrder
    <2>6. CASE ctrl_fsm_cs = "FLUSH"
      BY <1>1, <2>1, <2>6, StepByState, FlushOrder
    <2> QED
      BY <1>1, <2>2, <2>3, <2>4, <2>5, <2>6 DEF TypeOK, CtrlTypeOK
  <1>3. CASE UNCHANGED vars
    <2>1. UNCHANGED idVars /\ UNCHANGED csrVars /\ UNCHANGED ctrlVars
          /\ UNCHANGED npc
      BY <1>3 DEF vars
    <2> USE <2>1 DEF idVars, csrVars, ctrlVars
    <2>2. /\ Is("jump")' = Is("jump") /\ Is("mret")' = Is("mret")
          /\ Is("dret")' = Is("dret") /\ Is("ebreak")' = Is("ebreak")
          /\ IsLsu' = IsLsu
      BY DEF Is, IsLsu
    <2>3. Following' = Following
      BY <2>2 DEF Following, After
    <2>4. Exception' = Exception /\ DebugStays' = DebugStays
      BY DEF Exception, DebugStays
    <2> QED
      BY <2>2, <2>3, <2>4 DEF OrderInv
  <1> QED
    BY <1>2, <1>3

-----------------------------------------------------------------------------
(* What holds for the workloads in which no access meets an interrupt.     *)

\* The place of npc in every state of the controller is invariant.
THEOREM OrderInvariance ==
    ASSUME Undisturbed
    PROVE  Spec => [](IInv /\ OrderInv)
<1>1. Init => IInv /\ OrderInv
  BY InitHolds DEF Init, IdInit, CtrlInit, OrderInv
<1>2. IInv /\ OrderInv /\ [Next]_vars => (IInv /\ OrderInv)'
  BY NextHolds, OrderStep
<1> QED
  BY <1>1, <1>2, PTL DEF Spec

\* Every instruction runs once and in program order, for every program and
\* every sequence of interrupts, exceptions, debug requests and waits
\* (controller and ID stage together).
THEOREM ProgramOrder ==
    ASSUME Undisturbed
    PROVE  Spec => []RunsProgramOrder
<1>1. IInv /\ OrderInv => RunsProgramOrder
  BY DEF OrderInv, RunsProgramOrder
<1> QED
  BY <1>1, OrderInvariance, PTL

\* Interrupts save the address of the next instruction and exceptions that
\* of their own (csr_save_if_o and csr_save_id_o).
THEOREM PreciseTraps ==
    ASSUME Undisturbed
    PROVE  Spec => TrapsPrecise
<1>1. IInv /\ OrderInv /\ [Next]_vars =>
          [(TakesIrq \/ (TakesException /\ ~debug_mode_q)) => mepc_q' = npc]_vars
  <2> SUFFICES ASSUME IInv, OrderInv, Next,
                      TakesIrq \/ (TakesException /\ ~debug_mode_q)
               PROVE  mepc_q' = npc
    OBVIOUS
  <2>1. PICK i \in Inputs : Step(i)
    BY DEF Next
  <2>2. TypeOK
    BY DEF IInv
  <2>3. CASE TakesIrq
    <3>1. IrqTaken(i) /\ HandleIrq /\ pc_if = npc
      BY <2>1, <2>3, IrqFacts DEF TakesIrq, OrderInv
    <3> QED
      BY <3>1 DEF IrqTaken, HandleIrq, SaveTrap
  <2>4. CASE TakesException /\ ~debug_mode_q
    <3>1. FlushException(i) /\ instr_id.pc = npc
      BY <2>1, <2>2, <2>4, StepByState
         DEF TakesException, OrderInv, FlushEbreak, FlushMret, FlushDret, FlushWfi,
             FlushCsr
    <3> QED
      BY <2>4, <3>1 DEF FlushException, SaveTrap, ExceptionPc
  <2> QED
    BY <2>3, <2>4
<1> QED
  BY <1>1, OrderInvariance, PTL DEF Spec, TrapsPrecise

\* A halt request or a single step saves the address where dret resumes
\* (csr_save_if_o in DBG_TAKEN_IF).
THEOREM PreciseDebug ==
    ASSUME Undisturbed
    PROVE  Spec => DebugPrecise
<1>1. IInv /\ OrderInv /\ [Next]_vars =>
          [(~debug_mode_q /\ debug_mode_q' /\ ~Is("ebreak"))
               => depc_q' = npc]_vars
  <2> SUFFICES ASSUME IInv, OrderInv, Next, ~debug_mode_q, debug_mode_q',
                      ~Is("ebreak")
               PROVE  depc_q' = npc
    OBVIOUS
  <2>1. PICK i \in Inputs : Step(i)
    BY DEF Next
  <2>2. TypeOK /\ StateInv
    BY DEF IInv
  <2>3. DbgTakenIf(i) /\ ctrl_fsm_cs = "DBG_TAKEN_IF"
    BY <2>1, <2>2, StepByState
       DEF StateInv, Reset, BootSet, FirstFetch, WaitSleep, Sleep, Decode, DbgTakenId,
           IrqTaken, FlushException, FlushEbreak, FlushMret, FlushDret, FlushWfi,
           FlushCsr, KeepModes
  <2>4. pc_if = npc
    BY <2>3 DEF OrderInv
  <2> QED
    BY <2>3, <2>4 DEF DbgTakenIf, SaveDebug
<1> QED
  BY <1>1, OrderInvariance, PTL DEF Spec, DebugPrecise
=============================================================================
