------------------------------ MODULE DataSide ------------------------------
(***************************************************************************)
(* The load-store unit between the ID/EX stage, which hands it one access  *)
(* after the other, and the data bus with the memory behind it.            *)
(*                                                                         *)
(* Without a writeback stage ID keeps the access until it is answered and  *)
(* requests it in its first cycle only.  With one, ID hands it over once   *)
(* every grant is there, waits with the next access until the answer       *)
(* arrives, and drops that next access if the answer is an error           *)
(* (rtl/ibex_id_stage.sv, rtl/ibex_wb_stage.sv).                           *)
(*                                                                         *)
(* The bus answers in order, once per granted request, a cycle or more     *)
(* after the grant (doc/load_store_unit.rst, Protocol).                    *)
(***************************************************************************)
EXTENDS LoadStoreUnit, Sequences

CONSTANTS
    Cores,              \* the cores and their programs, see `core'
    Regions             \* the sets of words the PMP may refuse

ASSUME DataSideAssumption == /\ Cores \subseteq [writeback : BOOLEAN,
                                               accesses : SUBSET Access]
                             /\ Regions \subseteq SUBSET Words

VARIABLES
    core,       \* fixed in a behaviour: the parameter WritebackStage, and the
                \* accesses ID may ask for
    id_acc,     \* access in ID, as a sequence of length 0 or 1
    id_first,   \* ID is in the first cycle of it (FIRST_CYCLE)
    wb_acc,     \* access in the writeback stage, waiting for its answer
    denied,     \* words the PMP refuses
    mem_q,      \* granted transactions: 1 or 2, the part of their access
    waiting,    \* history: request on the bus last cycle without a grant
    written,    \* history: store bytes written for the current access
    failed,     \* history: parts of the current access answered by an error
    answered,   \* history: the bus answered in the last cycle
    resp        \* history: what the LSU answered in the last cycle

idVars  == <<core, id_acc, id_first, wb_acc>>
busVars == <<denied, mem_q, waiting, written, failed>>
vars    == <<lsuVars, idVars, busVars, answered, resp>>

WritebackStage == core.writeback
Accesses       == core.accesses

-----------------------------------------------------------------------------
(* The bus.                                                                *)

\* The data of the word a load asked for.
BusData(t) == [k \in 0 .. 3 |-> MemoryByte(4 * t.word + k)]
NoData == [k \in 0 .. 3 |-> Zero]

\* The transaction the LSU puts on the bus.
Transaction(i) == [word |-> WordOf(DataAddr(i)),
                   part |-> IF handle_misaligned_q THEN 2 ELSE 1,
                   we   |-> i.acc.we,
                   lanes |-> IF i.acc.we
                             THEN {<<k, WDataByte(i, k)>> : k \in ByteEnable(i)}
                             ELSE {}]
BusRequest(i) == DataReq(i) /\ ~i.pmpErr

Bus(i) ==
    /\ i.gnt => BusRequest(i)
    /\ mem_q' = (IF i.rvalid THEN Tail(mem_q) ELSE mem_q)
                \o (IF i.gnt THEN <<Transaction(i)>> ELSE <<>>)
    /\ waiting' = IF BusRequest(i) /\ ~i.gnt THEN <<Transaction(i)>> ELSE <<>>
    /\ UNCHANGED denied

-----------------------------------------------------------------------------
(* The ID/EX stage.                                                        *)

\* The access the next answer belongs to.
Current == IF WritebackStage THEN wb_acc ELSE id_acc

\* Defect: the access in the writeback stage is not waited for.
LsuReqAtOnce(rvalid, err) == id_acc # <<>> /\ (WritebackStage \/ id_first)

\* ID asks the LSU for its access.
LsuReq(rvalid, err) ==
    LET done  == ls_fsm_cs = "IDLE" /\ (rvalid \/ pmp_err_q)
        error == lsu_err_q \/ err \/ pmp_err_q
    IN  /\ id_acc # <<>>
        /\ IF WritebackStage
           THEN wb_acc = <<>> \/ (done /\ ~error)
           ELSE id_first

\* Without a writeback stage the access stays until the answer.
IdWithoutWb(i) ==
    /\ ~WritebackStage
    /\ UNCHANGED wb_acc
    /\ IF id_acc = <<>> \/ (~id_first /\ RespValid(i))
       THEN /\ id_acc' \in {<<>>} \cup {<<a>> : a \in Accesses}
            /\ id_first' = TRUE
       ELSE /\ id_first' = FALSE
            /\ UNCHANGED id_acc

\* With one it moves on when both grants are there.
IdWithWb(i) ==
    LET moves == id_acc # <<>> /\ ReqDone(i)
        error == RespValid(i) /\ DataOrPmpErr(i)
    IN  /\ WritebackStage
        /\ UNCHANGED id_first
        /\ wb_acc' = IF moves THEN id_acc
                     ELSE IF RespValid(i) THEN <<>> ELSE wb_acc
        /\ IF moves \/ id_acc = <<>>
           THEN id_acc' \in {<<>>} \cup {<<a>> : a \in Accesses}
           ELSE id_acc' = IF error THEN <<>> ELSE id_acc

-----------------------------------------------------------------------------
(* One clock edge.                                                         *)

NoResp == [acc |-> <<>>, err |-> FALSE, written |-> {}, failed |-> {},
           rdata |-> NoData, toRegister |-> FALSE, prompt |-> FALSE]

\* Bytes written, and parts answered by an error, in this cycle.
WrittenNow(i) ==
    IF i.gnt THEN LET t == Transaction(i)
                  IN  {<<4 * t.word + l[1], l[2]>> : l \in t.lanes}
             ELSE {}
FailedNow(i) == IF i.err THEN {Head(mem_q).part} ELSE {}

\* A grant in the cycle of an answer belongs to the next access.
History(i) ==
    /\ resp' = IF RespValid(i)
               THEN [acc |-> Current, err |-> DataOrPmpErr(i),
                     written |-> written, failed |-> failed \cup FailedNow(i),
                     rdata |-> IF RdataValid(i) THEN RdataExt(i) ELSE NoData,
                     toRegister |-> RdataValid(i), prompt |-> answered]
               ELSE NoResp
    /\ answered' = i.rvalid
    /\ failed' = IF RespValid(i) THEN {} ELSE failed \cup FailedNow(i)
    /\ written' = (IF RespValid(i) THEN {} ELSE written) \cup WrittenNow(i)

Clock(i) == /\ LsuClock(i)
            /\ Bus(i)
            /\ IdWithoutWb(i) \/ IdWithWb(i)
            /\ History(i)
            /\ UNCHANGED core

\* With no access in ID the address and the like are arbitrary, and unused.
NoAccess == [type |-> "byte", we |-> FALSE, sign |-> FALSE, addr |-> 0]

Cycle(gnt, rvalid, err) ==
    LET acc  == IF id_acc = <<>> THEN NoAccess ELSE id_acc[1]
        addr == IF AddrIncrReq THEN Plus(addr_last_q, 4) ELSE acc.addr
    IN  [req |-> LsuReq(rvalid, err), acc |-> acc, gnt |-> gnt,
         rvalid |-> rvalid, err |-> err,
         rdata |-> IF rvalid /\ ~Head(mem_q).we THEN BusData(Head(mem_q))
                   ELSE NoData,
         pmpErr |-> WordOf(addr) \in denied]

Answers == IF mem_q = <<>> THEN {<<FALSE, FALSE>>}
           ELSE {<<FALSE, FALSE>>, <<TRUE, FALSE>>, <<TRUE, TRUE>>}

Next == \E gnt \in BOOLEAN, a \in Answers : Clock(Cycle(gnt, a[1], a[2]))

\* The bus grants, the bus answers.
Grant  == /\ DataReq(Cycle(TRUE, FALSE, FALSE))
          /\ \E a \in Answers : Clock(Cycle(TRUE, a[1], a[2]))
Answer == /\ mem_q # <<>>
          /\ \E gnt \in BOOLEAN, err \in BOOLEAN : Clock(Cycle(gnt, TRUE, err))

Init == /\ LsuInit
        /\ core \in Cores
        /\ id_acc = <<>> /\ id_first = TRUE /\ wb_acc = <<>>
        /\ denied \in Regions
        /\ mem_q = <<>> /\ waiting = <<>>
        /\ written = {} /\ failed = {} /\ answered = FALSE
        /\ resp = NoResp

Spec == Init /\ [][Next]_vars

-----------------------------------------------------------------------------
(* Properties.                                                             *)

\* An answered access: its parts and which of them failed.
Answered == resp.acc # <<>>
Acc == resp.acc[1]
IsSplit(a) == Offset(a.addr) + Size(a.type) > 4
PartWord(a, part) == IF part = 1 THEN WordOf(a.addr)
                     ELSE WordOf(Plus(a.addr, 4))
Parts(a) == IF IsSplit(a) THEN {1, 2} ELSE {1}
FailedParts(a) == {p \in Parts(a) : p \in resp.failed
                                    \/ PartWord(a, p) \in denied}

\* The value a load should produce.
LoadValue(a) ==
    [k \in 0 .. 3 |->
        IF k < Size(a.type) THEN MemoryByte(Plus(a.addr, k))
        ELSE Extension(MemoryByte(Plus(a.addr, Size(a.type) - 1)), a.sign)]

\* A load that does not fail writes the bytes it asked for to the register,
\* in order and extended as its instruction says, also when the access was
\* split (doc/load_store_unit.rst, Misaligned Accesses).
HasValue == resp.toRegister /\ resp.rdata = LoadValue(Acc)
LoadedValue == Answered /\ ~Acc.we /\ ~resp.err => HasValue

\* This holds of accesses within one word, and of a split one if its second
\* answer follows the first without a pause: rdata_q keeps the first word for
\* one cycle.
LoadedValuePrompt ==
    (Answered /\ ~Acc.we /\ ~resp.err /\ (IsSplit(Acc) => resp.prompt))
        => HasValue

\* A store writes its bytes to their places and touches nothing else; a store
\* that fails may have written some of them.
StoreBytes(a) == {<<Plus(a.addr, k), k>> : k \in 0 .. Size(a.type) - 1}
StoredBytes ==
    Answered => /\ resp.written \subseteq (IF Acc.we THEN StoreBytes(Acc) ELSE {})
                /\ Acc.we /\ ~resp.err => resp.written = StoreBytes(Acc)

\* An access is reported as failed exactly when the PMP refuses one of its
\* words or the bus answered one of its transactions with an error, and a
\* failed load writes no register.
ErrorsReported ==
    Answered => /\ resp.err <=> FailedParts(Acc) # {}
                /\ resp.err => ~resp.toRegister

\* After a failed access the address left for mtval is that of the first part
\* that failed (doc/cs_registers.rst, mtval).
FaultAddress ==
    Answered /\ resp.err =>
        addr_last_q = IF 1 \in FailedParts(Acc) THEN Acc.addr
                      ELSE Plus(Acc.addr, 4)

\* An answer is given for an access that is waiting for one, and leaves no
\* transaction of it on the bus whose answer the next access would take.
OneAnswerEach ==
    /\ resp # NoResp => Answered
    /\ Answered => \A n \in 1 .. Len(mem_q) : mem_q[n].part = 1 /\ Len(mem_q) = 1
    /\ (id_acc = <<>> /\ wb_acc = <<>>) => mem_q = <<>>

\* A request stays on the bus unchanged - address, lanes and data - until it
\* is granted (doc/load_store_unit.rst, data_req_o).
RequestHeld ==
    [][waiting # <<>> => \/ waiting' = waiting
                         \/ /\ waiting' = <<>>
                            /\ mem_q' # <<>>
                            /\ mem_q'[Len(mem_q')] = waiting[1]]_vars

-----------------------------------------------------------------------------
(* The clock runs, and the bus grants and answers in the end.              *)

FairSpec == Spec /\ WF_vars(Next) /\ WF_vars(Grant) /\ WF_vars(Answer)

\* Every access is answered, also one that the PMP refuses in part or as a
\* whole, for which the bus never gives a grant or an answer
\* (rtl/ibex_load_store_unit.sv, WAIT_GNT_MIS).
EveryAccessAnswered == (id_acc # <<>> \/ wb_acc # <<>>) ~> Answered
=============================================================================
