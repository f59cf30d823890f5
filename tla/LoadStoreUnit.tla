--------------------------- MODULE LoadStoreUnit ---------------------------
(***************************************************************************)
(* The load-store unit, rtl/ibex_load_store_unit.sv: it carries out one    *)
(* access of the ID/EX stage, as two bus transactions when the access      *)
(* straddles two words, aligns the data and reports errors.                *)
(*                                                                         *)
(* The input record `i' of a cycle has the fields                          *)
(*   req, acc          lsu_req_i and the access in ID (type, direction,    *)
(*                     sign extension and address, held while ID stalls)   *)
(*   gnt, rvalid, err, rdata     from the data bus                         *)
(*   pmpErr            the PMP's verdict on DataAddr(i)                    *)
(*                                                                         *)
(* Data is not computed: a byte lane says which byte of the memory it      *)
(* carries, a copy of whose sign bit, or zero.                             *)
(***************************************************************************)
EXTENDS Naturals

CONSTANT NBytes         \* bytes of the address space (2^32 in the core)

ASSUME NBytesAssumption == NBytes \in Nat \ {0} /\ NBytes % 4 = 0

Bytes == 0 .. NBytes - 1
Words == 0 .. NBytes \div 4 - 1
WordOf(a) == a \div 4
Offset(a) == a % 4
Plus(a, n) == (a + n) % NBytes

Types == {"word", "half", "byte"}
Size(type) == CASE type = "word" -> 4 [] type = "half" -> 2 [] type = "byte" -> 1
Access == [type : Types, we : BOOLEAN, sign : BOOLEAN, addr : Bytes]

Lane == [from : {"memory", "sign", "zero"}, byte : Bytes]
Zero == [from |-> "zero", byte |-> 0]
MemoryByte(a) == [from |-> "memory", byte |-> a]
\* The bits that extend a lane, sign or zero extension.
Extension(lane, sign) == IF sign /\ lane.from = "memory"
                         THEN [lane EXCEPT !.from = "sign"] ELSE Zero

States == {"IDLE", "WAIT_GNT_MIS", "WAIT_RVALID_MIS", "WAIT_GNT",
           "WAIT_RVALID_MIS_GNTS_DONE"}

VARIABLES
    ls_fsm_cs,
    handle_misaligned_q,    \* the second transaction is being requested
    pmp_err_q,              \* the PMP refused the last address phase
    lsu_err_q,              \* the first transaction failed
    rdata_q,                \* upper lanes of the first word of a split load
    rdata_offset_q, data_type_q, data_sign_ext_q, data_we_q,  \* being answered
    addr_last_q             \* address for mtval and for the second transaction

ctrlVars == <<rdata_offset_q, data_type_q, data_sign_ext_q, data_we_q>>
lsuVars == <<ls_fsm_cs, handle_misaligned_q, pmp_err_q, lsu_err_q, rdata_q,
             ctrlVars, addr_last_q>>

-----------------------------------------------------------------------------
(* The address phase.                                                      *)

DataReq(i) == IF ls_fsm_cs = "IDLE" THEN i.req
              ELSE ls_fsm_cs # "WAIT_RVALID_MIS_GNTS_DONE"

\* Defect for the model's own test: the address of the second transaction is
\* given for a cycle only.
AddrIncrReqOnce == ls_fsm_cs \in {"WAIT_RVALID_MIS", "WAIT_RVALID_MIS_GNTS_DONE"}

\* ID adds four to the last address for the second transaction.
AddrIncrReq == \/ ls_fsm_cs \in {"WAIT_RVALID_MIS", "WAIT_RVALID_MIS_GNTS_DONE"}
               \/ ls_fsm_cs = "WAIT_GNT" /\ handle_misaligned_q
DataAddr(i) == IF AddrIncrReq THEN Plus(addr_last_q, 4) ELSE i.acc.addr

SplitMisaligned(i) == \/ i.acc.type = "word" /\ Offset(DataAddr(i)) # 0
                      \/ i.acc.type = "half" /\ Offset(DataAddr(i)) = 3

\* Lanes taking part in the transaction.
ByteEnable(i) ==
    LET off == Offset(DataAddr(i)) IN
    CASE i.acc.type = "word" -> IF handle_misaligned_q
                                THEN {k \in 0 .. 3 : k < off}
                                ELSE {k \in 0 .. 3 : k >= off}
      [] i.acc.type = "half" -> IF handle_misaligned_q THEN {0}
                                ELSE {k \in {off, off + 1} : k <= 3}
      [] i.acc.type = "byte" -> {off}

\* Byte of the store data a lane carries: the data is rotated.
WDataByte(i, lane) == (lane + 4 - Offset(DataAddr(i))) % 4

-----------------------------------------------------------------------------
(* The answer.                                                             *)

\* Defect: the upper half word is taken for the one in the middle.
HalfUpperAligned(i) == IF rdata_offset_q = 3 THEN i.rdata[0]
                       ELSE IF rdata_offset_q = 0 THEN i.rdata[1] ELSE i.rdata[3]

\* The upper byte of a half word.
HalfUpper(i) == IF rdata_offset_q = 3 THEN i.rdata[0]
                                      ELSE i.rdata[rdata_offset_q + 1]

RdataExt(i) ==
    LET r == i.rdata
        o == rdata_offset_q
        first == r[o]                   \* of a byte or half word in one word
        upper == HalfUpper(i)
    IN  CASE data_type_q = "word" ->
                [k \in 0 .. 3 |-> IF o = 0 THEN r[k]
                                  ELSE IF o + k <= 3 THEN rdata_q[o + k]
                                  ELSE r[o + k - 4]]
          [] data_type_q = "half" ->
                [k \in 0 .. 3 |-> CASE k = 0 -> IF o = 3 THEN rdata_q[3] ELSE first
                                    [] k = 1 -> upper
                                    [] k > 1 -> Extension(upper, data_sign_ext_q)]
          [] data_type_q = "byte" ->
                [k \in 0 .. 3 |-> IF k = 0 THEN first
                                  ELSE Extension(first, data_sign_ext_q)]

DataOrPmpErr(i) == lsu_err_q \/ i.err \/ pmp_err_q

RespValid(i) == ls_fsm_cs = "IDLE" /\ (i.rvalid \/ pmp_err_q)
RdataValid(i) == /\ ls_fsm_cs = "IDLE" /\ i.rvalid
                 /\ ~DataOrPmpErr(i) /\ ~data_we_q

-----------------------------------------------------------------------------
(* The state machine.                                                      *)

\* The registers a state may update; the first word's lanes are cleared
\* in every cycle that does not capture them.
Latch(i, addrUpdate, ctrlUpdate, rdataUpdate) ==
    /\ addr_last_q' = IF addrUpdate THEN DataAddr(i) ELSE addr_last_q
    /\ IF ctrlUpdate
       THEN /\ rdata_offset_q' = Offset(DataAddr(i))
            /\ data_type_q' = i.acc.type
            /\ data_sign_ext_q' = i.acc.sign
            /\ data_we_q' = i.acc.we
       ELSE UNCHANGED ctrlVars
    /\ rdata_q' = [k \in 1 .. 3 |-> IF rdataUpdate THEN i.rdata[k] ELSE Zero]

\* Defects: a refused request waits for a grant; a refused first transaction
\* is no error; the second transaction loses its mark while it waits; the
\* address of the second transaction is always recorded.
GrantedByBus(i) == i.gnt
FirstPartErrByBus(i) == i.err
StillMisalignedNever(i) == FALSE
SecondAddrUpdateAlways == TRUE

\* The bus grants the request or the PMP has refused it.
GrantedOrRefused(i) == i.gnt \/ pmp_err_q
FirstPartErr(i) == i.err \/ pmp_err_q
StillMisaligned(i) == ~i.gnt
SecondAddrUpdate == ~lsu_err_q

Idle(i) ==
    /\ ls_fsm_cs = "IDLE" /\ ~i.req
    /\ pmp_err_q' = FALSE
    /\ Latch(i, FALSE, FALSE, FALSE)
    /\ UNCHANGED <<ls_fsm_cs, handle_misaligned_q, lsu_err_q>>

Start(i) ==
    /\ ls_fsm_cs = "IDLE" /\ i.req
    /\ pmp_err_q' = i.pmpErr
    /\ lsu_err_q' = FALSE
    /\ handle_misaligned_q' = IF i.gnt THEN SplitMisaligned(i)
                                       ELSE handle_misaligned_q
    /\ ls_fsm_cs' = IF SplitMisaligned(i)
                    THEN IF i.gnt THEN "WAIT_RVALID_MIS" ELSE "WAIT_GNT_MIS"
                    ELSE IF i.gnt THEN "IDLE" ELSE "WAIT_GNT"
    /\ Latch(i, i.gnt, i.gnt, FALSE)

WaitGntMis(i) ==
    /\ ls_fsm_cs = "WAIT_GNT_MIS"
    /\ IF GrantedOrRefused(i)
       THEN /\ ls_fsm_cs' = "WAIT_RVALID_MIS"
            /\ handle_misaligned_q' = TRUE
       ELSE UNCHANGED <<ls_fsm_cs, handle_misaligned_q>>
    /\ Latch(i, GrantedOrRefused(i), GrantedOrRefused(i), FALSE)
    /\ UNCHANGED <<pmp_err_q, lsu_err_q>>

\* The first transaction is granted, the second one requested.
WaitRvalidMis(i) ==
    /\ ls_fsm_cs = "WAIT_RVALID_MIS"
    /\ IF i.rvalid \/ pmp_err_q
       THEN /\ pmp_err_q' = i.pmpErr
            /\ lsu_err_q' = FirstPartErr(i)
            /\ ls_fsm_cs' = IF i.gnt THEN "IDLE" ELSE "WAIT_GNT"
            /\ handle_misaligned_q' = StillMisaligned(i)
            /\ Latch(i, i.gnt /\ ~FirstPartErr(i), FALSE, ~data_we_q)
       ELSE /\ ls_fsm_cs' = IF i.gnt THEN "WAIT_RVALID_MIS_GNTS_DONE"
                                     ELSE ls_fsm_cs
            /\ handle_misaligned_q' = (handle_misaligned_q /\ ~i.gnt)
            /\ Latch(i, FALSE, FALSE, FALSE)
            /\ UNCHANGED <<pmp_err_q, lsu_err_q>>

WaitGnt(i) ==
    /\ ls_fsm_cs = "WAIT_GNT"
    /\ IF GrantedOrRefused(i)
       THEN /\ ls_fsm_cs' = "IDLE"
            /\ handle_misaligned_q' = FALSE
            /\ Latch(i, SecondAddrUpdate, TRUE, FALSE)
       ELSE /\ Latch(i, FALSE, FALSE, FALSE)
            /\ UNCHANGED <<ls_fsm_cs, handle_misaligned_q>>
    /\ UNCHANGED <<pmp_err_q, lsu_err_q>>

\* Both are granted, the first one is not answered.
WaitRvalidMisGntsDone(i) ==
    /\ ls_fsm_cs = "WAIT_RVALID_MIS_GNTS_DONE"
    /\ IF i.rvalid
       THEN /\ pmp_err_q' = i.pmpErr
            /\ lsu_err_q' = i.err
            /\ ls_fsm_cs' = "IDLE"
            /\ Latch(i, ~i.err, FALSE, ~data_we_q)
       ELSE /\ Latch(i, FALSE, FALSE, FALSE)
            /\ UNCHANGED <<ls_fsm_cs, pmp_err_q, lsu_err_q>>
    /\ UNCHANGED handle_misaligned_q

LsuClock(i) == \/ Idle(i) \/ Start(i) \/ WaitGntMis(i) \/ WaitRvalidMis(i)
               \/ WaitGnt(i) \/ WaitRvalidMisGntsDone(i)

\* ID may leave the access to the LSU: only an answer is outstanding.
ReqDone(i) == (i.req \/ ls_fsm_cs # "IDLE") /\ ls_fsm_cs' = "IDLE"

LsuInit ==
    /\ ls_fsm_cs = "IDLE"
    /\ handle_misaligned_q = FALSE
    /\ pmp_err_q = FALSE
    /\ lsu_err_q = FALSE
    /\ rdata_q = [k \in 1 .. 3 |-> Zero]
    /\ rdata_offset_q = 0
    /\ data_type_q = "word"
    /\ data_sign_ext_q = FALSE
    /\ data_we_q = FALSE
    /\ addr_last_q = 0
=============================================================================
