------------------------------ MODULE IfStage ------------------------------
(***************************************************************************)
(* The instruction fetch stage, rtl/ibex_if_stage.sv (configuration        *)
(* without instruction cache): the prefetch buffer, the IF-ID pipeline     *)
(* register and, outside the core, the instruction bus with the memory     *)
(* behind it.  The controller and the ID stage are the environment: they   *)
(* choose each cycle whether to redirect the program counter and whether   *)
(* ID stalls, accepts the next instruction or is flushed.                  *)
(*                                                                         *)
(* The bus may delay a grant and an answer for as long as it likes.  It    *)
(* answers in order, once per granted request, one cycle after the grant   *)
(* at the earliest (doc/instruction_fetch.rst, doc/load_store_unit.rst).   *)
(***************************************************************************)
EXTENDS PrefetchBuffer, Sequences

CONSTANTS
    Images,     \* the memories considered, see InstrStream
    Targets     \* where the program counter may be redirected to

VARIABLES
    instr_valid_id_q,   \* ID holds an instruction
    instr_id,           \* that instruction (instr_rdata_id_o, pc_id_o, ...)
    booted,             \* history: the boot address has been set
    image,              \* the memory, as the current privilege level sees it
    mem_q,              \* words granted and not answered by the bus
    waiting             \* history: word requested last cycle without a grant

coreVars == <<prefetchVars, instr_valid_id_q, instr_id>>
envVars  == <<booted, image, mem_q, waiting>>
vars     == <<coreVars, envVars>>

S == INSTANCE InstrStream WITH
        mem     <- image,
        pc      <- instr_addr_q,
        offered <- IF ~instr_valid_id_q THEN NoInstr
                   ELSE IF instr_id.err
                   THEN [instr_id EXCEPT !.lower = NoHalf, !.upper = NoHalf]
                   ELSE [instr_id EXCEPT !.plus2 = FALSE]

ASSUME IfStageAssumption == /\ Images \subseteq S!ImageType
                            /\ Targets \subseteq Address

-----------------------------------------------------------------------------
(* The inputs of a cycle.                                                  *)

\* What ID does with its instruction: keep it (stalled or halted), let it go
\* and take the next one, or throw it away (flush_id while halted).
IdActions == {"stall", "advance", "flush"}

\* The word on the data bus: the oldest granted one when the bus answers,
\* else arbitrary bits, which matter only where the PMP faked an answer.
Noise == IF rdata_pmp_err_q[0] THEN [lo : BOOLEAN, hi : BOOLEAN]
                               ELSE {[lo |-> FALSE, hi |-> FALSE]}

BusWord(rvalid, noise) ==
    IF rvalid THEN LET w == Head(mem_q) IN
        [word |-> w,
         lo   |-> [word |-> w, odd |-> FALSE] \in image.comp,
         hi   |-> [word |-> w, odd |-> TRUE]  \in image.comp,
         err  |-> w \in image.err]
    ELSE [word |-> NoWord, lo |-> noise.lo, hi |-> noise.hi, err |-> FALSE]

\* The PMP judges the address on the bus at the privilege level that holds
\* from this clock edge on (priv_mode_if_o is priv_lvl_d): `view'.
Cycle(req, branch, target, view, id, gnt, rvalid, noise) ==
    [req |-> req, branch |-> branch, addr |-> target, view |-> view, id |-> id,
     ready |-> id = "advance", gnt |-> gnt, rvalid |-> rvalid,
     word |-> BusWord(rvalid, noise),
     pmpErr |-> (IF valid_req_q THEN stored_addr_q
                 ELSE IF branch THEN target.word ELSE fetch_addr_q)
                \in view.pmp]

\* The bus sees a request the PMP lets through (rtl/ibex_core.sv).
BusRequest(i) == ValidReq(i) /\ ~i.pmpErr

BusProtocol(i) == i.gnt => BusRequest(i)
MayAnswer == IF mem_q = <<>> THEN {FALSE} ELSE BOOLEAN

-----------------------------------------------------------------------------
(* One clock edge.                                                         *)

InstrValidIdD(i) ==
    \/ FetchValid(i) /\ i.ready /\ ~i.branch
    \/ instr_valid_id_q /\ i.id = "stall"

PipeRegister(i) ==
    /\ instr_valid_id_q' = InstrValidIdD(i)
    /\ instr_id' = IF ~InstrValidIdD(i) THEN NoInstr
                   ELSE IF FetchValid(i) /\ i.ready THEN FetchInstr(i)
                   ELSE instr_id

InstrBus(i) ==
    /\ mem_q' = (IF i.rvalid THEN Tail(mem_q) ELSE mem_q)
                \o (IF i.gnt THEN <<InstrAddr(i)>> ELSE <<>>)
    /\ waiting' = IF ValidReq(i) /\ ~GntOrPmpErr(i) THEN InstrAddr(i)
                                                    ELSE NoWord
    /\ image' = i.view

Clock(i) == /\ BusProtocol(i)
            /\ PrefetchClock(i)
            /\ PipeRegister(i)
            /\ InstrBus(i)
            /\ booted' = (booted \/ i.branch)

\* pc_set_i: RESET and BOOT_SET, jumps, taken branches, traps and returns.
\* Traps and returns change the privilege level in the same cycle.
SetPc == \E req \in BOOLEAN, target \in Targets, view \in S!Views(image),
            id \in IdActions, gnt \in BOOLEAN, rvalid \in MayAnswer,
            noise \in Noise :
            Clock(Cycle(req, TRUE, target, view, id, gnt, rvalid, noise))

\* A cycle without redirection: instr_req_o of the controller may be low
\* (it sleeps), the ID stage does `id'.
Run(id) == \E req \in BOOLEAN, gnt \in BOOLEAN, rvalid \in MayAnswer,
              noise \in Noise :
              /\ booted
              /\ Clock(Cycle(req, FALSE, instr_addr_q, image, id, gnt,
                             rvalid, noise))
Stall   == Run("stall")
Advance == Run("advance")
Flush   == Run("flush")

Init == /\ PrefetchInit
        /\ instr_valid_id_q = FALSE
        /\ instr_id = NoInstr
        /\ booted = FALSE
        /\ image \in Images
        /\ mem_q = <<>>
        /\ waiting = NoWord

Next == SetPc \/ Stall \/ Advance \/ Flush

Spec == Init /\ [][Next]_vars
-----------------------------------------------------------------------------
(* Properties.                                                             *)

\* Every register and the bus have values of their type.
TypeOK ==
    /\ PrefetchTypeOK
    /\ instr_valid_id_q \in BOOLEAN
    /\ instr_id \in Instr
    /\ booted \in BOOLEAN
    /\ image \in Images
    /\ mem_q \in Seq(Words) /\ Len(mem_q) <= NUM_REQS
    /\ waiting \in Words \cup {NoWord}

\* No word that is kept can arrive while the FIFO is full: the buffer does not
\* count its requests, it only reserves room when it makes a new one
\* (assertions IbexFetchFifoPushPopFull and IbexFetchFifoPushFull).
NoPushWhenFull ==
    valid_q[DEPTH - 1] => ~(rdata_outstanding_q[0] /\ ~branch_discard_q[0])

\* The buffer's queue and the bus agree on what is still to be answered, in
\* spite of faked grants and answers: no answer of the bus is taken for
\* another request's or lost, and a core that finds the buffer idle (busy_o)
\* leaves nothing on the bus when it goes to sleep.
OnBus(k) == rdata_outstanding_q[k] /\ ~rdata_pmp_err_q[k]
BusAccounted ==
    Len(mem_q) = (IF OnBus(0) THEN 1 ELSE 0) + (IF OnBus(1) THEN 1 ELSE 0)

\* A faked answer never coincides with the bus answering another request:
\* the word on the data bus would be lost.
NoAnswerHidden == rdata_outstanding_q[0] /\ rdata_pmp_err_q[0] => mem_q = <<>>

\* The queue of outstanding requests is in order, and so are the discards: a
\* request is dropped only together with all older ones, a refused request is
\* alone by the time its answer is faked, and no third request waits behind
\* two outstanding ones.
QueueInv ==
    /\ rdata_outstanding_q[1] => rdata_outstanding_q[0] /\ ~valid_req_q
    /\ \A k \in Reqs : branch_discard_q[k] \/ rdata_pmp_err_q[k]
                            => rdata_outstanding_q[k]
    /\ branch_discard_q[1] => branch_discard_q[0]
    /\ \A k \in Reqs : valid_req_q /\ discard_req_q /\ rdata_outstanding_q[k]
                            => branch_discard_q[k]
    /\ rdata_pmp_err_q[0] => ~rdata_outstanding_q[1]

\* Room for every word that is still to come and will be kept: the reserve of
\* NUM_REQS entries made with each new request is never overdrawn.
Live(k) == rdata_outstanding_q[k] /\ ~branch_discard_q[k]
LiveWaiting == valid_req_q /\ ~discard_req_q
RoomInv ==
    /\ \A k \in 1 .. DEPTH - 1 : valid_q[k] => valid_q[k - 1]
    /\ valid_q[1] => /\ ~(Live(0) /\ Live(1))
                     /\ ~(Live(0) /\ LiveWaiting)
                     /\ ~(Live(1) /\ LiveWaiting)
    /\ valid_q[2] => ~Live(0) /\ ~Live(1) /\ ~LiveWaiting

\* The address of a waiting request is the one that went out on the bus.
WaitingInv == /\ waiting = stored_addr_q
              /\ valid_req_q <=> waiting # NoWord
              /\ waiting \notin image.pmp

\* A request stays on the bus, with its address, until it is granted, whatever
\* branches and sleep requests come in between; only a change of the privilege
\* level takes it away (see RequestStaysHigh).
HeldOrGranted == \/ waiting' = waiting
                 \/ /\ waiting' = NoWord
                    /\ mem_q' # <<>>
                    /\ mem_q'[Len(mem_q')] = waiting
RequestHeld ==
    [][waiting # NoWord /\ image' = image => HeldOrGranted]_vars

\* What doc/instruction_fetch.rst says of instr_req_o: "Request valid, must
\* stay high until instr_gnt_i is high for one cycle".
RequestStaysHigh == [][waiting # NoWord => HeldOrGranted]_vars

\* ID receives the program: see InstrStream.
InOrderStream == S!Spec

-----------------------------------------------------------------------------
(* Fairness: the bus grants and answers in the end, the controller wakes up,*)
(* ID takes an instruction in the end.                                     *)

Requesting == \E id \in IdActions, gnt \in BOOLEAN, rvalid \in MayAnswer,
                 noise \in Noise :
    /\ booted
    /\ Clock(Cycle(TRUE, FALSE, instr_addr_q, image, id, gnt, rvalid, noise))
    /\ waiting' = NoWord
Answering == \E req \in BOOLEAN, id \in IdActions, gnt \in BOOLEAN,
                noise \in Noise :
    /\ booted /\ mem_q # <<>>
    /\ Clock(Cycle(req, FALSE, instr_addr_q, image, id, gnt, TRUE, noise))

FairSpec == /\ Spec
            /\ WF_vars(SetPc /\ ~booted)
            /\ WF_vars(Requesting)
            /\ WF_vars(Answering)
            /\ WF_vars(Advance)

\* Unless the program counter is redirected for ever, ID gets an instruction
\* again and again: the buffer never ends up waiting for room in the FIFO
\* while ID waits for the second half of an instruction.
Progress == <>[][~SetPc]_vars => []<>instr_valid_id_q
=============================================================================
