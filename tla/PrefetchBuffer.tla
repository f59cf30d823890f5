--------------------------- MODULE PrefetchBuffer ---------------------------
(***************************************************************************)
(* The prefetch buffer, rtl/ibex_prefetch_buffer.sv: it requests the words *)
(* that follow the last branch target, keeps up to NUM_REQS requests in    *)
(* flight, drops the answers a branch has made useless and pushes the      *)
(* others into the fetch FIFO.                                             *)
(*                                                                         *)
(* The input record `i' of a cycle has the fields                          *)
(*   req, branch, addr, ready        from the rest of the core             *)
(*   gnt, rvalid, word               from the instruction bus              *)
(*   pmpErr                          the PMP's verdict on InstrAddr(i)     *)
(* where `word' is the word on the data bus with its instr_err_i.          *)
(***************************************************************************)
EXTENDS FetchFifo

VARIABLES
    valid_req_q,          \* a request is waiting for its grant
    discard_req_q,        \* ... and a branch has overtaken it
    rdata_outstanding_q,  \* requests granted and not answered; 0 is the oldest
    branch_discard_q,     \* ... whose answer is to be dropped
    rdata_pmp_err_q,      \* ... that the PMP refused: nothing went out
    stored_addr_q,        \* word address of the waiting request
    fetch_addr_q          \* word address of the next request

prefetchVars == <<valid_req_q, discard_req_q, rdata_outstanding_q,
                  branch_discard_q, rdata_pmp_err_q, stored_addr_q,
                  fetch_addr_q, fifoVars>>

Reqs == 0 .. NUM_REQS - 1

PrefetchTypeOK ==
    /\ valid_req_q \in BOOLEAN
    /\ discard_req_q \in BOOLEAN
    /\ rdata_outstanding_q \in [Reqs -> BOOLEAN]
    /\ branch_discard_q \in [Reqs -> BOOLEAN]
    /\ rdata_pmp_err_q \in [Reqs -> BOOLEAN]
    /\ stored_addr_q \in Words \cup {NoWord}
    /\ fetch_addr_q \in Words
    /\ FifoTypeOK

-----------------------------------------------------------------------------
(* Requests.                                                               *)

\* Defect: a third request is made while two are outstanding.
ValidNewReqUncounted(i) == i.req /\ (InReady \/ i.branch)

ValidNewReq(i) == /\ i.req
                  /\ InReady \/ i.branch
                  /\ ~rdata_outstanding_q[NUM_REQS - 1]
ValidReq(i) == valid_req_q \/ ValidNewReq(i)
IssuesNew(i) == ValidNewReq(i) /\ ~valid_req_q

\* Defect: a branch replaces the address of a request that waits for its grant.
InstrAddrOvertaken(i) == IF i.branch THEN i.addr.word
                         ELSE IF valid_req_q THEN stored_addr_q
                         ELSE fetch_addr_q

InstrAddr(i) == IF valid_req_q THEN stored_addr_q
                ELSE IF i.branch THEN i.addr.word
                ELSE fetch_addr_q

\* A request the PMP refuses never gets a grant or an answer from the bus:
\* both are faked.
GntOrPmpErr(i) == i.gnt \/ i.pmpErr
Granted(i) == ValidReq(i) /\ GntOrPmpErr(i)

\* Defect: the answer to a refused request is not faked.
AnsweredByBus(i) == rdata_outstanding_q[0] /\ i.rvalid

Answered(i) == rdata_outstanding_q[0] /\ (i.rvalid \/ rdata_pmp_err_q[0])

\* Defect: the branch is forgotten when the grant takes longer than a cycle.
DiscardReqDOnce(i) == valid_req_q /\ i.branch

DiscardReqD(i) == valid_req_q /\ (i.branch \/ discard_req_q)

NextFetchAddr(i) ==
    LET from == IF i.branch THEN i.addr.word ELSE fetch_addr_q
    IN  IF IssuesNew(i) THEN NextWord(from) ELSE from

-----------------------------------------------------------------------------
(* The queue of outstanding requests: a granted one enters behind those    *)
(* already there, an answer shifts the queue.                              *)

BehindOlder(k) == k > 0 => rdata_outstanding_q[k - 1]

OutstandingN(i) == [k \in Reqs |->
    rdata_outstanding_q[k] \/ (Granted(i) /\ BehindOlder(k))]

\* Defect: a branch does not reach the requests already granted.
BranchDiscardNWaiting(i) == [k \in Reqs |->
    (Granted(i) /\ DiscardReqD(i) /\ BehindOlder(k)) \/ branch_discard_q[k]]

BranchDiscardN(i) == [k \in Reqs |->
    \/ Granted(i) /\ DiscardReqD(i) /\ BehindOlder(k)
    \/ i.branch /\ rdata_outstanding_q[k]
    \/ branch_discard_q[k]]

\* Defect: the PMP's verdict also marks requests already granted.
PmpErrNAll(i) == [k \in Reqs |->
    (ValidReq(i) /\ i.pmpErr /\ BehindOlder(k)) \/ rdata_pmp_err_q[k]]

PmpErrN(i) == [k \in Reqs |->
    \/ ValidReq(i) /\ ~rdata_outstanding_q[k] /\ i.pmpErr /\ BehindOlder(k)
    \/ rdata_pmp_err_q[k]]

Shifted(i, bits) ==
    IF Answered(i) THEN [k \in Reqs |-> k < NUM_REQS - 1 /\ bits[k + 1]]
                   ELSE bits

-----------------------------------------------------------------------------
\* What the fetch FIFO sees in this cycle.
FifoInput(i) ==
    [clear    |-> i.branch,
     inValid  |-> Answered(i) /\ ~branch_discard_q[0],
     inAddr   |-> i.addr,
     data     |-> [i.word EXCEPT !.err = @ \/ rdata_pmp_err_q[0]],
     outReady |-> i.ready]

FetchValid(i) == OutValid(FifoInput(i))
FetchInstr(i) == OutInstr(FifoInput(i))

\* The waiting address is used only while a request waits; see Stale.
PrefetchClock(i) ==
    /\ valid_req_q' = (ValidReq(i) /\ ~GntOrPmpErr(i))
    /\ discard_req_q' = DiscardReqD(i)
    /\ rdata_outstanding_q' = Shifted(i, OutstandingN(i))
    /\ branch_discard_q' = Shifted(i, BranchDiscardN(i))
    /\ rdata_pmp_err_q' = Shifted(i, PmpErrN(i))
    /\ stored_addr_q' = IF IssuesNew(i) /\ ~GntOrPmpErr(i) THEN InstrAddr(i)
                        ELSE IF valid_req_q' THEN stored_addr_q
                        ELSE NoWord
    /\ fetch_addr_q' = NextFetchAddr(i)
    /\ FifoClock(FifoInput(i))

PrefetchInit ==
    /\ valid_req_q = FALSE
    /\ discard_req_q = FALSE
    /\ rdata_outstanding_q = [k \in Reqs |-> FALSE]
    /\ branch_discard_q = [k \in Reqs |-> FALSE]
    /\ rdata_pmp_err_q = [k \in Reqs |-> FALSE]
    /\ stored_addr_q = NoWord
    /\ fetch_addr_q \in Words
    /\ FifoInit
=============================================================================
