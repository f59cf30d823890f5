---------------------------- MODULE IfStageProofs ----------------------------
(***************************************************************************)
(* Theorems about the fetch stage, for every address space, memory image   *)
(* and set of branch targets.                                              *)
(***************************************************************************)
EXTENDS IfStage, TLAPS

\* What the actions of IfStage put on the wires of a cycle.
InputOK(i) ==
    /\ i \in [req : BOOLEAN, branch : BOOLEAN, addr : Address, id : IdActions,
              ready : BOOLEAN, gnt : BOOLEAN, rvalid : BOOLEAN,
              word : FetchedWord, pmpErr : BOOLEAN, view : Images]
    /\ i.rvalid => mem_q # <<>>
    /\ i.pmpErr <=> InstrAddr(i) \in i.view.pmp

-----------------------------------------------------------------------------
(* The next state, entry by entry.                                         *)

LEMMA ShiftedEntries ==
    ASSUME NEW i, NEW bits \in [Reqs -> BOOLEAN]
    PROVE  /\ Shifted(i, bits) \in [Reqs -> BOOLEAN]
           /\ Shifted(i, bits)[0] <=> IF Answered(i) THEN bits[1] ELSE bits[0]
           /\ Shifted(i, bits)[1] <=> ~Answered(i) /\ bits[1]
<1>1. Reqs = {0, 1}
  BY DEF Reqs, NUM_REQS
<1>2. CASE Answered(i)
  <2>1. Shifted(i, bits) = [k \in Reqs |-> k < 1 /\ bits[k + 1]]
    BY <1>2 DEF Shifted, NUM_REQS
  <2>2. bits[1] \in BOOLEAN /\ bits[0] \in BOOLEAN
    BY <1>1
  <2>3. Shifted(i, bits)[0] = (0 < 1 /\ bits[1])
    BY <2>1, <1>1
  <2>4. Shifted(i, bits)[1] = (1 < 1 /\ bits[2])
    BY <2>1, <1>1
  <2>5. Shifted(i, bits) \in [Reqs -> BOOLEAN]
    BY <2>1
  <2> QED
    BY <1>2, <2>2, <2>3, <2>4, <2>5
<1>3. CASE ~Answered(i)
  BY <1>3 DEF Shifted
<1> QED
  BY <1>2, <1>3

LEMMA QueueEntries ==
    ASSUME NEW i, PrefetchTypeOK
    PROVE  /\ OutstandingN(i) \in [Reqs -> BOOLEAN]
           /\ BranchDiscardN(i) \in [Reqs -> BOOLEAN]
           /\ PmpErrN(i) \in [Reqs -> BOOLEAN]
           /\ OutstandingN(i)[0] <=> rdata_outstanding_q[0] \/ Granted(i)
           /\ OutstandingN(i)[1] <=>
                rdata_outstanding_q[1] \/ (Granted(i) /\ rdata_outstanding_q[0])
           /\ BranchDiscardN(i)[0] <=>
                \/ Granted(i) /\ DiscardReqD(i)
                \/ i.branch /\ rdata_outstanding_q[0]
                \/ branch_discard_q[0]
           /\ BranchDiscardN(i)[1] <=>
                \/ Granted(i) /\ DiscardReqD(i) /\ rdata_outstanding_q[0]
                \/ i.branch /\ rdata_outstanding_q[1]
                \/ branch_discard_q[1]
           /\ PmpErrN(i)[0] <=>
                \/ ValidReq(i) /\ ~rdata_outstanding_q[0] /\ i.pmpErr
                \/ rdata_pmp_err_q[0]
           /\ PmpErrN(i)[1] <=>
                \/ /\ ValidReq(i) /\ ~rdata_outstanding_q[1] /\ i.pmpErr
                   /\ rdata_outstanding_q[0]
                \/ rdata_pmp_err_q[1]
<1>1. Reqs = {0, 1}
  BY DEF Reqs, NUM_REQS
<1>2. /\ OutstandingN(i) \in [Reqs -> BOOLEAN]
      /\ BranchDiscardN(i) \in [Reqs -> BOOLEAN]
      /\ PmpErrN(i) \in [Reqs -> BOOLEAN]
  BY DEF OutstandingN, BranchDiscardN, PmpErrN
<1>3. BehindOlder(0) /\ (BehindOlder(1) <=> rdata_outstanding_q[0])
  BY DEF BehindOlder
<1>4. /\ OutstandingN(i)[0] <=>
            rdata_outstanding_q[0] \/ (Granted(i) /\ BehindOlder(0))
      /\ OutstandingN(i)[1] <=>
            rdata_outstanding_q[1] \/ (Granted(i) /\ BehindOlder(1))
  BY <1>1 DEF OutstandingN
<1>5. /\ BranchDiscardN(i)[0] <=>
            \/ Granted(i) /\ DiscardReqD(i) /\ BehindOlder(0)
            \/ i.branch /\ rdata_outstanding_q[0]
            \/ branch_discard_q[0]
      /\ BranchDiscardN(i)[1] <=>
            \/ Granted(i) /\ DiscardReqD(i) /\ BehindOlder(1)
            \/ i.branch /\ rdata_outstanding_q[1]
            \/ branch_discard_q[1]
  BY <1>1 DEF BranchDiscardN
<1>6. /\ PmpErrN(i)[0] <=>
            \/ ValidReq(i) /\ ~rdata_outstanding_q[0] /\ i.pmpErr /\ BehindOlder(0)
            \/ rdata_pmp_err_q[0]
      /\ PmpErrN(i)[1] <=>
            \/ ValidReq(i) /\ ~rdata_outstanding_q[1] /\ i.pmpErr /\ BehindOlder(1)
            \/ rdata_pmp_err_q[1]
  BY <1>1 DEF PmpErrN
<1> QED
  BY <1>2, <1>3, <1>4, <1>5, <1>6

\* The queue after a clock edge.
LEMMA QueueNext ==
    ASSUME NEW i, PrefetchTypeOK, PrefetchClock(i)
    PROVE  /\ rdata_outstanding_q' \in [Reqs -> BOOLEAN]
           /\ branch_discard_q' \in [Reqs -> BOOLEAN]
           /\ rdata_pmp_err_q' \in [Reqs -> BOOLEAN]
           /\ rdata_outstanding_q'[0] <=>
                IF Answered(i) THEN OutstandingN(i)[1] ELSE OutstandingN(i)[0]
           /\ rdata_outstanding_q'[1] <=> ~Answered(i) /\ OutstandingN(i)[1]
           /\ branch_discard_q'[0] <=>
                IF Answered(i) THEN BranchDiscardN(i)[1] ELSE BranchDiscardN(i)[0]
           /\ branch_discard_q'[1] <=> ~Answered(i) /\ BranchDiscardN(i)[1]
           /\ rdata_pmp_err_q'[0] <=>
                IF Answered(i) THEN PmpErrN(i)[1] ELSE PmpErrN(i)[0]
           /\ rdata_pmp_err_q'[1] <=> ~Answered(i) /\ PmpErrN(i)[1]
<1>1. /\ rdata_outstanding_q' = Shifted(i, OutstandingN(i))
      /\ branch_discard_q' = Shifted(i, BranchDiscardN(i))
      /\ rdata_pmp_err_q' = Shifted(i, PmpErrN(i))
  BY DEF PrefetchClock
<1> QED
  BY <1>1, QueueEntries, ShiftedEntries

\* The queue stays in order.
LEMMA QueueStep ==
    ASSUME NEW i, PrefetchTypeOK, QueueInv, PrefetchClock(i)
    PROVE  QueueInv'
<1>1. Reqs = {0, 1}
  BY DEF Reqs, NUM_REQS
<1>2. /\ valid_req_q' <=> ValidReq(i) /\ ~GntOrPmpErr(i)
      /\ discard_req_q' <=> DiscardReqD(i)
  BY DEF PrefetchClock
<1>3. /\ Granted(i) <=> ValidReq(i) /\ GntOrPmpErr(i)
      /\ i.pmpErr => GntOrPmpErr(i)
      /\ DiscardReqD(i) <=> valid_req_q /\ (i.branch \/ discard_req_q)
      /\ ValidReq(i) => valid_req_q \/ ~rdata_outstanding_q[1]
      /\ rdata_outstanding_q[0] /\ rdata_pmp_err_q[0] => Answered(i)
      /\ Answered(i) => rdata_outstanding_q[0]
  BY DEF Granted, GntOrPmpErr, DiscardReqD, ValidReq, ValidNewReq, Answered,
         NUM_REQS
<1> QED
  BY <1>1, <1>2, <1>3, QueueNext, QueueEntries DEF QueueInv
-----------------------------------------------------------------------------
(* The FIFO after a clock edge.                                            *)

LEMMA FifoNext ==
    ASSUME NEW f, FifoTypeOK, FifoClock(f),
           f.clear \in BOOLEAN, f.inValid \in BOOLEAN
    PROVE  LET push(k) == f.inValid /\ LowestFreeEntry(k)
           IN  /\ valid_q' \in [Slots -> BOOLEAN]
               /\ valid_q'[0] <=> /\ ~f.clear
                                  /\ IF PopFifo(f) THEN push(1) \/ valid_q[1]
                                                   ELSE push(0) \/ valid_q[0]
               /\ valid_q'[1] <=> /\ ~f.clear
                                  /\ IF PopFifo(f) THEN push(2) \/ valid_q[2]
                                                   ELSE push(1) \/ valid_q[1]
               /\ valid_q'[2] <=> /\ ~f.clear
                                  /\ ~PopFifo(f)
                                  /\ push(2) \/ valid_q[2]
<1>1. Slots = {0, 1, 2} /\ DEPTH = 3
  BY DEF Slots, DEPTH, NUM_REQS
<1>2. valid_q' = [k \in Slots |-> ValidD(f, k)]
  BY DEF FifoClock
<1>3. valid_q' \in [Slots -> BOOLEAN]
  BY <1>2 DEF ValidD
<1>4. \A k \in Slots : valid_q'[k] <=> ValidPopped(f, k) /\ ~f.clear
  BY <1>2 DEF ValidD
<1>5. /\ ValidPopped(f, 0) <=> IF PopFifo(f) THEN ValidPushed(f, 1)
                                             ELSE ValidPushed(f, 0)
      /\ ValidPopped(f, 1) <=> IF PopFifo(f) THEN ValidPushed(f, 2)
                                             ELSE ValidPushed(f, 1)
      /\ ValidPopped(f, 2) <=> ~PopFifo(f) /\ ValidPushed(f, 2)
  BY <1>1 DEF ValidPopped
<1>6. \A k \in Slots : ValidPushed(f, k) <=>
                            (f.inValid /\ LowestFreeEntry(k)) \/ valid_q[k]
  BY DEF ValidPushed
<1> QED
  BY <1>1, <1>3, <1>4, <1>5, <1>6

\* Room is left for every word that will be kept.
LEMMA RoomStep ==
    ASSUME NEW i, InputOK(i), PrefetchTypeOK, QueueInv, RoomInv,
           PrefetchClock(i)
    PROVE  RoomInv'
<1> DEFINE f == FifoInput(i)
<1>1. Reqs = {0, 1} /\ Slots = {0, 1, 2} /\ DEPTH = 3
  BY DEF Reqs, Slots, DEPTH, NUM_REQS
<1>2. /\ f.clear = i.branch
      /\ f.inValid <=> Answered(i) /\ ~branch_discard_q[0]
      /\ f.clear \in BOOLEAN /\ f.inValid \in BOOLEAN
  BY DEF FifoInput, InputOK
<1>3. FifoTypeOK /\ FifoClock(f)
  BY DEF PrefetchTypeOK, PrefetchClock
<1>4. /\ LowestFreeEntry(0) <=> ~valid_q[0]
      /\ LowestFreeEntry(1) <=> ~valid_q[1] /\ valid_q[0]
      /\ LowestFreeEntry(2) <=> ~valid_q[2] /\ valid_q[1]
  BY DEF LowestFreeEntry
<1>5. /\ valid_q'[0] <=> /\ ~i.branch
                         /\ IF PopFifo(f)
                            THEN (f.inValid /\ LowestFreeEntry(1)) \/ valid_q[1]
                            ELSE (f.inValid /\ LowestFreeEntry(0)) \/ valid_q[0]
      /\ valid_q'[1] <=> /\ ~i.branch
                         /\ IF PopFifo(f)
                            THEN (f.inValid /\ LowestFreeEntry(2)) \/ valid_q[2]
                            ELSE (f.inValid /\ LowestFreeEntry(1)) \/ valid_q[1]
      /\ valid_q'[2] <=> /\ ~i.branch
                         /\ ~PopFifo(f)
                         /\ (f.inValid /\ LowestFreeEntry(2)) \/ valid_q[2]
  BY <1>2, <1>3, FifoNext
<1>6. /\ valid_req_q' <=> ValidReq(i) /\ ~GntOrPmpErr(i)
      /\ discard_req_q' <=> DiscardReqD(i)
  BY DEF PrefetchClock
<1>7. /\ Granted(i) <=> ValidReq(i) /\ GntOrPmpErr(i)
      /\ DiscardReqD(i) <=> valid_req_q /\ (i.branch \/ discard_req_q)
      /\ ValidReq(i) => \/ valid_req_q
                        \/ ~rdata_outstanding_q[1] /\ (~valid_q[1] \/ i.branch)
      /\ Answered(i) => rdata_outstanding_q[0]
  BY DEF Granted, GntOrPmpErr, DiscardReqD, ValidReq, ValidNewReq, Answered,
         InReady, DEPTH, NUM_REQS
<1>8. /\ Live(0)' <=> rdata_outstanding_q'[0] /\ ~branch_discard_q'[0]
      /\ Live(1)' <=> rdata_outstanding_q'[1] /\ ~branch_discard_q'[1]
      /\ LiveWaiting' <=> valid_req_q' /\ ~discard_req_q'
  BY DEF Live, LiveWaiting
<1>9. /\ valid_q[1] => valid_q[0]
      /\ valid_q[2] => valid_q[1]
  BY <1>1 DEF RoomInv
<1>10. (\A k \in 1 .. DEPTH - 1 : valid_q[k] => valid_q[k - 1])'
  <2>1. /\ valid_q'[1] => valid_q'[0]
        /\ valid_q'[2] => valid_q'[1]
    BY <1>4, <1>5, <1>9
  <2> QED
    BY <1>1, <2>1
<1>11. i.branch => ~valid_q'[1] /\ ~valid_q'[2]
  BY <1>5
<1>12. ASSUME ~i.branch, valid_q'[1]
       PROVE  /\ ~(Live(0)' /\ Live(1)')
              /\ ~(Live(0)' /\ LiveWaiting')
              /\ ~(Live(1)' /\ LiveWaiting')
  BY <1>1, <1>2, <1>4, <1>5, <1>6, <1>7, <1>8, <1>12, QueueNext, QueueEntries
     DEF QueueInv, RoomInv, Live, LiveWaiting
<1>13. ASSUME ~i.branch, valid_q'[2]
       PROVE  ~Live(0)' /\ ~Live(1)' /\ ~LiveWaiting'
  <2>1. valid_q[1] /\ ~(Live(0) /\ Live(1))
        /\ ~(Live(0) /\ LiveWaiting) /\ ~(Live(1) /\ LiveWaiting)
    BY <1>4, <1>5, <1>9, <1>13 DEF RoomInv
  <2>2. ValidReq(i) => valid_req_q
    BY <1>7, <1>13, <2>1
  <2>3. CASE valid_q[2]
    BY <1>1, <1>6, <1>7, <1>8, <1>13, <2>2, <2>3, QueueNext, QueueEntries
       DEF QueueInv, RoomInv, Live, LiveWaiting
  <2>4. CASE ~valid_q[2]
    <3>1. Answered(i) /\ Live(0)
      BY <1>2, <1>5, <1>7, <1>13, <2>4 DEF Live
    <3> QED
      BY <1>1, <1>6, <1>7, <1>8, <1>13, <2>1, <2>2, <3>1, QueueNext, QueueEntries
         DEF QueueInv, Live, LiveWaiting
  <2> QED
    BY <2>3, <2>4
<1> QED
  BY <1>10, <1>11, <1>12, <1>13 DEF RoomInv
-----------------------------------------------------------------------------
(* Types.                                                                  *)

LEMMA AddressStep ==
    ASSUME NEW a \in Address
    PROVE  PlusTwo(a) \in Address /\ PlusFour(a) \in Address
<1>1. \A w \in Words : NextWord(w) \in Words
  BY NWordsAssumption DEF Words, NextWord
<1> QED
  BY <1>1 DEF Address, PlusTwo, PlusFour

\* Inputs of a cycle have their types.
LEMMA CycleOK ==
    ASSUME TypeOK
    PROVE  \A req \in BOOLEAN, branch \in BOOLEAN, target \in Address,
              view \in Images, id \in IdActions, gnt \in BOOLEAN,
              rvalid \in MayAnswer, noise \in Noise :
              InputOK(Cycle(req, branch, target, view, id, gnt, rvalid, noise))
<1>1. ASSUME NEW rvalid \in MayAnswer, NEW noise \in Noise
      PROVE  /\ rvalid \in BOOLEAN
             /\ rvalid => mem_q # <<>>
             /\ BusWord(rvalid, noise) \in FetchedWord
  <2>1. rvalid \in BOOLEAN /\ (rvalid => mem_q # <<>>)
    BY DEF MayAnswer
  <2>2. noise \in [lo : BOOLEAN, hi : BOOLEAN]
    <3>1. [lo |-> FALSE, hi |-> FALSE] \in [lo : BOOLEAN, hi : BOOLEAN]
      OBVIOUS
    <3>2. Noise \subseteq [lo : BOOLEAN, hi : BOOLEAN]
      BY <3>1, Zenon DEF Noise
    <3> QED
      BY <3>2
  <2>3. CASE rvalid
    <3>1. mem_q \in Seq(Words) /\ mem_q # <<>>
      BY <2>1, <2>3 DEF TypeOK
    <3>2. Head(mem_q) \in Words
      BY <3>1
    <3> QED
      BY <2>1, <2>3, <3>2 DEF BusWord, FetchedWord
  <2>4. CASE ~rvalid
    BY <2>1, <2>2, <2>4 DEF BusWord, FetchedWord
  <2> QED
    BY <2>1, <2>3, <2>4
<1>2. ASSUME NEW req \in BOOLEAN, NEW branch \in BOOLEAN,
             NEW target \in Address, NEW view \in Images,
             NEW id \in IdActions, NEW gnt \in BOOLEAN,
             NEW rvalid \in MayAnswer, NEW noise \in Noise
      PROVE  InputOK(Cycle(req, branch, target, view, id, gnt, rvalid, noise))
  <2> DEFINE i == Cycle(req, branch, target, view, id, gnt, rvalid, noise)
  <2>1. i \in [req : BOOLEAN, branch : BOOLEAN, addr : Address,
               id : IdActions, ready : BOOLEAN, gnt : BOOLEAN,
               rvalid : BOOLEAN, word : FetchedWord, pmpErr : BOOLEAN,
               view : Images]
    BY <1>1 DEF Cycle
  <2>2. i.rvalid => mem_q # <<>>
    BY <1>1 DEF Cycle
  <2>3. i.pmpErr <=> InstrAddr(i) \in i.view.pmp
    BY DEF Cycle, InstrAddr
  <2> QED
    BY <2>1, <2>2, <2>3 DEF InputOK
<1> QED
  BY <1>2

\* A cycle of the specification is a clock edge with inputs of their types.
LEMMA NextIsClock ==
    ASSUME TypeOK, Next
    PROVE  \E i : InputOK(i) /\ Clock(i)
<1>1. CASE SetPc
  <2>1. S!Views(image) \subseteq Images
    BY DEF S!Views
  <2> QED
    BY <1>1, <2>1, CycleOK, IfStageAssumption DEF SetPc
<1>2. ASSUME NEW id \in IdActions, Run(id)
      PROVE  \E i : InputOK(i) /\ Clock(i)
  <2>1. instr_addr_q \in Address
    BY DEF TypeOK, PrefetchTypeOK, FifoTypeOK
  <2> QED
    BY <1>2, <2>1, CycleOK DEF Run, TypeOK
<1> QED
  BY <1>1, <1>2 DEF Next, Stall, Advance, Flush, IdActions

LEMMA FifoTypeStep ==
    ASSUME NEW f, FifoTypeOK, FifoClock(f), f.data \in FetchedWord,
           f.clear \in BOOLEAN, f.inValid \in BOOLEAN, f.inAddr \in Address
    PROVE  FifoTypeOK'
<1>1. Slots = {0, 1, 2} /\ DEPTH = 3
  BY DEF Slots, DEPTH, NUM_REQS
<1>2. Stale \in FetchedWord
  BY DEF Stale, FetchedWord
<1>3. \A k \in Slots : EntryD(f, k) \in FetchedWord
  BY <1>1 DEF EntryD, FifoTypeOK
<1>4. rdata_q' \in [Slots -> FetchedWord]
  BY <1>2, <1>3 DEF FifoClock, FifoTypeOK
<1>5. instr_addr_q' \in Address
  BY AddressStep DEF FifoClock, NextInstrAddr, FifoTypeOK
<1> QED
  BY <1>4, <1>5, FifoNext DEF FifoTypeOK

LEMMA OutInstrType ==
    ASSUME NEW f, FifoTypeOK, f.data \in FetchedWord, f.inValid \in BOOLEAN
    PROVE  OutInstr(f) \in Instr
<1>1. 0 \in Slots /\ 1 \in Slots
  BY DEF Slots, DEPTH, NUM_REQS
<1>2. OldestWord(f) \in FetchedWord /\ SecondWord(f) \in FetchedWord
  BY <1>1 DEF OldestWord, SecondWord, FifoTypeOK
<1>3. IsCompressed(f) \in BOOLEAN
  BY <1>2 DEF IsCompressed, FetchedWord
<1>4. OldestWord(f).err \in BOOLEAN
  BY <1>2 DEF FetchedWord
<1>5. ErrUnaligned(f) \in BOOLEAN /\ ErrPlus2(f) \in BOOLEAN
  BY DEF ErrUnaligned, ErrPlus2
<1>6. \A w \in FetchedWord, odd \in BOOLEAN : Half(w, odd) \in HalfWords
  BY DEF FetchedWord, Half, HalfWords
<1>7. NoHalf \in HalfWords
  BY DEF NoHalf, HalfWords
<1>8. instr_addr_q \in Address /\ instr_addr_q.odd \in BOOLEAN
  BY DEF FifoTypeOK, Address
<1> QED
  BY <1>2, <1>3, <1>4, <1>5, <1>6, <1>7, <1>8 DEF OutInstr, Instr
-----------------------------------------------------------------------------
(* The inductive invariant: types, the order of the queue, the room in the *)
(* FIFO, and the agreement of the buffer with the bus.                     *)

Inv == TypeOK /\ QueueInv /\ RoomInv /\ WaitingInv /\ BusAccounted

LEMMA InitInv == Init => Inv
<1> SUFFICES ASSUME Init PROVE Inv
  OBVIOUS
<1>1. Reqs = {0, 1} /\ Slots = {0, 1, 2} /\ DEPTH = 3
  BY DEF Reqs, Slots, DEPTH, NUM_REQS
<1>2. PrefetchTypeOK
  BY DEF Init, PrefetchInit, FifoInit, PrefetchTypeOK, FifoTypeOK, Stale,
         FetchedWord
<1>3. NoInstr \in Instr
  BY NWordsAssumption DEF NoInstr, Instr, NoHalf, HalfWords, Address, Words
<1>4. TypeOK
  <2>1. mem_q \in Seq(Words) /\ Len(mem_q) <= NUM_REQS
    BY DEF Init, NUM_REQS
  <2>2. /\ instr_valid_id_q \in BOOLEAN /\ booted \in BOOLEAN
        /\ image \in Images /\ instr_id \in Instr
        /\ waiting \in Words \cup {NoWord}
    BY <1>3 DEF Init
  <2> QED
    BY <1>2, <2>1, <2>2 DEF TypeOK
<1>5. QueueInv /\ RoomInv
  BY <1>1 DEF Init, PrefetchInit, FifoInit, QueueInv, RoomInv, Live, LiveWaiting
<1>6. WaitingInv
  <2>1. NoWord \notin Words /\ image.pmp \subseteq Words
    BY NWordsAssumption, IfStageAssumption DEF NoWord, Words, Init, S!ImageType, S!Words
  <2> QED
    BY <2>1 DEF Init, PrefetchInit, WaitingInv
<1>7. BusAccounted
  BY <1>1 DEF Init, PrefetchInit, BusAccounted, OnBus
<1> QED
  BY <1>4, <1>5, <1>6, <1>7 DEF Inv

LEMMA WaitingStep ==
    ASSUME NEW i, InputOK(i), TypeOK, WaitingInv, Clock(i)
    PROVE  /\ WaitingInv'
           /\ ValidReq(i) => InstrAddr(i) \in Words
           /\ waiting' \in Words \cup {NoWord}
           /\ stored_addr_q' \in Words \cup {NoWord}
<1>1. /\ stored_addr_q \in Words \cup {NoWord} /\ fetch_addr_q \in Words
      /\ i.addr.word \in Words
  BY DEF TypeOK, PrefetchTypeOK, InputOK, Address
<1>2. valid_req_q => stored_addr_q \in Words
  BY <1>1 DEF WaitingInv
<1>3. InstrAddr(i) \in Words
  BY <1>1, <1>2 DEF InstrAddr
<1>4. NoWord \notin Words
  BY NWordsAssumption DEF NoWord, Words
<1>7. i.view \in Images /\ NoWord \notin i.view.pmp
  BY <1>4, IfStageAssumption DEF InputOK, S!ImageType, S!Words, Words
<1>8. /\ image' = i.view
      /\ i.pmpErr <=> InstrAddr(i) \in i.view.pmp
      /\ i.pmpErr => GntOrPmpErr(i)
  BY DEF Clock, InstrBus, InputOK, GntOrPmpErr
<1>5. /\ valid_req_q' <=> ValidReq(i) /\ ~GntOrPmpErr(i)
      /\ stored_addr_q' = IF IssuesNew(i) /\ ~GntOrPmpErr(i) THEN InstrAddr(i)
                          ELSE IF valid_req_q' THEN stored_addr_q ELSE NoWord
      /\ waiting' = IF ValidReq(i) /\ ~GntOrPmpErr(i) THEN InstrAddr(i)
                                                      ELSE NoWord
  BY DEF Clock, PrefetchClock, InstrBus
<1>6. /\ IssuesNew(i) <=> ValidNewReq(i) /\ ~valid_req_q
      /\ ValidReq(i) <=> valid_req_q \/ ValidNewReq(i)
      /\ valid_req_q => InstrAddr(i) = stored_addr_q
  BY DEF IssuesNew, ValidReq, InstrAddr
<1> QED
  BY <1>1, <1>3, <1>4, <1>5, <1>6, <1>7, <1>8 DEF WaitingInv

LEMMA TypeStep ==
    ASSUME NEW i, InputOK(i), TypeOK, WaitingInv, Clock(i)
    PROVE  (PrefetchTypeOK /\ instr_valid_id_q \in BOOLEAN
            /\ instr_id \in Instr /\ booted \in BOOLEAN /\ image \in Images
            /\ mem_q \in Seq(Words) /\ waiting \in Words \cup {NoWord})'
<1> DEFINE f == FifoInput(i)
<1>1. PrefetchTypeOK /\ FifoTypeOK
  BY DEF TypeOK, PrefetchTypeOK
<1>2. PrefetchClock(i) /\ FifoClock(f)
  BY DEF Clock, PrefetchClock
<1>3. /\ f.data \in FetchedWord /\ f.inAddr \in Address
      /\ f.clear \in BOOLEAN /\ f.inValid \in BOOLEAN
  BY DEF FifoInput, InputOK, FetchedWord
<1>4. FifoTypeOK'
  BY <1>1, <1>2, <1>3, FifoTypeStep
<1>5. fetch_addr_q' \in Words
  <2>1. \A w \in Words : NextWord(w) \in Words
    BY NWordsAssumption DEF Words, NextWord
  <2>2. i.addr.word \in Words /\ fetch_addr_q \in Words
    BY DEF InputOK, Address, TypeOK, PrefetchTypeOK
  <2> QED
    BY <1>2, <2>1, <2>2 DEF PrefetchClock, NextFetchAddr
<1>6. valid_req_q' \in BOOLEAN /\ discard_req_q' \in BOOLEAN
  BY <1>2 DEF PrefetchClock, DiscardReqD
<1>7. PrefetchTypeOK'
  BY <1>1, <1>2, <1>4, <1>5, <1>6, QueueNext, WaitingStep DEF PrefetchTypeOK
<1>8. /\ instr_valid_id_q' \in BOOLEAN /\ booted' \in BOOLEAN
      /\ image' \in Images
  BY DEF Clock, PipeRegister, InstrValidIdD, InstrBus, TypeOK, InputOK
<1>9. instr_id' \in Instr
  <2>1. NoInstr \in Instr
    BY NWordsAssumption DEF NoInstr, Instr, NoHalf, HalfWords, Address, Words
  <2>2. FetchInstr(i) \in Instr
    BY <1>1, <1>3, OutInstrType DEF FetchInstr
  <2> QED
    BY <2>1, <2>2 DEF Clock, PipeRegister, TypeOK
<1>10. mem_q' \in Seq(Words)
  <2>1. i.gnt => InstrAddr(i) \in Words
    BY WaitingStep DEF Clock, BusProtocol, BusRequest
  <2>2. (IF i.gnt THEN <<InstrAddr(i)>> ELSE <<>>) \in Seq(Words)
    BY <2>1
  <2>3. (IF i.rvalid THEN Tail(mem_q) ELSE mem_q) \in Seq(Words)
    <3>1. mem_q \in Seq(Words) /\ (i.rvalid => mem_q # <<>>)
      BY DEF InputOK, TypeOK
    <3> QED
      BY <3>1
  <2>4. mem_q' = (IF i.rvalid THEN Tail(mem_q) ELSE mem_q)
                 \o (IF i.gnt THEN <<InstrAddr(i)>> ELSE <<>>)
    BY DEF Clock, InstrBus
  <2> HIDE DEF Words
  <2> QED
    BY <2>2, <2>3, <2>4
<1> QED
  BY <1>7, <1>8, <1>9, <1>10, WaitingStep

LEMMA BusStep ==
    ASSUME NEW i, InputOK(i), TypeOK, QueueInv, BusAccounted, Clock(i)
    PROVE  BusAccounted'
<1> DEFINE n(b) == IF b THEN 1 ELSE 0
<1>1. PrefetchTypeOK /\ PrefetchClock(i)
  BY DEF TypeOK, Clock
<1>2. Reqs = {0, 1}
  BY DEF Reqs, NUM_REQS
<1>3. Len(mem_q') = Len(mem_q) - n(i.rvalid) + n(i.gnt)
  <2>1. mem_q \in Seq(Words)
    BY DEF TypeOK
  <2>2. mem_q' = (IF i.rvalid THEN Tail(mem_q) ELSE mem_q)
                 \o (IF i.gnt THEN <<InstrAddr(i)>> ELSE <<>>)
    BY DEF Clock, InstrBus
  <2>3. i.rvalid => mem_q # <<>>
    BY DEF InputOK
  <2> DEFINE kept == IF i.rvalid THEN Tail(mem_q) ELSE mem_q
             new  == IF i.gnt THEN <<InstrAddr(i)>> ELSE <<>>
  <2>4. kept \in Seq(Words) /\ Len(kept) = Len(mem_q) - n(i.rvalid)
    <3>1. CASE i.rvalid
      BY <2>1, <2>3, <3>1
    <3>2. CASE ~i.rvalid
      BY <2>1, <3>2
    <3> QED
      BY <3>1, <3>2
  <2>5. new \in Seq({InstrAddr(i)}) /\ Len(new) = n(i.gnt)
    <3>1. CASE i.gnt
      BY <3>1
    <3>2. CASE ~i.gnt
      BY <3>2
    <3> QED
      BY <3>1, <3>2
  <2>6. Len(kept \o new) = Len(kept) + Len(new)
    <3> HIDE DEF kept, new
    <3>1. kept \in Seq(Words \cup {InstrAddr(i)})
          /\ new \in Seq(Words \cup {InstrAddr(i)})
      BY <2>4, <2>5
    <3> QED
      BY <3>1
  <2> QED
    BY <2>1, <2>2, <2>4, <2>5, <2>6
<1>4. i.rvalid => OnBus(0)
  <2>1. i.rvalid => Len(mem_q) > 0
    BY DEF InputOK, TypeOK
  <2> QED
    BY <1>2, <2>1 DEF BusAccounted, QueueInv, OnBus
<1>5. /\ i.gnt => ValidReq(i) /\ ~i.pmpErr
      /\ Granted(i) <=> ValidReq(i) /\ (i.gnt \/ i.pmpErr)
      /\ Answered(i) <=> rdata_outstanding_q[0] /\ (i.rvalid \/ rdata_pmp_err_q[0])
      /\ ValidReq(i) => ~rdata_outstanding_q[1]
  BY DEF Clock, BusProtocol, BusRequest, Granted, GntOrPmpErr, Answered,
         ValidReq, ValidNewReq, NUM_REQS, QueueInv
<1>6. /\ OnBus(0) => rdata_outstanding_q[0]
      /\ OnBus(1) => rdata_outstanding_q[1]
  BY DEF OnBus
<1>7. Len(mem_q) = n(OnBus(0)) + n(OnBus(1))
  BY DEF BusAccounted
<1>8. n(OnBus(0)') + n(OnBus(1)') = n(OnBus(0)) + n(OnBus(1))
                                    - n(i.rvalid) + n(i.gnt)
  <2>1. CASE ~Answered(i)
    <3>1. OnBus(0)' <=> OnBus(0) \/ (i.gnt /\ ~rdata_outstanding_q[0])
      BY <1>1, <1>2, <1>5, <2>1, QueueNext, QueueEntries DEF OnBus, QueueInv
    <3>2. OnBus(1)' <=> OnBus(1) \/ (i.gnt /\ rdata_outstanding_q[0])
      BY <1>1, <1>2, <1>5, <2>1, QueueNext, QueueEntries DEF OnBus, QueueInv
    <3>3. ~i.rvalid
      BY <1>4, <1>5, <1>6, <2>1
    <3>4. i.gnt => ~rdata_outstanding_q[1]
      BY <1>5
    <3> HIDE DEF OnBus
    <3> QED
      BY <1>6, <3>1, <3>2, <3>3, <3>4
  <2>2. CASE Answered(i)
    <3>1. OnBus(0)' <=> OnBus(1) \/ i.gnt
      BY <1>1, <1>2, <1>5, <2>2, QueueNext, QueueEntries DEF OnBus, QueueInv
    <3>2. ~OnBus(1)'
      BY <1>1, <2>2, QueueNext DEF OnBus
    <3>3. i.rvalid <=> OnBus(0)
      BY <1>4, <1>5, <2>2 DEF OnBus
    <3>4. i.gnt => ~rdata_outstanding_q[1]
      BY <1>5
    <3> QED
      BY <1>6, <3>1, <3>2, <3>3, <3>4
  <2> QED
    BY <2>1, <2>2
<1> QED
  <2>1. Len(mem_q') = n(OnBus(0)') + n(OnBus(1)')
    BY <1>3, <1>7, <1>8
  <2> QED
    BY <2>1 DEF BusAccounted

\* Every step of the specification preserves the invariant.
LEMMA StepInv == Inv /\ [Next]_vars => Inv'
<1> SUFFICES ASSUME Inv, [Next]_vars PROVE Inv'
  OBVIOUS
<1>1. CASE Next
  <2>1. TypeOK /\ QueueInv /\ RoomInv /\ WaitingInv /\ BusAccounted
    BY DEF Inv
  <2>2. PICK i : InputOK(i) /\ Clock(i)
    BY <1>1, <2>1, NextIsClock
  <2>3. PrefetchTypeOK /\ PrefetchClock(i)
    BY <2>1, <2>2 DEF TypeOK, Clock
  <2>4. QueueInv' /\ RoomInv'
    BY <2>1, <2>2, <2>3, QueueStep, RoomStep
  <2>5. BusAccounted' /\ WaitingInv'
    BY <2>1, <2>2, BusStep, WaitingStep
  <2>6. TypeOK'
    <3>1. Len(mem_q') <= NUM_REQS
      BY <2>5 DEF BusAccounted, NUM_REQS
    <3> QED
      BY <2>1, <2>2, <3>1, TypeStep DEF TypeOK
  <2> QED
    BY <2>4, <2>5, <2>6 DEF Inv
<1>2. CASE UNCHANGED vars
  BY <1>2 DEF vars, coreVars, envVars, prefetchVars, fifoVars, Inv, TypeOK,
     PrefetchTypeOK, FifoTypeOK, QueueInv, RoomInv, Live, LiveWaiting,
     WaitingInv, BusAccounted, OnBus
<1> QED
  BY <1>1, <1>2

\* The inductive invariant holds in every reachable state of the fetch stage.
THEOREM Invariance == Spec => []Inv
<1> QED
  BY InitInv, StepInv, PTL DEF Spec
-----------------------------------------------------------------------------
(* What follows from it.                                                   *)

\* Registers and bus keep their types (all registers of the fetch stage).
THEOREM TypeCorrect == Spec => []TypeOK
<1>1. Inv => TypeOK
  BY DEF Inv
<1> QED
  BY <1>1, Invariance, PTL

\* The order of the queue of outstanding requests is kept
\* (rdata_outstanding_q, branch_discard_q and rdata_pmp_err_q).
THEOREM QueueOrdered == Spec => []QueueInv
<1>1. Inv => QueueInv
  BY DEF Inv
<1> QED
  BY <1>1, Invariance, PTL

\* The buffer's queue and the bus agree on what is still to be answered.
THEOREM BusAgrees == Spec => []BusAccounted
<1>1. Inv => BusAccounted
  BY DEF Inv
<1> QED
  BY <1>1, Invariance, PTL

\* No word that is kept arrives while the fetch FIFO is full: the assertions
\* IbexFetchFifoPushFull and IbexFetchFifoPushPopFull never fire.
THEOREM FifoNeverOverflows == Spec => []NoPushWhenFull
<1>1. Inv => NoPushWhenFull
  <2> SUFFICES ASSUME Inv PROVE NoPushWhenFull
    OBVIOUS
  <2>1. DEPTH = 3
    BY DEF DEPTH, NUM_REQS
  <2> QED
    BY <2>1 DEF Inv, RoomInv, Live, NoPushWhenFull
<1> QED
  BY <1>1, Invariance, PTL

\* A faked answer never hides an answer of the bus to another request.
THEOREM FakesHideNothing == Spec => []NoAnswerHidden
<1>1. Inv => NoAnswerHidden
  <2> SUFFICES ASSUME Inv, rdata_outstanding_q[0] /\ rdata_pmp_err_q[0]
               PROVE  mem_q = <<>>
    BY DEF NoAnswerHidden
  <2>1. ~OnBus(0) /\ ~OnBus(1)
    BY DEF Inv, QueueInv, OnBus
  <2>2. mem_q \in Seq(Words) /\ Len(mem_q) = 0
    BY <2>1 DEF Inv, BusAccounted, TypeOK
  <2> QED
    BY <2>2
<1> QED
  BY <1>1, Invariance, PTL

\* A request stays on the instruction bus, with its address, until it is
\* granted, whatever branches come in between; only a change of the privilege
\* level can withdraw it.
THEOREM RequestStable == Spec => RequestHeld
<1> DEFINE A == waiting # NoWord /\ image' = image => HeldOrGranted
<1>1. ASSUME Inv, Next, waiting # NoWord, image' = image
      PROVE  HeldOrGranted
  <2>1. PICK i : InputOK(i) /\ Clock(i)
    BY <1>1, NextIsClock DEF Inv
  <2>2. valid_req_q /\ InstrAddr(i) = waiting /\ ValidReq(i) /\ ~i.pmpErr
    BY <1>1, <2>1 DEF Inv, WaitingInv, InstrAddr, ValidReq, InputOK, Clock,
       InstrBus
  <2>3. CASE ~i.gnt
    BY <2>1, <2>2, <2>3 DEF Clock, InstrBus, GntOrPmpErr, HeldOrGranted
  <2>4. CASE i.gnt
    <3> DEFINE kept == IF i.rvalid THEN Tail(mem_q) ELSE mem_q
    <3>1. waiting' = NoWord /\ mem_q' = kept \o <<waiting>>
      BY <2>1, <2>2, <2>4 DEF Clock, InstrBus, GntOrPmpErr
    <3>2. kept \in Seq(Words)
      BY <1>1, <2>1 DEF Inv, TypeOK, InputOK
    <3>3. waiting \in Words
      BY <1>1 DEF Inv, TypeOK
    <3>4. mem_q' # <<>> /\ mem_q'[Len(mem_q')] = waiting
      <4> HIDE DEF kept
      <4> QED
        BY <3>1, <3>2, <3>3
    <3> QED
      BY <3>1, <3>4 DEF HeldOrGranted
  <2> QED
    BY <2>3, <2>4
<1>2. Inv /\ [Next]_vars => [A]_vars
  BY <1>1
<1> QED
  BY <1>2, Invariance, PTL DEF Spec, RequestHeld
=============================================================================
