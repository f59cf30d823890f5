--------------------------- MODULE IfStreamProofs ---------------------------
(***************************************************************************)
(* The fetch stage implements InstrStream: whatever the bus, the branches  *)
(* and ID do, the instructions offered to ID are those of the memory.      *)
(*                                                                         *)
(* The argument follows a word on its way.  Starting from the address at   *)
(* the output, the entries of the FIFO, the requests that will be kept and *)
(* the waiting request each stand for the word after the one before.       *)
(***************************************************************************)
EXTENDS IfStageProofs

\* The word after w when something stands for w, else still w.
After(used, w) == IF used THEN NextWord(w) ELSE w

\* The words the FIFO's entries (At0 to At2), the outstanding requests (At3,
\* At4), the waiting one (At5) and the next new request (At6) stand for.
At0 == instr_addr_q.word
At1 == After(valid_q[0], At0)
At2 == After(valid_q[1], At1)
At3 == After(valid_q[2], At2)
At4 == After(Live(0), At3)
At5 == After(Live(1), At4)
At6 == After(LiveWaiting, At5)

\* e is what memory m has at word w; of a word the PMP refuses only the error
\* is known.
Holds(m, e, w) ==
    /\ e.err <=> w \in m.err \cup m.pmp
    /\ w \notin m.pmp =>
            /\ e.word = w
            /\ e.lo <=> [word |-> w, odd |-> FALSE] \in m.comp
            /\ e.hi <=> [word |-> w, odd |-> TRUE] \in m.comp

EntriesInv ==
    /\ valid_q[0] => Holds(image, rdata_q[0], At0)
    /\ valid_q[1] => Holds(image, rdata_q[1], At1)
    /\ valid_q[2] => Holds(image, rdata_q[2], At2)

FlightInv ==
    /\ Live(0) => /\ rdata_pmp_err_q[0] <=> At3 \in image.pmp
                  /\ ~rdata_pmp_err_q[0] => mem_q[1] = At3
    /\ Live(1) => /\ rdata_pmp_err_q[1] <=> At4 \in image.pmp
                  /\ ~rdata_pmp_err_q[1] => mem_q[2] = At4
    /\ LiveWaiting => stored_addr_q = At5
    /\ booted => fetch_addr_q = At6

StreamInv == Inv /\ EntriesInv /\ FlightInv

-----------------------------------------------------------------------------
(* The inputs of a cycle, as far as the data on its way depends on them.   *)

Wires(i) ==
    /\ i.ready <=> i.id = "advance"
    /\ i.rvalid =>
            /\ i.word.word = Head(mem_q)
            /\ i.word.lo <=> [word |-> Head(mem_q), odd |-> FALSE] \in image.comp
            /\ i.word.hi <=> [word |-> Head(mem_q), odd |-> TRUE] \in image.comp
            /\ i.word.err <=> Head(mem_q) \in image.err
    /\ ~i.rvalid => ~i.word.err
    /\ i.branch => i.addr \in Targets /\ i.view \in S!Views(image)
    /\ ~i.branch => booted /\ i.view = image

LEMMA CycleWires ==
    ASSUME NEW req, NEW branch \in BOOLEAN, NEW target, NEW view, NEW id,
           NEW gnt, NEW rvalid \in BOOLEAN, NEW noise,
           branch => target \in Targets /\ view \in S!Views(image),
           ~branch => booted /\ view = image
    PROVE  Wires(Cycle(req, branch, target, view, id, gnt, rvalid, noise))
<1> DEFINE i == Cycle(req, branch, target, view, id, gnt, rvalid, noise)
<1>1. /\ i.branch = branch /\ i.addr = target /\ i.view = view
      /\ i.ready = (id = "advance") /\ i.id = id /\ i.rvalid = rvalid
      /\ i.word = BusWord(rvalid, noise)
  BY DEF Cycle
<1> DEFINE w  == Head(mem_q)
           lo == [word |-> w, odd |-> FALSE] \in image.comp
           hi == [word |-> w, odd |-> TRUE] \in image.comp
           er == w \in image.err
<1>2. ASSUME rvalid
      PROVE  /\ i.word.word = w /\ i.word.lo = lo
             /\ i.word.hi = hi /\ i.word.err = er
  <2>1. i.word = [word |-> w, lo |-> lo, hi |-> hi, err |-> er]
    BY <1>1, <1>2, Zenon DEF BusWord
  <2> HIDE DEF i, w, lo, hi, er
  <2> QED
    BY <2>1
<1>3. ASSUME ~rvalid
      PROVE  i.word.err = FALSE
  <2>1. i.word = [word |-> NoWord, lo |-> noise.lo, hi |-> noise.hi, err |-> FALSE]
    BY <1>1, <1>3, Zenon DEF BusWord
  <2> HIDE DEF i
  <2> QED
    BY <2>1
<1> HIDE DEF i
<1>4. i.ready <=> i.id = "advance"
  BY <1>1, Zenon
<1>5. Wires(i)
  BY <1>1, <1>2, <1>3, <1>4, Zenon DEF Wires
<1> QED
  BY <1>5 DEF i

\* A cycle of the specification is a clock edge with such inputs.
LEMMA NextIsWired ==
    ASSUME TypeOK, Next
    PROVE  \E i : InputOK(i) /\ Clock(i) /\ Wires(i)
<1>1. \A rvalid \in MayAnswer : rvalid \in BOOLEAN
  BY DEF MayAnswer
<1>2. CASE SetPc
  <2>1. S!Views(image) \subseteq Images
    BY DEF S!Views
  <2>2. PICK req \in BOOLEAN, target \in Targets, view \in S!Views(image),
             id \in IdActions, gnt \in BOOLEAN, rvalid \in MayAnswer,
             noise \in Noise :
             Clock(Cycle(req, TRUE, target, view, id, gnt, rvalid, noise))
    BY <1>2 DEF SetPc
  <2>3. Wires(Cycle(req, TRUE, target, view, id, gnt, rvalid, noise))
    BY <1>1, CycleWires
  <2>4. InputOK(Cycle(req, TRUE, target, view, id, gnt, rvalid, noise))
    BY <2>1, CycleOK, IfStageAssumption
  <2> QED
    BY <2>2, <2>3, <2>4
<1>3. ASSUME NEW id \in IdActions, Run(id)
      PROVE  \E i : InputOK(i) /\ Clock(i) /\ Wires(i)
  <2>1. instr_addr_q \in Address /\ image \in Images
    BY DEF TypeOK, PrefetchTypeOK, FifoTypeOK
  <2>2. PICK req \in BOOLEAN, gnt \in BOOLEAN, rvalid \in MayAnswer,
             noise \in Noise :
             /\ booted
             /\ Clock(Cycle(req, FALSE, instr_addr_q, image, id, gnt, rvalid,
                            noise))
    BY <1>3 DEF Run
  <2>3. Wires(Cycle(req, FALSE, instr_addr_q, image, id, gnt, rvalid, noise))
    BY <1>1, <2>2, CycleWires
  <2>4. InputOK(Cycle(req, FALSE, instr_addr_q, image, id, gnt, rvalid, noise))
    BY <2>1, CycleOK
  <2> QED
    BY <2>2, <2>3, <2>4
<1> QED
  BY <1>2, <1>3 DEF Next, Stall, Advance, Flush, IdActions
-----------------------------------------------------------------------------
(* The FIFO: words arrive behind the last entry and leave at the output.   *)

\* A word that is kept is the one the oldest request stands for.
LEMMA Arriving ==
    ASSUME NEW i, InputOK(i), Wires(i), Inv, FlightInv
    PROVE  /\ FifoInput(i).inValid <=> Answered(i) /\ Live(0)
           /\ FifoInput(i).inValid => Holds(image, FifoInput(i).data, At3)
<1> DEFINE d == FifoInput(i).data
<1>1. FifoInput(i).inValid <=> Answered(i) /\ Live(0)
  BY DEF FifoInput, Answered, Live
<1>2. /\ d.word = i.word.word /\ d.lo = i.word.lo /\ d.hi = i.word.hi
      /\ d.err <=> i.word.err \/ rdata_pmp_err_q[0]
  BY DEF FifoInput, InputOK, FetchedWord
<1>3. ASSUME FifoInput(i).inValid
      PROVE  Holds(image, d, At3)
  <2>1. Live(0) /\ (i.rvalid \/ rdata_pmp_err_q[0])
    BY <1>1, <1>3 DEF Answered
  <2>2. CASE rdata_pmp_err_q[0]
    BY <1>2, <2>1, <2>2 DEF FlightInv, Holds
  <2>3. CASE ~rdata_pmp_err_q[0]
    <3>1. mem_q[1] = At3 /\ At3 \notin image.pmp
      BY <2>1, <2>3 DEF FlightInv
    <3>2. mem_q \in Seq(Words) /\ mem_q # <<>>
      BY <2>1, <2>3 DEF Inv, TypeOK, InputOK
    <3>3. Head(mem_q) = At3
      BY <3>1, <3>2
    <3> HIDE DEF d
    <3> QED
      BY <1>2, <2>1, <2>3, <3>1, <3>3 DEF Wires, Holds
  <2> QED
    BY <2>2, <2>3
<1> QED
  BY <1>1, <1>3

\* Without a branch the entries move up when one leaves, and the arriving word
\* enters behind them.
LEMMA FifoMoves ==
    ASSUME NEW f, FifoTypeOK, RoomInv, FifoClock(f),
           f.clear = FALSE, f.inValid \in BOOLEAN,
           f.inValid => ~valid_q[2]
    PROVE  /\ PopFifo(f) => valid_q[0] \/ f.inValid
           /\ At0' = After(PopFifo(f), At0)
           /\ valid_q'[0] <=> IF PopFifo(f) THEN valid_q[1] \/ (f.inValid /\ valid_q[0])
                                            ELSE valid_q[0] \/ f.inValid
           /\ valid_q'[1] <=> IF PopFifo(f) THEN valid_q[2] \/ (f.inValid /\ valid_q[1])
                                            ELSE valid_q[1] \/ (f.inValid /\ valid_q[0])
           /\ valid_q'[2] <=> ~PopFifo(f)
                              /\ (valid_q[2] \/ (f.inValid /\ valid_q[1]))
           /\ valid_q'[0] => rdata_q'[0] = IF PopFifo(f)
                                THEN IF valid_q[1] THEN rdata_q[1] ELSE f.data
                                ELSE IF valid_q[0] THEN rdata_q[0] ELSE f.data
           /\ valid_q'[1] => rdata_q'[1] = IF PopFifo(f)
                                THEN IF valid_q[2] THEN rdata_q[2] ELSE f.data
                                ELSE IF valid_q[1] THEN rdata_q[1] ELSE f.data
           /\ valid_q'[2] => rdata_q'[2] = IF valid_q[2] THEN rdata_q[2]
                                                         ELSE f.data
<1>1. Slots = {0, 1, 2} /\ DEPTH = 3
  BY DEF Slots, DEPTH, NUM_REQS
<1>2. /\ valid_q[1] => valid_q[0]
      /\ valid_q[2] => valid_q[1]
  BY <1>1 DEF RoomInv
<1>3. /\ LowestFreeEntry(0) <=> ~valid_q[0]
      /\ LowestFreeEntry(1) <=> ~valid_q[1] /\ valid_q[0]
      /\ LowestFreeEntry(2) <=> ~valid_q[2] /\ valid_q[1]
  BY DEF LowestFreeEntry
<1>4. PopFifo(f) => valid_q[0] \/ f.inValid
  BY <1>2 DEF PopFifo, OutValid
<1>5. At0' = After(PopFifo(f), At0)
  BY DEF FifoClock, NextInstrAddr, PopFifo, IsCompressed, PlusTwo, PlusFour,
         At0, After, FifoTypeOK, Address
<1>6. /\ valid_q'[0] <=> IF PopFifo(f) THEN valid_q[1] \/ (f.inValid /\ valid_q[0])
                                       ELSE valid_q[0] \/ f.inValid
      /\ valid_q'[1] <=> IF PopFifo(f) THEN valid_q[2] \/ (f.inValid /\ valid_q[1])
                                       ELSE valid_q[1] \/ (f.inValid /\ valid_q[0])
      /\ valid_q'[2] <=> ~PopFifo(f)
                         /\ (valid_q[2] \/ (f.inValid /\ valid_q[1]))
  BY <1>2, <1>3, FifoNext
<1>7. \A k \in Slots :
        /\ valid_q'[k] <=> ValidD(f, k)
        /\ valid_q'[k] => rdata_q'[k] = IF EntryEn(f, k) THEN EntryD(f, k)
                                                         ELSE rdata_q[k]
  BY DEF FifoClock, ValidD
<1>8. /\ EntryEn(f, 0) <=>
            \/ ValidPushed(f, 1) /\ PopFifo(f)
            \/ f.inValid /\ LowestFreeEntry(0) /\ ~PopFifo(f)
      /\ EntryEn(f, 1) <=>
            \/ ValidPushed(f, 2) /\ PopFifo(f)
            \/ f.inValid /\ LowestFreeEntry(1) /\ ~PopFifo(f)
      /\ EntryEn(f, 2) <=> f.inValid /\ LowestFreeEntry(2)
  BY <1>1 DEF EntryEn
<1>9. /\ ValidPushed(f, 1) <=> valid_q[1] \/ (f.inValid /\ LowestFreeEntry(1))
      /\ ValidPushed(f, 2) <=> valid_q[2] \/ (f.inValid /\ LowestFreeEntry(2))
  BY DEF ValidPushed
<1>10. /\ EntryD(f, 0) = IF valid_q[1] THEN rdata_q[1] ELSE f.data
       /\ EntryD(f, 1) = IF valid_q[2] THEN rdata_q[2] ELSE f.data
       /\ EntryD(f, 2) = f.data
  BY <1>1 DEF EntryD
<1>11. valid_q'[0] => rdata_q'[0] = IF PopFifo(f)
                                THEN IF valid_q[1] THEN rdata_q[1] ELSE f.data
                                ELSE IF valid_q[0] THEN rdata_q[0] ELSE f.data
  BY <1>1, <1>2, <1>3, <1>6, <1>7, <1>8, <1>9, <1>10
<1>12. valid_q'[1] => rdata_q'[1] = IF PopFifo(f)
                                THEN IF valid_q[2] THEN rdata_q[2] ELSE f.data
                                ELSE IF valid_q[1] THEN rdata_q[1] ELSE f.data
  BY <1>1, <1>2, <1>3, <1>6, <1>7, <1>8, <1>9, <1>10
<1>13. valid_q'[2] => rdata_q'[2] = IF valid_q[2] THEN rdata_q[2] ELSE f.data
  BY <1>1, <1>2, <1>3, <1>6, <1>7, <1>8, <1>9, <1>10
<1> QED
  BY <1>4, <1>5, <1>6, <1>11, <1>12, <1>13

\* The entries hold the words they stand for, and the first word to arrive is
\* the next one, or the target of a branch.
LEMMA EntriesStep ==
    ASSUME NEW i, InputOK(i), Wires(i), Clock(i), StreamInv
    PROVE  /\ EntriesInv'
           /\ At3' = IF i.branch THEN i.addr.word
                     ELSE After(Answered(i) /\ Live(0), At3)
<1> DEFINE f == FifoInput(i)
<1>1. FifoTypeOK /\ RoomInv /\ FifoClock(f)
  BY DEF StreamInv, Inv, TypeOK, PrefetchTypeOK, Clock, PrefetchClock
<1>2. /\ f.clear = i.branch /\ f.inAddr = i.addr
      /\ f.clear \in BOOLEAN /\ f.inValid \in BOOLEAN /\ i.branch \in BOOLEAN
  BY DEF FifoInput, InputOK
<1>3. At3' = After(valid_q'[2], After(valid_q'[1], After(valid_q'[0], At0')))
  BY DEF At3, At2, At1, After
<1>4. CASE i.branch
  <2>1. ~valid_q'[0] /\ ~valid_q'[1] /\ ~valid_q'[2]
    BY <1>1, <1>2, <1>4, FifoNext
  <2>2. At0' = i.addr.word
    BY <1>1, <1>2, <1>4 DEF At0, FifoClock, NextInstrAddr
  <2>3. At3' = i.addr.word
    BY <1>3, <2>1, <2>2 DEF After
  <2> QED
    BY <1>4, <2>1, <2>3 DEF EntriesInv
<1>5. CASE ~i.branch
  <2> DEFINE push == f.inValid
             pop  == PopFifo(f)
  <2>1. /\ push <=> Answered(i) /\ Live(0)
        /\ push => Holds(image, f.data, At3)
    BY Arriving DEF StreamInv
  <2>2. /\ valid_q[1] => valid_q[0]
        /\ valid_q[2] => valid_q[1]
        /\ push => ~valid_q[2]
    BY <1>1, <2>1 DEF RoomInv, DEPTH, NUM_REQS
  <2>3. f.clear = FALSE
    BY <1>2, <1>5
  <2>4. /\ pop => valid_q[0] \/ push
        /\ At0' = After(pop, At0)
        /\ valid_q'[0] <=> IF pop THEN valid_q[1] \/ (push /\ valid_q[0])
                                  ELSE valid_q[0] \/ push
        /\ valid_q'[1] <=> IF pop THEN valid_q[2] \/ (push /\ valid_q[1])
                                  ELSE valid_q[1] \/ (push /\ valid_q[0])
        /\ valid_q'[2] <=> ~pop /\ (valid_q[2] \/ (push /\ valid_q[1]))
        /\ valid_q'[0] => rdata_q'[0] =
              IF pop THEN IF valid_q[1] THEN rdata_q[1] ELSE f.data
                     ELSE IF valid_q[0] THEN rdata_q[0] ELSE f.data
        /\ valid_q'[1] => rdata_q'[1] =
              IF pop THEN IF valid_q[2] THEN rdata_q[2] ELSE f.data
                     ELSE IF valid_q[1] THEN rdata_q[1] ELSE f.data
        /\ valid_q'[2] => rdata_q'[2] =
              IF valid_q[2] THEN rdata_q[2] ELSE f.data
    BY <1>1, <1>2, <2>2, <2>3, FifoMoves
  <2> HIDE DEF push, pop
  <2>5. /\ At1 = After(valid_q[0], At0)
        /\ At2 = After(valid_q[1], At1)
        /\ At3 = After(valid_q[2], At2)
        /\ At1' = After(valid_q'[0], At0')
        /\ At2' = After(valid_q'[1], After(valid_q'[0], At0'))
    BY DEF At3, At2, At1, After
  <2>6. /\ valid_q[0] => Holds(image, rdata_q[0], At0)
        /\ valid_q[1] => Holds(image, rdata_q[1], At1)
        /\ valid_q[2] => Holds(image, rdata_q[2], At2)
    BY DEF StreamInv, EntriesInv
  <2>7. image' = image
    BY <1>5 DEF Wires, Clock, InstrBus
  <2>8. At3' = After(push, At3)
    BY <1>3, <2>2, <2>4, <2>5 DEF After
  <2>9. valid_q'[0] => Holds(image, rdata_q'[0], At0')
    BY <2>1, <2>2, <2>4, <2>5, <2>6 DEF After
  <2>10. valid_q'[1] => Holds(image, rdata_q'[1], At1')
    BY <2>1, <2>2, <2>4, <2>5, <2>6 DEF After
  <2>11. valid_q'[2] => Holds(image, rdata_q'[2], At2')
    BY <2>1, <2>2, <2>4, <2>5, <2>6 DEF After
  <2>12. EntriesInv'
    BY <2>7, <2>9, <2>10, <2>11 DEF EntriesInv, Holds
  <2> QED
    BY <1>5, <2>1, <2>8, <2>12 DEF After
<1> QED
  BY <1>4, <1>5
-----------------------------------------------------------------------------
(* The requests: a branch drops those in flight, a new one stands for the  *)
(* target or for the word after the last one.                              *)

\* The request on the bus will be kept, and it has been granted.
Asks(i) == ValidReq(i) /\ ~DiscardReqD(i)
Enters(i) == Asks(i) /\ GntOrPmpErr(i)
Asked(i) == IF i.branch THEN i.addr.word ELSE At5

\* The requests that are kept, after a clock edge.
LEMMA LiveNext ==
    ASSUME NEW i, InputOK(i), Inv, Clock(i)
    PROVE  LET kept(k) == Live(k) /\ ~i.branch
           IN  /\ Live(0)' <=> IF Answered(i) THEN kept(1) \/ Enters(i)
                               ELSE kept(0) \/ (Enters(i) /\ ~rdata_outstanding_q[0])
               /\ Live(1)' <=> /\ ~Answered(i)
                               /\ kept(1) \/ (Enters(i) /\ rdata_outstanding_q[0])
               /\ LiveWaiting' <=> Asks(i) /\ ~Enters(i)
               /\ Enters(i) => ~rdata_outstanding_q[1]
<1>1. PrefetchTypeOK /\ PrefetchClock(i) /\ QueueInv
  BY DEF Inv, TypeOK, Clock
<1>2. Reqs = {0, 1}
  BY DEF Reqs, NUM_REQS
<1>3. /\ Granted(i) <=> ValidReq(i) /\ GntOrPmpErr(i)
      /\ DiscardReqD(i) <=> valid_req_q /\ (i.branch \/ discard_req_q)
      /\ ValidReq(i) => ~rdata_outstanding_q[1]
      /\ Answered(i) => rdata_outstanding_q[0]
  BY <1>1 DEF Granted, DiscardReqD, ValidReq, ValidNewReq, Answered, QueueInv,
     NUM_REQS
<1>4. /\ Live(0)' <=> rdata_outstanding_q'[0] /\ ~branch_discard_q'[0]
      /\ Live(1)' <=> rdata_outstanding_q'[1] /\ ~branch_discard_q'[1]
      /\ LiveWaiting' <=> valid_req_q' /\ ~discard_req_q'
  BY DEF Live, LiveWaiting
<1>5. /\ valid_req_q' <=> ValidReq(i) /\ ~GntOrPmpErr(i)
      /\ discard_req_q' <=> DiscardReqD(i)
  BY <1>1 DEF PrefetchClock
<1>6. /\ rdata_outstanding_q[1] => rdata_outstanding_q[0] /\ ~valid_req_q
      /\ branch_discard_q[0] => rdata_outstanding_q[0]
      /\ branch_discard_q[1] => rdata_outstanding_q[1]
      /\ valid_req_q /\ discard_req_q /\ rdata_outstanding_q[0]
            => branch_discard_q[0]
  BY <1>1, <1>2 DEF QueueInv
<1>7. i.branch \in BOOLEAN
  BY DEF InputOK
<1>8. Live(0)' <=> IF Answered(i) THEN (Live(1) /\ ~i.branch) \/ Enters(i)
                   ELSE \/ Live(0) /\ ~i.branch
                        \/ Enters(i) /\ ~rdata_outstanding_q[0]
  BY <1>1, <1>3, <1>4, <1>6, <1>7, QueueNext, QueueEntries
     DEF Live, Enters, Asks
<1>9. Live(1)' <=> /\ ~Answered(i)
                   /\ \/ Live(1) /\ ~i.branch
                      \/ Enters(i) /\ rdata_outstanding_q[0]
  BY <1>1, <1>3, <1>4, <1>6, <1>7, QueueNext, QueueEntries
     DEF Live, Enters, Asks
<1> QED
  BY <1>3, <1>4, <1>5, <1>8, <1>9 DEF Enters, Asks

\* The address of such a request, and of the one after it.
LEMMA AddressNext ==
    ASSUME NEW i, InputOK(i), Wires(i), StreamInv, Clock(i)
    PROVE  /\ Asks(i) => InstrAddr(i) = Asked(i)
           /\ Asks(i) /\ ~Enters(i) => stored_addr_q' = Asked(i)
           /\ fetch_addr_q' = After(Asks(i), Asked(i))
<1>1. /\ IssuesNew(i) <=> ValidNewReq(i) /\ ~valid_req_q
      /\ ValidReq(i) <=> valid_req_q \/ ValidNewReq(i)
      /\ DiscardReqD(i) <=> valid_req_q /\ (i.branch \/ discard_req_q)
      /\ LiveWaiting <=> valid_req_q /\ ~discard_req_q
      /\ i.branch \in BOOLEAN
  BY DEF IssuesNew, ValidReq, DiscardReqD, LiveWaiting, InputOK
<1>2. Asks(i) <=> IssuesNew(i) \/ (LiveWaiting /\ ~i.branch)
  BY <1>1 DEF Asks
<1>3. ~i.branch => fetch_addr_q = At6
  BY DEF StreamInv, FlightInv, Wires
<1>4. LiveWaiting => stored_addr_q = At5
  BY DEF StreamInv, FlightInv
<1>5. At6 = IF LiveWaiting THEN NextWord(At5) ELSE At5
  BY DEF At6, After
<1>6. Asks(i) => InstrAddr(i) = Asked(i)
  BY <1>1, <1>2, <1>3, <1>4, <1>5 DEF InstrAddr, Asked
<1>7. /\ fetch_addr_q' = NextFetchAddr(i)
      /\ valid_req_q' <=> ValidReq(i) /\ ~GntOrPmpErr(i)
      /\ stored_addr_q' = IF IssuesNew(i) /\ ~GntOrPmpErr(i) THEN InstrAddr(i)
                          ELSE IF valid_req_q' THEN stored_addr_q ELSE NoWord
  BY DEF Clock, PrefetchClock
<1>8. fetch_addr_q' = After(Asks(i), Asked(i))
  <2>1. NextFetchAddr(i) =
            IF IssuesNew(i)
            THEN NextWord(IF i.branch THEN i.addr.word ELSE fetch_addr_q)
            ELSE IF i.branch THEN i.addr.word ELSE fetch_addr_q
    BY DEF NextFetchAddr
  <2> QED
    BY <1>1, <1>2, <1>3, <1>5, <1>7, <2>1 DEF Asked, After
<1>9. ASSUME Asks(i), ~Enters(i)
      PROVE  stored_addr_q' = Asked(i)
  <2>1. valid_req_q' /\ ~GntOrPmpErr(i)
    BY <1>7, <1>9 DEF Asks, Enters
  <2> QED
    BY <1>1, <1>2, <1>4, <1>6, <1>7, <1>9, <2>1 DEF Asked
<1> QED
  BY <1>6, <1>8, <1>9

\* The verdict of the PMP moves along with its request.
LEMMA VerdictNext ==
    ASSUME NEW i, Inv, Clock(i)
    PROVE  /\ Live(0) /\ ~Answered(i) =>
                (rdata_pmp_err_q'[0] <=> rdata_pmp_err_q[0])
           /\ Live(1) =>
                IF Answered(i) THEN rdata_pmp_err_q'[0] <=> rdata_pmp_err_q[1]
                               ELSE rdata_pmp_err_q'[1] <=> rdata_pmp_err_q[1]
           /\ Enters(i) =>
                IF Answered(i) \/ ~rdata_outstanding_q[0]
                THEN rdata_pmp_err_q'[0] <=> i.pmpErr
                ELSE rdata_pmp_err_q'[1] <=> i.pmpErr
<1>1. PrefetchTypeOK /\ PrefetchClock(i) /\ QueueInv
  BY DEF Inv, TypeOK, Clock
<1>2. Reqs = {0, 1}
  BY DEF Reqs, NUM_REQS
<1>3. /\ ValidReq(i) => ~rdata_outstanding_q[1]
      /\ Answered(i) => rdata_outstanding_q[0]
  BY <1>1 DEF ValidReq, ValidNewReq, Answered, QueueInv, NUM_REQS
<1>4. /\ rdata_outstanding_q[1] => rdata_outstanding_q[0]
      /\ rdata_pmp_err_q[0] => rdata_outstanding_q[0]
      /\ rdata_pmp_err_q[1] => rdata_outstanding_q[1]
  BY <1>1, <1>2 DEF QueueInv
<1> QED
  BY <1>1, <1>3, <1>4, QueueNext, QueueEntries DEF Live, Enters, Asks

\* The bus keeps the granted words in the order of their requests.
LEMMA BusNext ==
    ASSUME NEW i, InputOK(i), Inv, Clock(i)
    PROVE  /\ OnBus(0) /\ ~Answered(i) => mem_q'[1] = mem_q[1]
           /\ OnBus(1) => IF Answered(i) THEN mem_q'[1] = mem_q[2]
                                         ELSE mem_q'[2] = mem_q[2]
           /\ i.gnt => IF Answered(i) \/ ~rdata_outstanding_q[0]
                       THEN mem_q'[1] = InstrAddr(i)
                       ELSE mem_q'[2] = InstrAddr(i)
<1>1. QueueInv /\ BusAccounted /\ mem_q \in Seq(Words)
  BY DEF Inv, TypeOK
<1>2. /\ i.rvalid \in BOOLEAN /\ i.gnt \in BOOLEAN
      /\ i.rvalid => mem_q # <<>>
  BY DEF InputOK
<1>3. mem_q' = (IF i.rvalid THEN Tail(mem_q) ELSE mem_q)
               \o (IF i.gnt THEN <<InstrAddr(i)>> ELSE <<>>)
  BY DEF Clock, InstrBus
<1>4. Len(mem_q) = (IF OnBus(0) THEN 1 ELSE 0) + (IF OnBus(1) THEN 1 ELSE 0)
  BY <1>1 DEF BusAccounted
<1>5. /\ OnBus(1) => OnBus(0)
      /\ i.gnt => ~rdata_outstanding_q[1]
      /\ OnBus(0) /\ Answered(i) => i.rvalid
      /\ OnBus(1) => rdata_outstanding_q[1]
      /\ OnBus(0) => rdata_outstanding_q[0]
  <2>1. Reqs = {0, 1}
    BY DEF Reqs, NUM_REQS
  <2> QED
    BY <1>1, <2>1 DEF OnBus, QueueInv, Answered, Clock, BusProtocol,
       BusRequest, ValidReq, ValidNewReq, NUM_REQS
<1>6. i.rvalid => OnBus(0) /\ Answered(i)
  <2>1. i.rvalid => OnBus(0)
    BY <1>1, <1>2, <1>4, <1>5
  <2> QED
    BY <1>5, <2>1 DEF Answered
<1>7. rdata_outstanding_q[0] /\ ~Answered(i) => OnBus(0)
  BY DEF Answered, OnBus
<1> DEFINE new == IF i.gnt THEN <<InstrAddr(i)>> ELSE <<>>
<1>8. /\ new \in Seq({InstrAddr(i)})
      /\ i.gnt => Len(new) = 1 /\ new[1] = InstrAddr(i)
      /\ ~i.gnt => Len(new) = 0
  <2>1. CASE i.gnt
    BY <2>1
  <2>2. CASE ~i.gnt
    BY <2>2
  <2> QED
    BY <2>1, <2>2
<1> DEFINE kept == IF i.rvalid THEN Tail(mem_q) ELSE mem_q
<1>9. /\ kept \in Seq(Words)
      /\ Len(kept) = Len(mem_q) - (IF i.rvalid THEN 1 ELSE 0)
      /\ \A k \in 1 .. Len(kept) :
            kept[k] = IF i.rvalid THEN mem_q[k + 1] ELSE mem_q[k]
  <2>1. CASE i.rvalid
    BY <1>1, <1>2, <2>1
  <2>2. CASE ~i.rvalid
    BY <1>1, <2>2
  <2> QED
    BY <2>1, <2>2
<1>10. /\ \A k \in 1 .. Len(kept) : mem_q'[k] = kept[k]
       /\ i.gnt => mem_q'[Len(kept) + 1] = InstrAddr(i)
  <2>1. mem_q' = kept \o new
    BY <1>3
  <2> HIDE DEF kept, new
  <2>2. /\ kept \in Seq(Words \cup {InstrAddr(i)})
        /\ new \in Seq(Words \cup {InstrAddr(i)})
    BY <1>8, <1>9
  <2> QED
    BY <1>8, <2>1, <2>2
<1> HIDE DEF kept, new
<1>11. OnBus(0) /\ ~Answered(i) => mem_q'[1] = mem_q[1]
  BY <1>4, <1>6, <1>9, <1>10
<1>12. OnBus(1) => IF Answered(i) THEN mem_q'[1] = mem_q[2]
                                  ELSE mem_q'[2] = mem_q[2]
  BY <1>4, <1>5, <1>6, <1>9, <1>10
<1>13. i.gnt => IF Answered(i) \/ ~rdata_outstanding_q[0]
                THEN mem_q'[1] = InstrAddr(i)
                ELSE mem_q'[2] = InstrAddr(i)
  BY <1>4, <1>5, <1>6, <1>7, <1>9, <1>10
<1> QED
  BY <1>11, <1>12, <1>13

\* The requests still stand for the words they were made for.
LEMMA FlightStep ==
    ASSUME NEW i, InputOK(i), Wires(i), Clock(i), StreamInv
    PROVE  FlightInv'
<1> DEFINE A  == Answered(i)
           E  == Enters(i)
           L0 == Live(0) /\ ~i.branch
           L1 == Live(1) /\ ~i.branch
           B  == Asked(i)
           O0 == rdata_outstanding_q[0]
<1>1. Inv /\ i.branch \in BOOLEAN
  BY DEF StreamInv, InputOK
<1>2. /\ Live(0)' <=> IF A THEN L1 \/ E ELSE L0 \/ (E /\ ~O0)
      /\ Live(1)' <=> ~A /\ (L1 \/ (E /\ O0))
      /\ LiveWaiting' <=> Asks(i) /\ ~E
      /\ E => ~rdata_outstanding_q[1]
  BY <1>1, LiveNext
<1>3. /\ Live(0) => O0
      /\ Live(1) => O0 /\ rdata_outstanding_q[1]
      /\ A => O0
      /\ Live(0) /\ ~rdata_pmp_err_q[0] => OnBus(0)
      /\ Live(1) /\ ~rdata_pmp_err_q[1] => OnBus(1)
  BY <1>1 DEF Inv, QueueInv, Live, Answered, OnBus
<1>4. E => Asks(i)
  BY DEF Enters
<1>5. /\ ~i.branch => /\ At4 = After(Live(0), At3)
                      /\ At5 = After(Live(1), At4)
                      /\ B = At5
      /\ i.branch => B = i.addr.word
  BY DEF At4, At5, Asked
<1>6. At3' = IF i.branch THEN i.addr.word
             ELSE After(Answered(i) /\ Live(0), At3)
  BY EntriesStep
<1>7. /\ At4' = After(Live(0)', At3')
      /\ At5' = After(Live(1)', At4')
      /\ At6' = After(LiveWaiting', At5')
  BY DEF At4, At5, At6, After
<1>8. E => /\ InstrAddr(i) = B
           /\ i.pmpErr <=> B \in image'.pmp
           /\ ~i.pmpErr => i.gnt
  BY <1>4, AddressNext DEF InputOK, Enters, GntOrPmpErr, Clock, InstrBus
<1>9. ~i.branch => image' = image
  BY DEF Wires, Clock, InstrBus
<1>10. /\ Live(0) => /\ rdata_pmp_err_q[0] <=> At3 \in image.pmp
                     /\ ~rdata_pmp_err_q[0] => mem_q[1] = At3
       /\ Live(1) => /\ rdata_pmp_err_q[1] <=> At4 \in image.pmp
                     /\ ~rdata_pmp_err_q[1] => mem_q[2] = At4
  BY DEF StreamInv, FlightInv
<1>11. /\ Live(0) /\ ~A => (rdata_pmp_err_q'[0] <=> rdata_pmp_err_q[0])
       /\ Live(1) => IF A THEN rdata_pmp_err_q'[0] <=> rdata_pmp_err_q[1]
                          ELSE rdata_pmp_err_q'[1] <=> rdata_pmp_err_q[1]
       /\ E => IF A \/ ~O0 THEN rdata_pmp_err_q'[0] <=> i.pmpErr
                           ELSE rdata_pmp_err_q'[1] <=> i.pmpErr
  BY <1>1, VerdictNext
<1>12. /\ OnBus(0) /\ ~A => mem_q'[1] = mem_q[1]
       /\ OnBus(1) => IF A THEN mem_q'[1] = mem_q[2] ELSE mem_q'[2] = mem_q[2]
       /\ i.gnt => IF A \/ ~O0 THEN mem_q'[1] = InstrAddr(i)
                               ELSE mem_q'[2] = InstrAddr(i)
  BY <1>1, BusNext
<1>13. /\ Asks(i) /\ ~E => stored_addr_q' = B
       /\ fetch_addr_q' = After(Asks(i), B)
  BY AddressNext
<1> HIDE DEF A, E, B, O0
<1>14. Live(0)' => /\ rdata_pmp_err_q'[0] <=> At3' \in image'.pmp
                   /\ ~rdata_pmp_err_q'[0] => mem_q'[1] = At3'
  <2>1. CASE L1 /\ A
    BY <1>2, <1>3, <1>5, <1>6, <1>9, <1>10, <1>11, <1>12, <2>1 DEF After, A
  <2>2. CASE L0 /\ ~A
    BY <1>2, <1>3, <1>6, <1>9, <1>10, <1>11, <1>12, <2>2 DEF After, A
  <2>3. CASE E /\ (A \/ ~O0)
    <3>1. At3' = B
      BY <1>2, <1>3, <1>5, <1>6, <2>3 DEF After, A
    <3> QED
      BY <1>8, <1>11, <1>12, <2>3, <3>1
  <2> QED
    BY <1>2, <2>1, <2>2, <2>3
<1>15. Live(1)' => /\ rdata_pmp_err_q'[1] <=> At4' \in image'.pmp
                   /\ ~rdata_pmp_err_q'[1] => mem_q'[2] = At4'
  <2>1. CASE L1 /\ ~A
    BY <1>2, <1>3, <1>5, <1>6, <1>7, <1>9, <1>10, <1>11, <1>12, <2>1
       DEF After, A
  <2>2. CASE E /\ O0 /\ ~A
    <3>1. At4' = B
      BY <1>2, <1>3, <1>5, <1>6, <1>7, <2>2 DEF After, A
    <3> QED
      BY <1>8, <1>11, <1>12, <2>2, <3>1
  <2> QED
    BY <1>2, <2>1, <2>2
<1>16. At5' = After(E, B)
  <2>1. CASE A
    BY <1>1, <1>2, <1>3, <1>5, <1>6, <1>7, <2>1 DEF After, A
  <2>2. CASE ~A
    BY <1>1, <1>2, <1>3, <1>5, <1>6, <1>7, <2>2 DEF After, A
  <2> QED
    BY <2>1, <2>2
<1>17. LiveWaiting' => stored_addr_q' = At5'
  BY <1>2, <1>13, <1>16 DEF After
<1>18. fetch_addr_q' = At6'
  BY <1>2, <1>4, <1>7, <1>13, <1>16 DEF After
<1> QED
  BY <1>14, <1>15, <1>17, <1>18 DEF FlightInv

LEMMA StreamInit == Init => StreamInv
<1> SUFFICES ASSUME Init PROVE StreamInv
  OBVIOUS
<1>1. 0 \in Slots /\ 1 \in Slots /\ 2 \in Slots /\ 0 \in Reqs /\ 1 \in Reqs
  BY DEF Slots, DEPTH, Reqs, NUM_REQS
<1>2. /\ ~valid_q[0] /\ ~valid_q[1] /\ ~valid_q[2]
      /\ ~Live(0) /\ ~Live(1) /\ ~LiveWaiting /\ ~booted
  BY <1>1 DEF Init, PrefetchInit, FifoInit, Live, LiveWaiting
<1> QED
  BY <1>2, InitInv DEF StreamInv, EntriesInv, FlightInv

LEMMA StreamStep == StreamInv /\ [Next]_vars => StreamInv'
<1> SUFFICES ASSUME StreamInv, [Next]_vars PROVE StreamInv'
  OBVIOUS
<1>1. Inv'
  BY StepInv DEF StreamInv
<1>2. CASE Next
  <2>1. PICK i : InputOK(i) /\ Clock(i) /\ Wires(i)
    BY <1>2, NextIsWired DEF StreamInv, Inv
  <2> QED
    BY <1>1, <2>1, EntriesStep, FlightStep DEF StreamInv
<1>3. CASE UNCHANGED vars
  <2>1. /\ UNCHANGED <<valid_q, rdata_q, instr_addr_q>>
        /\ UNCHANGED <<valid_req_q, discard_req_q, rdata_outstanding_q,
                       branch_discard_q, rdata_pmp_err_q, stored_addr_q,
                       fetch_addr_q>>
        /\ UNCHANGED <<booted, image, mem_q>>
    BY <1>3 DEF vars, coreVars, envVars, prefetchVars, fifoVars
  <2>2. /\ At0' = At0 /\ At1' = At1 /\ At2' = At2 /\ At3' = At3
        /\ Live(0)' = Live(0) /\ Live(1)' = Live(1)
        /\ LiveWaiting' = LiveWaiting
    BY <2>1, Zenon DEF At0, At1, At2, At3, After, Live, LiveWaiting
  <2>3. At4' = At4 /\ At5' = At5 /\ At6' = At6
    BY <2>2, Zenon DEF At4, At5, At6, After
  <2>4. EntriesInv'
    BY <2>1, <2>2 DEF StreamInv, EntriesInv, Holds
  <2>5. FlightInv'
    BY <2>1, <2>2, <2>3 DEF StreamInv, FlightInv
  <2> QED
    BY <1>1, <2>4, <2>5 DEF StreamInv
<1> QED
  BY <1>2, <1>3

\* Every word under way, in the FIFO, on the bus or waiting for its grant, is
\* the one its place stands for, in every reachable state.
THEOREM StreamInvariance == Spec => []StreamInv
<1> QED
  BY StreamInit, StreamStep, PTL DEF Spec
-----------------------------------------------------------------------------
(* What InstrStream says, in the operators of IfStage.                     *)

LEMMA StreamOperators ==
    /\ \A w : S!NextWord(w) = NextWord(w)
    /\ \A a : S!PlusTwo(a) = PlusTwo(a)
    /\ \A a : S!PlusFour(a) = PlusFour(a)
    /\ S!NoHalf = NoHalf /\ S!NoInstr = NoInstr /\ S!Address = Address
<1>1. \A w : S!NextWord(w) = NextWord(w)
  BY DEF S!NextWord, NextWord
<1>2. \A a : S!PlusTwo(a) = PlusTwo(a)
  BY <1>1 DEF S!PlusTwo, PlusTwo
<1>3. \A a : S!PlusFour(a) = PlusFour(a)
  BY <1>1 DEF S!PlusFour, PlusFour
<1>4. S!NoHalf = NoHalf
  BY DEF S!NoHalf, NoHalf, S!NoWord, NoWord
<1>5. S!NoInstr = NoInstr
  BY <1>4 DEF S!NoInstr, NoInstr
<1>6. S!Address = Address
  BY DEF S!Address, Address, S!Words, Words
<1> QED
  BY <1>1, <1>2, <1>3, <1>4, <1>5, <1>6

\* What the abstract specification sees of an instruction.
Seen(instr) ==
    IF instr.err THEN [instr EXCEPT !.lower = NoHalf, !.upper = NoHalf]
                 ELSE [instr EXCEPT !.plus2 = FALSE]

\* ... field by field.
LEMMA SeenFields ==
    ASSUME NEW instr,
           instr = [pc |-> instr.pc, comp |-> instr.comp,
                    lower |-> instr.lower, upper |-> instr.upper,
                    err |-> instr.err, plus2 |-> instr.plus2]
    PROVE  /\ instr.err = TRUE => Seen(instr) =
                  [pc |-> instr.pc, comp |-> instr.comp, lower |-> NoHalf,
                   upper |-> NoHalf, err |-> instr.err, plus2 |-> instr.plus2]
           /\ instr.err = FALSE => Seen(instr) =
                  [pc |-> instr.pc, comp |-> instr.comp, lower |-> instr.lower,
                   upper |-> instr.upper, err |-> instr.err, plus2 |-> FALSE]
<1> DEFINE I == [pc : {instr.pc}, comp : {instr.comp}, lower : {instr.lower},
                 upper : {instr.upper}, err : {instr.err},
                 plus2 : {instr.plus2}]
<1>1. instr \in I
  OBVIOUS
<1>2. ASSUME NEW x
      PROVE  [instr EXCEPT !.plus2 = x] =
                  [pc |-> instr.pc, comp |-> instr.comp, lower |-> instr.lower,
                   upper |-> instr.upper, err |-> instr.err, plus2 |-> x]
  BY <1>1
<1>3. ASSUME NEW x
      PROVE  [instr EXCEPT !.lower = x, !.upper = x] =
                  [pc |-> instr.pc, comp |-> instr.comp, lower |-> x,
                   upper |-> x, err |-> instr.err, plus2 |-> instr.plus2]
  <2> DEFINE s == [instr EXCEPT !.lower = x]
  <2>1. s = [pc |-> instr.pc, comp |-> instr.comp, lower |-> x,
             upper |-> instr.upper, err |-> instr.err, plus2 |-> instr.plus2]
    BY <1>1
  <2>2. s \in [pc : {instr.pc}, comp : {instr.comp}, lower : {x},
               upper : {instr.upper}, err : {instr.err}, plus2 : {instr.plus2}]
    BY <2>1
  <2>3. [instr EXCEPT !.lower = x, !.upper = x] = [s EXCEPT !.upper = x]
    BY <1>1
  <2> HIDE DEF s
  <2>4. [s EXCEPT !.upper = x] =
              [pc |-> instr.pc, comp |-> instr.comp, lower |-> x,
               upper |-> x, err |-> instr.err, plus2 |-> instr.plus2]
    BY <2>2
  <2> QED
    BY <2>3, <2>4
<1> QED
  BY <1>2, <1>3, Zenon DEF Seen

\* An instruction handed out is the one at its address.
LEMMA Offering ==
    ASSUME NEW i, InputOK(i), Wires(i), StreamInv, FetchValid(i)
    PROVE  LET comp == IsCompressed(FifoInput(i))
           IN  /\ comp \in S!MayBeCompressed(instr_addr_q)
               /\ Seen(FetchInstr(i)) = S!InstrAt(instr_addr_q, comp)
<1> DEFINE f == FifoInput(i)
           old == OldestWord(f)
           sec == SecondWord(f)
           comp == IsCompressed(f)
           a == instr_addr_q
<1>1. a \in Address /\ FifoTypeOK
  BY DEF StreamInv, Inv, TypeOK, PrefetchTypeOK, FifoTypeOK
<1>2. f.data \in FetchedWord /\ f.inValid \in BOOLEAN
  BY DEF FifoInput, InputOK, FetchedWord
<1>3. old \in FetchedWord /\ sec \in FetchedWord /\ comp \in BOOLEAN
  <2>1. 0 \in Slots /\ 1 \in Slots
    BY DEF Slots, DEPTH, NUM_REQS
  <2>2. old \in FetchedWord /\ sec \in FetchedWord
    BY <1>1, <1>2, <2>1 DEF OldestWord, SecondWord, FifoTypeOK
  <2> QED
    BY <2>2 DEF IsCompressed, FetchedWord
<1>4. /\ valid_q[1] => valid_q[0]
      /\ valid_q[2] => valid_q[1]
      /\ valid_q[0] \in BOOLEAN /\ valid_q[1] \in BOOLEAN
  BY <1>1 DEF StreamInv, Inv, RoomInv, FifoTypeOK, Slots, DEPTH, NUM_REQS
<1>5. valid_q[0] \/ f.inValid
  BY <1>4 DEF FetchValid, OutValid
<1>6. a.odd /\ ~comp => valid_q[1] \/ (valid_q[0] /\ f.inValid)
  BY DEF FetchValid, OutValid, CrossesWord
<1>7. f.inValid => ~valid_q[2] /\ Holds(image, f.data, At3)
  <2>1. f.inValid => Live(0) /\ Holds(image, f.data, At3)
    BY Arriving DEF StreamInv
  <2> QED
    BY <2>1 DEF StreamInv, Inv, RoomInv, DEPTH, NUM_REQS
<1>8. /\ valid_q[0] => Holds(image, rdata_q[0], At0)
      /\ valid_q[1] => Holds(image, rdata_q[1], At1)
  BY DEF StreamInv, EntriesInv
<1>9. /\ At1 = IF valid_q[0] THEN NextWord(At0) ELSE At0
      /\ At2 = IF valid_q[1] THEN NextWord(At1) ELSE At1
      /\ At3 = IF valid_q[2] THEN NextWord(At2) ELSE At2
  BY DEF At3, At2, At1, After
<1>10. Holds(image, old, a.word)
  BY <1>4, <1>5, <1>7, <1>8, <1>9 DEF OldestWord, At0
<1>11. a.odd /\ ~comp => Holds(image, sec, NextWord(a.word))
  BY <1>4, <1>6, <1>7, <1>8, <1>9 DEF SecondWord, At0
<1> DEFINE first  == a.word \in image.err \cup image.pmp
           second == a.odd /\ ~comp /\ NextWord(a.word) \in image.err \cup image.pmp
           any    == first \/ second
           late   == second /\ ~first
           err    == IF a.odd THEN ErrUnaligned(f) ELSE old.err
           plus2  == a.odd /\ ErrPlus2(f)
           upper  == IF comp THEN NoHalf
                     ELSE IF a.odd THEN Half(sec, FALSE) ELSE Half(old, TRUE)
<1>12. comp \in S!MayBeCompressed(a)
  <2>1. a = [word |-> a.word, odd |-> a.odd] /\ a.odd \in BOOLEAN
    BY <1>1 DEF Address
  <2>2. ASSUME a.word \notin image.pmp
        PROVE  comp <=> a \in image.comp
    <3>1. CASE a.odd
      <4>1. a = [word |-> a.word, odd |-> TRUE]
        BY <2>1, <3>1
      <4>2. comp <=> old.hi
        BY <3>1 DEF IsCompressed
      <4>3. old.hi <=> [word |-> a.word, odd |-> TRUE] \in image.comp
        BY <1>10, <2>2 DEF Holds
      <4> HIDE DEF a, old, comp
      <4> QED
        BY <4>1, <4>2, <4>3, Zenon
    <3>2. CASE ~a.odd
      <4>1. a = [word |-> a.word, odd |-> FALSE]
        BY <2>1, <3>2
      <4>2. comp <=> old.lo
        BY <3>2 DEF IsCompressed
      <4>3. old.lo <=> [word |-> a.word, odd |-> FALSE] \in image.comp
        BY <1>10, <2>2 DEF Holds
      <4> HIDE DEF a, old, comp
      <4> QED
        BY <4>1, <4>2, <4>3, Zenon
    <3> QED
      BY <3>1, <3>2
  <2> HIDE DEF a, comp
  <2> QED
    BY <1>3, <2>2 DEF S!MayBeCompressed
<1>13. first <=> old.err
  BY <1>10 DEF Holds
<1>14. second <=> a.odd /\ ~comp /\ sec.err
  BY <1>11 DEF Holds
<1>15. a.odd => comp = old.hi
  BY DEF IsCompressed
<1>16. err <=> any
  BY <1>4, <1>5, <1>6, <1>13, <1>14, <1>15
     DEF ErrUnaligned, OldestWord, SecondWord
<1>17. err => (plus2 <=> late)
  BY <1>4, <1>5, <1>6, <1>13, <1>14, <1>15
     DEF ErrUnaligned, ErrPlus2, OldestWord, SecondWord
<1>18. ~err => Half(old, a.odd) = a /\ (~comp => upper = PlusTwo(a))
  <2> SUFFICES ASSUME ~err
               PROVE  Half(old, a.odd) = a /\ (~comp => upper = PlusTwo(a))
    OBVIOUS
  <2>1. old.word = a.word
    BY <1>10, <1>16 DEF Holds
  <2>2. a.odd /\ ~comp => sec.word = NextWord(a.word)
    BY <1>11, <1>16 DEF Holds
  <2> HIDE DEF old, sec, comp, err
  <2> QED
    BY <1>1, <1>3, <2>1, <2>2 DEF Half, PlusTwo, Address
<1>19. FetchInstr(i) = [pc |-> a, comp |-> comp, lower |-> Half(old, a.odd),
                        upper |-> upper, err |-> err, plus2 |-> plus2]
  BY Zenon DEF FetchInstr, OutInstr
<1>20. S!InstrAt(a, comp) =
            [pc    |-> a,
             comp  |-> comp,
             lower |-> IF any THEN NoHalf ELSE a,
             upper |-> IF any \/ comp THEN NoHalf ELSE PlusTwo(a),
             err   |-> any,
             plus2 |-> late]
  BY StreamOperators DEF S!InstrAt, S!Faulty
<1>21. err \in BOOLEAN /\ plus2 \in BOOLEAN
  BY <1>3 DEF FetchedWord, ErrUnaligned
<1>22. comp => upper = NoHalf
  OBVIOUS
<1>23. any \in BOOLEAN /\ late \in BOOLEAN /\ (late => any)
  OBVIOUS
<1> HIDE DEF f, old, sec, comp, a, first, second, any, late, err, plus2, upper
<1>24. /\ err = TRUE => Seen(FetchInstr(i)) =
            [pc |-> a, comp |-> comp, lower |-> NoHalf, upper |-> NoHalf,
             err |-> err, plus2 |-> plus2]
       /\ err = FALSE => Seen(FetchInstr(i)) =
            [pc |-> a, comp |-> comp, lower |-> Half(old, a.odd),
             upper |-> upper, err |-> err, plus2 |-> FALSE]
  <2> DEFINE fetched == FetchInstr(i)
             half == Half(old, a.odd)
  <2>1. fetched = [pc |-> a, comp |-> comp, lower |-> half,
                   upper |-> upper, err |-> err, plus2 |-> plus2]
    BY <1>19
  <2> HIDE DEF fetched, half
  <2>2. /\ fetched.pc = a /\ fetched.comp = comp /\ fetched.lower = half
        /\ fetched.upper = upper /\ fetched.err = err /\ fetched.plus2 = plus2
    BY <2>1
  <2>3. fetched = [pc |-> fetched.pc, comp |-> fetched.comp,
                   lower |-> fetched.lower, upper |-> fetched.upper,
                   err |-> fetched.err, plus2 |-> fetched.plus2]
    BY <2>1, <2>2
  <2>4. /\ err = TRUE => Seen(fetched) =
              [pc |-> a, comp |-> comp, lower |-> NoHalf,
               upper |-> NoHalf, err |-> err, plus2 |-> plus2]
        /\ err = FALSE => Seen(fetched) =
              [pc |-> a, comp |-> comp, lower |-> half,
               upper |-> upper, err |-> err, plus2 |-> FALSE]
    BY <2>2, <2>3, SeenFields, Zenon
  <2> QED
    BY <2>4 DEF fetched, half
<1>25. Seen(FetchInstr(i)) = S!InstrAt(a, comp)
  <2>1. CASE err
    <3>1. err = TRUE /\ any = err /\ late = plus2
      BY <1>16, <1>17, <1>21, <1>23, <2>1
    <3>2. Seen(FetchInstr(i)) =
            [pc |-> a, comp |-> comp, lower |-> NoHalf, upper |-> NoHalf,
             err |-> err, plus2 |-> plus2]
      BY <3>1, <1>24, Zenon
    <3> QED
      BY <1>20, <2>1, <3>1, <3>2
  <2>2. CASE ~err
    <3>1. any = err /\ late = FALSE /\ err = FALSE
      BY <1>16, <1>21, <1>23, <2>2
    <3>2. Seen(FetchInstr(i)) =
            [pc |-> a, comp |-> comp, lower |-> Half(old, a.odd),
             upper |-> upper, err |-> err, plus2 |-> FALSE]
      BY <3>1, <1>24, Zenon
    <3> QED
      BY <1>3, <1>18, <1>20, <1>22, <2>2, <3>1, <3>2
  <2> QED
    BY <2>1, <2>2
<1> QED
  BY <1>12, <1>25 DEF a, comp, f
-----------------------------------------------------------------------------
(* The refinement.                                                         *)

\* The instruction in the ID stage: what S substitutes for `offered'.
Offered == IF ~instr_valid_id_q THEN NoInstr ELSE Seen(instr_id)

\* A clock edge redirects the stream, offers the next instruction, retires the
\* one in ID, or changes nothing ID can see.
LEMMA ClockRefines ==
    ASSUME NEW i, InputOK(i), Wires(i), Clock(i), StreamInv
    PROVE  \/ S!Next
           \/ UNCHANGED <<image, instr_addr_q, Offered>>
<1> DEFINE f == FifoInput(i)
<1>1. /\ i.branch \in BOOLEAN
      /\ i.id \in IdActions
      /\ i.ready <=> i.id = "advance"
  BY DEF InputOK, Wires
<1>2. /\ f.clear = i.branch /\ f.inAddr = i.addr /\ f.outReady = i.ready
      /\ FetchValid(i) <=> OutValid(f)
  BY DEF FifoInput, FetchValid
<1>3. instr_addr_q' = NextInstrAddr(f)
  BY DEF Clock, PrefetchClock, FifoClock
<1>4. /\ instr_valid_id_q' = InstrValidIdD(i)
      /\ instr_id' = IF ~InstrValidIdD(i) THEN NoInstr
                     ELSE IF FetchValid(i) /\ i.ready THEN FetchInstr(i)
                     ELSE instr_id
  BY DEF Clock, PipeRegister
<1>5. InstrValidIdD(i) <=> \/ FetchValid(i) /\ i.ready /\ ~i.branch
                           \/ instr_valid_id_q /\ i.id = "stall"
  BY DEF InstrValidIdD
<1>6. image' = i.view
  BY DEF Clock, InstrBus
<1>7. Offered' = IF ~instr_valid_id_q' THEN NoInstr ELSE Seen(instr_id')
  BY DEF Offered, Seen
<1> HIDE DEF f
<1>8. CASE i.branch
  <2>1. instr_addr_q' \in Targets /\ image' \in S!Views(image)
    BY <1>2, <1>3, <1>6, <1>8 DEF NextInstrAddr, Wires
  <2>2. Offered' \in {Offered, NoInstr}
    <3>1. CASE InstrValidIdD(i)
      <4>1. instr_valid_id_q /\ instr_valid_id_q' /\ instr_id' = instr_id
        BY <1>1, <1>4, <1>5, <1>8, <3>1
      <4> QED
        BY <1>7, <4>1, Zenon DEF Offered
    <3>2. CASE ~InstrValidIdD(i)
      BY <1>4, <1>7, <3>2
    <3> QED
      BY <3>1, <3>2
  <2> QED
    BY <2>1, <2>2, StreamOperators DEF S!Next, S!Redirect, Offered, Seen
<1>9. CASE ~i.branch /\ i.id = "advance" /\ FetchValid(i)
  <2> DEFINE comp == IsCompressed(f)
  <2>1. /\ comp \in S!MayBeCompressed(instr_addr_q)
        /\ Seen(FetchInstr(i)) = S!InstrAt(instr_addr_q, comp)
    BY <1>9, Offering DEF f
  <2>2. Offered' = S!InstrAt(instr_addr_q, comp)
    <3>1. instr_valid_id_q' /\ instr_id' = FetchInstr(i)
      BY <1>1, <1>4, <1>5, <1>9
    <3> QED
      BY <1>7, <2>1, <3>1
  <2>3. instr_addr_q' = IF comp THEN S!PlusTwo(instr_addr_q)
                                ELSE S!PlusFour(instr_addr_q)
    BY <1>1, <1>2, <1>3, <1>9, StreamOperators DEF NextInstrAddr
  <2>4. image' = image
    BY <1>6, <1>9 DEF Wires
  <2>5. S!Offer
    BY <2>1, <2>2, <2>3, <2>4 DEF S!Offer, Offered, Seen
  <2> QED
    BY <2>5 DEF S!Next
<1>10. CASE ~i.branch /\ (i.id = "flush" \/ (i.id = "advance" /\ ~FetchValid(i)))
  <2>1. Offered' = NoInstr
    BY <1>1, <1>4, <1>5, <1>7, <1>10
  <2>2. instr_addr_q' = instr_addr_q /\ image' = image
    BY <1>1, <1>2, <1>3, <1>6, <1>10 DEF NextInstrAddr, Wires
  <2>3. S!Retire
    BY <2>1, <2>2, StreamOperators DEF S!Retire, Offered, Seen
  <2> QED
    BY <2>3 DEF S!Next
<1>11. CASE ~i.branch /\ i.id = "stall"
  <2>1. instr_addr_q' = instr_addr_q /\ image' = image
    BY <1>1, <1>2, <1>3, <1>6, <1>11 DEF NextInstrAddr, Wires
  <2>2. /\ instr_valid_id_q' <=> instr_valid_id_q
        /\ instr_valid_id_q => instr_id' = instr_id
    BY <1>1, <1>4, <1>5, <1>11
  <2>3. Offered' = Offered
    BY <1>7, <2>2, Zenon DEF Offered
  <2> QED
    BY <2>1, <2>3
<1> QED
  BY <1>1, <1>8, <1>9, <1>10, <1>11 DEF IdActions

\* ID receives the program: the fetch stage implements InstrStream.  No word
\* is skipped, repeated or left over from before a branch, whatever the bus
\* delays, the PMP refuses, and ID does.
THEOREM StreamImplemented == Spec => InOrderStream
<1>1. Init => S!Init
  <2> SUFFICES ASSUME Init PROVE S!Init
    OBVIOUS
  <2>1. instr_addr_q \in Address /\ image \in Images /\ ~instr_valid_id_q
    BY DEF Init, PrefetchInit, FifoInit
  <2> QED
    BY <2>1, StreamOperators DEF S!Init
<1>2. StreamInv /\ [Next]_vars => [S!Next]_(S!streamVars)
  <2> SUFFICES ASSUME StreamInv, [Next]_vars
               PROVE  S!Next \/ UNCHANGED S!streamVars
    OBVIOUS
  <2>1. UNCHANGED <<image, instr_addr_q, Offered>> => UNCHANGED S!streamVars
    BY DEF S!streamVars, Offered, Seen
  <2>2. CASE Next
    <3>1. PICK i : InputOK(i) /\ Clock(i) /\ Wires(i)
      BY <2>2, NextIsWired DEF StreamInv, Inv
    <3> QED
      BY <2>1, <3>1, ClockRefines
  <2>3. CASE UNCHANGED vars
    <3>1. UNCHANGED <<image, instr_addr_q, Offered>>
      BY <2>3 DEF vars, coreVars, envVars, prefetchVars, fifoVars, Offered, Seen
    <3> QED
      BY <2>1, <3>1
  <2> QED
    BY <2>2, <2>3
<1> QED
  BY <1>1, <1>2, StreamInvariance, PTL DEF Spec, InOrderStream, S!Spec
=============================================================================
