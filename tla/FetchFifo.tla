----------------------------- MODULE FetchFifo -----------------------------
(***************************************************************************)
(* The fetch FIFO of the instruction fetch stage, rtl/ibex_fetch_fifo.sv.  *)
(*                                                                         *)
(* It takes word-aligned memory words and hands out instructions, which    *)
(* may be compressed (one half word) or start in the middle of a word.  A  *)
(* word that arrives while the FIFO is empty is handed out in the same     *)
(* cycle (bypass).                                                         *)
(*                                                                         *)
(* Everything is clocked: an operator on an input record `i' is a wire of  *)
(* the current cycle, FifoClock(i) is the clock edge.  The fields of `i'   *)
(* read here are clear, inValid, inAddr, data and outReady.                *)
(***************************************************************************)
EXTENDS Naturals

CONSTANT NWords                 \* words of the address space (2^30 in the core)

ASSUME NWordsAssumption == NWords \in Nat \ {0}

Words == 0 .. NWords - 1
NoWord == NWords                \* stands for "not a word of the memory"

\* Addresses wrap around at the end of the address space.
NextWord(w) == IF w = NWords - 1 THEN 0 ELSE w + 1

\* A half-word aligned address; `odd' is address bit 1.
Address == [word : Words, odd : BOOLEAN]
PlusTwo(a)  == IF a.odd THEN [word |-> NextWord(a.word), odd |-> FALSE]
                        ELSE [a EXCEPT !.odd = TRUE]
PlusFour(a) == [a EXCEPT !.word = NextWord(a.word)]

\* A fetched word: where it was read, whether its lower and its upper half
\* begin a compressed instruction (bits 1:0 and 17:16 differ from 11), and
\* the error flag stored next to it.
FetchedWord == [word : Words \cup {NoWord},
                lo : BOOLEAN, hi : BOOLEAN, err : BOOLEAN]

\* What a register that is not valid holds: an old value nobody may use.
Stale == [word |-> NoWord, lo |-> FALSE, hi |-> FALSE, err |-> FALSE]

\* An instruction handed out: its address, its length, the half words its
\* bits come from (NoHalf for the upper half of a compressed one), and the
\* error flags; plus2 blames the second half.
HalfWords == [word : Words \cup {NoWord}, odd : BOOLEAN]
NoHalf == [word |-> NoWord, odd |-> FALSE]
Instr == [pc : Address, comp : BOOLEAN, lower : HalfWords, upper : HalfWords,
          err : BOOLEAN, plus2 : BOOLEAN]
NoInstr == [pc |-> [word |-> 0, odd |-> FALSE], comp |-> FALSE,
            lower |-> NoHalf, upper |-> NoHalf, err |-> FALSE, plus2 |-> FALSE]

NUM_REQS == 2
DEPTH == NUM_REQS + 1
Slots == 0 .. DEPTH - 1

VARIABLES
    valid_q,        \* which entries hold a word; entry 0 is the output
    rdata_q,        \* the words, error flag included (rdata_q and err_q)
    instr_addr_q    \* address of the instruction at the output

fifoVars == <<valid_q, rdata_q, instr_addr_q>>

FifoTypeOK ==
    /\ valid_q \in [Slots -> BOOLEAN]
    /\ rdata_q \in [Slots -> FetchedWord]
    /\ instr_addr_q \in Address

-----------------------------------------------------------------------------
(* Output port: the aligner.                                               *)

OldestWord(i) == IF valid_q[0] THEN rdata_q[0] ELSE i.data
SecondWord(i) == IF valid_q[1] THEN rdata_q[1] ELSE i.data

IsCompressed(i) == IF instr_addr_q.odd THEN OldestWord(i).hi
                                       ELSE OldestWord(i).lo

\* The instruction's bits are spread over two words.
CrossesWord(i) == instr_addr_q.odd /\ ~IsCompressed(i)

OutValid(i) ==
    IF CrossesWord(i) THEN valid_q[1] \/ (valid_q[0] /\ i.inValid)
                      ELSE valid_q[0] \/ i.inValid

ErrUnaligned(i) ==
    IF valid_q[1]
    THEN (rdata_q[1].err /\ ~OldestWord(i).hi) \/ rdata_q[0].err
    ELSE \/ valid_q[0] /\ rdata_q[0].err
         \/ i.data.err /\ (~valid_q[0] \/ ~OldestWord(i).hi)

ErrPlus2(i) ==
    IF valid_q[1] THEN rdata_q[1].err /\ ~rdata_q[0].err
                  ELSE i.data.err /\ valid_q[0] /\ ~rdata_q[0].err

Half(w, odd) == [word |-> w.word, odd |-> odd]

OutInstr(i) ==
    [pc    |-> instr_addr_q,
     comp  |-> IsCompressed(i),
     lower |-> Half(OldestWord(i), instr_addr_q.odd),
     upper |-> IF IsCompressed(i) THEN NoHalf
               ELSE IF instr_addr_q.odd THEN Half(SecondWord(i), FALSE)
                                        ELSE Half(OldestWord(i), TRUE),
     err   |-> IF instr_addr_q.odd THEN ErrUnaligned(i) ELSE OldestWord(i).err,
     plus2 |-> instr_addr_q.odd /\ ErrPlus2(i)]

-----------------------------------------------------------------------------
(* Input port and FIFO management.                                         *)

\* Defect for the model's own test: only one entry is kept free.
InReadyOneEntry == ~valid_q[DEPTH - 1]

\* Space is reserved for as many words as there can be requests in flight.
InReady == ~valid_q[DEPTH - NUM_REQS]

\* An aligned compressed instruction leaves the other half in its entry.
PopFifo(i) == i.outReady /\ OutValid(i)
              /\ (~OldestWord(i).lo \/ instr_addr_q.odd)

LowestFreeEntry(k) == ~valid_q[k] /\ (k > 0 => valid_q[k - 1])

ValidPushed(i, k) == (i.inValid /\ LowestFreeEntry(k)) \/ valid_q[k]

ValidPopped(i, k) ==
    IF PopFifo(i) THEN k < DEPTH - 1 /\ ValidPushed(i, k + 1)
                  ELSE ValidPushed(i, k)

ValidD(i, k) == ValidPopped(i, k) /\ ~i.clear

EntryEn(i, k) ==
    \/ k < DEPTH - 1 /\ ValidPushed(i, k + 1) /\ PopFifo(i)
    \/ i.inValid /\ LowestFreeEntry(k) /\ (k < DEPTH - 1 => ~PopFifo(i))

EntryD(i, k) == IF k < DEPTH - 1 /\ valid_q[k + 1] THEN rdata_q[k + 1]
                                                   ELSE i.data

NextInstrAddr(i) ==
    IF i.clear THEN i.inAddr
    ELSE IF i.outReady /\ OutValid(i)
         THEN IF IsCompressed(i) THEN PlusTwo(instr_addr_q)
                                 ELSE PlusFour(instr_addr_q)
         ELSE instr_addr_q

\* The data flops keep their value when an entry is freed; that value is
\* represented by Stale, so that a use of it shows.
FifoClock(i) ==
    /\ valid_q' = [k \in Slots |-> ValidD(i, k)]
    /\ rdata_q' = [k \in Slots |-> IF ~ValidD(i, k) THEN Stale
                                   ELSE IF EntryEn(i, k) THEN EntryD(i, k)
                                   ELSE rdata_q[k]]
    /\ instr_addr_q' = NextInstrAddr(i)

\* Only the valid bits are reset; a branch sets the address before it is used.
FifoInit ==
    /\ valid_q = [k \in Slots |-> FALSE]
    /\ rdata_q = [k \in Slots |-> Stale]
    /\ instr_addr_q \in Address
=============================================================================
