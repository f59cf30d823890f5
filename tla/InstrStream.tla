---------------------------- MODULE InstrStream ----------------------------
(***************************************************************************)
(* What the fetch stage promises to the decode stage: the instructions     *)
(* offered to ID are those of the memory, one after the other, from the    *)
(* last redirection of the program counter on; nothing is skipped, repeated*)
(* or left over from before the redirection, and an instruction is marked  *)
(* as faulting exactly when a word it needs could not be fetched.          *)
(*                                                                         *)
(* `image' describes the memory: the half words that begin a compressed    *)
(* instruction, the words that answer with a bus error and the words the   *)
(* PMP refuses (whose contents are never seen).                            *)
(***************************************************************************)
EXTENDS FetchFifo

CONSTANTS
    Images,     \* the memories considered
    Targets     \* where the program counter may be redirected to

ImageType == [comp : SUBSET Address, err : SUBSET Words, pmp : SUBSET Words]

VARIABLES
    mem,        \* the memory image as the current privilege level sees it
    pc,         \* address of the next instruction to offer
    offered     \* the instruction in the ID stage, or NoInstr

streamVars == <<mem, pc, offered>>

Faulty(w) == w \in mem.err \cup mem.pmp

\* The length is read from the first word: unknown if the PMP refused it.
MayBeCompressed(a) ==
    {comp \in BOOLEAN : a.word \in mem.pmp \/ (comp <=> a \in mem.comp)}

\* The instruction at address a when it is compressed or not.
InstrAt(a, comp) ==
    LET crosses == a.odd /\ ~comp
        first   == Faulty(a.word)
        second  == crosses /\ Faulty(NextWord(a.word))
        err     == first \/ second
    IN  [pc    |-> a,
         comp  |-> comp,
         lower |-> IF err THEN NoHalf ELSE a,
         upper |-> IF err \/ comp THEN NoHalf ELSE PlusTwo(a),
         err   |-> err,
         plus2 |-> second /\ ~first]

Init == /\ mem \in Images
        /\ pc \in Address
        /\ offered = NoInstr

\* The same memory, through the PMP at some privilege level.
Views(m) == {v \in Images : v.comp = m.comp /\ v.err = m.err}

\* A jump, a trap, a return or the boot vector, the privilege level changing
\* in the same cycle; ID may keep its instruction.
Redirect == /\ pc' \in Targets
            /\ offered' \in {offered, NoInstr}
            /\ mem' \in Views(mem)

\* The next instruction enters ID.
Offer == \E comp \in MayBeCompressed(pc) :
            /\ offered' = InstrAt(pc, comp)
            /\ pc' = IF comp THEN PlusTwo(pc) ELSE PlusFour(pc)
            /\ UNCHANGED mem

\* ID is done with its instruction and nothing follows yet.
Retire == /\ offered' = NoInstr
          /\ UNCHANGED <<mem, pc>>

Next == Redirect \/ Offer \/ Retire

Spec == Init /\ [][Next]_streamVars
=============================================================================
