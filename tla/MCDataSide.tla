----------------------------- MODULE MCDataSide -----------------------------
(***************************************************************************)
(* The instance of DataSide that TLC checks: an address space of two       *)
(* words, so that the second part of an access may wrap around, and every  *)
(* set of words the PMP may refuse.                                        *)
(***************************************************************************)
EXTENDS DataSide

\* Accesses at every offset of the first word and at the end of memory.
MCAccesses == [type : Types, we : BOOLEAN, sign : BOOLEAN, addr : {0, 1, 2, 3, 7}]

\* Within a word and across two, for the runs where two accesses overlap.
MCFewAccesses == [type : {"word", "half"}, we : BOOLEAN, sign : {FALSE},
                  addr : {0, 3}]

MCCores   == {[writeback |-> FALSE, accesses |-> MCAccesses],
              [writeback |-> TRUE, accesses |-> MCFewAccesses]}
MCNoWb    == {[writeback |-> FALSE, accesses |-> MCAccesses]}

MCRegions == SUBSET Words
=============================================================================
