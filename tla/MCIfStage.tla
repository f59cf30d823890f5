----------------------------- MODULE MCIfStage -----------------------------
(***************************************************************************)
(* The instance of IfStage that TLC checks: a memory of four words, one    *)
(* more than the FIFO holds, under memories that mix compressed,           *)
(* uncompressed, faulting and refused instructions.                        *)
(***************************************************************************)
EXTENDS IfStage

At(w, odd) == [word |-> w, odd |-> odd]

\* Redirection to an aligned and to an unaligned instruction.
MCTargets == {At(0, FALSE), At(1, TRUE)}

Faults(err, pmp, comp) == [comp |-> comp, err |-> err, pmp |-> pmp]

\* No compressed instruction, only compressed ones, and two ways of mixing
\* them in which 32-bit instructions straddle words.
Programs == {{}, Address,
             {At(0, FALSE), At(2, TRUE)},
             {At(1, TRUE), At(3, FALSE)}}

MCImages == {Faults(err, pmp, comp) :
                err \in {{}, {1}, {2, 3}}, pmp \in {{}, {2}}, comp \in Programs}

\* One memory of every kind of word for the liveness run.
MCMixedImage == {Faults({1}, {3}, {At(0, FALSE), At(2, TRUE)})}
=============================================================================
