------------------------------ MODULE TrapCsrs ------------------------------
(***************************************************************************)
(* The registers of rtl/ibex_cs_registers.sv that traps, returns and debug *)
(* entry save and restore: mstatus (MIE and MPIE), mepc, their backup for  *)
(* a recoverable NMI, dpc and the bits of dcsr the controller looks at.    *)
(* Every operator with a primed variable is one clock edge.                *)
(***************************************************************************)
EXTENDS Naturals

VARIABLES
    mstatus_q,      \* [mie, mpie]
    mepc_q,
    mstack_q,       \* [mpie, epc]: mstack_q.mpie and mstack_epc_q
    depc_q,
    dcsr_q          \* [step, ebreak]; ebreak stands for ebreakm and ebreaku

csrVars == <<mstatus_q, mepc_q, mstack_q, depc_q, dcsr_q>>

CsrTypeOK(Pcs) ==
    /\ mstatus_q \in [mie : BOOLEAN, mpie : BOOLEAN]
    /\ mepc_q \in Pcs
    /\ mstack_q \in [mpie : BOOLEAN, epc : Pcs]
    /\ depc_q \in Pcs
    /\ dcsr_q \in [step : BOOLEAN, ebreak : BOOLEAN]

\* csr_save_cause_i without debug_csr_save_i, outside debug mode; in debug
\* mode exceptions leave the registers alone.
SaveTrap(pc, debugMode) ==
    IF debugMode THEN UNCHANGED csrVars
    ELSE /\ mstatus_q' = [mie |-> FALSE, mpie |-> mstatus_q.mie]
         /\ mepc_q' = pc
         /\ mstack_q' = [mpie |-> mstatus_q.mpie, epc |-> mepc_q]
         /\ UNCHANGED <<depc_q, dcsr_q>>

\* csr_save_cause_i with debug_csr_save_i.
SaveDebug(pc) == /\ depc_q' = pc
                 /\ UNCHANGED <<mstatus_q, mepc_q, mstack_q, dcsr_q>>

\* Defect for the model's own test: the NMI's return does not restore mepc.
RestoreMretPlain(nmiMode) ==
    /\ mstatus_q' = [mie |-> mstatus_q.mpie, mpie |-> TRUE]
    /\ UNCHANGED <<mepc_q, mstack_q, depc_q, dcsr_q>>

\* csr_restore_mret_i.
RestoreMret(nmiMode) ==
    /\ mstatus_q' = [mie  |-> mstatus_q.mpie,
                     mpie |-> IF nmiMode THEN mstack_q.mpie ELSE TRUE]
    /\ mepc_q' = IF nmiMode THEN mstack_q.epc ELSE mepc_q
    /\ UNCHANGED <<mstack_q, depc_q, dcsr_q>>

\* What a CSR instruction can make of a register's bits: one that clears
\* bits (CSRRC) sets none.
Written(bits, new, clear) == clear => \A b \in DOMAIN bits : new[b] => bits[b]

WriteMstatus(clear) ==
    /\ mstatus_q' \in {new \in [mie : BOOLEAN, mpie : BOOLEAN] :
                         Written(mstatus_q, new, clear)}
    /\ UNCHANGED <<mepc_q, mstack_q, depc_q, dcsr_q>>

WriteDcsr(clear) ==
    /\ dcsr_q' \in {new \in [step : BOOLEAN, ebreak : BOOLEAN] :
                      Written(dcsr_q, new, clear)}
    /\ UNCHANGED <<mstatus_q, mepc_q, mstack_q, depc_q>>

CsrInit ==
    /\ mstatus_q = [mie |-> FALSE, mpie |-> TRUE]
    /\ mepc_q = 0
    /\ mstack_q = [mpie |-> TRUE, epc |-> 0]
    /\ depc_q = 0
    /\ dcsr_q = [step |-> FALSE, ebreak |-> FALSE]
=============================================================================
