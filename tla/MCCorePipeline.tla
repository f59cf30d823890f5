--------------------------- MODULE MCCorePipeline ---------------------------
(***************************************************************************)
(* Instances of CorePipeline: programs of a few addresses, every           *)
(* instruction of any of the chosen kinds each time it is fetched.         *)
(***************************************************************************)
EXTENDS CorePipeline

\* Branches and jumps go two addresses on.
MCTarget == [pc \in Pcs |-> (pc + 2) % NPcs]

Workload(kinds, errs, raised, holds) ==
    [kinds |-> kinds, fetchErrs |-> errs, lines |-> raised, holds |-> holds]

\* Lines that come and go, without accesses.
Interrupted == Workload({"alu", "muldiv", "branch", "jump", "mret", "mstatus",
                         "wfi", "ecall"}, {FALSE}, {"nmi", "irq"}, FALSE)
\* Everything that takes several cycles or fails, without lines.
Long == Workload({"alu", "alu2", "muldiv", "load", "store", "jump", "illegal"},
                 BOOLEAN, {}, FALSE)
\* Halt requests, single steps and EBREAKs, against NMIs.
Debugged == Workload({"alu2", "branch", "ebreak", "dret", "dcsr", "wfi"},
                     {FALSE}, {"debug", "nmi"}, TRUE)
\* What may keep an NMI waiting.
Starving == Workload({"muldiv", "load", "wfi", "ecall", "mret"},
                     {FALSE}, {"nmi"}, TRUE)

MCWorkloads == {Interrupted, Long, Debugged}
MCStarving  == {Starving}
MCLoads     == {Workload({"alu", "load"}, {FALSE}, {"nmi"}, TRUE)}
MCEbreaks   == {Workload({"alu", "ebreak", "dret", "dcsr"}, {FALSE}, {"debug"},
                         TRUE)}
=============================================================================
