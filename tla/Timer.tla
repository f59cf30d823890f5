------------------------------- MODULE Timer -------------------------------
(***************************************************************************)
(* The timer of the simple system (shared/rtl/timer.sv) and the cycle      *)
(* counter of the core (rtl/ibex_counters.sv): numbers of two words that a *)
(* program sees and changes one word at a time.                            *)
(***************************************************************************)
EXTENDS Naturals

CONSTANT B      \* values of a word (2^32 in the code)

ASSUME TimerAssumption == B \in Nat \ {0, 1}

VARIABLES mtime_q, mtimecmp_q, interrupt_q

timerVars == <<mtime_q, mtimecmp_q, interrupt_q>>

Low(x)     == x % B
High(x)    == x \div B
Join(h, l) == B * h + l

\* An access on the bus in a cycle: to a register, a write or a read.
Write(reg, val) == [reg |-> reg, we |-> TRUE, wdata |-> val]
NoAccess        == [reg |-> "none", we |-> FALSE, wdata |-> 0]
Writes(a, reg)  == a.we /\ a.reg = reg

\* What a read of a register returns.
Rdata(reg) == CASE reg = "MTIME"  -> Low(mtime_q)
                [] reg = "MTIMEH" -> High(mtime_q)

MtimecmpWritten(a) == Writes(a, "MTIMECMP") \/ Writes(a, "MTIMECMPH")

MtimecmpD(a) ==
    Join(IF Writes(a, "MTIMECMPH") THEN a.wdata ELSE High(mtimecmp_q),
         IF Writes(a, "MTIMECMP")  THEN a.wdata ELSE Low(mtimecmp_q))

\* Defects for the model's own test: writing mtimecmp leaves a request up; the
\* comparison notices the deadline itself only.
InterruptDSticky(a) == mtime_q >= mtimecmp_q \/ interrupt_q
InterruptDEqual(a) ==
    (mtime_q = mtimecmp_q \/ interrupt_q) /\ ~MtimecmpWritten(a)

\* The interrupt stays up until mtimecmp is written.
InterruptD(a) == (mtime_q >= mtimecmp_q \/ interrupt_q) /\ ~MtimecmpWritten(a)

\* A clock cycle.  The program never writes mtime.
TimerClock(a) ==
    /\ mtime_q' = mtime_q + 1
    /\ mtimecmp_q' = IF MtimecmpWritten(a) THEN MtimecmpD(a) ELSE mtimecmp_q
    /\ interrupt_q' = InterruptD(a)

-----------------------------------------------------------------------------
(* A performance counter: a write to a half wins over an increment.        *)

CounterD(c, a, reg, regh, inc) ==
    CASE Writes(a, regh) -> Join(a.wdata, Low(c))
      [] Writes(a, reg)  -> Join(High(c), a.wdata)
      [] OTHER           -> IF inc THEN c + 1 ELSE c
=============================================================================
