---------------------------- MODULE RegisterModel ----------------------------
(***************************************************************************)
(* The test bench's model of the CSRs (dv/cs_registers/model): a value for *)
(* each register, and what its class does with a transaction.  A word is   *)
(* the set of its one bits.                                                *)
(***************************************************************************)
EXTENDS Integers

CONSTANTS
    PMPNumRegions,      \* 0 stands for a core without PMP
    MHPMCounterNum,
    MHPMCounterWidth,
    Addrs               \* the registers that transactions access

Bits  == 0 .. 31
Words == SUBSET Bits
Ops   == {"Read", "Write", "Set", "Clear"}

\* The registers that transactions may access (csr_listing.def).
CfgBase     == \h3A0
AddrBase    == \h3B0
Inhibit     == \h320
MCycle      == \hB00
MInstret    == \hB02
MCycleH     == \hB80
MInstretH   == \hB82

Cfgs      == CfgBase .. CfgBase + 3
PmpAddrs  == AddrBase .. AddrBase + 15
Events    == Inhibit + 3 .. Inhibit + 31
CountersL == MCycle + 3 .. MCycle + 31
CountersH == MCycleH + 3 .. MCycleH + 31
Listed == Cfgs \union PmpAddrs \union {Inhibit} \union Events
    \union CountersL \union CountersH \union {MCycle, MInstret, MCycleH, MInstretH}

\* The number of regions fills whole configuration registers: with another
\* number register_model.cc:13 leaves out the registers of the last regions.
ASSUME RegisterModelAssumption ==
    /\ PMPNumRegions \in {0, 4, 8, 12, 16}
    /\ MHPMCounterNum \in 0 .. 29
    /\ MHPMCounterWidth \in 1 .. 64
    /\ Addrs \subseteq Listed

VARIABLE register_value_

\* NonImpRegister.
NotImplemented(a) ==
    \/ a \in Cfgs /\ a - CfgBase >= PMPNumRegions \div 4
    \/ a \in PmpAddrs /\ a - AddrBase >= PMPNumRegions
    \/ a \in Events /\ a - Inhibit >= MHPMCounterNum + 3
    \/ a \in CountersL /\ a - MCycle >= MHPMCounterNum + 3
    \/ a \in CountersH /\ a - MCycleH >= MHPMCounterNum + 3

\* Bits of a WARLRegister that keep their value.
RegisterMask(a) ==
    CASE a = Inhibit    -> {b \in Bits : b >= MHPMCounterNum + 3} \union {1}
      [] a \in Events    -> Bits
      [] a \in CountersL -> {b \in Bits : b >= MHPMCounterWidth}
      [] a \in CountersH -> {b \in Bits : b + 32 >= MHPMCounterWidth}
      [] OTHER           -> {}

ResetValue(a) ==
    CASE a = Inhibit -> {b \in Bits : b >= MHPMCounterNum + 3}
      [] a \in Events -> {a - Inhibit}
      [] OTHER        -> {}

RegisterRead(a) ==
    IF a \in Addrs /\ ~NotImplemented(a) THEN register_value_[a] ELSE {}

\* The bits of a byte of a PMP configuration register.
Byte(i)    == 8 * i .. 8 * i + 7
ReadBit(i)  == 8 * i
WriteBit(i) == 8 * i + 1
ExecBit(i)  == 8 * i + 2
ModeBits(i) == {8 * i + 3, 8 * i + 4}
LockBit(i)  == 8 * i + 7
TorBits(i)  == {8 * i + 3}

CfgLockMask(a) ==
    UNION {Byte(i) : i \in {j \in 0 .. 3 : LockBit(j) \in register_value_[a]}}

\* Defect for the model's own test: the next region's mode does not lock.
AddrLockMaskOwn(a) ==
    LET region == a % 16
    IN  IF LockBit(region % 4) \in RegisterRead(CfgBase + region \div 4)
        THEN Bits ELSE {}

\* Locked by the region's own lock bit, or as the base of the next region.
AddrLockMask(a) ==
    LET region == a % 16
        next   == region + 1
    IN  IF \/ LockBit(region % 4) \in RegisterRead(CfgBase + region \div 4)
           \/ RegisterRead(CfgBase + next \div 4) \intersect ModeBits(next % 4)
              = TorBits(next % 4)
        THEN Bits ELSE {}

GetLockMask(a) == CASE a \in Cfgs     -> CfgLockMask(a)
                    [] a \in PmpAddrs -> AddrLockMask(a)
                    [] OTHER          -> RegisterMask(a)

\* What remains of a PMP configuration: the reserved bits are zero, and
\* W without R, a reserved combination, leaves neither.
RazMask == Bits \ UNION {{8 * i + 5, 8 * i + 6} : i \in 0 .. 3}
Reserved(v) == {i \in 0 .. 3 : WriteBit(i) \in v /\ ReadBit(i) \notin v}
Legal(v) == (v \intersect RazMask) \ {WriteBit(i) : i \in Reserved(v)}

\* RegisterWrite, RegisterSet and RegisterClear.
Updated(a, op, wdata) ==
    LET old  == register_value_[a]
        mask == GetLockMask(a)
        new  == CASE op = "Write" -> (old \intersect mask) \union (wdata \ mask)
                  [] op = "Set"   -> old \union (wdata \ mask)
                  [] op = "Clear" -> old \ (wdata \ mask)
    IN  IF a \in Cfgs THEN Legal(new) ELSE new

ProcessTransaction(a, op, wdata) ==
    register_value_' = IF op = "Read" \/ NotImplemented(a) THEN register_value_
                       ELSE [register_value_ EXCEPT ![a] = Updated(a, op, wdata)]

\* The cycle counter counts although no transaction changes it.
RunsByItself(a) == a \in {MCycle, MCycleH}

\* A read value that makes NewTransaction request a stop.
Mismatch(a, rdata) == ~RunsByItself(a) /\ RegisterRead(a) # rdata

RegisterReset == register_value_' = [a \in Addrs |-> ResetValue(a)]

\* The constructor does not apply the reset value.
ModelInit == register_value_ = [a \in Addrs |-> {}]
=============================================================================
