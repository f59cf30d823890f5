----------------------------- MODULE CsRegisters -----------------------------
(***************************************************************************)
(* The PMP and counter CSRs of rtl/ibex_cs_registers.sv in the test bench: *)
(* what an access reads and what it writes.  PMPGranularity is 0, and the  *)
(* events that the counters count are not connected.                       *)
(***************************************************************************)
EXTENDS RegisterModel

CONSTANT CycleWords         \* values that a read of the cycle counter may find

ASSUME CsRegistersAssumption == CycleWords \subseteq Words
VARIABLES
    pmp_cfg, pmp_addr,      \* for each region
    mcountinhibit_q,
    mhpmcounter             \* minstret (2) and the counters from 3 on

rtlVars == <<pmp_cfg, pmp_addr, mcountinhibit_q, mhpmcounter>>

Regions  == 0 .. PMPNumRegions - 1
Counters == {2} \union 3 .. MHPMCounterNum + 2
Width(c) == IF c = 2 THEN 64 ELSE MHPMCounterWidth

-----------------------------------------------------------------------------
(* Reads.                                                                  *)

\* A configuration as it reads in byte i of its register.
CfgBits(cfg, i) ==
    (IF cfg.lock  THEN {LockBit(i)}  ELSE {}) \union {8 * i + b : b \in cfg.mode} \union
    (IF cfg.exec  THEN {ExecBit(i)}  ELSE {}) \union
    (IF cfg.write THEN {WriteBit(i)} ELSE {}) \union
    (IF cfg.read  THEN {ReadBit(i)}  ELSE {})

ImplementedInhibit == 0 .. MHPMCounterNum + 2

\* csr_rdata_o, as the set of values it may have.
Rdata(a) ==
    CASE a \in Cfgs ->
             {UNION {CfgBits(pmp_cfg[r], r % 4) : r \in {r \in Regions : r \div 4 = a - CfgBase}}}
      [] a \in PmpAddrs ->
             {IF a - AddrBase \in Regions THEN pmp_addr[a - AddrBase] ELSE {}}
      [] a = Inhibit -> {mcountinhibit_q \union (Bits \ ImplementedInhibit)}
      [] a \in Events ->
             {IF a - Inhibit < MHPMCounterNum + 3 THEN {a - Inhibit} ELSE {}}
      [] a \in {MCycle, MCycleH} -> CycleWords
      [] a \in {MInstret} \union CountersL ->
             {IF a - MCycle \in Counters THEN mhpmcounter[a - MCycle].lo ELSE {}}
      [] a \in {MInstretH} \union CountersH ->
             {IF a - MCycleH \in Counters THEN mhpmcounter[a - MCycleH].hi ELSE {}}

-----------------------------------------------------------------------------
(* Writes.                                                                 *)

\* csr_wdata_int, from what the register reads.
WdataInt(op, wdata, rdata) == CASE op = "Write" -> wdata
                                [] op = "Set"   -> wdata \union rdata
                                [] op = "Clear" -> rdata \ wdata

\* Byte i of a word as a configuration.
CfgOf(w, i) == [lock  |-> LockBit(i) \in w,
                mode  |-> {b \in {3, 4} : 8 * i + b \in w},
                exec  |-> ExecBit(i) \in w,
                write |-> {ReadBit(i), WriteBit(i)} \subseteq w,
                read  |-> ReadBit(i) \in w]

Tor == {3}

CfgWritten(a, r)  == a = CfgBase + r \div 4 /\ ~pmp_cfg[r].lock
AddrWritten(a, r) == /\ a = AddrBase + r /\ ~pmp_cfg[r].lock
                     /\ r + 1 \in Regions => pmp_cfg[r + 1].mode # Tor

\* The bits that a counter has.
Low32(w, c)  == {b \in w : b < Width(c)}
High32(w, c) == {b \in w : b + 32 < Width(c)}

RtlWrite(a, w) ==
    /\ pmp_cfg' = [r \in Regions |->
                      IF CfgWritten(a, r) THEN CfgOf(w, r % 4) ELSE pmp_cfg[r]]
    /\ pmp_addr' = [r \in Regions |-> IF AddrWritten(a, r) THEN w ELSE pmp_addr[r]]
    /\ mcountinhibit_q' = IF a = Inhibit THEN (w \intersect ImplementedInhibit) \ {1}
                                         ELSE mcountinhibit_q
    /\ mhpmcounter' = [c \in Counters |->
           CASE a = MCycle + c  -> [mhpmcounter[c] EXCEPT !.lo = Low32(w, c)]
             [] a = MCycleH + c -> [mhpmcounter[c] EXCEPT !.hi = High32(w, c)]
             [] OTHER           -> mhpmcounter[c]]

CfgOff == [lock |-> FALSE, mode |-> {}, exec |-> FALSE, write |-> FALSE, read |-> FALSE]

RtlReset == /\ pmp_cfg' = [r \in Regions |-> CfgOff]
            /\ pmp_addr' = [r \in Regions |-> {}]
            /\ mcountinhibit_q' = {}
            /\ mhpmcounter' = [c \in Counters |-> [lo |-> {}, hi |-> {}]]

\* Before the first reset, with the simulator's default for registers.
RtlInit == /\ pmp_cfg = [r \in Regions |-> CfgOff]
           /\ pmp_addr = [r \in Regions |-> {}]
           /\ mcountinhibit_q = {}
           /\ mhpmcounter = [c \in Counters |-> [lo |-> {}, hi |-> {}]]
=============================================================================
