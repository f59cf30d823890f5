------------------------------ MODULE MCCsBench ------------------------------
(***************************************************************************)
(* The instance of CsBench that TLC checks: three sets of transactions.    *)
(* Eight regions and one event counter; the write data has the bits that   *)
(* the registers treat differently from each other.                        *)
(***************************************************************************)
EXTENDS CsBench

\* Region 3, the last of its configuration register: its lock bit and its
\* permissions, a reserved bit, and the mode of region 4 in the next register.
AcrossRegisters ==
    [a \in {CfgBase, CfgBase + 1, AddrBase + 3} |->
        CASE a = CfgBase     -> {{24, 25}, {24}, {25, 29}, {31}}
          [] a = CfgBase + 1 -> {{3}, {4}}
          [] OTHER           -> {{0}}]

\* Regions 6 and 7, the last one, and registers of a region that is missing.
LastRegion ==
    [a \in {CfgBase + 1, AddrBase + 6, AddrBase + 7, CfgBase + 2, AddrBase + 8} |->
        IF a = CfgBase + 1 THEN {{27}, {28}, {31}, {23, 19}} ELSE {{0}}]

\* Counters of 64 and of 40 bits, one that is missing, and their control.
CounterCsrs ==
    [a \in {Inhibit, Inhibit + 3, Inhibit + 4, MCycle, MInstret, MCycle + 3,
            MCycleH + 3, MCycle + 4} |->
        CASE a = Inhibit     -> {{0, 1}, {2, 3, 4}}
          [] a = MCycleH + 3 -> {{7, 8}}
          [] OTHER           -> {{4}}]

MCWdata == {AcrossRegisters, LastRegion, CounterCsrs}
MCAddrs == UNION {DOMAIN w : w \in MCWdata}
=============================================================================
