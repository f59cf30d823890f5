---------------------------- MODULE CsBenchProofs ----------------------------
(***************************************************************************)
(* Theorems about the test bench of the CSRs, for every number of PMP      *)
(* regions and counters, every counter width, every selection of registers *)
(* and every set of transactions.                                          *)
(***************************************************************************)
EXTENDS CsBench, TLAPS

-----------------------------------------------------------------------------
(* The classes of registers.                                               *)

Lows  == {MInstret} \cup CountersL
Highs == {MInstretH} \cup CountersH

\* What a read of a PMP configuration register returns.
CfgWord(a) ==
    UNION {CfgBits(pmp_cfg[r], r % 4) : r \in {r \in Regions : r \div 4 = a - CfgBase}}

LEMMA Classes ==
    /\ \A a \in Addrs \ {MCycle, MCycleH} :
          a \in Cfgs \/ a \in PmpAddrs \/ a = Inhibit \/ a \in Events
             \/ a \in Lows \/ a \in Highs
    /\ \A a \in Cfgs : a \notin PmpAddrs \cup {Inhibit} \cup Events \cup Lows \cup Highs
    /\ \A a \in PmpAddrs : a \notin {Inhibit} \cup Events \cup Lows \cup Highs
    /\ Inhibit \notin Cfgs \cup PmpAddrs \cup Events \cup Lows \cup Highs
    /\ \A a \in Events : a \notin Lows \cup Highs
    /\ \A a \in Lows : a \notin Highs
    /\ {MCycle, MCycleH} \cap (Cfgs \cup PmpAddrs \cup {Inhibit} \cup Events \cup Lows \cup Highs) = {}
<1>1. \A a \in Addrs \ {MCycle, MCycleH} :
          a \in Cfgs \/ a \in PmpAddrs \/ a = Inhibit \/ a \in Events
             \/ a \in Lows \/ a \in Highs
  BY RegisterModelAssumption DEF Listed, Lows, Highs
<1> QED
  BY <1>1 DEF Cfgs, PmpAddrs, Events, Lows, Highs, CountersL, CountersH, CfgBase, AddrBase,
     Inhibit, MCycle, MInstret, MCycleH, MInstretH

\* What the registers read, class by class.
ReadsAs(a) ==
    /\ a \in Cfgs => Rdata(a) = {CfgWord(a)}
    /\ a \in PmpAddrs => Rdata(a) =
          {IF a - AddrBase \in Regions THEN pmp_addr[a - AddrBase] ELSE {}}
    /\ a = Inhibit => Rdata(a) = {mcountinhibit_q \union (Bits \ ImplementedInhibit)}
    /\ a \in Events => Rdata(a) =
          {IF a - Inhibit < MHPMCounterNum + 3 THEN {a - Inhibit} ELSE {}}
    /\ a \in Lows => Rdata(a) =
          {IF a - MCycle \in Counters THEN mhpmcounter[a - MCycle].lo ELSE {}}
    /\ a \in Highs => Rdata(a) =
          {IF a - MCycleH \in Counters THEN mhpmcounter[a - MCycleH].hi ELSE {}}

LEMMA Reads == \A a : ReadsAs(a)
<1> SUFFICES ASSUME NEW a
             PROVE  ReadsAs(a)
  OBVIOUS
<1> DEFINE cfg == {CfgWord(a)}
           addr == {IF a - AddrBase \in Regions THEN pmp_addr[a - AddrBase] ELSE {}}
           inhibit == {mcountinhibit_q \union (Bits \ ImplementedInhibit)}
           event == {IF a - Inhibit < MHPMCounterNum + 3 THEN {a - Inhibit} ELSE {}}
           low == {IF a - MCycle \in Counters THEN mhpmcounter[a - MCycle].lo ELSE {}}
           high == {IF a - MCycleH \in Counters THEN mhpmcounter[a - MCycleH].hi ELSE {}}
<1>1. Rdata(a) = CASE a \in Cfgs -> cfg
                   [] a \in PmpAddrs -> addr
                   [] a = Inhibit -> inhibit
                   [] a \in Events -> event
                   [] a \in {MCycle, MCycleH} -> CycleWords
                   [] a \in Lows -> low
                   [] a \in Highs -> high
  BY DEF Rdata, CfgWord, Lows, Highs
<1> HIDE DEF cfg, addr, inhibit, event, low, high
<1>2. a \in Cfgs => Rdata(a) = cfg
  BY <1>1, Classes, Zenon
<1>3. a \in PmpAddrs => Rdata(a) = addr
  BY <1>1, Classes, Zenon
<1>4. a = Inhibit => Rdata(a) = inhibit
  BY <1>1, Classes, Zenon
<1>5. a \in Events => Rdata(a) = event
  BY <1>1, Classes, Zenon
<1>6. a \in Lows => Rdata(a) = low
  BY <1>1, Classes, Zenon
<1>7. a \in Highs => Rdata(a) = high
  BY <1>1, Classes, Zenon
<1> QED
  BY <1>2, <1>3, <1>4, <1>5, <1>6, <1>7 DEF ReadsAs, cfg, addr, inhibit, event, low, high

\* And in the next state.
LEMMA ReadsNext == (\A a : ReadsAs(a))'
BY Reads, PTL

\* The bits that a class keeps, and what a reset makes of it.
LEMMA Masks ==
    ASSUME NEW a
    PROVE  /\ a \in Cfgs => GetLockMask(a) = CfgLockMask(a)
           /\ a \in PmpAddrs => GetLockMask(a) = AddrLockMask(a)
           /\ a = Inhibit => GetLockMask(a)
                                = {b \in Bits : b >= MHPMCounterNum + 3} \union {1}
           /\ a \in Events => GetLockMask(a) = Bits
           /\ a \in CountersL => GetLockMask(a) = {b \in Bits : b >= MHPMCounterWidth}
           /\ a \in CountersH => GetLockMask(a)
                                    = {b \in Bits : b + 32 >= MHPMCounterWidth}
           /\ a \in {MInstret, MInstretH, MCycle, MCycleH} => GetLockMask(a) = {}
<1> DEFINE inhibit == {b \in Bits : b >= MHPMCounterNum + 3} \union {1}
           low == {b \in Bits : b >= MHPMCounterWidth}
           high == {b \in Bits : b + 32 >= MHPMCounterWidth}
           cfg == CfgLockMask(a)
           addr == AddrLockMask(a)
<1>1. RegisterMask(a) = CASE a = Inhibit -> inhibit
                          [] a \in Events -> Bits
                          [] a \in CountersL -> low
                          [] a \in CountersH -> high
                          [] OTHER -> {}
  BY DEF RegisterMask
<1>2. GetLockMask(a) = CASE a \in Cfgs -> cfg
                         [] a \in PmpAddrs -> addr
                         [] OTHER -> RegisterMask(a)
  BY DEF GetLockMask
<1> HIDE DEF inhibit, low, high, cfg, addr
<1>3. /\ a \in CountersL => a \in Lows
      /\ a \in CountersH => a \in Highs
      /\ a \in {MInstret, MInstretH, MCycle, MCycleH} =>
            /\ a \notin Cfgs /\ a \notin PmpAddrs /\ a # Inhibit /\ a \notin Events
            /\ a \notin CountersL /\ a \notin CountersH
  BY DEF Lows, Highs, Cfgs, PmpAddrs, Events, CountersL, CountersH, CfgBase, AddrBase,
     Inhibit, MCycle, MInstret, MCycleH, MInstretH
<1>4. /\ a \in Cfgs => GetLockMask(a) = cfg
      /\ a \in PmpAddrs => GetLockMask(a) = addr
      /\ a \notin Cfgs /\ a \notin PmpAddrs => GetLockMask(a) = RegisterMask(a)
  BY <1>2, Classes, Zenon
<1>5. /\ a = Inhibit => RegisterMask(a) = inhibit
      /\ a \in Events => RegisterMask(a) = Bits
      /\ a \in CountersL => RegisterMask(a) = low
      /\ a \in CountersH => RegisterMask(a) = high
      /\ a \notin Events \cup CountersL \cup CountersH \cup {Inhibit}
            => RegisterMask(a) = {}
  <2>1. a = Inhibit => RegisterMask(a) = inhibit
    BY <1>1, <1>3, Classes, Zenon
  <2>2. a \in Events => RegisterMask(a) = Bits
    BY <1>1, <1>3, Classes, Zenon
  <2>3. a \in CountersL => RegisterMask(a) = low
    BY <1>1, <1>3, Classes, Zenon
  <2>4. a \in CountersH => RegisterMask(a) = high
    BY <1>1, <1>3, Classes, Zenon
  <2>5. a \notin Events \cup CountersL \cup CountersH \cup {Inhibit}
            => RegisterMask(a) = {}
    BY <1>1, Zenon
  <2> QED
    BY <2>1, <2>2, <2>3, <2>4, <2>5, Zenon
<1>6. /\ a = Inhibit => a \notin Cfgs /\ a \notin PmpAddrs
      /\ a \in Events => a \notin Cfgs /\ a \notin PmpAddrs
      /\ a \in CountersL => a \notin Cfgs /\ a \notin PmpAddrs
      /\ a \in CountersH => a \notin Cfgs /\ a \notin PmpAddrs
  BY <1>3, Classes
<1> QED
  BY <1>3, <1>4, <1>5, <1>6 DEF inhibit, low, high, cfg, addr

LEMMA ResetValues ==
    ASSUME NEW a
    PROVE  /\ a = Inhibit => ResetValue(a) = {b \in Bits : b >= MHPMCounterNum + 3}
           /\ a \in Events => ResetValue(a) = {a - Inhibit}
           /\ a # Inhibit /\ a \notin Events => ResetValue(a) = {}
<1> DEFINE inhibit == {b \in Bits : b >= MHPMCounterNum + 3}
           event == {a - Inhibit}
<1>1. ResetValue(a) = CASE a = Inhibit -> inhibit
                        [] a \in Events -> event
                        [] OTHER -> {}
  BY DEF ResetValue
<1> HIDE DEF inhibit, event
<1>2. /\ a = Inhibit => ResetValue(a) = inhibit
      /\ a \in Events => ResetValue(a) = event
      /\ a # Inhibit /\ a \notin Events => ResetValue(a) = {}
  BY <1>1, Classes, Zenon
<1> QED
  BY <1>2 DEF inhibit, event

\* Both sides compute the same word, but for the bits that the model keeps.
LEMMA Updates ==
    ASSUME NEW a, NEW op \in {"Write", "Set", "Clear"}, NEW w
    PROVE  LET old  == register_value_[a]
               mask == GetLockMask(a)
               new  == (old \cap mask) \cup (WdataInt(op, w, old) \ mask)
           IN  Updated(a, op, w) = IF a \in Cfgs THEN Legal(new) ELSE new
<1> DEFINE old  == register_value_[a]
           mask == GetLockMask(a)
           new  == (old \cap mask) \cup (WdataInt(op, w, old) \ mask)
           raw  == CASE op = "Write" -> (old \intersect mask) \union (w \ mask)
                     [] op = "Set"   -> old \union (w \ mask)
                     [] op = "Clear" -> old \ (w \ mask)
<1>1. Updated(a, op, w) = IF a \in Cfgs THEN Legal(raw) ELSE raw
  BY DEF Updated
<1>2. raw = new
  <2> HIDE DEF old, mask
  <2>1. CASE op = "Write"
    <3>1. raw = (old \intersect mask) \union (w \ mask) /\ WdataInt(op, w, old) = w
      BY <2>1, Zenon DEF WdataInt
    <3> QED
      BY <3>1
  <2>2. CASE op = "Set"
    <3>1. raw = old \union (w \ mask) /\ WdataInt(op, w, old) = w \union old
      BY <2>2, Zenon DEF WdataInt
    <3> QED
      BY <3>1
  <2>3. CASE op = "Clear"
    <3>1. raw = old \ (w \ mask) /\ WdataInt(op, w, old) = old \ w
      BY <2>3, Zenon DEF WdataInt
    <3> QED
      BY <3>1
  <2> QED
    BY <2>1, <2>2, <2>3
<1> QED
  BY <1>1, <1>2, Zenon

-----------------------------------------------------------------------------
(* The configurations of PMP regions, bit by bit.                          *)

CfgType == [lock : BOOLEAN, mode : SUBSET {3, 4}, exec : BOOLEAN, write : BOOLEAN,
            read : BOOLEAN]

RtlTypes ==
    /\ pmp_cfg \in [Regions -> CfgType] /\ pmp_addr \in [Regions -> Words]
    /\ mcountinhibit_q \in Words
    /\ mhpmcounter \in [Counters -> [lo : Words, hi : Words]]

\* Regions are the bytes of the configuration registers.
LEMMA RegionBytes ==
    /\ Regions \subseteq 0 .. 15
    /\ \A r \in Regions :
          /\ r % 4 \in 0 .. 3 /\ r \div 4 \in 0 .. 3
          /\ r \div 4 < PMPNumRegions \div 4
    /\ \A k \in 0 .. 3, i \in 0 .. 3 :
          /\ (4 * k + i) % 4 = i /\ (4 * k + i) \div 4 = k
          /\ k < PMPNumRegions \div 4 => 4 * k + i \in Regions
    /\ \A r \in Regions, k \in 0 .. 3, i \in 0 .. 3 :
          r \div 4 = k /\ r % 4 = i => r = 4 * k + i
<1>1. PMPNumRegions \in {0, 4, 8, 12, 16}
  BY RegisterModelAssumption
<1>2. Regions \subseteq 0 .. 15
  BY <1>1 DEF Regions
<1>3. \A r \in Regions : /\ r % 4 \in 0 .. 3 /\ r \div 4 \in 0 .. 3
                         /\ r \div 4 < PMPNumRegions \div 4
  BY <1>1 DEF Regions
<1>4. \A k \in 0 .. 3, i \in 0 .. 3 :
          /\ (4 * k + i) % 4 = i /\ (4 * k + i) \div 4 = k
          /\ k < PMPNumRegions \div 4 => 4 * k + i \in Regions
  BY <1>1 DEF Regions
<1>5. \A r \in 0 .. 15, k \in 0 .. 3, i \in 0 .. 3 :
          r \div 4 = k /\ r % 4 = i => r = 4 * k + i
  <2> SUFFICES ASSUME NEW r \in 0 .. 15, NEW k \in 0 .. 3, NEW i \in 0 .. 3,
                      r \div 4 = k, r % 4 = i
               PROVE  r = 4 * k + i
    OBVIOUS
  <2>1. \/ r = 0 \/ r = 1 \/ r = 2 \/ r = 3 \/ r = 4 \/ r = 5 \/ r = 6 \/ r = 7 \/ r = 8
        \/ r = 9 \/ r = 10 \/ r = 11 \/ r = 12 \/ r = 13 \/ r = 14 \/ r = 15
    OBVIOUS
  <2> QED
    BY <2>1
<1> QED
  BY <1>2, <1>3, <1>4, <1>5

\* The bits of a configuration in byte i.
LEMMA CfgBitsAre ==
    ASSUME NEW cfg \in CfgType, NEW i \in 0 .. 3, NEW x
    PROVE  x \in CfgBits(cfg, i) <=>
               \/ x = 8 * i + 7 /\ cfg.lock
               \/ x = 8 * i + 2 /\ cfg.exec
               \/ x = 8 * i + 1 /\ cfg.write
               \/ x = 8 * i /\ cfg.read
               \/ x = 8 * i + 3 /\ 3 \in cfg.mode
               \/ x = 8 * i + 4 /\ 4 \in cfg.mode
<1>1. cfg.mode \subseteq {3, 4}
  BY DEF CfgType
<1>2. x \in {8 * i + b : b \in cfg.mode} <=>
          (x = 8 * i + 3 /\ 3 \in cfg.mode) \/ (x = 8 * i + 4 /\ 4 \in cfg.mode)
  BY <1>1
<1>3. x \in (IF cfg.lock THEN {LockBit(i)} ELSE {}) <=> x = 8 * i + 7 /\ cfg.lock
  BY DEF LockBit
<1>4. x \in (IF cfg.exec THEN {ExecBit(i)} ELSE {}) <=> x = 8 * i + 2 /\ cfg.exec
  BY DEF ExecBit
<1>5. x \in (IF cfg.write THEN {WriteBit(i)} ELSE {}) <=> x = 8 * i + 1 /\ cfg.write
  BY DEF WriteBit
<1>6. x \in (IF cfg.read THEN {ReadBit(i)} ELSE {}) <=> x = 8 * i /\ cfg.read
  BY DEF ReadBit
<1> QED
  BY <1>2, <1>3, <1>4, <1>5, <1>6 DEF CfgBits

\* A register's value is made of the bytes of its regions.
CfgAsBytes ==
    /\ \A a \in Cfgs : CfgWord(a) \subseteq Bits
    /\ \A a \in Cfgs : \A x \in CfgWord(a) : \E r \in Regions :
          r \div 4 = a - CfgBase /\ x \in Byte(r % 4)
    /\ \A r \in Regions : \A x \in Byte(r % 4) :
          x \in CfgWord(CfgBase + r \div 4) <=> x \in CfgBits(pmp_cfg[r], r % 4)

LEMMA WordsOfBytes == RtlTypes => CfgAsBytes
<1> SUFFICES ASSUME RtlTypes
             PROVE  CfgAsBytes
  OBVIOUS
<1>1. \A r \in Regions : pmp_cfg[r] \in CfgType /\ r % 4 \in 0 .. 3
  BY RegionBytes DEF RtlTypes
<1>2. \A r \in Regions : \A x \in CfgBits(pmp_cfg[r], r % 4) :
          x \in Byte(r % 4) /\ x \in Bits
  BY <1>1, CfgBitsAre DEF Byte, Bits
<1>3. \A a, x : x \in CfgWord(a) <=> \E r \in Regions :
          r \div 4 = a - CfgBase /\ x \in CfgBits(pmp_cfg[r], r % 4)
  BY DEF CfgWord
<1>4. ASSUME NEW r \in Regions, NEW x \in Byte(r % 4), NEW s \in Regions,
             s \div 4 = (CfgBase + r \div 4) - CfgBase, x \in CfgBits(pmp_cfg[s], s % 4)
      PROVE  s = r
  <2>1. x \in Byte(s % 4)
    BY <1>2, <1>4
  <2>2. s % 4 \in 0 .. 3 /\ r % 4 \in 0 .. 3 /\ r \div 4 \in 0 .. 3
    BY RegionBytes
  <2>3. s % 4 = r % 4
    BY <1>4, <2>1, <2>2 DEF Byte
  <2>4. s \div 4 = r \div 4
    BY <1>4, <2>2 DEF CfgBase
  <2> QED
    BY <2>2, <2>3, <2>4, RegionBytes
<1>5. ASSUME NEW r \in Regions
      PROVE  r \div 4 = (CfgBase + r \div 4) - CfgBase
  BY RegionBytes DEF CfgBase
<1>6. \A r \in Regions : \A x \in Byte(r % 4) :
          x \in CfgWord(CfgBase + r \div 4) <=> x \in CfgBits(pmp_cfg[r], r % 4)
  BY <1>3, <1>4, <1>5
<1> QED
  BY <1>2, <1>3, <1>6 DEF CfgAsBytes

LEMMA WordsOfBytesNext == RtlTypes' => CfgAsBytes'
BY WordsOfBytes, PTL

\* The legal words, byte by byte.
LEMMA LegalBits ==
    ASSUME NEW i \in 0 .. 3, NEW x \in Byte(i), NEW w
    PROVE  x \in Legal(w) <=> /\ x \in w /\ x # 8 * i + 5 /\ x # 8 * i + 6
                              /\ x = 8 * i + 1 => 8 * i \in w
<1>1. x \in RazMask <=> x # 8 * i + 5 /\ x # 8 * i + 6
  <2>1. x \in Bits
    BY DEF Byte, Bits
  <2>2. x \in UNION {{8 * j + 5, 8 * j + 6} : j \in 0 .. 3}
            <=> \E j \in 0 .. 3 : x = 8 * j + 5 \/ x = 8 * j + 6
    OBVIOUS
  <2>3. (\E j \in 0 .. 3 : x = 8 * j + 5 \/ x = 8 * j + 6)
            <=> x = 8 * i + 5 \/ x = 8 * i + 6
    BY DEF Byte
  <2> QED
    BY <2>1, <2>2, <2>3 DEF RazMask
<1>2. x \in {WriteBit(j) : j \in Reserved(w)}
          <=> x = 8 * i + 1 /\ 8 * i + 1 \in w /\ 8 * i \notin w
  <2>1. x \in {WriteBit(j) : j \in Reserved(w)}
            <=> \E j \in 0 .. 3 : x = 8 * j + 1 /\ 8 * j + 1 \in w /\ 8 * j \notin w
    BY DEF WriteBit, ReadBit, Reserved
  <2>2. \A j \in 0 .. 3 : x = 8 * j + 1 => j = i
    BY DEF Byte
  <2> QED
    BY <2>1, <2>2
<1> QED
  BY <1>1, <1>2 DEF Legal

-----------------------------------------------------------------------------
(* Agreement of the registers and the model.                               *)

\* Bits that the registers never have.
RtlOk ==
    /\ \A r \in Regions : /\ pmp_cfg[r].write => pmp_cfg[r].read
                          /\ CfgBase + r \div 4 \notin Addrs => pmp_cfg[r] = CfgOff
    /\ mcountinhibit_q \subseteq ImplementedInhibit \ {1}
    /\ \A c \in Counters : /\ mhpmcounter[c].lo \subseteq {b \in Bits : b < Width(c)}
                           /\ mhpmcounter[c].hi \subseteq {b \in Bits : b + 32 < Width(c)}

\* The model shows m and the registers read as it does.
Shown(m, a) == IF NotImplemented(a) THEN {} ELSE m[a]
Compared    == Addrs \ {MCycle, MCycleH}
Agrees(m)   == \A a \in Compared : Rdata(a) = {Shown(m, a)}

LEMMA Implemented ==
    ASSUME NEW a
    PROVE  /\ a \in Cfgs => (NotImplemented(a) <=> a - CfgBase >= PMPNumRegions \div 4)
           /\ a \in PmpAddrs => (NotImplemented(a) <=> a - AddrBase \notin Regions)
           /\ a = Inhibit => ~NotImplemented(a)
           /\ a \in Events => (NotImplemented(a) <=> a - Inhibit >= MHPMCounterNum + 3)
           /\ a \in Lows => (NotImplemented(a) <=> a - MCycle \notin Counters)
           /\ a \in Highs => (NotImplemented(a) <=> a - MCycleH \notin Counters)
<1>1. PMPNumRegions \in Nat /\ MHPMCounterNum \in 0 .. 29
  BY RegisterModelAssumption
<1>2. /\ a \in Cfgs => (NotImplemented(a) <=> a - CfgBase >= PMPNumRegions \div 4)
      /\ a = Inhibit => ~NotImplemented(a)
  BY Classes DEF NotImplemented, Lows, Highs
<1>3. a \in PmpAddrs => (NotImplemented(a) <=> a - AddrBase \notin Regions)
  BY <1>1, Classes DEF NotImplemented, Lows, Highs, Regions, PmpAddrs, AddrBase
<1>4. a \in Events => (NotImplemented(a) <=> a - Inhibit >= MHPMCounterNum + 3)
  BY Classes DEF NotImplemented, Lows, Highs
<1>5. a \in Lows => (NotImplemented(a) <=> a - MCycle \notin Counters)
  <2>1. a \in Lows => (NotImplemented(a) <=> a \in CountersL /\ a - MCycle >= MHPMCounterNum + 3)
    BY Classes DEF NotImplemented, Lows, Highs
  <2> QED
    BY <1>1, <2>1 DEF Lows, CountersL, MInstret, MCycle, Counters
<1>6. a \in Highs => (NotImplemented(a) <=> a - MCycleH \notin Counters)
  <2>1. a \in Highs => (NotImplemented(a) <=> a \in CountersH /\ a - MCycleH >= MHPMCounterNum + 3)
    BY Classes DEF NotImplemented, Lows, Highs
  <2> QED
    BY <1>1, <2>1 DEF Highs, CountersH, MInstretH, MCycleH, Counters
<1> QED
  BY <1>2, <1>3, <1>4, <1>5, <1>6

\* What the model knows of a region's configuration.
LEMMA ConfigShown ==
    ASSUME RtlTypes, RtlOk, Agrees(register_value_), NEW r \in Regions
    PROVE  \A x \in Byte(r % 4) :
              x \in RegisterRead(CfgBase + r \div 4) <=> x \in CfgBits(pmp_cfg[r], r % 4)
<1> DEFINE a == CfgBase + r \div 4
<1>1. r \div 4 \in 0 .. 3 /\ r % 4 \in 0 .. 3 /\ r \div 4 < PMPNumRegions \div 4
  BY RegionBytes
<1>2. a \in Cfgs /\ a - CfgBase = r \div 4
  BY <1>1 DEF Cfgs, CfgBase
<1>3. ~NotImplemented(a)
  <2>1. NotImplemented(a) <=> r \div 4 >= PMPNumRegions \div 4
    BY <1>2, Implemented
  <2>2. PMPNumRegions \div 4 \in Nat
    BY RegisterModelAssumption
  <2> QED
    BY <1>1, <2>1, <2>2
<1>4. CASE a \in Addrs
  <2>1. RegisterRead(a) = CfgWord(a)
    <3>1. a \in Compared
      BY <1>2, <1>4, Classes DEF Compared
    <3>2. Rdata(a) = {CfgWord(a)}
      BY <1>2, Reads DEF ReadsAs
    <3>3. Rdata(a) = {register_value_[a]}
      BY <1>3, <3>1 DEF Agrees, Shown
    <3> QED
      BY <1>3, <1>4, <3>2, <3>3 DEF RegisterRead
  <2> QED
    BY <2>1, WordsOfBytes DEF CfgAsBytes
<1>5. CASE a \notin Addrs
  <2>1. RegisterRead(a) = {} /\ pmp_cfg[r] = CfgOff
    BY <1>5 DEF RegisterRead, RtlOk
  <2>2. CfgOff \in CfgType /\ ~CfgOff.lock /\ CfgOff.mode = {} /\ ~CfgOff.exec
        /\ ~CfgOff.write /\ ~CfgOff.read
    BY DEF CfgOff, CfgType
  <2>3. \A x : x \notin CfgBits(CfgOff, r % 4)
    BY <1>1, <2>2, CfgBitsAre
  <2> QED
    BY <2>1, <2>3
<1> QED
  BY <1>4, <1>5

\* The model locks an address register when the registers do.
LEMMA AddrLocked ==
    ASSUME RtlTypes, RtlOk, Agrees(register_value_), NEW a \in PmpAddrs,
           a - AddrBase \in Regions
    PROVE  AddrLockMask(a) = IF AddrWritten(a, a - AddrBase) THEN {} ELSE Bits
<1> DEFINE r == a - AddrBase
           n == r + 1
           own == LockBit(r % 4) \in RegisterRead(CfgBase + r \div 4)
           tor == RegisterRead(CfgBase + n \div 4) \intersect ModeBits(n % 4)
                      = TorBits(n % 4)
<1>1. a % 16 = r /\ a = AddrBase + r
  BY DEF PmpAddrs, AddrBase
<1>2. r \in Regions /\ r \in 0 .. 15 /\ r % 4 \in 0 .. 3 /\ pmp_cfg[r] \in CfgType
  BY RegionBytes DEF RtlTypes
<1>3. AddrLockMask(a) = IF own \/ tor THEN Bits ELSE {}
  BY <1>1 DEF AddrLockMask
<1>4. own <=> pmp_cfg[r].lock
  <2> HIDE DEF r
  <2>1. LockBit(r % 4) \in Byte(r % 4)
    BY <1>2 DEF LockBit, Byte
  <2>2. own <=> LockBit(r % 4) \in CfgBits(pmp_cfg[r], r % 4)
    BY <1>2, <2>1, ConfigShown
  <2> QED
    BY <1>2, <2>2, CfgBitsAre DEF LockBit
<1>5. ASSUME n \in Regions
      PROVE  tor <=> pmp_cfg[n].mode = Tor
  <2> HIDE DEF n
  <2>1. n % 4 \in 0 .. 3 /\ pmp_cfg[n] \in CfgType
    BY <1>5, RegionBytes DEF RtlTypes
  <2> DEFINE i == n % 4
             word == RegisterRead(CfgBase + n \div 4)
  <2>2. \A x \in Byte(i) : x \in word <=> x \in CfgBits(pmp_cfg[n], i)
    BY <1>5, ConfigShown
  <2> HIDE DEF i, word
  <2>3. i \in 0 .. 3
    BY <2>1 DEF i
  <2>4. 8 * i + 3 \in Byte(i) /\ 8 * i + 4 \in Byte(i)
    BY <2>3 DEF Byte
  <2>5. /\ 8 * i + 3 \in word <=> 3 \in pmp_cfg[n].mode
        /\ 8 * i + 4 \in word <=> 4 \in pmp_cfg[n].mode
    BY <2>1, <2>2, <2>3, <2>4, CfgBitsAre
  <2>6. pmp_cfg[n].mode \subseteq {3, 4}
    BY <2>1 DEF CfgType
  <2>7. pmp_cfg[n].mode = Tor <=> 3 \in pmp_cfg[n].mode /\ 4 \notin pmp_cfg[n].mode
    BY <2>6 DEF Tor
  <2>8. word \intersect ModeBits(i) = TorBits(i)
            <=> 8 * i + 3 \in word /\ 8 * i + 4 \notin word
    BY <2>3 DEF ModeBits, TorBits
  <2> QED
    BY <2>5, <2>7, <2>8 DEF i, word
<1>6. ASSUME n \notin Regions
      PROVE  ~tor
  <2>1. n = PMPNumRegions /\ n \in {4, 8, 12, 16}
    BY <1>2, <1>6, RegisterModelAssumption DEF Regions
  <2>2. RegisterRead(CfgBase + n \div 4) = {}
    <3>1. n \div 4 \in {1, 2, 3, 4} /\ (n \div 4 = 4 => n = 16)
      BY <2>1
    <3>2. CASE n = 16
      <4>1. CfgBase + n \div 4 \notin Listed
        BY <3>2 DEF Listed, Cfgs, PmpAddrs, Events, CountersL, CountersH, CfgBase,
           AddrBase, Inhibit, MCycle, MInstret, MCycleH, MInstretH
      <4> QED
        BY <4>1, RegisterModelAssumption DEF RegisterRead
    <3>3. CASE n # 16
      <4>1. CfgBase + n \div 4 \in Cfgs /\ (CfgBase + n \div 4) - CfgBase = n \div 4
        BY <3>1, <3>3, <2>1 DEF Cfgs, CfgBase
      <4>2. NotImplemented(CfgBase + n \div 4)
        <5>1. n \div 4 >= PMPNumRegions \div 4
          BY <2>1
        <5> QED
          BY <4>1, <5>1, Implemented
      <4> QED
        BY <4>2 DEF RegisterRead
    <3> QED
      BY <3>2, <3>3
  <2>3. TorBits(n % 4) # {}
    BY DEF TorBits
  <2> QED
    BY <2>2, <2>3
<1>7. AddrWritten(a, r) <=> ~own /\ ~tor
  <2> HIDE DEF own, tor
  <2> QED
    BY <1>1, <1>4, <1>5, <1>6 DEF AddrWritten
<1> QED
  BY <1>3, <1>7

-----------------------------------------------------------------------------
(* A transaction.                                                          *)

\* What a write of the registers does, without its case distinction.
WrittenCounters(a, w) ==
    \A c \in Counters :
        /\ a = MCycle + c => mhpmcounter'[c] = [mhpmcounter[c] EXCEPT !.lo = Low32(w, c)]
        /\ a = MCycleH + c => mhpmcounter'[c] = [mhpmcounter[c] EXCEPT !.hi = High32(w, c)]
        /\ a # MCycle + c /\ a # MCycleH + c => mhpmcounter'[c] = mhpmcounter[c]

LEMMA CountersWritten ==
    ASSUME NEW a, NEW w, RtlWrite(a, w)
    PROVE  WrittenCounters(a, w)
<1>1. mhpmcounter' = [c \in Counters |->
           CASE a = MCycle + c  -> [mhpmcounter[c] EXCEPT !.lo = Low32(w, c)]
             [] a = MCycleH + c -> [mhpmcounter[c] EXCEPT !.hi = High32(w, c)]
             [] OTHER           -> mhpmcounter[c]]
  BY Zenon DEF RtlWrite
<1> SUFFICES ASSUME NEW c \in Counters
             PROVE  /\ a = MCycle + c =>
                          mhpmcounter'[c] = [mhpmcounter[c] EXCEPT !.lo = Low32(w, c)]
                    /\ a = MCycleH + c =>
                          mhpmcounter'[c] = [mhpmcounter[c] EXCEPT !.hi = High32(w, c)]
                    /\ a # MCycle + c /\ a # MCycleH + c => mhpmcounter'[c] = mhpmcounter[c]
  BY Zenon DEF WrittenCounters
<1> DEFINE lo == [mhpmcounter[c] EXCEPT !.lo = Low32(w, c)]
           hi == [mhpmcounter[c] EXCEPT !.hi = High32(w, c)]
           cl == MCycle + c
           ch == MCycleH + c
<1>2. mhpmcounter'[c] = CASE a = cl -> lo [] a = ch -> hi [] OTHER -> mhpmcounter[c]
  BY <1>1, Zenon
<1>3. cl # ch
  BY RegisterModelAssumption DEF Counters, MCycle, MCycleH
<1> HIDE DEF lo, hi, cl, ch
<1>4. /\ a = cl => mhpmcounter'[c] = lo
      /\ a = ch => mhpmcounter'[c] = hi
      /\ a # cl /\ a # ch => mhpmcounter'[c] = mhpmcounter[c]
  BY <1>2, <1>3, Zenon
<1> QED
  BY <1>4 DEF lo, hi, cl, ch

LEMMA Halves ==
    ASSUME NEW S, NEW p \in [lo : S, hi : S], NEW x
    PROVE  /\ [p EXCEPT !.lo = x].lo = x /\ [p EXCEPT !.lo = x].hi = p.hi
           /\ [p EXCEPT !.hi = x].hi = x /\ [p EXCEPT !.hi = x].lo = p.lo
           /\ x \in S => /\ [p EXCEPT !.lo = x] \in [lo : S, hi : S]
                         /\ [p EXCEPT !.hi = x] \in [lo : S, hi : S]
OBVIOUS

\* The halves of a counter after a write.
LEMMA HalvesWritten ==
    ASSUME RtlTypes, NEW a, NEW w, RtlWrite(a, w), NEW c \in Counters
    PROVE  /\ mhpmcounter'[c] \in [lo : Words, hi : Words] \/ w \notin Words
           /\ mhpmcounter'[c].lo = IF a = MCycle + c THEN Low32(w, c) ELSE mhpmcounter[c].lo
           /\ mhpmcounter'[c].hi = IF a = MCycleH + c THEN High32(w, c) ELSE mhpmcounter[c].hi
<1>1. /\ a = MCycle + c => mhpmcounter'[c] = [mhpmcounter[c] EXCEPT !.lo = Low32(w, c)]
      /\ a = MCycleH + c => mhpmcounter'[c] = [mhpmcounter[c] EXCEPT !.hi = High32(w, c)]
      /\ a # MCycle + c /\ a # MCycleH + c => mhpmcounter'[c] = mhpmcounter[c]
  BY CountersWritten, Zenon DEF WrittenCounters
<1>2. mhpmcounter[c] \in [lo : Words, hi : Words]
  BY DEF RtlTypes
<1>3. w \in Words => Low32(w, c) \in Words /\ High32(w, c) \in Words
  BY DEF Low32, High32, Words
<1>4. MCycle + c # MCycleH + c
  BY RegisterModelAssumption DEF Counters, MCycle, MCycleH
<1> HIDE DEF MCycle, MCycleH
<1> DEFINE p == mhpmcounter[c]
           l == Low32(w, c)
           h == High32(w, c)
<1>5. /\ [p EXCEPT !.lo = l].lo = l /\ [p EXCEPT !.lo = l].hi = p.hi
      /\ [p EXCEPT !.hi = h].hi = h /\ [p EXCEPT !.hi = h].lo = p.lo
      /\ l \in Words => [p EXCEPT !.lo = l] \in [lo : Words, hi : Words]
      /\ h \in Words => [p EXCEPT !.hi = h] \in [lo : Words, hi : Words]
  BY <1>2, Halves
<1>6. CASE a = MCycle + c
  <2>1. mhpmcounter'[c] = [p EXCEPT !.lo = l]
    BY <1>1, <1>6, Zenon
  <2> QED
    BY <1>3, <1>4, <1>6, <1>5, <2>1, Zenon
<1>7. CASE a = MCycleH + c
  <2>1. mhpmcounter'[c] = [p EXCEPT !.hi = h]
    BY <1>1, <1>7, Zenon
  <2> QED
    BY <1>3, <1>4, <1>7, <1>5, <2>1, Zenon
<1>8. CASE a # MCycle + c /\ a # MCycleH + c
  <2>1. mhpmcounter'[c] = p
    BY <1>1, <1>8, Zenon
  <2> QED
    BY <1>2, <1>8, <2>1, Zenon
<1> QED
  BY <1>6, <1>7, <1>8, Zenon

\* A write keeps the types and what the registers never have.
LEMMA WriteTyped ==
    ASSUME RtlTypes, RtlOk, NEW a \in Addrs, NEW w \in Words, RtlWrite(a, w)
    PROVE  RtlTypes' /\ RtlOk'
<1>1. /\ pmp_cfg' = [r \in Regions |->
                       IF CfgWritten(a, r) THEN CfgOf(w, r % 4) ELSE pmp_cfg[r]]
      /\ pmp_addr' = [r \in Regions |-> IF AddrWritten(a, r) THEN w ELSE pmp_addr[r]]
      /\ mcountinhibit_q' = IF a = Inhibit THEN (w \intersect ImplementedInhibit) \ {1}
                                           ELSE mcountinhibit_q
      /\ mhpmcounter' = [c \in Counters |-> mhpmcounter'[c]]
  <2>1. mhpmcounter' = [c \in Counters |->
           CASE a = MCycle + c  -> [mhpmcounter[c] EXCEPT !.lo = Low32(w, c)]
             [] a = MCycleH + c -> [mhpmcounter[c] EXCEPT !.hi = High32(w, c)]
             [] OTHER           -> mhpmcounter[c]]
    BY Zenon DEF RtlWrite
  <2> DEFINE new(c) == CASE a = MCycle + c  -> [mhpmcounter[c] EXCEPT !.lo = Low32(w, c)]
                         [] a = MCycleH + c -> [mhpmcounter[c] EXCEPT !.hi = High32(w, c)]
                         [] OTHER           -> mhpmcounter[c]
  <2>2. mhpmcounter' = [c \in Counters |-> new(c)]
    BY <2>1, Zenon
  <2> HIDE DEF new
  <2>3. mhpmcounter' = [c \in Counters |-> mhpmcounter'[c]]
    BY <2>2
  <2> QED
    BY <2>3, Zenon DEF RtlWrite
<1>2. \A i : CfgOf(w, i) \in CfgType /\ (CfgOf(w, i).write => CfgOf(w, i).read)
  <2> SUFFICES ASSUME NEW i
               PROVE  CfgOf(w, i) \in CfgType /\ (CfgOf(w, i).write => CfgOf(w, i).read)
    OBVIOUS
  <2> DEFINE lock  == LockBit(i) \in w
             mode  == {b \in {3, 4} : 8 * i + b \in w}
             exec  == ExecBit(i) \in w
             write == {ReadBit(i), WriteBit(i)} \subseteq w
             read  == ReadBit(i) \in w
  <2>1. CfgOf(w, i) = [lock |-> lock, mode |-> mode, exec |-> exec, write |-> write,
                       read |-> read]
    BY Zenon DEF CfgOf
  <2>2. /\ lock \in BOOLEAN /\ exec \in BOOLEAN /\ write \in BOOLEAN /\ read \in BOOLEAN
        /\ mode \in SUBSET {3, 4}
        /\ write => read
    OBVIOUS
  <2> HIDE DEF lock, mode, exec, write, read
  <2> QED
    BY <2>1, <2>2 DEF CfgType
<1>3. pmp_cfg' \in [Regions -> CfgType]
  BY <1>1, <1>2 DEF RtlTypes
<1>4. pmp_addr' \in [Regions -> Words] /\ mcountinhibit_q' \in Words
  BY <1>1 DEF RtlTypes, Words
<1>5. mhpmcounter' \in [Counters -> [lo : Words, hi : Words]]
  <2>1. \A c \in Counters : mhpmcounter'[c] \in [lo : Words, hi : Words]
    BY HalvesWritten
  <2> QED
    BY <1>1, <2>1
<1>6. ASSUME NEW r \in Regions
      PROVE  /\ pmp_cfg'[r].write => pmp_cfg'[r].read
             /\ CfgBase + r \div 4 \notin Addrs => pmp_cfg'[r] = CfgOff
  <2>1. CASE CfgWritten(a, r)
    <3>1. pmp_cfg'[r] = CfgOf(w, r % 4) /\ CfgBase + r \div 4 = a
      BY <1>1, <2>1 DEF CfgWritten
    <3> QED
      BY <1>2, <3>1
  <2>2. CASE ~CfgWritten(a, r)
    <3>1. pmp_cfg'[r] = pmp_cfg[r]
      BY <1>1, <2>2
    <3> QED
      BY <3>1 DEF RtlOk
  <2> QED
    BY <2>1, <2>2
<1>7. mcountinhibit_q' \subseteq ImplementedInhibit \ {1}
  BY <1>1 DEF RtlOk
<1>8. ASSUME NEW c \in Counters
      PROVE  /\ mhpmcounter'[c].lo \subseteq {b \in Bits : b < Width(c)}
             /\ mhpmcounter'[c].hi \subseteq {b \in Bits : b + 32 < Width(c)}
  <2>1. /\ Low32(w, c) \subseteq {b \in Bits : b < Width(c)}
        /\ High32(w, c) \subseteq {b \in Bits : b + 32 < Width(c)}
    BY DEF Low32, High32, Words
  <2>2. /\ mhpmcounter'[c].lo = IF a = MCycle + c THEN Low32(w, c) ELSE mhpmcounter[c].lo
        /\ mhpmcounter'[c].hi = IF a = MCycleH + c THEN High32(w, c) ELSE mhpmcounter[c].hi
    BY HalvesWritten
  <2> QED
    BY <2>1, <2>2 DEF RtlOk
<1> QED
  BY <1>3, <1>4, <1>5, <1>6, <1>7, <1>8 DEF RtlTypes, RtlOk

\* A transaction leaves the registers and the model in agreement, whichever
\* register it accesses and whatever is locked.
LEMMA TransactionAgrees ==
    ASSUME RtlTypes, RtlOk, register_value_ \in [Addrs -> Words],
           Agrees(register_value_),
           NEW a \in Addrs, NEW op \in {"Write", "Set", "Clear"}, NEW wd \in Words,
           NEW v \in Rdata(a), RtlWrite(a, WdataInt(op, wd, v)),
           WdataInt(op, wd, v) \in Words
    PROVE  \A b \in Compared :
              Rdata(b)' = {IF NotImplemented(b) THEN {}
                           ELSE IF b = a THEN Updated(a, op, wd)
                           ELSE register_value_[b]}
<1> DEFINE w   == WdataInt(op, wd, v)
           old == register_value_[a]
           mask == GetLockMask(a)
           new == (old \cap mask) \cup (w \ mask)
<1>1. /\ pmp_cfg' = [r \in Regions |->
                       IF CfgWritten(a, r) THEN CfgOf(w, r % 4) ELSE pmp_cfg[r]]
      /\ pmp_addr' = [r \in Regions |-> IF AddrWritten(a, r) THEN w ELSE pmp_addr[r]]
      /\ mcountinhibit_q' = IF a = Inhibit THEN (w \intersect ImplementedInhibit) \ {1}
                                           ELSE mcountinhibit_q
  BY Zenon DEF RtlWrite
<1>2. ASSUME NEW c \in Counters
      PROVE  /\ mhpmcounter'[c].lo = IF a = MCycle + c THEN Low32(w, c) ELSE mhpmcounter[c].lo
             /\ mhpmcounter'[c].hi = IF a = MCycleH + c THEN High32(w, c) ELSE mhpmcounter[c].hi
  BY HalvesWritten
<1>3. RtlTypes'
  BY WriteTyped
<1>4. ASSUME a \in Compared, ~NotImplemented(a)
      PROVE  /\ v = old /\ old \in Words /\ w \in Words
             /\ Updated(a, op, wd) = IF a \in Cfgs THEN Legal(new) ELSE new
  <2>1. Rdata(a) = {old}
    BY <1>4 DEF Agrees, Shown
  <2>2. v = old
    BY <2>1
  <2> QED
    BY <2>2, Updates
<1> HIDE DEF w, old, mask, new
<1>5. ASSUME NEW b \in Compared, NotImplemented(b)
      PROVE  Rdata(b)' = {{}}
  <2>1. Rdata(b) = {{}}
    BY <1>5 DEF Agrees, Shown
  <2>2. CASE b \in Cfgs
    <3>1. b - CfgBase >= PMPNumRegions \div 4
      BY <1>5, <2>2, Implemented
    <3>2. \A r \in Regions : r \div 4 # b - CfgBase
      <4>1. PMPNumRegions \div 4 \in Nat /\ b - CfgBase \in 0 .. 3
        BY <2>2, RegisterModelAssumption DEF Cfgs, CfgBase
      <4> QED
        BY <3>1, <4>1, RegionBytes
    <3>3. CfgWord(b)' = {}
      BY <3>2 DEF CfgWord
    <3> QED
      BY <2>2, <3>3, ReadsNext DEF ReadsAs
  <2>3. CASE b \in PmpAddrs
    BY <1>5, <2>3, Implemented, ReadsNext DEF ReadsAs
  <2>4. CASE b \in Events
    BY <2>1, <2>4, Reads, ReadsNext DEF ReadsAs
  <2>5. CASE b \in Lows
    BY <1>5, <2>5, Implemented, ReadsNext DEF ReadsAs
  <2>6. CASE b \in Highs
    BY <1>5, <2>6, Implemented, ReadsNext DEF ReadsAs
  <2> QED
    BY <1>5, <2>2, <2>3, <2>4, <2>5, <2>6, Classes, Implemented DEF Compared
<1>6. ASSUME NEW b \in Compared, b # a
      PROVE  Rdata(b)' = Rdata(b)
  <2> ReadsAs(b) /\ ReadsAs(b)'
    BY Reads, ReadsNext
  <2>1. CASE b \in Cfgs
    <3>1. \A r \in Regions : r \div 4 = b - CfgBase => pmp_cfg'[r] = pmp_cfg[r]
      <4> SUFFICES ASSUME NEW r \in Regions, r \div 4 = b - CfgBase
                   PROVE  ~CfgWritten(a, r)
        BY <1>1
      <4>1. b = CfgBase + r \div 4
        BY <2>1 DEF Cfgs, CfgBase
      <4> QED
        BY <1>6, <4>1 DEF CfgWritten
    <3>2. CfgWord(b)' = CfgWord(b)
      BY <3>1 DEF CfgWord
    <3> QED
      BY <2>1, <3>2 DEF ReadsAs
  <2>2. CASE b \in PmpAddrs
    <3>1. b - AddrBase \in Regions => pmp_addr'[b - AddrBase] = pmp_addr[b - AddrBase]
      <4> SUFFICES ASSUME b - AddrBase \in Regions
                   PROVE  ~AddrWritten(a, b - AddrBase)
        BY <1>1
      <4>1. b = AddrBase + (b - AddrBase)
        BY <2>2 DEF PmpAddrs, AddrBase
      <4> QED
        BY <1>6, <4>1 DEF AddrWritten
    <3> QED
      BY <2>2, <3>1 DEF ReadsAs
  <2>3. CASE b = Inhibit
    BY <1>1, <1>6, <2>3 DEF ReadsAs
  <2>4. CASE b \in Events
    BY <2>4 DEF ReadsAs
  <2>5. CASE b \in Lows
    <3>1. b = MCycle + (b - MCycle)
      BY <2>5 DEF Lows, CountersL, MInstret, MCycle
    <3>2. b - MCycle \in Counters => mhpmcounter'[b - MCycle].lo = mhpmcounter[b - MCycle].lo
      BY <1>2, <1>6, <3>1
    <3> QED
      BY <2>5, <3>2 DEF ReadsAs
  <2>6. CASE b \in Highs
    <3>1. b = MCycleH + (b - MCycleH)
      BY <2>6 DEF Highs, CountersH, MInstretH, MCycleH
    <3>2. b - MCycleH \in Counters => mhpmcounter'[b - MCycleH].hi = mhpmcounter[b - MCycleH].hi
      BY <1>2, <1>6, <3>1
    <3> QED
      BY <2>6, <3>2 DEF ReadsAs
  <2> QED
    BY <2>1, <2>2, <2>3, <2>4, <2>5, <2>6, Classes DEF Compared
<1>7. ASSUME a \in Compared, ~NotImplemented(a)
      PROVE  Rdata(a)' = {Updated(a, op, wd)}
  <2>1. /\ old \in Words /\ w \in Words
        /\ Updated(a, op, wd) = IF a \in Cfgs THEN Legal(new) ELSE new
        /\ Rdata(a) = {old}
    <3>1. Rdata(a) = {old}
      BY <1>7 DEF Agrees, Shown, old
    <3> QED
      BY <1>4, <1>7, <3>1, Zenon
  <2>2. CASE a \in Cfgs
    <3> DEFINE k == a - CfgBase
    <3>1. k \in 0 .. 3 /\ a = CfgBase + k /\ k < PMPNumRegions \div 4
      <4>1. k \in 0 .. 3 /\ a = CfgBase + k
        BY <2>2 DEF Cfgs, CfgBase
      <4>2. ~(k >= PMPNumRegions \div 4)
        BY <1>7, <2>2, Implemented
      <4>3. PMPNumRegions \div 4 \in Nat
        BY RegisterModelAssumption
      <4> QED
        BY <4>1, <4>2, <4>3
    <3>2. old = CfgWord(a) /\ Rdata(a)' = {CfgWord(a)'}
      BY <2>1, <2>2, Reads, ReadsNext DEF ReadsAs
    <3>3. CfgWord(a)' \subseteq Bits /\ Legal(new) \subseteq Bits
      BY <1>3, <2>2, WordsOfBytesNext DEF CfgAsBytes, Legal, RazMask
    <3> HIDE DEF k
    <3>4. ASSUME NEW i \in 0 .. 3, NEW x \in Byte(i)
          PROVE  x \in CfgWord(a)' <=> x \in Legal(new)
      <4> DEFINE r == 4 * k + i
      <4>1. r \in Regions /\ r % 4 = i /\ r \div 4 = k
        BY <3>1, RegionBytes
      <4> HIDE DEF r
      <4>2. pmp_cfg[r] \in CfgType /\ pmp_cfg'[r] \in CfgType
        BY <1>3, <4>1 DEF RtlTypes
      <4>3. /\ x \in CfgWord(a)' <=> x \in CfgBits(pmp_cfg'[r], i)
            /\ \A y \in Byte(i) : y \in old <=> y \in CfgBits(pmp_cfg[r], i)
        <5>1. CfgBase + r \div 4 = a
          BY <3>1, <4>1
        <5> QED
          BY <1>3, <3>2, <4>1, <5>1, WordsOfBytes, WordsOfBytesNext DEF CfgAsBytes
      <4>4. /\ 8 * i \in Byte(i) /\ 8 * i + 1 \in Byte(i) /\ LockBit(i) \in Byte(i)
            /\ LockBit(i) = 8 * i + 7
        BY DEF Byte, LockBit
      <4>5. LockBit(i) \in old <=> pmp_cfg[r].lock
        BY <4>2, <4>3, <4>4, CfgBitsAre
      <4>6. \A y \in Byte(i) : y \in mask <=> pmp_cfg[r].lock
        <5>1. mask = UNION {Byte(j) : j \in {j \in 0 .. 3 : LockBit(j) \in old}}
          BY <2>2, Masks DEF CfgLockMask, mask, old
        <5>2. \A y \in Byte(i), j \in 0 .. 3 : y \in Byte(j) => j = i
          BY DEF Byte
        <5> QED
          BY <4>5, <5>1, <5>2
      <4>7. pmp_cfg'[r] = IF pmp_cfg[r].lock THEN pmp_cfg[r] ELSE CfgOf(w, i)
        BY <1>1, <3>1, <4>1 DEF CfgWritten
      <4>8. \A y \in Byte(i) : y \in new <=> IF pmp_cfg[r].lock THEN y \in old ELSE y \in w
        BY <4>6 DEF new
      <4>9. x \in Legal(new) <=> /\ x \in new /\ x # 8 * i + 5 /\ x # 8 * i + 6
                                 /\ x = 8 * i + 1 => 8 * i \in new
        BY LegalBits
      <4>10. CASE pmp_cfg[r].lock
        <5>1. /\ x \in CfgWord(a)' <=> x \in CfgBits(pmp_cfg[r], i)
              /\ x \in Legal(new) <=> /\ x \in CfgBits(pmp_cfg[r], i)
                                      /\ x # 8 * i + 5 /\ x # 8 * i + 6
                                      /\ x = 8 * i + 1 => 8 * i \in CfgBits(pmp_cfg[r], i)
          BY <4>3, <4>4, <4>7, <4>8, <4>9, <4>10
        <5>2. pmp_cfg[r].write => pmp_cfg[r].read
          BY <4>1 DEF RtlOk
        <5> QED
          BY <4>2, <5>1, <5>2, CfgBitsAre
      <4>11. CASE ~pmp_cfg[r].lock
        <5>1. /\ x \in CfgWord(a)' <=> x \in CfgBits(CfgOf(w, i), i)
              /\ x \in Legal(new) <=> /\ x \in w /\ x # 8 * i + 5 /\ x # 8 * i + 6
                                      /\ x = 8 * i + 1 => 8 * i \in w
          BY <4>3, <4>4, <4>7, <4>8, <4>9, <4>11
        <5>2. /\ CfgOf(w, i).lock <=> 8 * i + 7 \in w
              /\ CfgOf(w, i).exec <=> 8 * i + 2 \in w
              /\ CfgOf(w, i).write <=> 8 * i \in w /\ 8 * i + 1 \in w
              /\ CfgOf(w, i).read <=> 8 * i \in w
              /\ 3 \in CfgOf(w, i).mode <=> 8 * i + 3 \in w
              /\ 4 \in CfgOf(w, i).mode <=> 8 * i + 4 \in w
          BY DEF CfgOf, LockBit, ExecBit, WriteBit, ReadBit
        <5>3. CfgOf(w, i) \in CfgType
          BY <4>2, <4>7, <4>11
        <5>4. x \in CfgBits(CfgOf(w, i), i) <=>
                 \/ x = 8 * i + 7 /\ 8 * i + 7 \in w
                 \/ x = 8 * i + 2 /\ 8 * i + 2 \in w
                 \/ x = 8 * i + 1 /\ 8 * i \in w /\ 8 * i + 1 \in w
                 \/ x = 8 * i /\ 8 * i \in w
                 \/ x = 8 * i + 3 /\ 8 * i + 3 \in w
                 \/ x = 8 * i + 4 /\ 8 * i + 4 \in w
          BY <5>2, <5>3, CfgBitsAre
        <5>5. \/ x = 8 * i \/ x = 8 * i + 1 \/ x = 8 * i + 2 \/ x = 8 * i + 3
              \/ x = 8 * i + 4 \/ x = 8 * i + 5 \/ x = 8 * i + 6 \/ x = 8 * i + 7
          BY DEF Byte
        <5> QED
          BY <5>1, <5>4, <5>5
      <4> QED
        BY <4>10, <4>11
    <3>5. \A x \in Bits : \E i \in 0 .. 3 : x \in Byte(i)
      <4> SUFFICES ASSUME NEW x \in Bits
                   PROVE  \E i \in 0 .. 3 : x \in Byte(i)
        OBVIOUS
      <4>1. x \in Byte(0) \/ x \in Byte(1) \/ x \in Byte(2) \/ x \in Byte(3)
        BY DEF Bits, Byte
      <4> QED
        BY <4>1
    <3>6. CfgWord(a)' = Legal(new)
      BY <3>3, <3>4, <3>5
    <3> QED
      BY <2>1, <2>2, <3>2, <3>6
  <2>3. CASE a \in PmpAddrs
    <3>1. a - AddrBase \in Regions /\ a \notin Cfgs
      BY <1>7, <2>3, Implemented, Classes
    <3>2. old = pmp_addr[a - AddrBase] /\ Rdata(a)' = {pmp_addr'[a - AddrBase]}
      BY <2>1, <2>3, <3>1, Reads, ReadsNext DEF ReadsAs
    <3>3. mask = IF AddrWritten(a, a - AddrBase) THEN {} ELSE Bits
      BY <2>3, <3>1, AddrLocked, Masks DEF mask
    <3>4. pmp_addr'[a - AddrBase] = IF AddrWritten(a, a - AddrBase) THEN w ELSE old
      BY <1>1, <3>1, <3>2
    <3>5. new = pmp_addr'[a - AddrBase]
      BY <2>1, <3>3, <3>4 DEF new, Words
    <3> QED
      BY <2>1, <3>1, <3>2, <3>5
  <2>4. CASE a = Inhibit
    <3>1. a \notin Cfgs
      BY <2>4, Classes
    <3>2. /\ old = mcountinhibit_q \union (Bits \ ImplementedInhibit)
          /\ Rdata(a)' = {mcountinhibit_q' \union (Bits \ ImplementedInhibit)}
      BY <2>1, <2>4, Reads, ReadsNext DEF ReadsAs
    <3>3. mask = {b \in Bits : b >= MHPMCounterNum + 3} \union {1}
      BY <2>4, Masks DEF mask
    <3>4. Bits \ ImplementedInhibit = {b \in Bits : b >= MHPMCounterNum + 3}
      BY RegisterModelAssumption DEF Bits, ImplementedInhibit
    <3>5. 1 \in ImplementedInhibit /\ mcountinhibit_q \subseteq ImplementedInhibit \ {1}
      BY RegisterModelAssumption DEF ImplementedInhibit, RtlOk
    <3>6. mcountinhibit_q' = (w \intersect ImplementedInhibit) \ {1}
      BY <1>1, <2>4
    <3>7. new = mcountinhibit_q' \union (Bits \ ImplementedInhibit)
      BY <2>1, <3>2, <3>3, <3>4, <3>5, <3>6 DEF new, Words
    <3> QED
      BY <2>1, <3>1, <3>2, <3>7
  <2>5. CASE a \in Events
    <3>1. a \notin Cfgs
      BY <2>5, Classes
    <3>2. Rdata(a)' = {old}
      BY <2>1, <2>5, Reads, ReadsNext DEF ReadsAs
    <3>3. mask = Bits
      BY <2>5, Masks DEF mask
    <3>4. new = old
      BY <2>1, <3>3 DEF new, Words
    <3> QED
      BY <2>1, <3>1, <3>2, <3>4
  <2>6. CASE a \in Lows
    <3> DEFINE c == a - MCycle
    <3>1. a \notin Cfgs /\ c \in Counters
      BY <1>7, <2>6, Implemented, Classes
    <3>2. a = MCycle + c
      BY <2>6 DEF Lows, CountersL, MInstret, MCycle
    <3>3. old = mhpmcounter[c].lo /\ Rdata(a)' = {mhpmcounter'[c].lo}
      BY <2>1, <2>6, <3>1, Reads, ReadsNext DEF ReadsAs
    <3>4. mhpmcounter'[c].lo = {b \in w : b < Width(c)}
      BY <1>2, <3>1, <3>2 DEF Low32
    <3>5. mask = {b \in Bits : b >= Width(c)}
      <4>1. CASE a = MInstret
        <5>1. mask = {}
          BY <4>1, Masks DEF mask
        <5>2. Width(c) = 64
          BY <4>1 DEF Width, MInstret, MCycle
        <5> QED
          BY <5>1, <5>2 DEF Bits
      <4>2. CASE a \in CountersL
        BY <4>2, Masks DEF mask, Width, CountersL, MCycle
      <4> QED
        BY <2>6, <4>1, <4>2 DEF Lows
    <3>6. old \subseteq {b \in Bits : b < Width(c)} /\ Width(c) \in Nat
      BY <3>1, <3>3, RegisterModelAssumption DEF RtlOk, Width
    <3>7. new = mhpmcounter'[c].lo
      <4> DEFINE d == Width(c)
                 lower == mhpmcounter'[c].lo
      <4>1. /\ lower = {b \in w : b < d} /\ mask = {b \in Bits : b >= d}
            /\ old \subseteq {b \in Bits : b < d} /\ d \in Nat /\ w \subseteq Bits
            /\ Bits \subseteq Nat
        BY <2>1, <3>4, <3>5, <3>6 DEF Words, Bits
      <4> HIDE DEF d, lower, c
      <4>2. \A b \in old : b \notin mask
        BY <4>1
      <4>3. \A b \in w : b \in lower <=> b \notin mask
        BY <4>1
      <4>4. lower \subseteq w
        BY <4>1
      <4> QED
        BY <4>2, <4>3, <4>4 DEF new, lower
    <3> QED
      BY <2>1, <3>1, <3>3, <3>7
  <2>7. CASE a \in Highs
    <3> DEFINE c == a - MCycleH
    <3>1. a \notin Cfgs /\ c \in Counters
      BY <1>7, <2>7, Implemented, Classes
    <3>2. a = MCycleH + c
      BY <2>7 DEF Highs, CountersH, MInstretH, MCycleH
    <3>3. old = mhpmcounter[c].hi /\ Rdata(a)' = {mhpmcounter'[c].hi}
      BY <2>1, <2>7, <3>1, Reads, ReadsNext DEF ReadsAs
    <3>4. mhpmcounter'[c].hi = {b \in w : b + 32 < Width(c)}
      BY <1>2, <3>1, <3>2 DEF High32
    <3>5. mask = {b \in Bits : b + 32 >= Width(c)}
      <4>1. CASE a = MInstretH
        <5>1. mask = {}
          BY <4>1, Masks DEF mask
        <5>2. Width(c) = 64
          BY <4>1 DEF Width, MInstretH, MCycleH
        <5> QED
          BY <5>1, <5>2 DEF Bits
      <4>2. CASE a \in CountersH
        BY <4>2, Masks DEF mask, Width, CountersH, MCycleH
      <4> QED
        BY <2>7, <4>1, <4>2 DEF Highs
    <3>6. old \subseteq {b \in Bits : b + 32 < Width(c)} /\ Width(c) \in Nat
      BY <3>1, <3>3, RegisterModelAssumption DEF RtlOk, Width
    <3>7. new = mhpmcounter'[c].hi
      <4> DEFINE d == Width(c)
                 lower == mhpmcounter'[c].hi
      <4>1. /\ lower = {b \in w : b + 32 < d} /\ mask = {b \in Bits : b + 32 >= d}
            /\ old \subseteq {b \in Bits : b + 32 < d} /\ d \in Nat /\ w \subseteq Bits
            /\ Bits \subseteq Nat
        BY <2>1, <3>4, <3>5, <3>6 DEF Words, Bits
      <4> HIDE DEF d, lower, c
      <4>2. \A b \in old : b \notin mask
        BY <4>1
      <4>3. \A b \in w : b \in lower <=> b \notin mask
        BY <4>1
      <4>4. lower \subseteq w
        BY <4>1
      <4> QED
        BY <4>2, <4>3, <4>4 DEF new, lower
    <3> QED
      BY <2>1, <3>1, <3>3, <3>7
  <2> QED
    BY <1>7, <2>2, <2>3, <2>4, <2>5, <2>6, <2>7, Classes DEF Compared
<1> QED
  BY <1>5, <1>6, <1>7 DEF Agrees, Shown

-----------------------------------------------------------------------------
(* The inductive invariant.                                                *)

Resets == [a \in Addrs |-> ResetValue(a)]

TransactionType == {NoTransaction} \cup [op : Ops, addr : Addrs, wdata : Words]

\* The model as the second process leaves it, where that is still to run: the
\* registers have taken the clock edge's transaction already.
Pending ==
    LET t == next_transaction_
    IN  IF "reg" \notin todo THEN register_value_
        ELSE IF ~rst_n THEN Resets
        ELSE IF Captured /\ t.op # "Read" /\ ~NotImplemented(t.addr)
        THEN [register_value_ EXCEPT ![t.addr] = Updated(t.addr, t.op, t.wdata)]
        ELSE register_value_

TypeInv ==
    /\ wdata_dist \in Wdata
    /\ register_value_ \in [Addrs -> Words]
    /\ next_transaction_ \in TransactionType
    /\ simctrl_ \in [stop : BOOLEAN, success : BOOLEAN]
    /\ transactions_driven_ \in Nat
    /\ reset_duration_ \in 0 .. 3 /\ dpi_rst_ni \in BOOLEAN /\ rst_fell \in BOOLEAN
    /\ todo \subseteq {"env", "reg"}

\* The first reset has been seen before the first transaction is taken.
ResetInv ==
    /\ "env" \notin todo /\ (transactions_driven_ > 0 \/ "reg" \in todo)
          => reset_duration_ >= 1
    /\ rst_fell => reset_duration_ >= 1 /\ "env" \notin todo
    /\ reg_access_ => transactions_driven_ > 0

\* From the first reset on the two sides agree.
SyncInv ==
    /\ RtlTypes /\ RtlOk
    /\ ~rst_fell /\ (reset_duration_ >= 1 \/ (~dpi_rst_ni /\ todo # {}))
          => Agrees(Pending)

\* What the monitor is about to compare.
CaptureInv ==
    dut_ok => /\ simctrl_.success
              /\ "reg" \in todo /\ Captured
                    => ~Mismatch(next_transaction_.addr, csr_rdata_o)

\* From a mismatch to the exit code.
VerdictInv ==
    /\ ~simctrl_.success => simctrl_.stop
    /\ ~passing => ~simctrl_.success
    /\ ~passing /\ "env" \notin todo => finished /\ ~test_passed
    /\ simctrl_.stop /\ simctrl_.success => AllDriven
    /\ finished /\ test_passed => AllDriven

IInv == TypeInv /\ ResetInv /\ SyncInv /\ CaptureInv /\ VerdictInv

LEMMA ResetTyped ==
    RtlInit => RtlTypes /\ RtlOk /\ \A a \in Compared : Rdata(a) = {Shown(Resets, a)}
<1> SUFFICES ASSUME RtlInit
             PROVE  RtlTypes /\ RtlOk /\ \A a \in Compared : Rdata(a) = {Shown(Resets, a)}
  OBVIOUS
<1>1. /\ pmp_cfg = [r \in Regions |-> CfgOff]
      /\ pmp_addr = [r \in Regions |-> {}]
      /\ mcountinhibit_q = {}
      /\ mhpmcounter = [c \in Counters |-> [lo |-> {}, hi |-> {}]]
  BY DEF RtlInit
<1>2. CfgOff \in CfgType /\ ~CfgOff.lock /\ CfgOff.mode = {} /\ ~CfgOff.exec
      /\ ~CfgOff.write /\ ~CfgOff.read
  BY DEF CfgOff, CfgType
<1>3. RtlTypes
  BY <1>1, <1>2 DEF RtlTypes, Words
<1>4. RtlOk
  BY <1>1, <1>2 DEF RtlOk
<1>5. ASSUME NEW a \in Compared
      PROVE  Rdata(a) = {Shown(Resets, a)}
  <2>1. a \in Addrs /\ Resets[a] = ResetValue(a)
    BY <1>5 DEF Compared, Resets
  <2>2. CASE a \in Cfgs
    <3>1. \A r \in Regions : \A x : x \notin CfgBits(pmp_cfg[r], r % 4)
      BY <1>1, <1>2, RegionBytes, CfgBitsAre
    <3>2. CfgWord(a) = {}
      BY <3>1 DEF CfgWord
    <3>3. ResetValue(a) = {}
      BY <2>2, Classes, ResetValues
    <3>4. Rdata(a) = {CfgWord(a)}
      BY <2>2, Reads DEF ReadsAs
    <3> QED
      BY <2>1, <3>2, <3>3, <3>4 DEF Shown
  <2>3. CASE a \in PmpAddrs
    <3>1. ResetValue(a) = {}
      BY <2>3, Classes, ResetValues
    <3> QED
      BY <1>1, <2>1, <2>3, <3>1, Reads DEF ReadsAs, Shown
  <2>4. CASE a = Inhibit
    <3>1. ResetValue(a) = Bits \ ImplementedInhibit
      <4>1. ResetValue(a) = {b \in Bits : b >= MHPMCounterNum + 3}
        BY <2>4, ResetValues
      <4> QED
        BY <4>1, RegisterModelAssumption DEF Bits, ImplementedInhibit
    <3> QED
      BY <1>1, <2>1, <2>4, <3>1, Reads, Implemented DEF ReadsAs, Shown
  <2>5. CASE a \in Events
    <3>1. ResetValue(a) = {a - Inhibit}
      BY <2>5, ResetValues
    <3>2. NotImplemented(a) <=> ~(a - Inhibit < MHPMCounterNum + 3)
      BY <2>5, Implemented, RegisterModelAssumption DEF Events, Inhibit
    <3> QED
      BY <2>1, <2>5, <3>1, <3>2, Reads DEF ReadsAs, Shown
  <2>6. CASE a \in Lows
    <3>1. ResetValue(a) = {}
      BY <2>6, Classes, ResetValues
    <3> QED
      BY <1>1, <2>1, <2>6, <3>1, Reads DEF ReadsAs, Shown
  <2>7. CASE a \in Highs
    <3>1. ResetValue(a) = {}
      BY <2>7, Classes, ResetValues
    <3> QED
      BY <1>1, <2>1, <2>7, <3>1, Reads DEF ReadsAs, Shown
  <2> QED
    BY <1>5, <2>2, <2>3, <2>4, <2>5, <2>6, <2>7, Classes DEF Compared
<1> QED
  BY <1>3, <1>4, <1>5

LEMMA ResetTypedNext ==
    (RtlInit => RtlTypes /\ RtlOk /\ \A a \in Compared : Rdata(a) = {Shown(Resets, a)})'
BY ResetTyped, PTL

LEMMA ResetAgrees ==
    RtlReset => RtlTypes' /\ RtlOk' /\ \A a \in Compared : Rdata(a)' = {Shown(Resets, a)}
<1>1. RtlReset => RtlInit'
  BY DEF RtlReset, RtlInit
<1>2. (\A a \in Compared : Rdata(a) = {Shown(Resets, a)})'
          => \A a \in Compared : Rdata(a)' = {Shown(Resets, a)}
  BY DEF Shown, Resets, Compared, NotImplemented, ResetValue
<1> QED
  BY <1>1, <1>2, ResetTypedNext

\* The words that a transaction puts together.
LEMMA IntTyped ==
    ASSUME NEW op \in {"Write", "Set", "Clear"}, NEW w \in Words, NEW v \in Words
    PROVE  WdataInt(op, w, v) \in Words
<1> DEFINE int == WdataInt(op, w, v)
<1>1. int = w \/ int = w \cup v \/ int = v \ w
  BY Zenon DEF WdataInt
<1> HIDE DEF int
<1>2. int \in Words
  BY <1>1 DEF Words
<1> QED
  BY <1>2 DEF int

\* The model's words.
LEMMA ModelTyped ==
    /\ Resets \in [Addrs -> Words]
    /\ register_value_ \in [Addrs -> Words] =>
          \A a \in Addrs, op \in {"Write", "Set", "Clear"}, w \in Words :
              Updated(a, op, w) \in Words
<1>1. ASSUME NEW a \in Addrs
      PROVE  ResetValue(a) \in Words
  <2>1. a \in Events => a - Inhibit \in Bits
    BY DEF Events, Inhibit, Bits
  <2> QED
    BY <2>1, ResetValues DEF Words
<1>2. ASSUME register_value_ \in [Addrs -> Words], NEW a \in Addrs,
             NEW op \in {"Write", "Set", "Clear"}, NEW w \in Words
      PROVE  Updated(a, op, w) \in Words
  <2> DEFINE old  == register_value_[a]
             int  == WdataInt(op, w, old)
             mask == GetLockMask(a)
             new  == (old \cap mask) \cup (int \ mask)
  <2>1. Updated(a, op, w) = IF a \in Cfgs THEN Legal(new) ELSE new
    BY Updates
  <2>2. old \in Words
    BY <1>2
  <2>3. int \in Words
    BY <2>2, IntTyped
  <2> HIDE DEF old
  <2> HIDE DEF int, mask
  <2>5. new \in Words
    BY <2>2, <2>3 DEF Words
  <2>6. Legal(new) \in Words
    BY DEF Legal, RazMask, Words
  <2> QED
    BY <2>1, <2>5, <2>6
<1> QED
  BY <1>1, <1>2 DEF Resets

\* What Transactions offers.
LEMMA TransactionsTyped ==
    ASSUME TypeInv, NEW t \in Transactions
    PROVE  /\ t \in TransactionType
           /\ t # NoTransaction <=> reg_access_ /\ dpi_rst_ni
<1>1. wdata_dist \in [DOMAIN wdata_dist -> SUBSET Words] /\ DOMAIN wdata_dist \subseteq Addrs
  BY CsBenchAssumption DEF TypeInv
<1>2. CASE reg_access_ /\ dpi_rst_ni
  <2>1. \E op \in Ops, addr \in DOMAIN wdata_dist :
           \E w \in IF op = "Read" THEN {{}} ELSE wdata_dist[addr] :
              t = [op |-> op, addr |-> addr, wdata |-> w]
    <3>1. t \in UNION {{[op |-> op, addr |-> addr, wdata |-> w] :
                          w \in IF op = "Read" THEN {{}} ELSE wdata_dist[addr]} :
                       op \in Ops, addr \in DOMAIN wdata_dist}
      BY <1>2 DEF Transactions
    <3> QED
      BY <3>1
  <2>2. PICK op \in Ops, addr \in DOMAIN wdata_dist :
           \E w \in IF op = "Read" THEN {{}} ELSE wdata_dist[addr] :
              t = [op |-> op, addr |-> addr, wdata |-> w]
    BY <2>1
  <2>3. PICK w \in IF op = "Read" THEN {{}} ELSE wdata_dist[addr] :
              t = [op |-> op, addr |-> addr, wdata |-> w]
    BY <2>2
  <2>4. addr \in Addrs /\ w \in Words
    BY <1>1, <2>3 DEF Words
  <2>5. t.op = op /\ NoTransaction.op = "none" /\ op # "none"
    BY <2>3 DEF NoTransaction, Ops
  <2> QED
    BY <1>2, <2>3, <2>4, <2>5 DEF TransactionType
<1>3. CASE ~(reg_access_ /\ dpi_rst_ni)
  BY <1>3 DEF Transactions, TransactionType
<1> QED
  BY <1>2, <1>3

LEMMA TransactionParts ==
    ASSUME NEW t \in TransactionType, t # NoTransaction
    PROVE  t.op \in Ops /\ t.addr \in Addrs /\ t.wdata \in Words
BY DEF TransactionType

LEMMA PendingTyped == TypeInv => Pending \in [Addrs -> Words]
<1> SUFFICES ASSUME TypeInv
             PROVE  Pending \in [Addrs -> Words]
  OBVIOUS
<1> DEFINE t == next_transaction_
<1>1. register_value_ \in [Addrs -> Words] /\ Resets \in [Addrs -> Words]
  BY ModelTyped DEF TypeInv
<1>2. ASSUME Captured, t.op # "Read"
      PROVE  [register_value_ EXCEPT ![t.addr] = Updated(t.addr, t.op, t.wdata)]
                 \in [Addrs -> Words]
  <2>1. t \in TransactionType /\ t # NoTransaction
    BY <1>2 DEF TypeInv, Captured
  <2>2. t.op \in {"Write", "Set", "Clear"} /\ t.addr \in Addrs /\ t.wdata \in Words
    BY <1>2, <2>1, TransactionParts DEF Ops
  <2>3. Updated(t.addr, t.op, t.wdata) \in Words
    BY <1>1, <2>2, ModelTyped
  <2> QED
    BY <1>1, <2>3
<1> QED
  BY <1>1, <1>2 DEF Pending

\* While nothing is written, neither side changes.
LEMMA ReadsSame ==
    UNCHANGED rtlVars => \A a \in Compared : Rdata(a)' = Rdata(a)
<1> SUFFICES ASSUME UNCHANGED rtlVars, NEW a \in Compared
             PROVE  Rdata(a)' = Rdata(a)
  OBVIOUS
<1>1. UNCHANGED <<pmp_cfg, pmp_addr, mcountinhibit_q, mhpmcounter>>
  BY DEF rtlVars
<1>2. CfgWord(a)' = CfgWord(a)
  BY <1>1 DEF CfgWord
<1>3. a \in Cfgs => Rdata(a)' = Rdata(a)
  BY <1>2, Reads, ReadsNext DEF ReadsAs
<1>4. a \in PmpAddrs => Rdata(a)' = Rdata(a)
  BY <1>1, Reads, ReadsNext DEF ReadsAs
<1>5. a = Inhibit => Rdata(a)' = Rdata(a)
  BY <1>1, Reads, ReadsNext DEF ReadsAs
<1>6. a \in Events => Rdata(a)' = Rdata(a)
  BY <1>1, Reads, ReadsNext DEF ReadsAs
<1>7. a \in Lows => Rdata(a)' = Rdata(a)
  BY <1>1, Reads, ReadsNext DEF ReadsAs
<1>8. a \in Highs => Rdata(a)' = Rdata(a)
  BY <1>1, Reads, ReadsNext DEF ReadsAs
<1> QED
  BY <1>3, <1>4, <1>5, <1>6, <1>7, <1>8, Classes DEF Compared

UpdatesAs ==
    \A a : \A op \in {"Write", "Set", "Clear"} : \A w :
        Updated(a, op, w) =
            LET old  == register_value_[a]
                mask == GetLockMask(a)
                new  == (old \cap mask) \cup (WdataInt(op, w, old) \ mask)
            IN  IF a \in Cfgs THEN Legal(new) ELSE new

LEMMA UpdatesNext == UpdatesAs'
<1>1. UpdatesAs
  BY Updates, Zenon DEF UpdatesAs
<1> QED
  BY <1>1, PTL

LEMMA UpdatedSame ==
    ASSUME UNCHANGED register_value_
    PROVE  \A a : \A op \in {"Write", "Set", "Clear"} : \A w :
              Updated(a, op, w)' = Updated(a, op, w)
<1> SUFFICES ASSUME NEW a, NEW op \in {"Write", "Set", "Clear"}, NEW w
             PROVE  Updated(a, op, w)' = Updated(a, op, w)
  OBVIOUS
<1> DEFINE cfg  == CfgLockMask(a)
           addr == AddrLockMask(a)
           old  == register_value_[a]
           mask == GetLockMask(a)
           new  == (old \cap mask) \cup (WdataInt(op, w, old) \ mask)
<1>1. cfg' = cfg /\ addr' = addr
  BY DEF CfgLockMask, AddrLockMask, RegisterRead
<1>2. mask' = mask
  <2> DEFINE other == RegisterMask(a)
  <2>1. /\ mask = CASE a \in Cfgs -> cfg [] a \in PmpAddrs -> addr [] OTHER -> other
        /\ mask' = CASE a \in Cfgs -> cfg' [] a \in PmpAddrs -> addr' [] OTHER -> other
    BY Zenon DEF GetLockMask
  <2> HIDE DEF cfg, addr, mask, other
  <2> QED
    BY <1>1, <2>1, Zenon
<1>3. Updated(a, op, w)' = IF a \in Cfgs THEN Legal(new') ELSE new'
  BY UpdatesNext, Zenon DEF UpdatesAs
<1>4. Updated(a, op, w) = IF a \in Cfgs THEN Legal(new) ELSE new
  BY Updates, Zenon
<1>5. new' = new
  BY <1>2
<1> QED
  BY <1>3, <1>4, <1>5, Zenon

LEMMA CycleReads == \A a \in {MCycle, MCycleH} : Rdata(a) = CycleWords
<1> SUFFICES ASSUME NEW a \in {MCycle, MCycleH}
             PROVE  Rdata(a) = CycleWords
  OBVIOUS
<1> DEFINE cfg == {CfgWord(a)}
           addr == {IF a - AddrBase \in Regions THEN pmp_addr[a - AddrBase] ELSE {}}
           inhibit == {mcountinhibit_q \union (Bits \ ImplementedInhibit)}
           event == {IF a - Inhibit < MHPMCounterNum + 3 THEN {a - Inhibit} ELSE {}}
           low == {IF a - MCycle \in Counters THEN mhpmcounter[a - MCycle].lo ELSE {}}
           high == {IF a - MCycleH \in Counters THEN mhpmcounter[a - MCycleH].hi ELSE {}}
<1>1. Rdata(a) = CASE a \in Cfgs -> cfg
                   [] a \in PmpAddrs -> addr
                   [] a = Inhibit -> inhibit
                   [] a \in Events -> event
                   [] a \in {MCycle, MCycleH} -> CycleWords
                   [] a \in Lows -> low
                   [] a \in Highs -> high
  BY DEF Rdata, CfgWord, Lows, Highs
<1> HIDE DEF cfg, addr, inhibit, event, low, high
<1>2. a \notin Cfgs /\ a \notin PmpAddrs /\ a # Inhibit /\ a \notin Events
      /\ a \notin Lows /\ a \notin Highs
  BY Classes
<1> QED
  BY <1>1, <1>2, Zenon

-----------------------------------------------------------------------------
(* The clock edge.                                                         *)

LEMMA PosedgeStep == IInv /\ Posedge => IInv'
<1> SUFFICES ASSUME IInv, Posedge
             PROVE  IInv'
  OBVIOUS
<1> USE DEF IInv
<1>1. PICK t \in Transactions :
          /\ next_transaction_' = t
          /\ csr_rdata_o' \in IF t = NoTransaction THEN {{}} ELSE Seen(t.addr)
          /\ Clocked(t)
  BY DEF Posedge
<1>2. /\ todo = {} /\ ~rst_fell /\ todo' = {"env", "reg"} /\ rst_n' = dpi_rst_ni
      /\ passing' = simctrl_.success
      /\ UNCHANGED <<register_value_, wdata_dist, dut_ok, transactions_driven_,
                     reg_access_, reset_duration_, dpi_rst_ni, rst_fell, simctrl_>>
      /\ UNCHANGED <<test_passed, finished>>
  BY DEF Posedge, runVars, driverVars, resetVars, endVars
<1>3. t \in TransactionType /\ (t # NoTransaction <=> reg_access_ /\ dpi_rst_ni)
  BY TransactionsTyped
<1>4. /\ t # NoTransaction => t.op \in Ops /\ t.addr \in Addrs /\ t.wdata \in Words
      /\ NoTransaction.op = "none"
  BY <1>3, TransactionParts DEF NoTransaction
<1>5. TypeInv'
  BY <1>1, <1>2, <1>3 DEF TypeInv
<1>6. ResetInv'
  BY <1>2 DEF ResetInv
<1>7. ASSUME t # NoTransaction
      PROVE  reset_duration_ >= 1 /\ Agrees(register_value_)
  <2>1. reset_duration_ >= 1
    BY <1>2, <1>3, <1>7 DEF ResetInv
  <2>2. Agrees(Pending) /\ Pending = register_value_
    BY <1>2, <2>1 DEF SyncInv, Pending
  <2> QED
    BY <2>1, <2>2
<1>8. /\ ~dpi_rst_ni => RtlReset
      /\ dpi_rst_ni /\ reg_access_ /\ t.op # "Read" =>
            \E v \in Rdata(t.addr) : RtlWrite(t.addr, WdataInt(t.op, t.wdata, v))
      /\ dpi_rst_ni /\ ~(reg_access_ /\ t.op # "Read") => UNCHANGED rtlVars
  <2> DEFINE rst == RtlReset
             wr == \E v \in Rdata(t.addr) : RtlWrite(t.addr, WdataInt(t.op, t.wdata, v))
             same == UNCHANGED rtlVars
  <2>1. (CASE ~dpi_rst_ni -> rst
           [] dpi_rst_ni /\ reg_access_ /\ t.op # "Read" -> wr
           [] OTHER -> same)
    BY <1>1, Zenon DEF Clocked
  <2> HIDE DEF rst, wr, same
  <2>2. /\ ~dpi_rst_ni => rst
        /\ dpi_rst_ni /\ reg_access_ /\ t.op # "Read" => wr
        /\ dpi_rst_ni /\ ~(reg_access_ /\ t.op # "Read") => same
    BY <2>1, Zenon
  <2> QED
    BY <2>2, Zenon DEF rst, wr, same
<1>9. SyncInv'
  <2>1. CASE ~dpi_rst_ni
    <3>1. RtlTypes' /\ RtlOk' /\ \A a \in Compared : Rdata(a)' = {Shown(Resets, a)}
      BY <1>8, <2>1, ResetAgrees, Zenon
    <3>2. Pending' = Resets
      BY <1>2, <2>1 DEF Pending, Resets
    <3>3. Agrees(Pending)'
      BY <3>1, <3>2 DEF Agrees, Shown, Compared
    <3> QED
      BY <3>1, <3>3 DEF SyncInv
  <2>2. CASE dpi_rst_ni /\ reg_access_ /\ t.op # "Read"
    <3>1. t # NoTransaction
      BY <1>3, <2>2
    <3>2. t.op \in {"Write", "Set", "Clear"} /\ t.addr \in Addrs /\ t.wdata \in Words
      BY <1>4, <2>2, <3>1 DEF Ops
    <3>3. PICK v \in Rdata(t.addr) : RtlWrite(t.addr, WdataInt(t.op, t.wdata, v))
      BY <1>8, <2>2, Zenon
    <3>4. Agrees(register_value_) /\ register_value_ \in [Addrs -> Words] /\ RtlTypes /\ RtlOk
      BY <1>7, <3>1 DEF TypeInv, SyncInv
    <3>5. v \in Words
      <4>1. CASE t.addr \in Compared
        <5>1. Rdata(t.addr) = {Shown(register_value_, t.addr)}
          BY <3>4, <4>1 DEF Agrees
        <5>2. Shown(register_value_, t.addr) \in Words
          BY <3>2, <3>4 DEF Shown, Words
        <5> QED
          BY <5>1, <5>2
      <4>2. CASE t.addr \notin Compared
        <5>1. t.addr \in {MCycle, MCycleH}
          BY <3>2, <4>2 DEF Compared
        <5>2. Rdata(t.addr) = CycleWords
          BY <5>1, CycleReads
        <5> QED
          BY <5>2, CsRegistersAssumption
      <4> QED
        BY <4>1, <4>2
    <3>6. WdataInt(t.op, t.wdata, v) \in Words
      BY <3>2, <3>5, IntTyped
    <3>7. RtlTypes' /\ RtlOk'
      BY <3>2, <3>3, <3>4, <3>6, WriteTyped
    <3>8. \A b \in Compared :
              Rdata(b)' = {IF NotImplemented(b) THEN {}
                           ELSE IF b = t.addr THEN Updated(t.addr, t.op, t.wdata)
                           ELSE register_value_[b]}
      BY <3>2, <3>3, <3>4, <3>6, TransactionAgrees
    <3>9. \A b \in Compared : ~NotImplemented(b) =>
              Pending'[b] = IF b = t.addr THEN Updated(t.addr, t.op, t.wdata)
                            ELSE register_value_[b]
      <4>1. Updated(t.addr, t.op, t.wdata)' = Updated(t.addr, t.op, t.wdata)
        BY <1>2, <3>2, UpdatedSame
      <4>2. Captured'
        BY <1>1, <1>2, <2>2, <3>1 DEF Captured
      <4>3. Pending' = IF ~NotImplemented(t.addr)
                       THEN [register_value_ EXCEPT ![t.addr] = Updated(t.addr, t.op, t.wdata)]
                       ELSE register_value_
        BY <1>1, <1>2, <2>2, <4>1, <4>2 DEF Pending, NotImplemented
      <4> QED
        BY <3>4, <4>3 DEF Compared
    <3>10. Agrees(Pending)'
      BY <3>8, <3>9 DEF Agrees, Shown, Compared, NotImplemented
    <3> QED
      BY <3>7, <3>10 DEF SyncInv
  <2>3. CASE dpi_rst_ni /\ ~(reg_access_ /\ t.op # "Read")
    <3>1. UNCHANGED rtlVars
      BY <1>8, <2>3, Zenon
    <3>2. RtlTypes' /\ RtlOk'
      <4>1. UNCHANGED <<pmp_cfg, pmp_addr, mcountinhibit_q, mhpmcounter>>
        BY <3>1 DEF rtlVars
      <4> QED
        BY <4>1 DEF SyncInv, RtlTypes, RtlOk
    <3>3. ~Captured' \/ t.op = "Read"
      BY <1>1, <1>3, <2>3 DEF Captured
    <3>4. Pending' = register_value_ /\ Pending = register_value_
      BY <1>1, <1>2, <2>3, <3>3 DEF Pending
    <3>5. reset_duration_ >= 1 => Agrees(Pending)'
      <4> SUFFICES ASSUME reset_duration_ >= 1
                   PROVE  Agrees(Pending)'
        OBVIOUS
      <4>1. Agrees(register_value_)
        BY <1>2, <3>4 DEF SyncInv
      <4>2. \A a \in Compared : Rdata(a)' = Rdata(a)
        BY <3>1, ReadsSame
      <4> QED
        BY <3>4, <4>1, <4>2 DEF Agrees, Shown, Compared, NotImplemented
    <3> QED
      BY <1>2, <2>3, <3>2, <3>5 DEF SyncInv
  <2> QED
    BY <2>1, <2>2, <2>3
<1>10. CaptureInv'
  <2> SUFFICES ASSUME dut_ok, t # NoTransaction
               PROVE  ~Mismatch(t.addr, csr_rdata_o)'
    <3>1. dut_ok => simctrl_'.success
      BY <1>2 DEF CaptureInv
    <3> QED
      BY <1>1, <1>2, <3>1 DEF CaptureInv, Captured, Mismatch, RegisterRead
  <2>1. CASE t.addr \in Compared
    <3>1. Rdata(t.addr) = {Shown(register_value_, t.addr)}
      BY <1>7, <2>1 DEF Agrees
    <3>2. csr_rdata_o' = Shown(register_value_, t.addr)
      BY <1>1, <3>1 DEF Seen
    <3>3. RegisterRead(t.addr)' = Shown(register_value_, t.addr)
      BY <1>2, <1>4 DEF RegisterRead, Shown, NotImplemented
    <3> QED
      BY <3>2, <3>3 DEF Mismatch
  <2>2. CASE t.addr \notin Compared
    BY <1>4, <2>2 DEF Compared, Mismatch, RunsByItself
  <2> QED
    BY <2>1, <2>2
<1>11. VerdictInv'
  BY <1>2 DEF VerdictInv, AllDriven
<1> QED
  BY <1>5, <1>6, <1>9, <1>10, <1>11

-----------------------------------------------------------------------------
(* The other steps.                                                        *)

LEMMA InitInv == Init => IInv
<1> SUFFICES ASSUME Init
             PROVE  IInv
  OBVIOUS
<1> USE DEF Init
<1>1. TypeInv
  <2>1. register_value_ \in [Addrs -> Words]
    BY DEF ModelInit, Words
  <2>2. simctrl_ \in [stop : BOOLEAN, success : BOOLEAN]
    OBVIOUS
  <2>3. next_transaction_ \in TransactionType
    BY DEF TransactionType
  <2>4. wdata_dist \in Wdata /\ todo \subseteq {"env", "reg"}
    OBVIOUS
  <2>5. /\ transactions_driven_ \in Nat /\ reset_duration_ \in 0 .. 3
        /\ dpi_rst_ni \in BOOLEAN /\ rst_fell \in BOOLEAN
    <3>1. transactions_driven_ = 0 /\ reset_duration_ = 0
      OBVIOUS
    <3>2. dpi_rst_ni \in BOOLEAN /\ rst_fell = FALSE
      OBVIOUS
    <3> HIDE DEF Init
    <3>3. transactions_driven_ \in Nat /\ reset_duration_ \in 0 .. 3
      BY <3>1
    <3>4. rst_fell \in BOOLEAN
      BY <3>2
    <3> QED
      BY <3>2, <3>3, <3>4, Zenon
  <2> HIDE DEF Init
  <2> QED
    BY <2>1, <2>2, <2>3, <2>4, <2>5 DEF TypeInv
<1>2. ResetInv
  BY DEF ResetInv
<1>3. SyncInv
  BY ResetTyped DEF SyncInv
<1>4. CaptureInv
  BY DEF CaptureInv
<1>5. VerdictInv
  BY DEF VerdictInv
<1> QED
  BY <1>1, <1>2, <1>3, <1>4, <1>5 DEF IInv

LEMMA PendingSame ==
    ASSUME TypeInv, UNCHANGED <<register_value_, rst_n, next_transaction_>>,
           "reg" \in todo' <=> "reg" \in todo
    PROVE  Pending' = Pending
<1>1. \A a : \A op \in {"Write", "Set", "Clear"} : \A w :
          Updated(a, op, w)' = Updated(a, op, w)
  BY UpdatedSame
<1> DEFINE t == next_transaction_
<1>2. CASE Captured /\ t.op # "Read"
  <2>1. t.op \in {"Write", "Set", "Clear"}
    BY <1>2, TransactionParts DEF TypeInv, Captured, Ops
  <2>2. Updated(t.addr, t.op, t.wdata)' = Updated(t.addr, t.op, t.wdata)
    BY <1>1, <2>1
  <2> QED
    BY <2>2 DEF Pending, Resets, Captured, NotImplemented
<1>3. CASE ~(Captured /\ t.op # "Read")
  BY <1>3 DEF Pending, Resets, Captured
<1> QED
  BY <1>2, <1>3

LEMMA NegedgeStep == IInv /\ Negedge => IInv'
<1> SUFFICES ASSUME IInv, Negedge
             PROVE  IInv'
  OBVIOUS
<1> USE DEF IInv
<1>1. /\ todo = {} /\ rst_fell /\ todo' = {"reg"} /\ rst_n' = FALSE /\ rst_fell' = FALSE
      /\ RtlReset
      /\ UNCHANGED <<register_value_, wdata_dist, dut_ok, transactions_driven_,
                     reg_access_, reset_duration_, dpi_rst_ni, csr_rdata_o,
                     next_transaction_, simctrl_>>
      /\ UNCHANGED <<test_passed, finished, passing>>
  BY DEF Negedge, runVars, driverVars, endVars
<1>2. TypeInv'
  BY <1>1 DEF TypeInv
<1>3. ResetInv'
  BY <1>1 DEF ResetInv
<1>4. SyncInv'
  <2>1. RtlTypes' /\ RtlOk' /\ \A a \in Compared : Rdata(a)' = {Shown(Resets, a)}
    BY <1>1, ResetAgrees, Zenon
  <2>2. Pending' = Resets
    BY <1>1 DEF Pending, Resets
  <2>3. Agrees(Pending)'
    BY <2>1, <2>2 DEF Agrees, Shown, Compared
  <2> QED
    BY <2>1, <2>3 DEF SyncInv
<1>5. CaptureInv'
  BY <1>1 DEF CaptureInv, Captured
<1>6. VerdictInv'
  BY <1>1 DEF VerdictInv, AllDriven
<1> QED
  BY <1>2, <1>3, <1>4, <1>5, <1>6

LEMMA EnvTickStep == IInv /\ EnvTick => IInv'
<1> SUFFICES ASSUME IInv, EnvTick
             PROVE  IInv'
  OBVIOUS
<1> USE DEF IInv
<1>1. /\ "env" \in todo /\ todo' = todo \ {"env"}
      /\ test_passed' = simctrl_.success /\ finished' = simctrl_.stop
      /\ UNCHANGED <<register_value_, rtlVars, wdata_dist, dut_ok, transactions_driven_,
                     reg_access_, rst_n, csr_rdata_o, next_transaction_, simctrl_, passing>>
  BY DEF EnvTick, GetTestPass, GetStopReq, runVars, driverVars, inputVars
<1>2. /\ reset_duration_' \in 1 .. 3
      /\ dpi_rst_ni' \in BOOLEAN /\ rst_fell' \in BOOLEAN
      /\ reset_duration_ = 0 => rst_fell' = dpi_rst_ni
  BY DEF EnvTick, DriveReset, ResetLow, TypeInv
<1>3. TypeInv'
  BY <1>1, <1>2 DEF TypeInv
<1>4. ResetInv'
  BY <1>1, <1>2 DEF ResetInv
<1>5. SyncInv'
  <2>1. UNCHANGED <<pmp_cfg, pmp_addr, mcountinhibit_q, mhpmcounter>>
    BY <1>1 DEF rtlVars
  <2>2. RtlTypes' /\ RtlOk'
    BY <2>1 DEF SyncInv, RtlTypes, RtlOk
  <2>3. Pending' = Pending
    BY <1>1, PendingSame
  <2>4. ASSUME ~rst_fell'
        PROVE  Agrees(Pending)'
    <3>1. Agrees(Pending)
      BY <1>1, <1>2, <2>4 DEF SyncInv, ResetInv, TypeInv
    <3>2. \A a \in Compared : Rdata(a)' = Rdata(a)
      BY <1>1, ReadsSame, Zenon
    <3> QED
      BY <2>3, <3>1, <3>2 DEF Agrees, Shown, Compared
  <2> QED
    BY <2>2, <2>4 DEF SyncInv
<1>6. CaptureInv'
  BY <1>1 DEF CaptureInv, Captured, Mismatch, RegisterRead
<1>7. VerdictInv'
  BY <1>1 DEF VerdictInv, AllDriven, TypeInv
<1> QED
  BY <1>3, <1>4, <1>5, <1>6, <1>7

LEMMA RegTickStep == IInv /\ RegTick => IInv'
<1> SUFFICES ASSUME IInv, RegTick
             PROVE  IInv'
  OBVIOUS
<1> USE DEF IInv
<1> DEFINE t == next_transaction_
           wrong == Captured /\ Mismatch(t.addr, csr_rdata_o)
           found == IF wrong THEN RequestStop(simctrl_, FALSE) ELSE simctrl_
<1>1. /\ "reg" \in todo /\ todo' = todo \ {"reg"}
      /\ MonitorTick
      /\ simctrl_' = IF AllDriven THEN RequestStop(found, TRUE) ELSE found
      /\ reg_access_' = DrivesNext
      /\ IF DrivesNext THEN transactions_driven_' = transactions_driven_ + 1
         ELSE transactions_driven_' = transactions_driven_
      /\ rst_n' = FALSE /\ next_transaction_' = NoTransaction
      /\ UNCHANGED <<rtlVars, wdata_dist, dut_ok, reset_duration_, dpi_rst_ni, rst_fell>>
      /\ UNCHANGED <<test_passed, finished, passing>>
  BY DEF RegTick, StopRequests, OnClock, Randomize, runVars, resetVars, endVars
<1>2. register_value_' = Pending
  <2> DEFINE rst == RegisterReset
             proc == ProcessTransaction(t.addr, t.op, t.wdata)
             same == UNCHANGED register_value_
  <2>1. (CASE ~rst_n -> rst [] Captured -> proc [] OTHER -> same)
    BY <1>1, Zenon DEF MonitorTick
  <2>2. Captured => rst_n
    BY DEF Captured
  <2> HIDE DEF rst, proc, same
  <2>3. /\ ~rst_n => rst
        /\ Captured => proc
        /\ rst_n /\ ~Captured => same
    BY <2>1, <2>2, Zenon
  <2>4. CASE ~rst_n
    BY <1>1, <2>3, <2>4 DEF rst, RegisterReset, Pending, Resets
  <2>5. CASE Captured
    BY <1>1, <2>2, <2>3, <2>5 DEF proc, ProcessTransaction, Pending
  <2>6. CASE rst_n /\ ~Captured
    BY <1>1, <2>3, <2>6 DEF same, Pending
  <2> QED
    BY <2>4, <2>5, <2>6
<1>3. /\ simctrl_' \in [stop : BOOLEAN, success : BOOLEAN]
      /\ simctrl_'.success = (simctrl_.success /\ ~wrong)
      /\ simctrl_'.stop = (simctrl_.stop \/ wrong \/ AllDriven)
  <2>1. wrong \in BOOLEAN /\ AllDriven \in BOOLEAN
    BY DEF AllDriven, Captured, Mismatch
  <2>2. simctrl_.stop \in BOOLEAN /\ simctrl_.success \in BOOLEAN
        /\ simctrl_ \in [stop : BOOLEAN, success : BOOLEAN]
    BY DEF TypeInv
  <2> HIDE DEF wrong
  <2>3. /\ found \in [stop : BOOLEAN, success : BOOLEAN]
        /\ found.success = (simctrl_.success /\ ~wrong)
        /\ found.stop = (simctrl_.stop \/ wrong)
    BY <2>1, <2>2 DEF RequestStop
  <2> HIDE DEF found
  <2> QED
    BY <1>1, <2>1, <2>3 DEF RequestStop
<1>4. transactions_driven_' \in Nat /\ transactions_driven_' >= transactions_driven_
      /\ (reg_access_' => transactions_driven_' > 0)
  BY <1>1 DEF TypeInv
<1>5. TypeInv'
  <2>1. register_value_' \in [Addrs -> Words]
    BY <1>2, PendingTyped
  <2> QED
    BY <1>1, <1>3, <1>4, <2>1 DEF TypeInv, TransactionType
<1>6. ResetInv'
  BY <1>1, <1>4 DEF ResetInv, TypeInv
<1>7. SyncInv'
  <2>1. UNCHANGED <<pmp_cfg, pmp_addr, mcountinhibit_q, mhpmcounter>>
    BY <1>1 DEF rtlVars
  <2>2. RtlTypes' /\ RtlOk'
    BY <2>1 DEF SyncInv, RtlTypes, RtlOk
  <2>3. Pending' = Pending
    BY <1>1, <1>2 DEF Pending
  <2>4. ASSUME Agrees(Pending)
        PROVE  Agrees(Pending)'
    <3>1. \A a \in Compared : Rdata(a)' = Rdata(a)
      BY <1>1, ReadsSame, Zenon
    <3> QED
      BY <2>3, <2>4, <3>1 DEF Agrees, Shown, Compared
  <2> QED
    BY <1>1, <2>2, <2>4 DEF SyncInv
<1>8. CaptureInv'
  <2>1. dut_ok => ~wrong
    BY <1>1 DEF CaptureInv
  <2> HIDE DEF wrong
  <2> QED
    BY <1>1, <1>3, <2>1 DEF CaptureInv
<1>9. VerdictInv'
  <2>1. AllDriven => AllDriven'
    BY <1>4, CsBenchAssumption DEF AllDriven, TypeInv
  <2>2. \A x \in {"env"} : x \in todo' <=> x \in todo
    BY <1>1
  <2> HIDE DEF wrong
  <2> QED
    BY <1>1, <1>3, <2>1, <2>2 DEF VerdictInv
<1> QED
  BY <1>5, <1>6, <1>7, <1>8, <1>9

LEMMA StutterStep == IInv /\ UNCHANGED vars => IInv'
<1> SUFFICES ASSUME IInv, UNCHANGED vars
             PROVE  IInv'
  OBVIOUS
<1> USE DEF IInv, vars, runVars, driverVars, resetVars, inputVars, endVars
<1>1. TypeInv' /\ ResetInv' /\ VerdictInv'
  BY DEF TypeInv, ResetInv, VerdictInv, AllDriven
<1>2. CaptureInv'
  BY DEF CaptureInv, Captured, Mismatch, RegisterRead
<1>3. SyncInv'
  <2>1. RtlTypes' /\ RtlOk'
    BY DEF rtlVars, SyncInv, RtlTypes, RtlOk
  <2>2. Pending' = Pending
    BY PendingSame
  <2>3. \A a \in Compared : Rdata(a)' = Rdata(a)
    BY ReadsSame
  <2> QED
    BY <2>1, <2>2, <2>3 DEF SyncInv, Agrees, Shown, Compared
<1> QED
  BY <1>1, <1>2, <1>3

-----------------------------------------------------------------------------
(* The theorems.                                                           *)

\* The inductive invariant holds in every reachable state.
THEOREM Invariance == FairSpec => []IInv
<1>1. IInv /\ [Next]_vars => IInv'
  <2> SUFFICES ASSUME IInv, [Next]_vars
               PROVE  IInv'
    OBVIOUS
  <2>1. CASE Posedge
    BY <2>1, PosedgeStep
  <2>2. CASE Negedge
    BY <2>2, NegedgeStep
  <2>3. CASE EnvTick
    BY <2>3, EnvTickStep
  <2>4. CASE RegTick
    BY <2>4, RegTickStep
  <2>5. CASE Ended
    BY <2>5, StutterStep DEF Ended
  <2>6. CASE UNCHANGED vars
    BY <2>6, StutterStep
  <2> QED
    BY <2>1, <2>2, <2>3, <2>4, <2>5, <2>6 DEF Next
<1> QED
  BY <1>1, InitInv, PTL DEF FairSpec

\* Whatever the transactions and wherever resets fall, also onto the clock
\* edge that drives a transaction: between two time steps the registers of
\* ibex_cs_registers.sv read as the C++ model says, and the monitor finds no
\* fault with them.
THEOREM Agreement == FairSpec => []ModelAgrees
<1>1. IInv => ModelAgrees
  <2> SUFFICES ASSUME IInv
               PROVE  ModelAgrees
    OBVIOUS
  <2>1. ASSUME Settled, transactions_driven_ > 0, NEW a \in Addrs \ {MCycle, MCycleH}
        PROVE  Rdata(a) = {RegisterRead(a)}
    <3>1. reset_duration_ >= 1 /\ todo = {} /\ ~rst_fell
      BY <2>1 DEF IInv, ResetInv, Settled
    <3>2. Agrees(register_value_)
      BY <3>1 DEF IInv, SyncInv, Pending
    <3> QED
      BY <2>1, <3>2 DEF Agrees, Compared, Shown, RegisterRead
  <2> QED
    BY <2>1 DEF ModelAgrees, IInv, CaptureInv
<1> QED
  BY <1>1, Invariance, PTL

\* A mismatch that RegisterModel::NewTransaction reports is in the exit code,
\* in whichever order it and the end of the run request the stop; and a run
\* that passes has driven all its transactions.
THEOREM Verdict == FairSpec => []VerdictRight
<1>1. IInv => VerdictRight
  BY DEF IInv, VerdictInv, VerdictRight, ExitCode, AllDriven
<1> QED
  BY <1>1, Invariance, PTL
=============================================================================
