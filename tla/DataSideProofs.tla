---------------------------- MODULE DataSideProofs ----------------------------
(***************************************************************************)
(* Theorems about the load-store unit between the ID/EX stage and the data *)
(* bus, for every size of the address space, both cores, every program of  *)
(* accesses and every set of words the PMP refuses.                        *)
(***************************************************************************)
EXTENDS DataSide, TLAPS

-----------------------------------------------------------------------------
(* The inductive invariant.                                                *)

\* The access being carried out: ID keeps it until the last grant, and with a
\* writeback stage that stage keeps it from then on.
Active == IF WritebackStage
          THEN IF ls_fsm_cs = "IDLE" THEN wb_acc ELSE id_acc
          ELSE IF id_first THEN <<>> ELSE id_acc

Refused(a, part) == PartWord(a, part) \in denied

\* The lanes of a part, and what it is on the bus.
Enabled(a, part) ==
    LET off == Offset(a.addr) IN
    CASE a.type = "word" -> IF part = 2 THEN {k \in 0 .. 3 : k < off}
                            ELSE {k \in 0 .. 3 : k >= off}
      [] a.type = "half" -> IF part = 2 THEN {0} ELSE {k \in {off, off + 1} : k <= 3}
      [] a.type = "byte" -> {off}

Txn(a, part) ==
    [word |-> PartWord(a, part), part |-> part, we |-> a.we,
     lanes |-> IF a.we THEN {<<k, (k + 4 - Offset(a.addr)) % 4>> : k \in Enabled(a, part)}
               ELSE {}]

\* What the bus holds of a part once the LSU has requested it, and what the
\* memory has got of it.
OnBus(a, part) == IF Refused(a, part) THEN <<>> ELSE <<Txn(a, part)>>
BytesOf(a, part) == {<<4 * PartWord(a, part) + l[1], l[2]>> : l \in Txn(a, part).lanes}
Stored(a, part) == IF Refused(a, part) THEN {} ELSE BytesOf(a, part)

\* The registers for the answer are those of the access.
Recorded(a) == /\ rdata_offset_q = Offset(a.addr)
               /\ data_type_q = a.type
               /\ data_sign_ext_q = a.sign
               /\ data_we_q = a.we

\* The first part is done: how it ended.
FirstDone(a) == /\ failed \subseteq {1}
                /\ lsu_err_q <=> 1 \in failed \/ Refused(a, 1)

Waits(a) == /\ ~lsu_err_q /\ failed = {}
            /\ mem_q = <<>> /\ written = {}
            /\ pmp_err_q <=> Refused(a, 1)

InWaitGntMis(a) == IsSplit(a) /\ ~handle_misaligned_q /\ Waits(a)

InWaitRvalidMis(a) ==
    /\ IsSplit(a) /\ handle_misaligned_q /\ ~lsu_err_q /\ failed = {}
    /\ addr_last_q = a.addr /\ Recorded(a)
    /\ pmp_err_q <=> Refused(a, 1)
    /\ mem_q = OnBus(a, 1) /\ written = Stored(a, 1)

InGntsDone(a) ==
    /\ IsSplit(a) /\ ~handle_misaligned_q /\ ~lsu_err_q /\ failed = {} /\ ~pmp_err_q
    /\ addr_last_q = a.addr /\ Recorded(a)
    /\ ~Refused(a, 1) /\ ~Refused(a, 2)
    /\ mem_q = <<Txn(a, 1), Txn(a, 2)>> /\ written = Stored(a, 1) \cup Stored(a, 2)

InWaitGnt(a) ==
    /\ ~handle_misaligned_q => ~IsSplit(a) /\ Waits(a)
    /\ handle_misaligned_q =>
          /\ IsSplit(a) /\ FirstDone(a)
          /\ addr_last_q = a.addr /\ Recorded(a)
          /\ pmp_err_q <=> Refused(a, 2)
          /\ mem_q = <<>> /\ written = Stored(a, 1)

\* All is requested; the last part's answer is outstanding.
InIdle(a) ==
    /\ ~handle_misaligned_q /\ Recorded(a)
    /\ ~IsSplit(a) => /\ ~lsu_err_q /\ failed = {} /\ addr_last_q = a.addr
                      /\ pmp_err_q <=> Refused(a, 1)
                      /\ mem_q = OnBus(a, 1) /\ written = Stored(a, 1)
    /\ IsSplit(a) => /\ FirstDone(a)
                     /\ addr_last_q = IF lsu_err_q THEN a.addr ELSE Plus(a.addr, 4)
                     /\ pmp_err_q <=> Refused(a, 2)
                     /\ mem_q = OnBus(a, 2)
                     /\ written = Stored(a, 1) \cup Stored(a, 2)

AtRest == /\ mem_q = <<>> /\ ~pmp_err_q /\ ~handle_misaligned_q
          /\ written = {} /\ failed = {}

\* The state machine, the bus, the PMP's verdicts and the bookkeeping are those
\* of the active access.
ControlInv ==
    /\ Active = <<>> => ls_fsm_cs = "IDLE" /\ AtRest
    /\ \A a \in Access : Active = <<a>> =>
          /\ ls_fsm_cs = "IDLE" => InIdle(a)
          /\ ls_fsm_cs = "WAIT_GNT_MIS" => InWaitGntMis(a)
          /\ ls_fsm_cs = "WAIT_RVALID_MIS" => InWaitRvalidMis(a)
          /\ ls_fsm_cs = "WAIT_GNT" => InWaitGnt(a)
          /\ ls_fsm_cs = "WAIT_RVALID_MIS_GNTS_DONE" => InGntsDone(a)

TypeInv ==
    /\ core \in Cores /\ denied \in Regions
    /\ id_acc \in {<<>>} \cup {<<a>> : a \in Accesses}
    /\ wb_acc \in {<<>>} \cup {<<a>> : a \in Accesses}
    /\ id_first \in BOOLEAN
    /\ ls_fsm_cs \in States
    /\ handle_misaligned_q \in BOOLEAN /\ pmp_err_q \in BOOLEAN /\ lsu_err_q \in BOOLEAN
    /\ answered \in BOOLEAN

\* Where ID keeps its accesses.
IdInv ==
    /\ WritebackStage => id_first /\ (ls_fsm_cs # "IDLE" => wb_acc = <<>>)
    /\ ~WritebackStage => wb_acc = <<>> /\ (id_acc = <<>> => id_first)

\* The part that is requested.
Part == IF handle_misaligned_q THEN 2 ELSE 1

\* A request without a grant is still that of the active access.
WaitInv ==
    waiting # <<>> =>
        /\ ls_fsm_cs \in {"WAIT_GNT", "WAIT_GNT_MIS", "WAIT_RVALID_MIS"}
        /\ \A a \in Access : Active = <<a>> => /\ waiting = <<Txn(a, Part)>>
                                               /\ ~Refused(a, Part)

\* The first word of a split load for one cycle.
DataInv ==
    \A a \in Access :
        Active = <<a>> /\ ls_fsm_cs = "IDLE" /\ IsSplit(a) /\ ~a.we /\ answered
            => rdata_q = [k \in 1 .. 3 |-> MemoryByte(4 * PartWord(a, 1) + k)]

AnswerInv ==
    /\ OneAnswerEach /\ ErrorsReported /\ FaultAddress /\ StoredBytes /\ LoadedValuePrompt

IInv == TypeInv /\ IdInv /\ ControlInv /\ WaitInv /\ DataInv /\ AnswerInv

-----------------------------------------------------------------------------
(* Addresses, queues and accesses.                                         *)

LEMMA Wrapping ==
    /\ NBytes \in Nat /\ NBytes >= 4 /\ NBytes % 4 = 0
    /\ \A x \in Bytes, n \in 0 .. 4 :
          /\ Plus(x, n) = IF x + n < NBytes THEN x + n ELSE x + n - NBytes
          /\ Plus(x, n) \in Bytes
<1>1. NBytes \in Nat /\ NBytes >= 4 /\ NBytes % 4 = 0
  BY NBytesAssumption
<1>2. \A y \in Nat : /\ y < NBytes => y % NBytes = y
                     /\ NBytes <= y /\ y < 2 * NBytes => y % NBytes = y - NBytes
  BY NBytesAssumption
<1>3. ASSUME NEW x \in Bytes, NEW n \in 0 .. 4
      PROVE  /\ Plus(x, n) = IF x + n < NBytes THEN x + n ELSE x + n - NBytes
             /\ Plus(x, n) \in Bytes
  <2>1. x + n \in Nat /\ x + n < 2 * NBytes /\ x < NBytes /\ x \in Nat
    BY <1>1 DEF Bytes
  <2>2. Plus(x, n) = IF x + n < NBytes THEN x + n ELSE x + n - NBytes
    BY <1>1, <1>2, <2>1 DEF Plus
  <2> QED
    BY <1>1, <2>1, <2>2 DEF Bytes
<1> QED
  BY <1>1, <1>3

LEMMA Halving ==
    \A x \in Bytes : /\ x \in Nat /\ Offset(x) \in 0 .. 3 /\ WordOf(x) \in Words
                     /\ x = 4 * WordOf(x) + Offset(x)
                     /\ 4 * WordOf(x) + 3 < NBytes
<1> SUFFICES ASSUME NEW x \in Bytes
             PROVE  /\ x \in Nat /\ Offset(x) \in 0 .. 3 /\ WordOf(x) \in Words
                    /\ x = 4 * WordOf(x) + Offset(x)
                    /\ 4 * WordOf(x) + 3 < NBytes
  OBVIOUS
<1>1. x \in Nat /\ x < NBytes
  BY NBytesAssumption DEF Bytes
<1>2. WordOf(x) \in Nat /\ Offset(x) \in 0 .. 3
  BY <1>1 DEF WordOf, Offset
<1>3. \A w \in Nat : WordOf(x) = w => x = 4 * w + Offset(x)
  BY <1>1 DEF WordOf, Offset
<1>4. x = 4 * WordOf(x) + Offset(x)
  BY <1>2, <1>3
<1> DEFINE m == NBytes \div 4
<1>5. NBytes = 4 * m /\ m \in Nat
  BY NBytesAssumption
<1> HIDE DEF m
<1>6. WordOf(x) < m
  BY <1>1, <1>2, <1>4, <1>5
<1>7. WordOf(x) \in Words
  BY <1>2, <1>5, <1>6 DEF Words, m
<1> QED
  BY <1>1, <1>2, <1>4, <1>5, <1>6, <1>7

\* The second part has the offset of the first.
LEMMA SameOffset == \A x \in Bytes : Offset(Plus(x, 4)) = Offset(x)
<1> SUFFICES ASSUME NEW x \in Bytes
             PROVE  Offset(Plus(x, 4)) = Offset(x)
  OBVIOUS
<1>1. x \in Nat /\ NBytes \in Nat /\ NBytes % 4 = 0 /\ Plus(x, 4) \in Nat
  BY Wrapping DEF Bytes
<1>2. Plus(x, 4) = x + 4 \/ Plus(x, 4) = x + 4 - NBytes
  BY Wrapping
<1>3. NBytes = 4 * (NBytes \div 4) /\ NBytes \div 4 \in Nat
  BY <1>1
<1>4. (x + 4) % 4 = x % 4 /\ (x + 4 - NBytes) % 4 = x % 4
  BY <1>1, <1>3
<1> QED
  BY <1>2, <1>4 DEF Offset

LEMMA Queues ==
    \A x, y : /\ Head(<<x>>) = x /\ Tail(<<x>>) = <<>>
              /\ Head(<<x, y>>) = x /\ Tail(<<x, y>>) = <<y>>
              /\ <<>> \o <<y>> = <<y>> /\ <<x>> \o <<y>> = <<x, y>>
              /\ <<x>> \o <<>> = <<x>> /\ <<x, y>> \o <<>> = <<x, y>>
              /\ <<>> \o <<>> = <<>>
              /\ <<x>> # <<>> /\ <<x, y>> # <<>>
              /\ Len(<<>>) = 0 /\ Len(<<x>>) = 1 /\ Len(<<x, y>>) = 2
<1> SUFFICES ASSUME NEW x, NEW y
             PROVE  /\ Head(<<x>>) = x /\ Tail(<<x>>) = <<>>
                    /\ Head(<<x, y>>) = x /\ Tail(<<x, y>>) = <<y>>
                    /\ <<>> \o <<y>> = <<y>> /\ <<x>> \o <<y>> = <<x, y>>
                    /\ <<x>> \o <<>> = <<x>> /\ <<x, y>> \o <<>> = <<x, y>>
                    /\ <<>> \o <<>> = <<>>
                    /\ <<x>> # <<>> /\ <<x, y>> # <<>>
                    /\ Len(<<>>) = 0 /\ Len(<<x>>) = 1 /\ Len(<<x, y>>) = 2
  OBVIOUS
<1>1. Head(<<x>>) = x /\ Head(<<x, y>>) = x
  OBVIOUS
<1>2. Len(<<>>) = 0 /\ Len(<<x>>) = 1 /\ Len(<<x, y>>) = 2
  OBVIOUS
<1>3. <<x>> # <<>> /\ <<x, y>> # <<>>
  BY <1>2
<1>4. Tail(<<x>>) = <<>>
  OBVIOUS
<1>5. Tail(<<x, y>>) = <<y>>
  OBVIOUS
<1>6. <<>> \o <<y>> = <<y>> /\ <<>> \o <<>> = <<>>
  OBVIOUS
<1>7. <<x>> \o <<y>> = <<x, y>>
  <2> DEFINE s == <<x>>
             t == <<y>>
             u == s \o t
             v == <<x, y>>
  <2>1. s \in Seq({x, y}) /\ t \in Seq({x, y}) /\ v \in Seq({x, y}) /\ Len(v) = 2
        /\ Len(s) = 1 /\ Len(t) = 1 /\ s[1] = x /\ t[1] = y /\ v[1] = x /\ v[2] = y
    OBVIOUS
  <2> HIDE DEF s, t, v
  <2>2. u \in Seq({x, y}) /\ Len(u) = 2 /\ u[1] = x /\ u[2] = y
    BY <2>1
  <2> HIDE DEF u
  <2>3. u = v
    BY <2>1, <2>2
  <2> QED
    BY <2>3 DEF u, s, t, v
<1>8. <<x>> \o <<>> = <<x>> /\ <<x, y>> \o <<>> = <<x, y>>
  OBVIOUS
<1> QED
  BY <1>1, <1>2, <1>3, <1>4, <1>5, <1>6, <1>7, <1>8

LEMMA Sizes == Size("word") = 4 /\ Size("half") = 2 /\ Size("byte") = 1
<1>1. Size("word") = 4
  BY Zenon DEF Size
<1>2. Size("half") = 2
  BY Zenon DEF Size
<1>3. Size("byte") = 1
  BY Zenon DEF Size
<1> QED
  BY <1>1, <1>2, <1>3

LEMMA EnabledIs ==
    ASSUME NEW a
    PROVE  LET off == Offset(a.addr) IN
           /\ a.type = "word" => /\ Enabled(a, 1) = {k \in 0 .. 3 : k >= off}
                                 /\ Enabled(a, 2) = {k \in 0 .. 3 : k < off}
           /\ a.type = "half" => /\ Enabled(a, 1) = {k \in {off, off + 1} : k <= 3}
                                 /\ Enabled(a, 2) = {0}
           /\ a.type = "byte" => Enabled(a, 1) = {off} /\ Enabled(a, 2) = {off}
<1> DEFINE off == Offset(a.addr)
           word1 == {k \in 0 .. 3 : k >= off}
           word2 == {k \in 0 .. 3 : k < off}
           half1 == {k \in {off, off + 1} : k <= 3}
           word(p) == IF p = 2 THEN word2 ELSE word1
           half(p) == IF p = 2 THEN {0} ELSE half1
<1>1. \A p : Enabled(a, p) = CASE a.type = "word" -> word(p)
                               [] a.type = "half" -> half(p)
                               [] a.type = "byte" -> {off}
  BY Zenon DEF Enabled
<1>2. word(1) = word1 /\ word(2) = word2 /\ half(1) = half1 /\ half(2) = {0}
  OBVIOUS
<1> HIDE DEF word1, word2, half1, word, half
<1>3. a.type = "word" => \A p : Enabled(a, p) = word(p)
  BY <1>1, Zenon
<1>4. a.type = "half" => \A p : Enabled(a, p) = half(p)
  BY <1>1, Zenon
<1>5. a.type = "byte" => \A p : Enabled(a, p) = {off}
  BY <1>1, Zenon
<1> QED
  BY <1>2, <1>3, <1>4, <1>5, Zenon DEF word1, word2, half1

\* A record of an access.
LEMMA AccessParts ==
    ASSUME NEW a \in Access
    PROVE  /\ a.type \in Types /\ a.we \in BOOLEAN /\ a.sign \in BOOLEAN /\ a.addr \in Bytes
           /\ Offset(a.addr) \in 0 .. 3 /\ Plus(a.addr, 4) \in Bytes
           /\ IsSplit(a) <=> \/ a.type = "word" /\ Offset(a.addr) # 0
                             \/ a.type = "half" /\ Offset(a.addr) = 3
<1>1. a.type \in Types /\ a.we \in BOOLEAN /\ a.sign \in BOOLEAN /\ a.addr \in Bytes
  BY DEF Access
<1>2. Offset(a.addr) \in 0 .. 3 /\ Plus(a.addr, 4) \in Bytes
  BY <1>1, Halving, Wrapping
<1>3. IsSplit(a) <=> Offset(a.addr) + Size(a.type) > 4
  BY DEF IsSplit
<1> QED
  BY <1>1, <1>2, <1>3, Sizes DEF Types

-----------------------------------------------------------------------------
(* A clock cycle.                                                          *)

\* What Cycle puts together.
InputOf(i) ==
    /\ i.req <=> LsuReq(i.rvalid, i.err)
    /\ i.req \in BOOLEAN
    /\ i.gnt \in BOOLEAN /\ i.rvalid \in BOOLEAN /\ i.err \in BOOLEAN
    /\ i.acc = IF id_acc = <<>> THEN NoAccess ELSE id_acc[1]
    /\ i.rdata = IF i.rvalid /\ ~Head(mem_q).we THEN BusData(Head(mem_q)) ELSE NoData
    /\ i.pmpErr <=> WordOf(DataAddr(i)) \in denied
    /\ i.pmpErr \in BOOLEAN
    /\ i.err => i.rvalid
    /\ i.rvalid => mem_q # <<>>

LEMMA Inputs == Next => \E i : InputOf(i) /\ Clock(i)
<1> SUFFICES ASSUME Next
             PROVE  \E i : InputOf(i) /\ Clock(i)
  OBVIOUS
<1>1. PICK gnt \in BOOLEAN, ans \in Answers : Clock(Cycle(gnt, ans[1], ans[2]))
  BY DEF Next
<1> DEFINE rvalid == ans[1]
           err == ans[2]
           i == Cycle(gnt, rvalid, err)
           acc == IF id_acc = <<>> THEN NoAccess ELSE id_acc[1]
           addr == IF AddrIncrReq THEN Plus(addr_last_q, 4) ELSE acc.addr
           req == LsuReq(rvalid, err)
           rdata == IF rvalid /\ ~Head(mem_q).we THEN BusData(Head(mem_q)) ELSE NoData
           pmp == WordOf(addr) \in denied
<1>2. rvalid \in BOOLEAN /\ err \in BOOLEAN /\ (err => rvalid) /\ (rvalid => mem_q # <<>>)
  <2>1. \/ ans = <<FALSE, FALSE>>
        \/ (ans = <<TRUE, FALSE>> \/ ans = <<TRUE, TRUE>>) /\ mem_q # <<>>
    BY DEF Answers
  <2>2. CASE ans = <<FALSE, FALSE>>
    <3>1. rvalid = FALSE /\ err = FALSE
      BY <2>2
    <3> QED
      BY <3>1, Zenon
  <2>3. CASE ans = <<TRUE, FALSE>> /\ mem_q # <<>>
    <3>1. rvalid = TRUE /\ err = FALSE
      BY <2>3
    <3> QED
      BY <2>3, <3>1, Zenon
  <2>4. CASE ans = <<TRUE, TRUE>> /\ mem_q # <<>>
    <3>1. rvalid = TRUE /\ err = TRUE
      BY <2>4
    <3> QED
      BY <2>4, <3>1, Zenon
  <2> QED
    BY <2>1, <2>2, <2>3, <2>4
<1> HIDE DEF rvalid, err
<1>3. i = [req |-> req, acc |-> acc, gnt |-> gnt, rvalid |-> rvalid, err |-> err,
           rdata |-> rdata, pmpErr |-> pmp]
  BY Zenon DEF Cycle
<1>4. req \in BOOLEAN /\ pmp \in BOOLEAN
  BY DEF LsuReq
<1>5. addr = IF AddrIncrReq THEN Plus(addr_last_q, 4) ELSE acc.addr
  OBVIOUS
<1> HIDE DEF req, pmp, rdata, acc, addr, i
<1>6. /\ i.req = req /\ i.acc = acc /\ i.gnt = gnt /\ i.rvalid = rvalid /\ i.err = err
      /\ i.rdata = rdata /\ i.pmpErr = pmp
  BY <1>3
<1>7. DataAddr(i) = addr
  BY <1>5, <1>6 DEF DataAddr
<1>8. InputOf(i)
  <2>1. i.acc = IF id_acc = <<>> THEN NoAccess ELSE id_acc[1]
    BY <1>6, Zenon DEF acc
  <2>2. i.rdata = IF i.rvalid /\ ~Head(mem_q).we THEN BusData(Head(mem_q)) ELSE NoData
    BY <1>6, Zenon DEF rdata
  <2>3. i.pmpErr <=> WordOf(DataAddr(i)) \in denied
    BY <1>6, <1>7, Zenon DEF pmp
  <2>4. i.req <=> LsuReq(i.rvalid, i.err)
    BY <1>6, Zenon DEF req
  <2> QED
    BY <1>2, <1>4, <1>6, <2>1, <2>2, <2>3, <2>4, Zenon DEF InputOf
<1>9. Clock(i)
  BY <1>1, Zenon DEF i, rvalid, err
<1> QED
  BY <1>8, <1>9

\* What the LSU requests is a part of the access.
LEMMA Transacts ==
    ASSUME NEW i, NEW a \in Access, i.acc = a, NEW part \in {1, 2},
           handle_misaligned_q <=> part = 2,
           DataAddr(i) = IF part = 2 THEN Plus(a.addr, 4) ELSE a.addr
    PROVE  /\ Transaction(i) = Txn(a, part)
           /\ WordOf(DataAddr(i)) = PartWord(a, part)
           /\ Offset(DataAddr(i)) = Offset(a.addr)
           /\ SplitMisaligned(i) <=> IsSplit(a)
<1>1. WordOf(DataAddr(i)) = PartWord(a, part)
  BY DEF PartWord
<1>2. Offset(DataAddr(i)) = Offset(a.addr)
  BY AccessParts, SameOffset
<1>3. SplitMisaligned(i) <=> IsSplit(a)
  BY <1>2, AccessParts DEF SplitMisaligned
<1> DEFINE off == Offset(a.addr)
           word == IF handle_misaligned_q THEN {k \in 0 .. 3 : k < off}
                                          ELSE {k \in 0 .. 3 : k >= off}
           half == IF handle_misaligned_q THEN {0} ELSE {k \in {off, off + 1} : k <= 3}
           byte == {off}
<1>4. ByteEnable(i) = CASE a.type = "word" -> word
                        [] a.type = "half" -> half
                        [] a.type = "byte" -> byte
  <2>1. ByteEnable(i) =
            LET o == Offset(DataAddr(i)) IN
            CASE a.type = "word" -> IF handle_misaligned_q
                                    THEN {k \in 0 .. 3 : k < o}
                                    ELSE {k \in 0 .. 3 : k >= o}
              [] a.type = "half" -> IF handle_misaligned_q THEN {0}
                                    ELSE {k \in {o, o + 1} : k <= 3}
              [] a.type = "byte" -> {o}
    BY Zenon DEF ByteEnable
  <2> QED
    BY <1>2, <2>1, Zenon
<1>5. Enabled(a, part) = CASE a.type = "word" -> word
                           [] a.type = "half" -> half
                           [] a.type = "byte" -> byte
  <2> DEFINE pword == IF part = 2 THEN {k \in 0 .. 3 : k < off}
                      ELSE {k \in 0 .. 3 : k >= off}
             phalf == IF part = 2 THEN {0} ELSE {k \in {off, off + 1} : k <= 3}
  <2>1. Enabled(a, part) = CASE a.type = "word" -> pword
                             [] a.type = "half" -> phalf
                             [] a.type = "byte" -> byte
    BY Zenon DEF Enabled
  <2>2. pword = word /\ phalf = half
    OBVIOUS
  <2> HIDE DEF word, half, byte, pword, phalf
  <2> QED
    BY <2>1, <2>2, Zenon
<1>6. ByteEnable(i) = Enabled(a, part)
  <2> HIDE DEF word, half, byte
  <2> QED
    BY <1>4, <1>5, Zenon
<1>7. \A k : WDataByte(i, k) = (k + 4 - off) % 4
  BY <1>2 DEF WDataByte
<1>8. Transaction(i) = Txn(a, part)
  <2> DEFINE lanes == IF a.we THEN {<<k, WDataByte(i, k)>> : k \in ByteEnable(i)} ELSE {}
             plus == IF a.we THEN {<<k, (k + 4 - off) % 4>> : k \in Enabled(a, part)} ELSE {}
             p == IF handle_misaligned_q THEN 2 ELSE 1
  <2>1. Transaction(i) = [word |-> WordOf(DataAddr(i)), part |-> p, we |-> a.we,
                          lanes |-> lanes]
    BY Zenon DEF Transaction
  <2>2. Txn(a, part) = [word |-> PartWord(a, part), part |-> part, we |-> a.we,
                        lanes |-> plus]
    BY Zenon DEF Txn
  <2>3. p = part
    OBVIOUS
  <2>4. lanes = plus
    BY <1>6, <1>7
  <2> HIDE DEF lanes, plus, p
  <2> QED
    BY <1>1, <2>1, <2>2, <2>3, <2>4, Zenon
<1> QED
  BY <1>1, <1>2, <1>3, <1>8

-----------------------------------------------------------------------------
(* What ID does in a cycle.                                                *)

LEMMA CoreParts ==
    TypeInv => /\ Accesses \subseteq Access /\ WritebackStage \in BOOLEAN
               /\ \A a \in Accesses : <<a>>[1] = a /\ <<a>> # <<>>
               /\ id_acc # <<>> => id_acc[1] \in Access /\ id_acc = <<id_acc[1]>>
               /\ wb_acc # <<>> => wb_acc[1] \in Access /\ wb_acc = <<wb_acc[1]>>
<1> SUFFICES ASSUME TypeInv
             PROVE  /\ Accesses \subseteq Access /\ WritebackStage \in BOOLEAN
                    /\ \A a \in Accesses : <<a>>[1] = a /\ <<a>> # <<>>
                    /\ id_acc # <<>> => id_acc[1] \in Access /\ id_acc = <<id_acc[1]>>
                    /\ wb_acc # <<>> => wb_acc[1] \in Access /\ wb_acc = <<wb_acc[1]>>
  OBVIOUS
<1>1. core \in [writeback : BOOLEAN, accesses : SUBSET Access]
  BY DataSideAssumption DEF TypeInv
<1>2. Accesses \subseteq Access /\ WritebackStage \in BOOLEAN
  BY <1>1 DEF Accesses, WritebackStage
<1>3. \A a \in Accesses : <<a>>[1] = a /\ <<a>> # <<>>
  BY Queues
<1>4. /\ id_acc # <<>> => \E a \in Accesses : id_acc = <<a>>
      /\ wb_acc # <<>> => \E a \in Accesses : wb_acc = <<a>>
  BY DEF TypeInv
<1> QED
  BY <1>2, <1>3, <1>4

\* While the state machine is busy its access stays.
LEMMA Busy ==
    ASSUME TypeInv, IdInv, ControlInv, NEW i, InputOf(i), Clock(i), ls_fsm_cs # "IDLE",
           ls_fsm_cs' \in States
    PROVE  /\ Active # <<>> /\ i.acc = Active[1] /\ Active[1] \in Access
           /\ Active' = Active /\ Active = <<Active[1]>>
           /\ IdInv'
           /\ id_acc' \in {<<>>} \cup {<<a>> : a \in Accesses}
           /\ wb_acc' \in {<<>>} \cup {<<a>> : a \in Accesses}
           /\ id_first' \in BOOLEAN
<1>1. UNCHANGED core /\ (IdWithoutWb(i) \/ IdWithWb(i))
  BY DEF Clock
<1>2. Active # <<>> /\ Active = id_acc
  BY DEF ControlInv, Active
<1>3. ~RespValid(i)
  BY DEF RespValid
<1>4. i.acc = Active[1] /\ Active[1] \in Access /\ Active = <<Active[1]>>
  BY <1>2, CoreParts DEF InputOf
<1>5. CASE ~WritebackStage
  <2>1. ~id_first /\ id_acc # <<>> /\ wb_acc = <<>>
    BY <1>2, <1>5 DEF Active, IdInv
  <2>2. wb_acc' = wb_acc /\ id_first' = FALSE /\ id_acc' = id_acc
    BY <1>1, <1>3, <1>5, <2>1 DEF IdWithoutWb, IdWithWb
  <2> QED
    BY <1>1, <1>2, <1>4, <1>5, <2>1, <2>2 DEF Active, IdInv, TypeInv, WritebackStage
<1>6. CASE WritebackStage
  <2>1. wb_acc = <<>> /\ id_first /\ id_acc # <<>>
    BY <1>2, <1>6 DEF Active, IdInv
  <2>2. ReqDone(i) <=> ls_fsm_cs' = "IDLE"
    BY DEF ReqDone
  <2>3. /\ id_first' = id_first
        /\ ls_fsm_cs' = "IDLE" => /\ wb_acc' = id_acc
                                  /\ id_acc' \in {<<>>} \cup {<<a>> : a \in Accesses}
        /\ ls_fsm_cs' # "IDLE" => wb_acc' = wb_acc /\ id_acc' = id_acc
    BY <1>1, <1>3, <1>6, <2>1, <2>2 DEF IdWithoutWb, IdWithWb
  <2> QED
    BY <1>1, <1>2, <1>4, <1>6, <2>1, <2>3 DEF Active, IdInv, TypeInv, WritebackStage
<1> QED
  BY <1>5, <1>6, CoreParts

\* ID hands over an access only when nothing is outstanding any more, or its
\* answer comes without an error in this cycle.
LEMMA Starting ==
    ASSUME TypeInv, IdInv, ControlInv, NEW i, InputOf(i), Clock(i), ls_fsm_cs = "IDLE",
           i.req, ls_fsm_cs' \in States
    PROVE  /\ id_acc # <<>> /\ i.acc = id_acc[1] /\ id_acc[1] \in Access
           /\ Active' = id_acc
           /\ IdInv'
           /\ Active = <<>> \/ (i.rvalid /\ ~i.err /\ ~lsu_err_q /\ ~pmp_err_q)
           /\ RespValid(i) <=> Active # <<>>
           /\ id_acc' \in {<<>>} \cup {<<a>> : a \in Accesses}
           /\ wb_acc' \in {<<>>} \cup {<<a>> : a \in Accesses}
           /\ id_first' \in BOOLEAN
<1>1. UNCHANGED core /\ (IdWithoutWb(i) \/ IdWithWb(i)) /\ LsuReq(i.rvalid, i.err)
  BY DEF Clock, InputOf
<1>2. id_acc # <<>> /\ i.acc = id_acc[1] /\ id_acc[1] \in Access
  BY <1>1, CoreParts DEF InputOf, LsuReq
<1>3. Active = <<>> => ~RespValid(i)
  BY DEF ControlInv, AtRest, RespValid, InputOf
<1>4. CASE ~WritebackStage
  <2>1. id_first /\ wb_acc = <<>> /\ Active = <<>>
    BY <1>1, <1>4 DEF LsuReq, Active, IdInv
  <2>2. wb_acc' = wb_acc /\ id_first' = FALSE /\ id_acc' = id_acc
    BY <1>1, <1>2, <1>3, <1>4, <2>1 DEF IdWithoutWb, IdWithWb
  <2> QED
    BY <1>1, <1>2, <1>3, <1>4, <2>1, <2>2 DEF Active, IdInv, TypeInv, WritebackStage
<1>5. CASE WritebackStage
  <2>1. id_first /\ Active = wb_acc
    BY <1>5 DEF Active, IdInv
  <2>2. Active = <<>> \/ (i.rvalid /\ ~i.err /\ ~lsu_err_q /\ ~pmp_err_q)
    <3>1. wb_acc = <<>> \/ ((i.rvalid \/ pmp_err_q) /\ ~(lsu_err_q \/ i.err \/ pmp_err_q))
      BY <1>1, <1>5, Zenon DEF LsuReq
    <3> QED
      BY <2>1, <3>1
  <2>3. RespValid(i) <=> Active # <<>>
    BY <1>3, <2>2 DEF RespValid
  <2>4. ~(RespValid(i) /\ DataOrPmpErr(i))
    BY <2>2, <2>3 DEF DataOrPmpErr
  <2>5. ReqDone(i) <=> ls_fsm_cs' = "IDLE"
    BY DEF ReqDone
  <2>6. /\ id_first' = id_first
        /\ ls_fsm_cs' = "IDLE" => /\ wb_acc' = id_acc
                                  /\ id_acc' \in {<<>>} \cup {<<a>> : a \in Accesses}
        /\ ls_fsm_cs' # "IDLE" => wb_acc' = <<>> /\ id_acc' = id_acc
    BY <1>1, <1>2, <1>5, <2>1, <2>3, <2>4, <2>5 DEF IdWithoutWb, IdWithWb
  <2> QED
    BY <1>1, <1>2, <1>5, <2>1, <2>2, <2>3, <2>6 DEF Active, IdInv, TypeInv, WritebackStage
<1> QED
  BY <1>4, <1>5, CoreParts

\* Without a request the active access waits for its answer.
LEMMA Resting ==
    ASSUME TypeInv, IdInv, ControlInv, NEW i, InputOf(i), Clock(i), ls_fsm_cs = "IDLE",
           ~i.req, ls_fsm_cs' = "IDLE"
    PROVE  /\ Active' = IF RespValid(i) THEN <<>> ELSE Active
           /\ RespValid(i) => Active # <<>>
           /\ IdInv'
           /\ id_acc' \in {<<>>} \cup {<<a>> : a \in Accesses}
           /\ wb_acc' \in {<<>>} \cup {<<a>> : a \in Accesses}
           /\ id_first' \in BOOLEAN
<1>1. UNCHANGED core /\ (IdWithoutWb(i) \/ IdWithWb(i)) /\ ~LsuReq(i.rvalid, i.err)
  BY DEF Clock, InputOf
<1>2. Active = <<>> => ~RespValid(i)
  BY DEF ControlInv, AtRest, RespValid, InputOf
<1>3. CASE ~WritebackStage
  <2>1. wb_acc = <<>> /\ (id_first <=> id_acc = <<>>)
    BY <1>1, <1>3 DEF LsuReq, IdInv
  <2>2. /\ wb_acc' = wb_acc
        /\ id_acc = <<>> \/ RespValid(i) =>
              /\ id_acc' \in {<<>>} \cup {<<a>> : a \in Accesses} /\ id_first' = TRUE
        /\ ~(id_acc = <<>> \/ RespValid(i)) => id_first' = FALSE /\ id_acc' = id_acc
    BY <1>1, <1>3, <2>1 DEF IdWithoutWb, IdWithWb
  <2> QED
    BY <1>1, <1>2, <1>3, <2>1, <2>2 DEF Active, IdInv, TypeInv, WritebackStage
<1>4. CASE WritebackStage
  <2>1. id_first /\ Active = wb_acc
    BY <1>4 DEF Active, IdInv
  <2>2. ~ReqDone(i)
    BY DEF ReqDone
  <2>3. /\ id_first' = id_first
        /\ wb_acc' = IF RespValid(i) THEN <<>> ELSE wb_acc
        /\ id_acc' \in {<<>>, id_acc} \cup {<<a>> : a \in Accesses}
    BY <1>1, <1>4, <2>2 DEF IdWithoutWb, IdWithWb
  <2> QED
    BY <1>1, <1>2, <1>4, <2>1, <2>3 DEF Active, IdInv, TypeInv, WritebackStage
<1> QED
  BY <1>3, <1>4, CoreParts

-----------------------------------------------------------------------------
(* What the bus does in a cycle.                                           *)

LEMMA TxnParts ==
    \A a, part : /\ Txn(a, part).word = PartWord(a, part) /\ Txn(a, part).part = part
                 /\ Txn(a, part).we = a.we
BY DEF Txn

Kept(i) == IF i.rvalid THEN Tail(mem_q) ELSE mem_q

\* A cycle in which a part is requested.
LEMMA Requesting ==
    ASSUME NEW i, InputOf(i), Clock(i), NEW a \in Access, i.acc = a, NEW part \in {1, 2},
           handle_misaligned_q <=> part = 2,
           DataAddr(i) = IF part = 2 THEN Plus(a.addr, 4) ELSE a.addr,
           DataReq(i)
    PROVE  /\ i.pmpErr <=> Refused(a, part)
           /\ i.gnt => ~Refused(a, part)
           /\ ~i.gnt => mem_q' = Kept(i) \o <<>> /\ WrittenNow(i) = {}
           /\ i.gnt => mem_q' = Kept(i) \o <<Txn(a, part)>> /\ WrittenNow(i) = BytesOf(a, part)
           /\ waiting' = IF ~Refused(a, part) /\ ~i.gnt THEN <<Txn(a, part)>> ELSE <<>>
           /\ denied' = denied
           /\ Offset(DataAddr(i)) = Offset(a.addr)
           /\ SplitMisaligned(i) <=> IsSplit(a)
<1>1. Bus(i)
  BY DEF Clock
<1>2. Transaction(i) = Txn(a, part) /\ WordOf(DataAddr(i)) = PartWord(a, part)
  BY Transacts
<1>3. i.pmpErr <=> Refused(a, part)
  BY <1>2 DEF InputOf, Refused
<1>4. /\ i.gnt => ~i.pmpErr
      /\ mem_q' = Kept(i) \o (IF i.gnt THEN <<Txn(a, part)>> ELSE <<>>)
      /\ waiting' = IF (DataReq(i) /\ ~i.pmpErr) /\ ~i.gnt THEN <<Txn(a, part)>> ELSE <<>>
      /\ denied' = denied
  BY <1>1, <1>2, Zenon DEF Bus, BusRequest, Kept
<1>5. /\ ~i.gnt => WrittenNow(i) = {}
      /\ i.gnt => WrittenNow(i) = {<<4 * Txn(a, part).word + l[1], l[2]>> : l \in Txn(a, part).lanes}
  BY <1>2, Zenon DEF WrittenNow
<1>6. Txn(a, part).word = PartWord(a, part)
  BY TxnParts
<1>7. i.gnt => WrittenNow(i) = BytesOf(a, part)
  BY <1>5, <1>6 DEF BytesOf
<1>8. SplitMisaligned(i) <=> IsSplit(a)
  BY Transacts
<1>9. Offset(DataAddr(i)) = Offset(a.addr)
  BY Transacts
<1> QED
  BY <1>3, <1>4, <1>5, <1>7, <1>8, <1>9

\* And one in which nothing is.
LEMMA NotRequesting ==
    ASSUME NEW i, InputOf(i), Clock(i), ~DataReq(i)
    PROVE  /\ ~i.gnt /\ mem_q' = Kept(i) \o <<>> /\ WrittenNow(i) = {}
           /\ waiting' = <<>> /\ denied' = denied
BY DEF Clock, Bus, BusRequest, WrittenNow, Kept

LEMMA KeptQueue ==
    ASSUME NEW i, InputOf(i)
    PROVE  /\ mem_q = <<>> => ~i.rvalid /\ ~i.err /\ Kept(i) = <<>>
           /\ ~i.rvalid => ~i.err /\ Kept(i) = mem_q
           /\ \A x : i.rvalid /\ mem_q = <<x>> => Kept(i) = <<>> /\ Head(mem_q) = x
           /\ \A x, y : i.rvalid /\ mem_q = <<x, y>> => Kept(i) = <<y>> /\ Head(mem_q) = x
<1>1. /\ i.err => i.rvalid
      /\ i.rvalid => mem_q # <<>>
  BY DEF InputOf
<1>2. Kept(i) = IF i.rvalid THEN Tail(mem_q) ELSE mem_q
  BY DEF Kept
<1>3. mem_q = <<>> => ~i.rvalid /\ ~i.err /\ Kept(i) = <<>>
  BY <1>1, <1>2
<1>4. ~i.rvalid => ~i.err /\ Kept(i) = mem_q
  BY <1>1, <1>2
<1>5. ASSUME NEW x, i.rvalid, mem_q = <<x>>
      PROVE  Kept(i) = <<>> /\ Head(mem_q) = x
  <2>1. Kept(i) = Tail(<<x>>) /\ Head(mem_q) = Head(<<x>>)
    BY <1>2, <1>5, Zenon
  <2>2. Tail(<<x>>) = <<>> /\ Head(<<x>>) = x
    BY Queues
  <2> QED
    BY <2>1, <2>2, Zenon
<1>6. ASSUME NEW x, NEW y, i.rvalid, mem_q = <<x, y>>
      PROVE  Kept(i) = <<y>> /\ Head(mem_q) = x
  <2>1. Kept(i) = Tail(<<x, y>>) /\ Head(mem_q) = Head(<<x, y>>)
    BY <1>2, <1>6, Zenon
  <2>2. Tail(<<x, y>>) = <<y>> /\ Head(<<x, y>>) = x
    BY Queues
  <2> QED
    BY <2>1, <2>2, Zenon
<1> QED
  BY <1>3, <1>4, <1>5, <1>6, Zenon

\* The bookkeeping of a cycle.
LEMMA Keeping ==
    ASSUME NEW i, Clock(i)
    PROVE  /\ answered' = i.rvalid
           /\ ~RespValid(i) => /\ resp' = NoResp /\ failed' = failed \cup FailedNow(i)
                               /\ written' = written \cup WrittenNow(i)
           /\ RespValid(i) => /\ failed' = {} /\ written' = WrittenNow(i)
                              /\ resp' = [acc |-> Current, err |-> DataOrPmpErr(i),
                                          written |-> written, failed |-> failed \cup FailedNow(i),
                                          rdata |-> IF RdataValid(i) THEN RdataExt(i) ELSE NoData,
                                          toRegister |-> RdataValid(i), prompt |-> answered]
<1>1. History(i)
  BY DEF Clock
<1>2. /\ answered' = i.rvalid
      /\ ~RespValid(i) => /\ resp' = NoResp /\ failed' = failed \cup FailedNow(i)
                          /\ written' = written \cup WrittenNow(i)
  BY <1>1, Zenon DEF History
<1>3. RespValid(i) => /\ failed' = {} /\ written' = {} \cup WrittenNow(i)
                      /\ resp' = [acc |-> Current, err |-> DataOrPmpErr(i),
                                  written |-> written, failed |-> failed \cup FailedNow(i),
                                  rdata |-> IF RdataValid(i) THEN RdataExt(i) ELSE NoData,
                                  toRegister |-> RdataValid(i), prompt |-> answered]
  BY <1>1, Zenon DEF History
<1> QED
  BY <1>2, <1>3

LEMMA FailedNows ==
    ASSUME NEW i
    PROVE  /\ ~i.err => FailedNow(i) = {}
           /\ \A a, part : i.err /\ Head(mem_q) = Txn(a, part) => FailedNow(i) = {part}
BY TxnParts DEF FailedNow

-----------------------------------------------------------------------------
(* What the state machine does in a cycle.                                 *)

\* The types of the state machine.
LsuTypes == /\ ls_fsm_cs \in States
            /\ handle_misaligned_q \in BOOLEAN /\ pmp_err_q \in BOOLEAN
            /\ lsu_err_q \in BOOLEAN

LEMMA LsuTyped ==
    ASSUME TypeInv, NEW i, InputOf(i), LsuClock(i)
    PROVE  LsuTypes'
<1> USE DEF LsuTypes, TypeInv, States
<1>0. /\ i.req \in BOOLEAN /\ i.gnt \in BOOLEAN /\ i.rvalid \in BOOLEAN /\ i.err \in BOOLEAN
      /\ i.pmpErr \in BOOLEAN
  BY DEF InputOf
<1>1. CASE Idle(i)
  BY <1>0, <1>1 DEF Idle
<1>2. CASE Start(i)
  BY <1>0, <1>2 DEF Start, SplitMisaligned
<1>3. CASE WaitGntMis(i)
  BY <1>0, <1>3 DEF WaitGntMis
<1>4. CASE WaitRvalidMis(i)
  BY <1>0, <1>4 DEF WaitRvalidMis, FirstPartErr, StillMisaligned
<1>5. CASE WaitGnt(i)
  BY <1>0, <1>5 DEF WaitGnt
<1>6. CASE WaitRvalidMisGntsDone(i)
  BY <1>0, <1>6 DEF WaitRvalidMisGntsDone
<1> QED
  BY <1>1, <1>2, <1>3, <1>4, <1>5, <1>6 DEF LsuClock

\* It is enough to look at the access that is active afterwards.
LEMMA ForAccess ==
    ASSUME NEW a \in Access, Active' = <<a>>,
           (ls_fsm_cs = "IDLE" => InIdle(a))',
           (ls_fsm_cs = "WAIT_GNT_MIS" => InWaitGntMis(a))',
           (ls_fsm_cs = "WAIT_RVALID_MIS" => InWaitRvalidMis(a))',
           (ls_fsm_cs = "WAIT_GNT" => InWaitGnt(a))',
           (ls_fsm_cs = "WAIT_RVALID_MIS_GNTS_DONE" => InGntsDone(a))',
           (waiting # <<>> =>
               /\ ls_fsm_cs \in {"WAIT_GNT", "WAIT_GNT_MIS", "WAIT_RVALID_MIS"}
               /\ waiting = <<Txn(a, Part)>> /\ ~Refused(a, Part))',
           (ls_fsm_cs = "IDLE" /\ IsSplit(a) /\ ~a.we /\ answered
               => rdata_q = [k \in 1 .. 3 |-> MemoryByte(4 * PartWord(a, 1) + k)])'
    PROVE  ControlInv' /\ WaitInv' /\ DataInv'
<1>1. Active' # <<>>
  BY Queues
<1>2. \A b : Active' = <<b>> => b = a
  <2> SUFFICES ASSUME NEW b, Active' = <<b>>
               PROVE  b = a
    OBVIOUS
  <2>1. Head(<<a>>) = a /\ Head(<<b>>) = b /\ <<a>> = <<b>>
    BY Queues
  <2> QED
    BY <2>1, Zenon
<1>3. ControlInv'
  BY <1>1, <1>2 DEF ControlInv
<1>4. WaitInv'
  BY <1>1, <1>2 DEF WaitInv
<1>5. DataInv'
  BY <1>1, <1>2 DEF DataInv
<1> QED
  BY <1>3, <1>4, <1>5

LEMMA StartStep ==
    ASSUME TypeInv, IdInv, ControlInv, NEW i, InputOf(i), Clock(i), Start(i)
    PROVE  ControlInv' /\ WaitInv' /\ DataInv'
<1>0. LsuTypes'
  BY LsuTyped DEF LsuClock, Clock
<1>1. ls_fsm_cs = "IDLE" /\ i.req /\ ls_fsm_cs' \in States
  BY <1>0 DEF Start, LsuTypes
<1>2. PICK a \in Access : a = id_acc[1]
  BY <1>1, Starting
<1>3. /\ i.acc = a /\ Active' = <<a>>
      /\ Active = <<>> \/ (i.rvalid /\ ~i.err /\ ~lsu_err_q /\ ~pmp_err_q)
      /\ RespValid(i) <=> Active # <<>>
  BY <1>1, <1>2, Starting, CoreParts
<1>4. /\ ~handle_misaligned_q /\ Kept(i) = <<>> /\ ~i.err
      /\ Active = <<>> => written = {} /\ failed = {}
  <2>1. CASE Active = <<>>
    <3>1. AtRest
      BY <2>1 DEF ControlInv
    <3> QED
      BY <2>1, <3>1, KeptQueue DEF AtRest
  <2>2. CASE Active # <<>>
    <3>1. PICK b \in Access : Active = <<b>>
      BY <1>1, <2>2, CoreParts DEF Active, IdInv
    <3>2. InIdle(b)
      BY <1>1, <3>1 DEF ControlInv
    <3>3. i.rvalid /\ ~i.err /\ mem_q # <<>>
      BY <1>3, <2>2 DEF InputOf
    <3>4. PICK part \in {1, 2} : mem_q = <<Txn(b, part)>>
      BY <3>2, <3>3 DEF InIdle, OnBus
    <3> QED
      BY <2>2, <3>2, <3>3, <3>4, KeptQueue DEF InIdle
  <2> QED
    BY <2>1, <2>2
<1>5. DataReq(i) /\ DataAddr(i) = a.addr
  BY <1>1, <1>3 DEF DataReq, DataAddr, AddrIncrReq
<1>6. /\ i.pmpErr <=> Refused(a, 1)
      /\ i.gnt => ~Refused(a, 1)
      /\ ~i.gnt => mem_q' = <<>> /\ WrittenNow(i) = {}
      /\ i.gnt => mem_q' = <<Txn(a, 1)>> /\ WrittenNow(i) = BytesOf(a, 1)
      /\ waiting' = IF ~Refused(a, 1) /\ ~i.gnt THEN <<Txn(a, 1)>> ELSE <<>>
      /\ denied' = denied
      /\ Offset(DataAddr(i)) = Offset(a.addr)
      /\ SplitMisaligned(i) <=> IsSplit(a)
  <2>1. /\ handle_misaligned_q <=> 1 = 2
        /\ DataAddr(i) = IF 1 = 2 THEN Plus(a.addr, 4) ELSE a.addr
    BY <1>4, <1>5
  <2>2. /\ i.pmpErr <=> Refused(a, 1)
        /\ i.gnt => ~Refused(a, 1)
        /\ ~i.gnt => mem_q' = Kept(i) \o <<>> /\ WrittenNow(i) = {}
        /\ i.gnt => mem_q' = Kept(i) \o <<Txn(a, 1)>> /\ WrittenNow(i) = BytesOf(a, 1)
        /\ waiting' = IF ~Refused(a, 1) /\ ~i.gnt THEN <<Txn(a, 1)>> ELSE <<>>
        /\ denied' = denied
        /\ Offset(DataAddr(i)) = Offset(a.addr)
        /\ SplitMisaligned(i) <=> IsSplit(a)
    BY <1>3, <1>5, <2>1, Requesting
  <2>3. Kept(i) \o <<>> = <<>> /\ Kept(i) \o <<Txn(a, 1)>> = <<Txn(a, 1)>>
    BY <1>4, Queues, Zenon
  <2> QED
    BY <2>2, <2>3, Zenon
<1>7. failed' = {} /\ written' = WrittenNow(i)
  <2>1. FailedNow(i) = {}
    BY <1>4, FailedNows
  <2> QED
    BY <1>3, <1>4, <2>1, Keeping
<1>8. /\ pmp_err_q' = i.pmpErr
      /\ lsu_err_q' = FALSE
      /\ i.gnt => handle_misaligned_q' = SplitMisaligned(i)
      /\ ~i.gnt => handle_misaligned_q' = handle_misaligned_q
      /\ SplitMisaligned(i) => ls_fsm_cs' = IF i.gnt THEN "WAIT_RVALID_MIS" ELSE "WAIT_GNT_MIS"
      /\ ~SplitMisaligned(i) => ls_fsm_cs' = IF i.gnt THEN "IDLE" ELSE "WAIT_GNT"
      /\ i.gnt => addr_last_q' = a.addr /\ Recorded(a)'
  BY <1>3, <1>5, <1>6 DEF Start, Latch, Recorded
<1>9. /\ Refused(a, 1)' <=> Refused(a, 1)
      /\ OnBus(a, 1)' = OnBus(a, 1) /\ Stored(a, 1)' = Stored(a, 1)
  BY <1>6 DEF Refused, OnBus, Stored
<1>10. CASE i.gnt /\ ~IsSplit(a)
  <2>1. ls_fsm_cs' = "IDLE" /\ waiting' = <<>>
    BY <1>6, <1>8, <1>10
  <2>2. InIdle(a)'
    BY <1>6, <1>7, <1>8, <1>9, <1>10 DEF InIdle, OnBus, Stored
  <2> QED
    BY <1>3, <1>10, <2>1, <2>2, ForAccess
<1>11. CASE i.gnt /\ IsSplit(a)
  <2>1. ls_fsm_cs' = "WAIT_RVALID_MIS" /\ waiting' = <<>>
    BY <1>6, <1>8, <1>11
  <2>2. InWaitRvalidMis(a)'
    BY <1>6, <1>7, <1>8, <1>9, <1>11 DEF InWaitRvalidMis, OnBus, Stored
  <2> QED
    BY <1>3, <2>1, <2>2, ForAccess
<1>12. CASE ~i.gnt
  <2>1. /\ ls_fsm_cs' = IF IsSplit(a) THEN "WAIT_GNT_MIS" ELSE "WAIT_GNT"
        /\ Part' = 1
    BY <1>4, <1>6, <1>8, <1>12 DEF Part
  <2>2. Waits(a)' /\ ~handle_misaligned_q'
    BY <1>4, <1>6, <1>7, <1>8, <1>9, <1>12 DEF Waits
  <2>3. (waiting # <<>> =>
           /\ ls_fsm_cs \in {"WAIT_GNT", "WAIT_GNT_MIS", "WAIT_RVALID_MIS"}
           /\ waiting = <<Txn(a, Part)>> /\ ~Refused(a, Part))'
    BY <1>6, <1>9, <1>12, <2>1 DEF Refused
  <2>4. CASE IsSplit(a)
    <3>1. InWaitGntMis(a)' /\ ls_fsm_cs' = "WAIT_GNT_MIS"
      BY <2>1, <2>2, <2>4 DEF InWaitGntMis
    <3> QED
      BY <1>3, <2>3, <3>1, ForAccess
  <2>5. CASE ~IsSplit(a)
    <3>1. InWaitGnt(a)' /\ ls_fsm_cs' = "WAIT_GNT"
      BY <2>1, <2>2, <2>5 DEF InWaitGnt
    <3> QED
      BY <1>3, <2>3, <3>1, ForAccess
  <2> QED
    BY <2>4, <2>5
<1> QED
  BY <1>10, <1>11, <1>12

\* A busy cycle: its access, and its bookkeeping.
BusyWith(i, a) ==
    /\ i.acc = a /\ Active = <<a>> /\ Active' = <<a>>
    /\ answered' = i.rvalid
    /\ failed' = failed \cup FailedNow(i)
    /\ written' = written \cup WrittenNow(i)

LEMMA BusyCycle ==
    ASSUME TypeInv, IdInv, ControlInv, NEW i, InputOf(i), Clock(i), ls_fsm_cs # "IDLE"
    PROVE  \E a \in Access : BusyWith(i, a)
<1>1. ls_fsm_cs' \in States
  BY LsuTyped DEF Clock, LsuTypes
<1>2. /\ i.acc = Active[1] /\ Active[1] \in Access
      /\ Active' = Active /\ Active = <<Active[1]>>
  BY <1>1, Busy
<1>3. ~RespValid(i)
  BY DEF RespValid
<1>4. /\ answered' = i.rvalid
      /\ failed' = failed \cup FailedNow(i) /\ written' = written \cup WrittenNow(i)
  BY <1>3, Keeping
<1> QED
  BY <1>2, <1>4 DEF BusyWith

\* A part is requested, after what remains on the bus.
Requested(i, a, part) ==
    /\ i.pmpErr <=> Refused(a, part)
    /\ i.gnt => ~Refused(a, part)
    /\ ~i.gnt => WrittenNow(i) = {}
    /\ i.gnt => WrittenNow(i) = BytesOf(a, part)
    /\ Kept(i) = <<>> => mem_q' = IF i.gnt THEN <<Txn(a, part)>> ELSE <<>>
    /\ \A x : Kept(i) = <<x>> => mem_q' = IF i.gnt THEN <<x, Txn(a, part)>> ELSE <<x>>
    /\ waiting' = IF ~Refused(a, part) /\ ~i.gnt THEN <<Txn(a, part)>> ELSE <<>>
    /\ Offset(DataAddr(i)) = Offset(a.addr)
    /\ denied' = denied

LEMMA RequestingAfter ==
    ASSUME NEW i, InputOf(i), Clock(i), NEW a \in Access, i.acc = a, NEW part \in {1, 2},
           handle_misaligned_q <=> part = 2,
           DataAddr(i) = IF part = 2 THEN Plus(a.addr, 4) ELSE a.addr,
           DataReq(i)
    PROVE  Requested(i, a, part)
<1>1. /\ i.pmpErr <=> Refused(a, part)
      /\ i.gnt => ~Refused(a, part)
      /\ ~i.gnt => mem_q' = Kept(i) \o <<>> /\ WrittenNow(i) = {}
      /\ i.gnt => mem_q' = Kept(i) \o <<Txn(a, part)>> /\ WrittenNow(i) = BytesOf(a, part)
      /\ waiting' = IF ~Refused(a, part) /\ ~i.gnt THEN <<Txn(a, part)>> ELSE <<>>
      /\ Offset(DataAddr(i)) = Offset(a.addr)
      /\ denied' = denied
  BY Requesting
<1>2. <<>> \o <<>> = <<>> /\ <<>> \o <<Txn(a, part)>> = <<Txn(a, part)>>
  BY Queues, Zenon
<1>3. \A x : <<x>> \o <<>> = <<x>> /\ <<x>> \o <<Txn(a, part)>> = <<x, Txn(a, part)>>
  BY Queues, Zenon
<1>4. Kept(i) = <<>> => mem_q' = IF i.gnt THEN <<Txn(a, part)>> ELSE <<>>
  BY <1>1, <1>2, Zenon
<1>5. \A x : Kept(i) = <<x>> => mem_q' = IF i.gnt THEN <<x, Txn(a, part)>> ELSE <<x>>
  BY <1>1, <1>3, Zenon
<1> QED
  BY <1>1, <1>4, <1>5, Zenon DEF Requested

\* The PMP's verdicts are for good.
LEMMA Verdicts ==
    ASSUME denied' = denied
    PROVE  \A a, part : /\ Refused(a, part)' <=> Refused(a, part)
                        /\ OnBus(a, part)' = OnBus(a, part)
                        /\ Stored(a, part)' = Stored(a, part)
BY DEF Refused, OnBus, Stored

LEMMA WaitGntMisStep ==
    ASSUME TypeInv, IdInv, ControlInv, NEW i, InputOf(i), Clock(i), WaitGntMis(i)
    PROVE  ControlInv' /\ WaitInv' /\ DataInv'
<1>1. ls_fsm_cs = "WAIT_GNT_MIS"
  BY DEF WaitGntMis
<1>2. PICK a \in Access : BusyWith(i, a)
  BY <1>1, BusyCycle
<1>3. InWaitGntMis(a)
  BY <1>1, <1>2 DEF ControlInv, BusyWith
<1>4. Kept(i) = <<>> /\ ~i.err /\ ~i.rvalid /\ ~handle_misaligned_q
  BY <1>3, KeptQueue DEF InWaitGntMis, Waits
<1>5. Requested(i, a, 1) /\ DataAddr(i) = a.addr
  <2>1. DataReq(i) /\ DataAddr(i) = a.addr
    BY <1>1, <1>2 DEF DataReq, DataAddr, AddrIncrReq, BusyWith
  <2>2. /\ handle_misaligned_q <=> 1 = 2
        /\ DataAddr(i) = IF 1 = 2 THEN Plus(a.addr, 4) ELSE a.addr
        /\ i.acc = a
    BY <1>2, <1>4, <2>1 DEF BusyWith
  <2> QED
    BY <2>1, <2>2, RequestingAfter
<1>6. Active' = <<a>> /\ failed' = failed /\ written' = written \cup WrittenNow(i)
  BY <1>2, <1>4, FailedNows DEF BusyWith
<1>7. \A p : /\ Refused(a, p)' <=> Refused(a, p)
             /\ OnBus(a, p)' = OnBus(a, p) /\ Stored(a, p)' = Stored(a, p)
  BY <1>5, Verdicts DEF Requested
<1>8. UNCHANGED <<pmp_err_q, lsu_err_q>>
  BY DEF WaitGntMis
<1>9. CASE GrantedOrRefused(i)
  <2>1. /\ ls_fsm_cs' = "WAIT_RVALID_MIS" /\ handle_misaligned_q' = TRUE
        /\ addr_last_q' = a.addr /\ Recorded(a)'
    BY <1>2, <1>5, <1>9 DEF WaitGntMis, Latch, Recorded, BusyWith, Requested
  <2>2. waiting' = <<>>
    BY <1>3, <1>5, <1>9 DEF GrantedOrRefused, InWaitGntMis, Waits, Requested
  <2>3. mem_q' = OnBus(a, 1) /\ written' = Stored(a, 1)
    BY <1>3, <1>4, <1>5, <1>6, <1>9 DEF GrantedOrRefused, InWaitGntMis, Waits, Requested,
       OnBus, Stored
  <2>4. InWaitRvalidMis(a)'
    BY <1>3, <1>6, <1>7, <1>8, <2>1, <2>3 DEF InWaitRvalidMis, InWaitGntMis, Waits
  <2> QED
    BY <1>6, <2>1, <2>2, <2>4, ForAccess
<1>10. CASE ~GrantedOrRefused(i)
  <2>1. ls_fsm_cs' = "WAIT_GNT_MIS" /\ handle_misaligned_q' = handle_misaligned_q
    BY <1>1, <1>10 DEF WaitGntMis
  <2>2. mem_q' = <<>> /\ written' = {}
    BY <1>3, <1>4, <1>5, <1>6, <1>10 DEF GrantedOrRefused, InWaitGntMis, Waits, Requested
  <2>3. InWaitGntMis(a)'
    BY <1>3, <1>6, <1>7, <1>8, <2>1, <2>2 DEF InWaitGntMis, Waits
  <2>4. (waiting # <<>> =>
           /\ ls_fsm_cs \in {"WAIT_GNT", "WAIT_GNT_MIS", "WAIT_RVALID_MIS"}
           /\ waiting = <<Txn(a, Part)>> /\ ~Refused(a, Part))'
    <3>1. Part' = 1
      BY <1>4, <2>1 DEF Part
    <3> QED
      BY <1>5, <2>1, <3>1 DEF Requested, Refused
  <2> QED
    BY <1>6, <2>1, <2>3, <2>4, ForAccess
<1> QED
  BY <1>9, <1>10

LEMMA WaitGntStep ==
    ASSUME TypeInv, IdInv, ControlInv, NEW i, InputOf(i), Clock(i), WaitGnt(i)
    PROVE  ControlInv' /\ WaitInv' /\ DataInv'
<1>1. ls_fsm_cs = "WAIT_GNT"
  BY DEF WaitGnt
<1>2. PICK a \in Access : BusyWith(i, a)
  BY <1>1, BusyCycle
<1>3. InWaitGnt(a)
  BY <1>1, <1>2 DEF ControlInv, BusyWith
<1>4. mem_q = <<>> /\ Kept(i) = <<>> /\ ~i.err /\ ~i.rvalid
  BY <1>3, KeptQueue DEF InWaitGnt, Waits
<1>5. Requested(i, a, Part) /\ DataAddr(i) = IF Part = 2 THEN Plus(a.addr, 4) ELSE a.addr
  <2>1. /\ DataReq(i) /\ i.acc = a /\ Part \in {1, 2}
        /\ handle_misaligned_q <=> Part = 2
        /\ DataAddr(i) = IF Part = 2 THEN Plus(a.addr, 4) ELSE a.addr
    BY <1>1, <1>2, <1>3 DEF DataReq, DataAddr, AddrIncrReq, BusyWith, Part, InWaitGnt
  <2> QED
    BY <2>1, RequestingAfter
<1>6. Active' = <<a>> /\ failed' = failed /\ written' = written \cup WrittenNow(i)
      /\ ~answered'
  BY <1>2, <1>4, FailedNows DEF BusyWith
<1>7. \A p : /\ Refused(a, p)' <=> Refused(a, p)
             /\ OnBus(a, p)' = OnBus(a, p) /\ Stored(a, p)' = Stored(a, p)
  BY <1>5, Verdicts DEF Requested
<1>8. UNCHANGED <<pmp_err_q, lsu_err_q>>
  BY DEF WaitGnt
<1>9. pmp_err_q <=> Refused(a, Part)
  BY <1>3 DEF InWaitGnt, Waits, Part
<1>10. CASE GrantedOrRefused(i)
  <2>1. /\ ls_fsm_cs' = "IDLE" /\ handle_misaligned_q' = FALSE
        /\ addr_last_q' = IF lsu_err_q THEN addr_last_q ELSE DataAddr(i)
        /\ Recorded(a)'
    BY <1>2, <1>5, <1>10 DEF WaitGnt, Latch, Recorded, BusyWith, Requested, SecondAddrUpdate
  <2>2. waiting' = <<>>
    BY <1>5, <1>9, <1>10 DEF GrantedOrRefused, Requested
  <2>3. mem_q' = OnBus(a, Part) /\ written' = written \cup Stored(a, Part)
    BY <1>4, <1>5, <1>6, <1>9, <1>10 DEF GrantedOrRefused, Requested, OnBus, Stored
  <2>4. InIdle(a)'
    <3>1. CASE handle_misaligned_q
      BY <1>3, <1>5, <1>6, <1>7, <1>8, <2>1, <2>3, <3>1
         DEF InIdle, InWaitGnt, FirstDone, Part
    <3>2. CASE ~handle_misaligned_q
      BY <1>3, <1>5, <1>6, <1>7, <1>8, <2>1, <2>3, <3>2
         DEF InIdle, InWaitGnt, Waits, Part
    <3> QED
      BY <3>1, <3>2
  <2> QED
    BY <1>6, <2>1, <2>2, <2>4, ForAccess
<1>11. CASE ~GrantedOrRefused(i)
  <2>1. /\ ls_fsm_cs' = "WAIT_GNT" /\ handle_misaligned_q' = handle_misaligned_q
        /\ addr_last_q' = addr_last_q /\ UNCHANGED ctrlVars
    BY <1>1, <1>11 DEF WaitGnt, Latch
  <2>2. mem_q' = <<>> /\ written' = written
    BY <1>4, <1>5, <1>6, <1>11 DEF GrantedOrRefused, Requested
  <2>3. Recorded(a)' <=> Recorded(a)
    BY <2>1 DEF ctrlVars, Recorded
  <2>4. InWaitGnt(a)'
    BY <1>3, <1>4, <1>6, <1>7, <1>8, <2>1, <2>2, <2>3 DEF InWaitGnt, Waits, FirstDone
  <2>5. (waiting # <<>> =>
           /\ ls_fsm_cs \in {"WAIT_GNT", "WAIT_GNT_MIS", "WAIT_RVALID_MIS"}
           /\ waiting = <<Txn(a, Part)>> /\ ~Refused(a, Part))'
    <3>1. Part' = Part
      BY <2>1 DEF Part
    <3> QED
      BY <1>5, <2>1, <3>1 DEF Requested, Refused
  <2> QED
    BY <1>6, <2>1, <2>4, <2>5, ForAccess
<1> QED
  BY <1>10, <1>11

\* The word of a load that the bus answers with.
LEMMA Answering ==
    ASSUME NEW i, InputOf(i), i.rvalid, NEW a, NEW part, Head(mem_q) = Txn(a, part), ~a.we
    PROVE  \A k \in 0 .. 3 : i.rdata[k] = MemoryByte(4 * PartWord(a, part) + k)
<1>1. i.rdata = BusData(Txn(a, part))
  <2>1. ~Head(mem_q).we
    BY TxnParts
  <2> QED
    BY <2>1, Zenon DEF InputOf
<1> QED
  BY <1>1, TxnParts DEF BusData

LEMMA WaitRvalidMisStep ==
    ASSUME TypeInv, IdInv, ControlInv, NEW i, InputOf(i), Clock(i), WaitRvalidMis(i)
    PROVE  ControlInv' /\ WaitInv' /\ DataInv'
<1>1. ls_fsm_cs = "WAIT_RVALID_MIS"
  BY DEF WaitRvalidMis
<1>2. PICK a \in Access : BusyWith(i, a)
  BY <1>1, BusyCycle
<1>3. InWaitRvalidMis(a)
  BY <1>1, <1>2 DEF ControlInv, BusyWith
<1>4. Requested(i, a, 2) /\ DataAddr(i) = Plus(a.addr, 4)
  <2>1. /\ DataReq(i) /\ i.acc = a
        /\ handle_misaligned_q <=> 2 = 2
        /\ DataAddr(i) = IF 2 = 2 THEN Plus(a.addr, 4) ELSE a.addr
    BY <1>1, <1>2, <1>3 DEF DataReq, DataAddr, AddrIncrReq, BusyWith, InWaitRvalidMis
  <2> QED
    BY <2>1, RequestingAfter
<1>5. /\ Active' = <<a>> /\ failed' = FailedNow(i)
      /\ written' = Stored(a, 1) \cup WrittenNow(i)
      /\ answered' = i.rvalid
  BY <1>2, <1>3 DEF BusyWith, InWaitRvalidMis
<1>6. \A p : /\ Refused(a, p)' <=> Refused(a, p)
             /\ OnBus(a, p)' = OnBus(a, p) /\ Stored(a, p)' = Stored(a, p)
  BY <1>4, Verdicts DEF Requested
<1>7. /\ mem_q = OnBus(a, 1)
      /\ i.rvalid => ~Refused(a, 1) /\ Kept(i) = <<>> /\ Head(mem_q) = Txn(a, 1)
      /\ Refused(a, 1) => ~i.rvalid /\ ~i.err /\ Kept(i) = <<>>
      /\ ~i.rvalid => ~i.err /\ Kept(i) = OnBus(a, 1)
      /\ i.err \in BOOLEAN
  BY <1>3, KeptQueue DEF InWaitRvalidMis, OnBus, InputOf
<1>8. FailedNow(i) = IF i.err THEN {1} ELSE {}
  <2>1. i.err => Head(mem_q) = Txn(a, 1)
    BY <1>7
  <2> QED
    BY <2>1, FailedNows
<1>9. CASE i.rvalid \/ pmp_err_q
  <2>1. Kept(i) = <<>>
    BY <1>3, <1>7, <1>9 DEF InWaitRvalidMis
  <2>2. /\ pmp_err_q' = i.pmpErr
        /\ lsu_err_q' = FirstPartErr(i)
        /\ ls_fsm_cs' = IF i.gnt THEN "IDLE" ELSE "WAIT_GNT"
        /\ handle_misaligned_q' = ~i.gnt
        /\ addr_last_q' = IF i.gnt /\ ~FirstPartErr(i) THEN Plus(a.addr, 4) ELSE addr_last_q
        /\ UNCHANGED ctrlVars
        /\ ~data_we_q => rdata_q' = [k \in 1 .. 3 |-> i.rdata[k]]
    BY <1>4, <1>9 DEF WaitRvalidMis, Latch, StillMisaligned
  <2>3. Recorded(a)'
    BY <1>3, <2>2 DEF ctrlVars, Recorded, InWaitRvalidMis
  <2>4. FirstDone(a)' /\ (lsu_err_q' <=> FirstPartErr(i))
    BY <1>3, <1>5, <1>6, <1>7, <1>8, <2>2 DEF FirstDone, FirstPartErr, InWaitRvalidMis
  <2>5. mem_q' = IF i.gnt THEN <<Txn(a, 2)>> ELSE <<>>
    BY <1>4, <2>1 DEF Requested
  <2>6. CASE i.gnt
    <3>1. ls_fsm_cs' = "IDLE" /\ waiting' = <<>> /\ ~handle_misaligned_q'
      BY <1>4, <2>2, <2>6 DEF Requested
    <3>2. mem_q' = OnBus(a, 2) /\ WrittenNow(i) = Stored(a, 2) /\ (pmp_err_q' <=> Refused(a, 2))
      BY <1>4, <2>2, <2>5, <2>6 DEF Requested, OnBus, Stored
    <3>3. InIdle(a)'
      BY <1>3, <1>5, <1>6, <2>2, <2>3, <2>4, <2>6, <3>1, <3>2 DEF InIdle, InWaitRvalidMis
    <3>4. (ls_fsm_cs = "IDLE" /\ IsSplit(a) /\ ~a.we /\ answered
               => rdata_q = [k \in 1 .. 3 |-> MemoryByte(4 * PartWord(a, 1) + k)])'
      <4>1. SUFFICES ASSUME ~a.we, i.rvalid
                     PROVE  rdata_q' = [k \in 1 .. 3 |-> MemoryByte(4 * PartWord(a, 1) + k)]
        BY <1>5 DEF PartWord
      <4>2. ~data_we_q
        BY <1>3, <4>1 DEF InWaitRvalidMis, Recorded
      <4>3. \A k \in 0 .. 3 : i.rdata[k] = MemoryByte(4 * PartWord(a, 1) + k)
        BY <1>7, <4>1, Answering
      <4>4. \A k \in 1 .. 3 : i.rdata[k] = MemoryByte(4 * PartWord(a, 1) + k)
        BY <4>3
      <4> QED
        BY <2>2, <4>2, <4>4
    <3> QED
      BY <1>5, <3>1, <3>3, <3>4, ForAccess
  <2>7. CASE ~i.gnt
    <3>1. ls_fsm_cs' = "WAIT_GNT" /\ handle_misaligned_q'
      BY <2>2, <2>7
    <3>2. InWaitGnt(a)'
      BY <1>3, <1>4, <1>5, <1>6, <2>2, <2>3, <2>4, <2>5, <2>7, <3>1
         DEF InWaitGnt, InWaitRvalidMis, Requested
    <3>3. (waiting # <<>> =>
             /\ ls_fsm_cs \in {"WAIT_GNT", "WAIT_GNT_MIS", "WAIT_RVALID_MIS"}
             /\ waiting = <<Txn(a, Part)>> /\ ~Refused(a, Part))'
      <4>1. Part' = 2
        BY <3>1 DEF Part
      <4> QED
        BY <1>4, <3>1, <4>1 DEF Requested, Refused
    <3> QED
      BY <1>5, <3>1, <3>2, <3>3, ForAccess
  <2> QED
    BY <2>6, <2>7
<1>10. CASE ~(i.rvalid \/ pmp_err_q)
  <2>1. ~Refused(a, 1) /\ ~i.rvalid /\ ~i.err /\ Kept(i) = <<Txn(a, 1)>> /\ ~pmp_err_q
    BY <1>3, <1>7, <1>10 DEF InWaitRvalidMis, OnBus
  <2>2. /\ ls_fsm_cs' = IF i.gnt THEN "WAIT_RVALID_MIS_GNTS_DONE" ELSE ls_fsm_cs
        /\ handle_misaligned_q' = ~i.gnt
        /\ addr_last_q' = addr_last_q
        /\ UNCHANGED <<ctrlVars, pmp_err_q, lsu_err_q>>
    <3>1. i.gnt \in BOOLEAN /\ handle_misaligned_q
      BY <1>3 DEF InputOf, InWaitRvalidMis
    <3> QED
      BY <1>10, <3>1 DEF WaitRvalidMis, Latch
  <2>3. Recorded(a)'
    BY <1>3, <2>2 DEF ctrlVars, Recorded, InWaitRvalidMis
  <2>4. failed' = {} /\ mem_q' = IF i.gnt THEN <<Txn(a, 1), Txn(a, 2)>> ELSE <<Txn(a, 1)>>
    BY <1>4, <1>5, <1>8, <2>1 DEF Requested
  <2>5. CASE i.gnt
    <3>1. /\ ls_fsm_cs' = "WAIT_RVALID_MIS_GNTS_DONE" /\ waiting' = <<>>
          /\ ~handle_misaligned_q'
      BY <1>4, <2>2, <2>5 DEF Requested
    <3>2. ~Refused(a, 2) /\ WrittenNow(i) = Stored(a, 2)
      BY <1>4, <2>5 DEF Requested, Stored
    <3>3. InGntsDone(a)'
      <4>1. Txn(a, 1)' = Txn(a, 1) /\ Txn(a, 2)' = Txn(a, 2)
        BY DEF Txn, PartWord, Enabled
      <4> QED
        BY <1>3, <1>5, <1>6, <2>1, <2>2, <2>3, <2>4, <2>5, <3>1, <3>2, <4>1
           DEF InGntsDone, InWaitRvalidMis
    <3> QED
      BY <1>5, <3>1, <3>3, ForAccess
  <2>6. CASE ~i.gnt
    <3>1. ls_fsm_cs' = "WAIT_RVALID_MIS" /\ handle_misaligned_q'
      BY <1>1, <2>2, <2>6
    <3>2. WrittenNow(i) = {} /\ mem_q' = OnBus(a, 1)
      BY <1>4, <2>1, <2>4, <2>6 DEF Requested, OnBus
    <3>3. InWaitRvalidMis(a)'
      BY <1>3, <1>5, <1>6, <2>1, <2>2, <2>3, <2>4, <3>1, <3>2 DEF InWaitRvalidMis
    <3>4. (waiting # <<>> =>
             /\ ls_fsm_cs \in {"WAIT_GNT", "WAIT_GNT_MIS", "WAIT_RVALID_MIS"}
             /\ waiting = <<Txn(a, Part)>> /\ ~Refused(a, Part))'
      <4>1. Part' = 2
        BY <3>1 DEF Part
      <4> QED
        BY <1>4, <3>1, <4>1 DEF Requested, Refused
    <3> QED
      BY <1>5, <3>1, <3>3, <3>4, ForAccess
  <2> QED
    BY <2>5, <2>6
<1> QED
  BY <1>9, <1>10

LEMMA GntsDoneStep ==
    ASSUME TypeInv, IdInv, ControlInv, NEW i, InputOf(i), Clock(i), WaitRvalidMisGntsDone(i)
    PROVE  ControlInv' /\ WaitInv' /\ DataInv'
<1>1. ls_fsm_cs = "WAIT_RVALID_MIS_GNTS_DONE"
  BY DEF WaitRvalidMisGntsDone
<1>2. PICK a \in Access : BusyWith(i, a)
  BY <1>1, BusyCycle
<1>3. InGntsDone(a)
  BY <1>1, <1>2 DEF ControlInv, BusyWith
<1>4. /\ mem_q' = Kept(i) \o <<>> /\ WrittenNow(i) = {} /\ waiting' = <<>> /\ denied' = denied
  <2>1. ~DataReq(i)
    BY <1>1 DEF DataReq
  <2> QED
    BY <2>1, NotRequesting
<1>5. DataAddr(i) = Plus(a.addr, 4) /\ ~i.pmpErr
  <2>1. DataAddr(i) = Plus(a.addr, 4)
    BY <1>1, <1>3 DEF DataAddr, AddrIncrReq, InGntsDone
  <2>2. PartWord(a, 2) = WordOf(Plus(a.addr, 4))
    BY DEF PartWord
  <2> QED
    BY <1>3, <2>1, <2>2 DEF InputOf, InGntsDone, Refused
<1>6. /\ Active' = <<a>> /\ failed' = FailedNow(i)
      /\ written' = Stored(a, 1) \cup Stored(a, 2)
      /\ answered' = i.rvalid
  BY <1>2, <1>3, <1>4 DEF BusyWith, InGntsDone
<1>7. /\ \A p : /\ Refused(a, p)' <=> Refused(a, p)
                /\ OnBus(a, p)' = OnBus(a, p) /\ Stored(a, p)' = Stored(a, p)
      /\ Txn(a, 1)' = Txn(a, 1) /\ Txn(a, 2)' = Txn(a, 2)
  BY <1>4, Verdicts DEF Txn, PartWord, Enabled
<1>8. /\ mem_q = <<Txn(a, 1), Txn(a, 2)>>
      /\ i.rvalid => mem_q' = <<Txn(a, 2)>> /\ Head(mem_q) = Txn(a, 1)
      /\ ~i.rvalid => mem_q' = mem_q /\ ~i.err
      /\ i.err \in BOOLEAN
  <2>1. mem_q = <<Txn(a, 1), Txn(a, 2)>> /\ i.err \in BOOLEAN
    BY <1>3 DEF InGntsDone, InputOf
  <2>2. /\ i.rvalid => Kept(i) = <<Txn(a, 2)>> /\ Head(mem_q) = Txn(a, 1)
        /\ ~i.rvalid => Kept(i) = mem_q /\ ~i.err
    BY <2>1, KeptQueue
  <2>3. /\ <<Txn(a, 2)>> \o <<>> = <<Txn(a, 2)>>
        /\ <<Txn(a, 1), Txn(a, 2)>> \o <<>> = <<Txn(a, 1), Txn(a, 2)>>
    BY Queues, Zenon
  <2> QED
    BY <1>4, <2>1, <2>2, <2>3, Zenon
<1>9. FailedNow(i) = IF i.err THEN {1} ELSE {}
  <2>1. i.err => Head(mem_q) = Txn(a, 1)
    BY <1>8
  <2> QED
    BY <2>1, FailedNows
<1>10. CASE i.rvalid
  <2>1. /\ pmp_err_q' = i.pmpErr /\ lsu_err_q' = i.err /\ ls_fsm_cs' = "IDLE"
        /\ handle_misaligned_q' = handle_misaligned_q
        /\ addr_last_q' = IF ~i.err THEN Plus(a.addr, 4) ELSE addr_last_q
        /\ UNCHANGED ctrlVars
        /\ ~data_we_q => rdata_q' = [k \in 1 .. 3 |-> i.rdata[k]]
    BY <1>5, <1>10 DEF WaitRvalidMisGntsDone, Latch
  <2>2. Recorded(a)'
    BY <1>3, <2>1 DEF ctrlVars, Recorded, InGntsDone
  <2>3. mem_q' = OnBus(a, 2)
    BY <1>3, <1>8, <1>10 DEF InGntsDone, OnBus
  <2>4. FirstDone(a)'
    BY <1>3, <1>6, <1>7, <1>9, <2>1 DEF FirstDone, InGntsDone
  <2>5. InIdle(a)'
    BY <1>3, <1>5, <1>6, <1>7, <1>8, <2>1, <2>2, <2>3, <2>4 DEF InIdle, InGntsDone
  <2>6. (ls_fsm_cs = "IDLE" /\ IsSplit(a) /\ ~a.we /\ answered
             => rdata_q = [k \in 1 .. 3 |-> MemoryByte(4 * PartWord(a, 1) + k)])'
    <3>1. SUFFICES ASSUME ~a.we
                   PROVE  rdata_q' = [k \in 1 .. 3 |-> MemoryByte(4 * PartWord(a, 1) + k)]
      BY DEF PartWord
    <3>2. ~data_we_q
      BY <1>3, <3>1 DEF InGntsDone, Recorded
    <3>3. \A k \in 0 .. 3 : i.rdata[k] = MemoryByte(4 * PartWord(a, 1) + k)
      BY <1>8, <1>10, <3>1, Answering
    <3>4. \A k \in 1 .. 3 : i.rdata[k] = MemoryByte(4 * PartWord(a, 1) + k)
      BY <3>3
    <3> QED
      BY <2>1, <3>2, <3>4
  <2> QED
    BY <1>4, <1>6, <2>1, <2>5, <2>6, ForAccess
<1>11. CASE ~i.rvalid
  <2>1. /\ ls_fsm_cs' = ls_fsm_cs /\ addr_last_q' = addr_last_q
        /\ UNCHANGED <<ctrlVars, pmp_err_q, lsu_err_q, handle_misaligned_q>>
    BY <1>11 DEF WaitRvalidMisGntsDone, Latch
  <2>2. Recorded(a)'
    BY <1>3, <2>1 DEF ctrlVars, Recorded, InGntsDone
  <2>3. InGntsDone(a)'
    BY <1>3, <1>6, <1>7, <1>8, <1>9, <1>11, <2>1, <2>2 DEF InGntsDone
  <2> QED
    BY <1>1, <1>4, <1>6, <2>1, <2>3, ForAccess
<1> QED
  BY <1>10, <1>11

\* With nothing active.
LEMMA ForNone ==
    ASSUME Active' = <<>>, ls_fsm_cs' = "IDLE", AtRest', waiting' = <<>>
    PROVE  ControlInv' /\ WaitInv' /\ DataInv'
<1>1. \A a : Active' # <<a>>
  BY Queues
<1> QED
  BY <1>1 DEF ControlInv, WaitInv, DataInv

\* The last answer empties the queue.
LEMMA LastAnswer ==
    ASSUME TypeInv, ControlInv, NEW i, InputOf(i), RespValid(i), Active # <<>>,
           NEW a \in Access, Active = <<a>>
    PROVE  /\ InIdle(a) /\ ~handle_misaligned_q
           /\ Kept(i) = <<>>
           /\ i.err => IF IsSplit(a) THEN FailedNow(i) = {2} ELSE FailedNow(i) = {1}
           /\ ~i.err => FailedNow(i) = {}
<1>1. InIdle(a) /\ ~handle_misaligned_q /\ (i.rvalid \/ pmp_err_q)
  BY DEF ControlInv, RespValid, InIdle
<1> DEFINE last == IF IsSplit(a) THEN 2 ELSE 1
<1>2. mem_q = OnBus(a, last) /\ (pmp_err_q <=> Refused(a, last))
  BY <1>1 DEF InIdle
<1>3. mem_q = <<>> \/ mem_q = <<Txn(a, last)>>
  BY <1>2 DEF OnBus
<1>4. mem_q = <<>> => ~i.err /\ Kept(i) = <<>>
  BY KeptQueue
<1>5. mem_q = <<Txn(a, last)>> => i.rvalid
  BY <1>1, <1>2, Queues DEF OnBus
<1>6. mem_q = <<Txn(a, last)>> => Kept(i) = <<>> /\ Head(mem_q) = Txn(a, last)
  BY <1>5, KeptQueue
<1>7. ~i.err => FailedNow(i) = {}
  BY FailedNows
<1>8. i.err => FailedNow(i) = {last}
  BY <1>3, <1>4, <1>6, FailedNows
<1> QED
  BY <1>1, <1>3, <1>4, <1>6, <1>7, <1>8

LEMMA IdleStep ==
    ASSUME TypeInv, IdInv, ControlInv, NEW i, InputOf(i), Clock(i), Idle(i)
    PROVE  ControlInv' /\ WaitInv' /\ DataInv'
<1>1. /\ ls_fsm_cs = "IDLE" /\ ~i.req /\ ls_fsm_cs' = "IDLE" /\ ~pmp_err_q'
      /\ handle_misaligned_q' = handle_misaligned_q /\ lsu_err_q' = lsu_err_q
      /\ addr_last_q' = addr_last_q /\ UNCHANGED ctrlVars
  BY DEF Idle, Latch
<1>2. /\ mem_q' = Kept(i) \o <<>> /\ WrittenNow(i) = {} /\ waiting' = <<>> /\ denied' = denied
  <2>1. ~DataReq(i)
    BY <1>1 DEF DataReq
  <2> QED
    BY <2>1, NotRequesting
<1>3. /\ Active' = IF RespValid(i) THEN <<>> ELSE Active
      /\ RespValid(i) => Active # <<>>
  BY <1>1, Resting
<1>4. Active # <<>> => \E a \in Access : Active = <<a>>
  BY CoreParts DEF Active
<1>5. CASE RespValid(i)
  <2>1. PICK a \in Access : Active = <<a>>
    BY <1>3, <1>4, <1>5
  <2>2. ~handle_misaligned_q /\ Kept(i) = <<>>
    BY <1>3, <1>5, <2>1, LastAnswer
  <2>3. mem_q' = <<>>
    BY <1>2, <2>2, Queues
  <2>4. failed' = {} /\ written' = {}
    BY <1>2, <1>5, Keeping
  <2>5. AtRest'
    BY <1>1, <2>2, <2>3, <2>4 DEF AtRest
  <2> QED
    BY <1>1, <1>2, <1>3, <1>5, <2>5, ForNone
<1>6. CASE ~RespValid(i)
  <2>1. ~i.rvalid /\ ~pmp_err_q /\ ~i.err /\ Kept(i) = mem_q
    BY <1>1, <1>6, KeptQueue DEF RespValid
  <2>2. failed' = failed /\ written' = written /\ ~answered'
    <3>1. FailedNow(i) = {}
      BY <2>1, FailedNows
    <3> QED
      BY <1>2, <1>6, <2>1, <3>1, Keeping
  <2>3. CASE Active = <<>>
    <3>1. AtRest
      BY <2>3 DEF ControlInv
    <3>2. mem_q' = <<>>
      BY <1>2, <2>1, <3>1, Queues DEF AtRest
    <3>3. AtRest'
      BY <1>1, <2>2, <3>1, <3>2 DEF AtRest
    <3> QED
      BY <1>1, <1>2, <1>3, <1>6, <2>3, <3>3, ForNone
  <2>4. CASE Active # <<>>
    <3>1. PICK a \in Access : Active = <<a>>
      BY <1>4, <2>4
    <3>2. InIdle(a)
      BY <1>1, <3>1 DEF ControlInv
    <3>3. mem_q = <<>> \/ \E x : mem_q = <<x>>
      BY <3>2 DEF InIdle, OnBus
    <3>4. mem_q' = mem_q
      BY <1>2, <2>1, <3>3, Queues
    <3>5. Recorded(a)' <=> Recorded(a)
      BY <1>1 DEF ctrlVars, Recorded
    <3>6. \A p : /\ Refused(a, p)' <=> Refused(a, p)
                 /\ OnBus(a, p)' = OnBus(a, p) /\ Stored(a, p)' = Stored(a, p)
      BY <1>2, Verdicts
    <3>7. InIdle(a)'
      BY <1>1, <2>1, <2>2, <3>2, <3>4, <3>5, <3>6 DEF InIdle, FirstDone
    <3> QED
      BY <1>1, <1>2, <1>3, <1>6, <2>2, <3>1, <3>7, ForAccess
  <2> QED
    BY <2>3, <2>4
<1> QED
  BY <1>5, <1>6

LEMMA Step ==
    ASSUME TypeInv, IdInv, ControlInv, NEW i, InputOf(i), Clock(i)
    PROVE  ControlInv' /\ WaitInv' /\ DataInv'
BY StartStep, WaitGntMisStep, WaitGntStep, WaitRvalidMisStep, GntsDoneStep, IdleStep
   DEF Clock, LsuClock

LEMMA StepTypes ==
    ASSUME TypeInv, IdInv, ControlInv, NEW i, InputOf(i), Clock(i)
    PROVE  TypeInv' /\ IdInv'
<1>1. LsuTypes' /\ ls_fsm_cs' \in States
  BY LsuTyped DEF Clock, LsuTypes
<1>2. /\ IdInv'
      /\ id_acc' \in {<<>>} \cup {<<a>> : a \in Accesses}
      /\ wb_acc' \in {<<>>} \cup {<<a>> : a \in Accesses}
      /\ id_first' \in BOOLEAN
  <2>1. CASE ls_fsm_cs # "IDLE"
    BY <1>1, <2>1, Busy
  <2>2. CASE ls_fsm_cs = "IDLE" /\ i.req
    BY <1>1, <2>2, Starting
  <2>3. CASE ls_fsm_cs = "IDLE" /\ ~i.req
    <3>1. ls_fsm_cs' = "IDLE"
      BY <2>3 DEF Clock, LsuClock, Idle, Start, WaitGntMis, WaitRvalidMis, WaitGnt,
         WaitRvalidMisGntsDone
    <3> QED
      BY <2>3, <3>1, Resting
  <2> QED
    BY <2>1, <2>2, <2>3
<1>3. core' = core /\ Accesses' = Accesses /\ denied' = denied
  BY DEF Clock, Bus, Accesses
<1>4. answered' \in BOOLEAN
  BY Keeping DEF InputOf
<1> QED
  BY <1>1, <1>2, <1>3, <1>4 DEF TypeInv, LsuTypes

LEMMA Starts == Init => TypeInv /\ IdInv /\ ControlInv /\ WaitInv /\ DataInv /\ resp = NoResp
<1> SUFFICES ASSUME Init
             PROVE  TypeInv /\ IdInv /\ ControlInv /\ WaitInv /\ DataInv /\ resp = NoResp
  OBVIOUS
<1> USE DEF Init, LsuInit
<1>1. TypeInv
  BY DEF TypeInv, States
<1>2. IdInv
  BY DEF IdInv
<1>3. Active = <<>>
  BY DEF Active
<1>4. AtRest
  BY DEF AtRest
<1>5. \A a : Active # <<a>>
  BY <1>3, Queues
<1>6. ControlInv
  BY <1>3, <1>4, <1>5 DEF ControlInv
<1>7. WaitInv /\ DataInv
  BY <1>5 DEF WaitInv, DataInv
<1> QED
  BY <1>1, <1>2, <1>6, <1>7

\* Nothing happens.
LEMMA Stuttering ==
    ASSUME IInv, UNCHANGED vars
    PROVE  IInv'
<1>1. /\ UNCHANGED <<ls_fsm_cs, handle_misaligned_q, pmp_err_q, lsu_err_q, rdata_q, addr_last_q,
                     rdata_offset_q, data_type_q, data_sign_ext_q, data_we_q>>
      /\ UNCHANGED <<core, id_acc, id_first, wb_acc, denied, mem_q, waiting, written, failed,
                     answered, resp>>
  BY DEF vars, lsuVars, ctrlVars, idVars, busVars
<1>2. TypeInv' /\ IdInv'
  BY <1>1 DEF IInv, TypeInv, IdInv, WritebackStage, Accesses
<1>3. Active' = Active /\ Part' = Part
  BY <1>1 DEF Active, WritebackStage, Part
<1>4. \A a, p : /\ Refused(a, p)' <=> Refused(a, p)
                /\ OnBus(a, p)' = OnBus(a, p) /\ Stored(a, p)' = Stored(a, p)
                /\ PartWord(a, p)' = PartWord(a, p) /\ Txn(a, p)' = Txn(a, p)
  BY <1>1 DEF Refused, OnBus, Stored
<1>5. \A a : Recorded(a)' <=> Recorded(a)
  BY <1>1 DEF Recorded
<1>6. \A a : /\ InIdle(a)' <=> InIdle(a)
             /\ InWaitGntMis(a)' <=> InWaitGntMis(a)
             /\ InWaitRvalidMis(a)' <=> InWaitRvalidMis(a)
             /\ InWaitGnt(a)' <=> InWaitGnt(a)
             /\ InGntsDone(a)' <=> InGntsDone(a)
  BY <1>1, <1>4, <1>5 DEF InIdle, InWaitGntMis, InWaitRvalidMis, InWaitGnt, InGntsDone, Waits,
     FirstDone
<1>7. AtRest' <=> AtRest
  BY <1>1 DEF AtRest
<1>8. ControlInv'
  BY <1>1, <1>3, <1>6, <1>7 DEF IInv, ControlInv
<1>9. WaitInv' /\ DataInv'
  BY <1>1, <1>3, <1>4 DEF IInv, WaitInv, DataInv
<1>10. AnswerInv'
  BY <1>1 DEF IInv, AnswerInv, OneAnswerEach, ErrorsReported, FaultAddress, StoredBytes,
     LoadedValuePrompt, Answered, Acc, HasValue, FailedParts
<1> QED
  BY <1>2, <1>8, <1>9, <1>10 DEF IInv

\* No answer, nothing to report.
LEMMA NoAnswer ==
    ASSUME resp = NoResp, ControlInv, TypeInv, IdInv
    PROVE  AnswerInv
<1>1. ~Answered
  BY DEF Answered, NoResp
<1>2. OneAnswerEach
  <2>1. id_acc = <<>> /\ wb_acc = <<>> => mem_q = <<>>
    BY DEF ControlInv, AtRest, Active
  <2> QED
    BY <1>1, <2>1 DEF OneAnswerEach
<1> QED
  BY <1>1, <1>2 DEF AnswerInv, ErrorsReported, FaultAddress, StoredBytes, LoadedValuePrompt

LEMMA NoAnswerNext == (resp = NoResp /\ ControlInv /\ TypeInv /\ IdInv => AnswerInv)'
BY NoAnswer, PTL

-----------------------------------------------------------------------------
(* An answer.                                                              *)

\* What is left on the bus after it belongs to no access or to the next one.
LEMMA LeftOnBus ==
    ASSUME TypeInv, IdInv, ControlInv, NEW i, InputOf(i), Clock(i), RespValid(i),
           NEW a \in Access, Active = <<a>>
    PROVE  mem_q' = <<>> \/ \E b : mem_q' = <<Txn(b, 1)>>
<1>1. ls_fsm_cs = "IDLE" /\ Active # <<>>
  BY Queues DEF RespValid
<1>2. ~handle_misaligned_q /\ Kept(i) = <<>>
  BY <1>1, LastAnswer
<1>3. CASE i.req
  <2>1. ls_fsm_cs' \in States
    BY LsuTyped DEF Clock, LsuTypes
  <2>2. PICK b \in Access : b = id_acc[1] /\ i.acc = b
    BY <1>1, <1>3, <2>1, Starting
  <2>3. /\ DataReq(i)
        /\ handle_misaligned_q <=> 1 = 2
        /\ DataAddr(i) = IF 1 = 2 THEN Plus(b.addr, 4) ELSE b.addr
    BY <1>1, <1>2, <1>3, <2>2 DEF DataReq, DataAddr, AddrIncrReq
  <2>4. Requested(i, b, 1)
    BY <2>2, <2>3, RequestingAfter
  <2> QED
    BY <1>2, <2>4 DEF Requested
<1>4. CASE ~i.req
  <2>1. mem_q' = Kept(i) \o <<>>
    BY <1>1, <1>4, NotRequesting DEF DataReq
  <2> QED
    BY <1>2, <2>1, Queues
<1> QED
  BY <1>3, <1>4

\* What the LSU answers.
Says(i, a) ==
    /\ Answered' /\ Acc' = a
    /\ resp'.err <=> lsu_err_q \/ i.err \/ pmp_err_q
    /\ resp'.written = written
    /\ resp'.failed = failed \cup FailedNow(i)
    /\ resp'.toRegister <=> i.rvalid /\ ~(lsu_err_q \/ i.err \/ pmp_err_q) /\ ~data_we_q
    /\ resp'.toRegister => resp'.rdata = RdataExt(i)
    /\ resp'.prompt <=> answered
    /\ denied' = denied

LEMMA Saying ==
    ASSUME TypeInv, IdInv, ControlInv, NEW i, InputOf(i), Clock(i), RespValid(i),
           NEW a \in Access, Active = <<a>>
    PROVE  Says(i, a)
<1>1. ls_fsm_cs = "IDLE" /\ Active # <<>>
  BY Queues DEF RespValid
<1>2. Current = <<a>>
  BY <1>1 DEF Current, Active
<1>3. resp' = [acc |-> Current, err |-> DataOrPmpErr(i),
               written |-> written, failed |-> failed \cup FailedNow(i),
               rdata |-> IF RdataValid(i) THEN RdataExt(i) ELSE NoData,
               toRegister |-> RdataValid(i), prompt |-> answered]
  BY Keeping
<1> DEFINE err == DataOrPmpErr(i)
           valid == RdataValid(i)
           fails == failed \cup FailedNow(i)
           data == IF valid THEN RdataExt(i) ELSE NoData
<1>4. /\ err <=> lsu_err_q \/ i.err \/ pmp_err_q
      /\ valid <=> i.rvalid /\ ~(lsu_err_q \/ i.err \/ pmp_err_q) /\ ~data_we_q
      /\ valid => data = RdataExt(i)
  BY <1>1, Zenon DEF DataOrPmpErr, RdataValid
<1>5. resp' = [acc |-> <<a>>, err |-> err, written |-> written, failed |-> fails,
               rdata |-> data, toRegister |-> valid, prompt |-> answered]
  BY <1>2, <1>3, Zenon
<1> HIDE DEF err, valid, fails, data
<1>6. /\ resp'.acc = <<a>> /\ resp'.err = err /\ resp'.written = written
      /\ resp'.failed = fails /\ resp'.rdata = data /\ resp'.toRegister = valid
      /\ resp'.prompt = answered
  BY <1>5
<1>7. Answered' /\ Acc' = a
  BY <1>6, Queues DEF Answered, Acc
<1>8. denied' = denied
  BY DEF Clock, Bus
<1>9. fails = failed \cup FailedNow(i)
  BY DEF fails
<1> QED
  BY <1>4, <1>6, <1>7, <1>8, <1>9, Zenon DEF Says

\* The parts that failed, as the LSU sees them.
LEMMA FailedIs ==
    ASSUME TypeInv, IdInv, ControlInv, NEW i, InputOf(i), Clock(i), RespValid(i),
           NEW a \in Access, Active = <<a>>
    PROVE  /\ FailedParts(a)' # {} <=> (lsu_err_q \/ i.err \/ pmp_err_q)
           /\ 1 \in FailedParts(a)' <=> IF IsSplit(a) THEN lsu_err_q
                                        ELSE (lsu_err_q \/ i.err \/ pmp_err_q)
<1>1. Says(i, a)
  BY Saying
<1>2. Active # <<>>
  BY Queues
<1>3. /\ InIdle(a)
      /\ i.err => IF IsSplit(a) THEN FailedNow(i) = {2} ELSE FailedNow(i) = {1}
      /\ ~i.err => FailedNow(i) = {}
      /\ i.err \in BOOLEAN
  BY <1>2, LastAnswer DEF InputOf
<1>4. FailedParts(a)' = {p \in Parts(a) : p \in failed \cup FailedNow(i) \/ Refused(a, p)}
  <2>1. FailedParts(a)' = {p \in Parts(a) : p \in resp'.failed \/ PartWord(a, p) \in denied'}
    BY DEF FailedParts, Parts, PartWord, IsSplit
  <2> QED
    BY <1>1, <2>1, Zenon DEF Says, Refused
<1>5. CASE ~IsSplit(a)
  <2>1. FailedParts(a)' = {p \in {1} : p \in FailedNow(i) \/ Refused(a, p)}
    BY <1>3, <1>4, <1>5 DEF Parts, InIdle
  <2>2. 1 \in FailedParts(a)' <=> (i.err \/ pmp_err_q)
    BY <1>3, <1>5, <2>1 DEF InIdle
  <2> QED
    BY <1>3, <1>5, <2>1, <2>2 DEF InIdle
<1>6. CASE IsSplit(a)
  <2>1. FailedParts(a)' = {p \in {1, 2} : p \in failed \cup FailedNow(i) \/ Refused(a, p)}
    BY <1>4, <1>6 DEF Parts
  <2>2. /\ failed \subseteq {1} /\ (lsu_err_q <=> 1 \in failed \/ Refused(a, 1))
        /\ pmp_err_q <=> Refused(a, 2)
        /\ FailedNow(i) = IF i.err THEN {2} ELSE {}
    BY <1>3, <1>6 DEF InIdle, FirstDone
  <2>3. 1 \in FailedParts(a)' <=> lsu_err_q
    BY <2>1, <2>2
  <2>4. 2 \in FailedParts(a)' <=> (i.err \/ pmp_err_q)
    BY <2>1, <2>2
  <2>5. FailedParts(a)' # {} <=> 1 \in FailedParts(a)' \/ 2 \in FailedParts(a)'
    BY <2>1
  <2> QED
    BY <1>6, <2>3, <2>4, <2>5
<1> QED
  BY <1>5, <1>6

LEMMA ErrorsStep ==
    ASSUME TypeInv, IdInv, ControlInv, NEW i, InputOf(i), Clock(i), RespValid(i),
           NEW a \in Access, Active = <<a>>
    PROVE  ErrorsReported' /\ FaultAddress' /\ OneAnswerEach'
<1>1. Says(i, a)
  BY Saying
<1>2. /\ FailedParts(a)' # {} <=> (lsu_err_q \/ i.err \/ pmp_err_q)
      /\ 1 \in FailedParts(a)' <=> IF IsSplit(a) THEN lsu_err_q
                                   ELSE (lsu_err_q \/ i.err \/ pmp_err_q)
  BY FailedIs
<1>3. FailedParts(Acc)' = FailedParts(a)'
  BY <1>1 DEF Says, FailedParts, Parts, PartWord, IsSplit
<1>4. ErrorsReported'
  BY <1>1, <1>2, <1>3 DEF ErrorsReported, Says
<1>5. FaultAddress'
  <2>1. SUFFICES ASSUME resp'.err
                 PROVE  addr_last_q' = IF 1 \in FailedParts(a)' THEN a.addr ELSE Plus(a.addr, 4)
    BY <1>1, <1>3 DEF FaultAddress, Says
  <2>2. lsu_err_q \/ i.err \/ pmp_err_q
    BY <1>1, <2>1 DEF Says
  <2>3. ls_fsm_cs = "IDLE" /\ Active # <<>>
    BY Queues DEF RespValid
  <2>4. ~i.req
    <3>1. ls_fsm_cs' \in States
      BY LsuTyped DEF Clock, LsuTypes
    <3> QED
      BY <2>2, <2>3, <3>1, Starting
  <2>5. addr_last_q' = addr_last_q
    BY <2>3, <2>4 DEF Clock, LsuClock, Idle, Latch, Start, WaitGntMis, WaitRvalidMis, WaitGnt,
       WaitRvalidMisGntsDone
  <2>6. InIdle(a)
    BY <2>3, LastAnswer
  <2> QED
    BY <1>2, <2>2, <2>5, <2>6 DEF InIdle
<1>6. OneAnswerEach'
  <2>1. (\A n \in 1 .. Len(mem_q) : mem_q[n].part = 1 /\ Len(mem_q) = 1)'
    <3>1. CASE mem_q' = <<>>
      BY <3>1
    <3>2. CASE \E b : mem_q' = <<Txn(b, 1)>>
      <4>1. PICK b : mem_q' = <<Txn(b, 1)>>
        BY <3>2
      <4>2. Len(mem_q') = 1 /\ mem_q'[1] = Txn(b, 1) /\ 1 .. 1 = {1}
        BY <4>1
      <4> QED
        BY <4>2, TxnParts
    <3> QED
      BY <3>1, <3>2, LeftOnBus
  <2>2. (id_acc = <<>> /\ wb_acc = <<>> => mem_q = <<>>)'
    <3>1. ControlInv'
      BY Step
    <3> QED
      BY <3>1 DEF ControlInv, AtRest, Active
  <2> QED
    BY <1>1, <2>1, <2>2 DEF OneAnswerEach, Says
<1> QED
  BY <1>4, <1>5, <1>6

-----------------------------------------------------------------------------
(* Where the bytes of an access are.                                       *)

\* Byte n of an access is in its first word, or in its second.
LEMMA Places ==
    ASSUME NEW x \in Bytes, NEW n \in 0 .. 3
    PROVE  /\ Offset(x) + n <= 3 => 4 * WordOf(x) + (Offset(x) + n) = Plus(x, n)
           /\ Offset(x) + n > 3 => 4 * WordOf(Plus(x, 4)) + (Offset(x) + n - 4) = Plus(x, n)
<1> DEFINE w == WordOf(x)
           y == Plus(x, 4)
           v == WordOf(y)
           off == Offset(x)
<1>1. /\ x \in Nat /\ off \in 0 .. 3 /\ w \in Nat /\ x = 4 * w + off /\ 4 * w + 3 < NBytes
      /\ NBytes \in Nat
  BY Halving, Wrapping DEF Words
<1>2. y \in Bytes /\ Offset(y) = off
  BY Wrapping, SameOffset
<1>3. y \in Nat /\ v \in Nat /\ y = 4 * v + off
  BY <1>2, Halving DEF Words
<1>4. /\ Plus(x, n) = IF x + n < NBytes THEN x + n ELSE x + n - NBytes
      /\ y = IF x + 4 < NBytes THEN x + 4 ELSE x + 4 - NBytes
  <2>1. n \in 0 .. 4 /\ 4 \in 0 .. 4
    OBVIOUS
  <2>2. \A m \in 0 .. 4 : Plus(x, m) = IF x + m < NBytes THEN x + m ELSE x + m - NBytes
    BY Wrapping
  <2> QED
    BY <2>1, <2>2, Zenon
<1> HIDE DEF w, y, v, off
<1>5. off + n <= 3 => 4 * w + (off + n) = Plus(x, n)
  BY <1>1, <1>4
<1>6. off + n > 3 => 4 * v + (off + n - 4) = Plus(x, n)
  BY <1>1, <1>3, <1>4
<1> QED
  BY <1>5, <1>6 DEF w, y, v, off

\* The lanes of a part are those of the bytes it carries.
LEMMA LanesAre ==
    ASSUME NEW a \in Access
    PROVE  LET off == Offset(a.addr) IN
           /\ Size(a.type) \in 1 .. 4
           /\ Enabled(a, 1) = {k \in 0 .. 3 : k >= off /\ k - off < Size(a.type)}
           /\ IsSplit(a) => Enabled(a, 2) = {k \in 0 .. 3 : k < off /\ k + 4 - off < Size(a.type)}
           /\ ~IsSplit(a) => \A n \in 0 .. Size(a.type) - 1 : off + n <= 3
<1> DEFINE off == Offset(a.addr)
<1>1. /\ a.type \in {"word", "half", "byte"} /\ off \in 0 .. 3
      /\ IsSplit(a) <=> \/ a.type = "word" /\ off # 0
                        \/ a.type = "half" /\ off = 3
  BY AccessParts DEF Types
<1>2. /\ a.type = "word" => /\ Enabled(a, 1) = {k \in 0 .. 3 : k >= off}
                            /\ Enabled(a, 2) = {k \in 0 .. 3 : k < off}
      /\ a.type = "half" => /\ Enabled(a, 1) = {k \in {off, off + 1} : k <= 3}
                            /\ Enabled(a, 2) = {0}
      /\ a.type = "byte" => Enabled(a, 1) = {off} /\ Enabled(a, 2) = {off}
  BY EnabledIs
<1> HIDE DEF off
<1>3. CASE a.type = "word"
  <2>1. Size(a.type) = 4
    BY <1>3, Sizes
  <2>2. Enabled(a, 1) = {k \in 0 .. 3 : k >= off} /\ Enabled(a, 2) = {k \in 0 .. 3 : k < off}
    BY <1>2, <1>3
  <2>3. /\ {k \in 0 .. 3 : k >= off} = {k \in 0 .. 3 : k >= off /\ k - off < 4}
        /\ {k \in 0 .. 3 : k < off} = {k \in 0 .. 3 : k < off /\ k + 4 - off < 4}
    BY <1>1
  <2>4. ~IsSplit(a) => \A n \in 0 .. 4 - 1 : off + n <= 3
    BY <1>1, <1>3
  <2> QED
    BY <2>1, <2>2, <2>3, <2>4 DEF off
<1>4. CASE a.type = "half"
  <2>1. Size(a.type) = 2
    BY <1>4, Sizes
  <2>2. Enabled(a, 1) = {k \in {off, off + 1} : k <= 3} /\ Enabled(a, 2) = {0}
    BY <1>2, <1>4
  <2>3. {k \in {off, off + 1} : k <= 3} = {k \in 0 .. 3 : k >= off /\ k - off < 2}
    BY <1>1
  <2>4. IsSplit(a) => {0} = {k \in 0 .. 3 : k < off /\ k + 4 - off < 2}
    BY <1>1, <1>4
  <2>5. ~IsSplit(a) => \A n \in 0 .. 2 - 1 : off + n <= 3
    BY <1>1, <1>4
  <2> QED
    BY <2>1, <2>2, <2>3, <2>4, <2>5 DEF off
<1>5. CASE a.type = "byte"
  <2>1. Size(a.type) = 1 /\ ~IsSplit(a)
    BY <1>1, <1>5, Sizes
  <2>2. Enabled(a, 1) = {off}
    BY <1>2, <1>5
  <2>3. {off} = {k \in 0 .. 3 : k >= off /\ k - off < 1}
    BY <1>1
  <2>4. \A n \in 0 .. 1 - 1 : off + n <= 3
    BY <1>1
  <2> QED
    BY <2>1, <2>2, <2>3, <2>4 DEF off
<1> QED
  BY <1>1, <1>3, <1>4, <1>5

LEMMA BytesAre ==
    ASSUME NEW a \in Access, NEW part \in {1, 2}
    PROVE  /\ ~a.we => BytesOf(a, part) = {}
           /\ a.we => BytesOf(a, part) = {<<4 * PartWord(a, part) + k, (k + 4 - Offset(a.addr)) % 4>>
                                            : k \in Enabled(a, part)}
<1> DEFINE lane(k) == <<k, (k + 4 - Offset(a.addr)) % 4>>
           w == PartWord(a, part)
<1>1. Txn(a, part).lanes = IF a.we THEN {lane(k) : k \in Enabled(a, part)} ELSE {}
  BY DEF Txn
<1>2. BytesOf(a, part) = {<<4 * w + l[1], l[2]>> : l \in Txn(a, part).lanes}
  BY DEF BytesOf
<1>3. ~a.we => BytesOf(a, part) = {}
  BY <1>1, <1>2
<1>4. \A k : lane(k)[1] = k /\ lane(k)[2] = (k + 4 - Offset(a.addr)) % 4
  OBVIOUS
<1> HIDE DEF lane, w
<1>5. a.we => BytesOf(a, part) = {<<4 * w + lane(k)[1], lane(k)[2]>> : k \in Enabled(a, part)}
  BY <1>1, <1>2, Zenon
<1> QED
  BY <1>3, <1>4, <1>5 DEF w

\* Together the parts of a store are its bytes.
LEMMA Covers ==
    ASSUME NEW a \in Access
    PROVE  /\ ~a.we => BytesOf(a, 1) = {} /\ BytesOf(a, 2) = {}
           /\ a.we => /\ ~IsSplit(a) => BytesOf(a, 1) = StoreBytes(a)
                      /\ IsSplit(a) => BytesOf(a, 1) \cup BytesOf(a, 2) = StoreBytes(a)
<1>1. ~a.we => BytesOf(a, 1) = {} /\ BytesOf(a, 2) = {}
  BY BytesAre
<1> SUFFICES ASSUME a.we
             PROVE  /\ ~IsSplit(a) => BytesOf(a, 1) = StoreBytes(a)
                    /\ IsSplit(a) => BytesOf(a, 1) \cup BytesOf(a, 2) = StoreBytes(a)
  BY <1>1
<1> DEFINE x == a.addr
           off == Offset(x)
           size == Size(a.type)
           byte(n) == <<Plus(x, n), n>>
           one == {k \in 0 .. 3 : k >= off /\ k - off < size}
           two == {k \in 0 .. 3 : k < off /\ k + 4 - off < size}
<1>2. x \in Bytes /\ off \in 0 .. 3 /\ size \in 1 .. 4
  BY AccessParts, LanesAre
<1>3. StoreBytes(a) = {byte(n) : n \in 0 .. size - 1}
  BY DEF StoreBytes
<1>4. BytesOf(a, 1) = {<<4 * WordOf(x) + k, (k + 4 - off) % 4>> : k \in one}
  BY BytesAre, LanesAre DEF PartWord
<1>5. IsSplit(a) => BytesOf(a, 2) = {<<4 * WordOf(Plus(x, 4)) + k, (k + 4 - off) % 4>> : k \in two}
  BY BytesAre, LanesAre DEF PartWord
<1>6. \A n \in 0 .. 3 :
        /\ off + n <= 3 => 4 * WordOf(x) + (off + n) = Plus(x, n)
        /\ off + n > 3 => 4 * WordOf(Plus(x, 4)) + (off + n - 4) = Plus(x, n)
  BY <1>2, Places
<1>7. ~IsSplit(a) => \A n \in 0 .. size - 1 : off + n <= 3
  BY LanesAre
<1> HIDE DEF x, off, size
<1>8. \A k \in one : /\ k - off \in 0 .. size - 1 /\ k - off \in 0 .. 3
                     /\ off + (k - off) = k /\ (k + 4 - off) % 4 = k - off
                     /\ off + (k - off) <= 3
  BY <1>2
<1>9. \A k \in two : /\ k + 4 - off \in 0 .. size - 1 /\ k + 4 - off \in 0 .. 3
                     /\ off + (k + 4 - off) - 4 = k /\ (k + 4 - off) % 4 = k + 4 - off
                     /\ off + (k + 4 - off) > 3
  BY <1>2
<1>10. \A k \in one : <<4 * WordOf(x) + k, (k + 4 - off) % 4>> = byte(k - off)
  <2> SUFFICES ASSUME NEW k \in one
               PROVE  <<4 * WordOf(x) + k, (k + 4 - off) % 4>> = byte(k - off)
    OBVIOUS
  <2>1. 4 * WordOf(x) + k = Plus(x, k - off)
    <3>1. k - off \in 0 .. 3 /\ off + (k - off) <= 3 /\ off + (k - off) = k
      BY <1>8
    <3> QED
      BY <1>6, <3>1
  <2> QED
    BY <1>8, <2>1
<1>11. \A k \in two : <<4 * WordOf(Plus(x, 4)) + k, (k + 4 - off) % 4>> = byte(k + 4 - off)
  <2> SUFFICES ASSUME NEW k \in two
               PROVE  <<4 * WordOf(Plus(x, 4)) + k, (k + 4 - off) % 4>> = byte(k + 4 - off)
    OBVIOUS
  <2>1. 4 * WordOf(Plus(x, 4)) + k = Plus(x, k + 4 - off)
    <3>1. k + 4 - off \in 0 .. 3 /\ off + (k + 4 - off) > 3 /\ off + (k + 4 - off) - 4 = k
      BY <1>9
    <3> QED
      BY <1>6, <3>1
  <2> QED
    BY <1>9, <2>1
<1>12. \A n \in 0 .. size - 1 :
         /\ off + n <= 3 => off + n \in one /\ (off + n) - off = n
         /\ off + n > 3 => off + n - 4 \in two /\ (off + n - 4) + 4 - off = n
  BY <1>2
<1>13. BytesOf(a, 1) = {byte(k - off) : k \in one}
  BY <1>4, <1>10
<1>14. IsSplit(a) => BytesOf(a, 2) = {byte(k + 4 - off) : k \in two}
  BY <1>5, <1>11
<1> HIDE DEF byte, one, two
<1>15. BytesOf(a, 1) \subseteq StoreBytes(a)
  BY <1>3, <1>8, <1>13
<1>16. IsSplit(a) => BytesOf(a, 2) \subseteq StoreBytes(a)
  BY <1>3, <1>9, <1>14
<1>17. \A n \in 0 .. size - 1 : /\ off + n <= 3 => byte(n) \in BytesOf(a, 1)
                                /\ off + n > 3 /\ IsSplit(a) => byte(n) \in BytesOf(a, 2)
  <2> SUFFICES ASSUME NEW n \in 0 .. size - 1
               PROVE  /\ off + n <= 3 => byte(n) \in BytesOf(a, 1)
                      /\ off + n > 3 /\ IsSplit(a) => byte(n) \in BytesOf(a, 2)
    OBVIOUS
  <2>1. CASE off + n <= 3
    <3>1. off + n \in one /\ (off + n) - off = n
      BY <1>12, <2>1
    <3>2. byte((off + n) - off) \in BytesOf(a, 1)
      BY <1>13, <3>1
    <3> QED
      BY <1>2, <2>1, <3>1, <3>2
  <2>2. CASE off + n > 3 /\ IsSplit(a)
    <3>1. off + n - 4 \in two /\ (off + n - 4) + 4 - off = n
      BY <1>12, <2>2
    <3>2. byte((off + n - 4) + 4 - off) \in BytesOf(a, 2)
      BY <1>14, <2>2, <3>1
    <3> QED
      BY <1>2, <2>2, <3>1, <3>2
  <2> QED
    BY <2>1, <2>2
<1>18. \A n \in 0 .. size - 1 : off + n <= 3 \/ off + n > 3
  BY <1>2
<1>19. ~IsSplit(a) => StoreBytes(a) \subseteq BytesOf(a, 1)
  BY <1>3, <1>7, <1>17
<1>20. IsSplit(a) => StoreBytes(a) \subseteq BytesOf(a, 1) \cup BytesOf(a, 2)
  BY <1>3, <1>17, <1>18
<1> QED
  BY <1>15, <1>16, <1>19, <1>20

LEMMA StoredStep ==
    ASSUME TypeInv, IdInv, ControlInv, NEW i, InputOf(i), Clock(i), RespValid(i),
           NEW a \in Access, Active = <<a>>
    PROVE  StoredBytes'
<1>1. Says(i, a)
  BY Saying
<1>2. InIdle(a)
  BY Queues, LastAnswer
<1>3. StoreBytes(Acc)' = StoreBytes(a)
  BY <1>1 DEF Says, StoreBytes
<1>4. written \subseteq IF a.we THEN StoreBytes(a) ELSE {}
  BY <1>2, Covers DEF InIdle, Stored
<1>5. ~(lsu_err_q \/ pmp_err_q) /\ a.we => written = StoreBytes(a)
  <2>1. CASE ~IsSplit(a)
    BY <1>2, <2>1, Covers DEF InIdle, Stored
  <2>2. CASE IsSplit(a)
    BY <1>2, <2>2, Covers DEF InIdle, Stored, FirstDone
  <2> QED
    BY <2>1, <2>2
<1> QED
  BY <1>1, <1>3, <1>4, <1>5 DEF StoredBytes, Says

\* The bytes of a load: those of the second word from the bus, the others from
\* the bus or, of a split load, from the register.
Gathers(r, x, n, split) ==
    /\ ~split => r[Offset(x) + n] = MemoryByte(Plus(x, n))
    /\ split /\ Offset(x) + n <= 3 => rdata_q[Offset(x) + n] = MemoryByte(Plus(x, n))
    /\ split /\ Offset(x) + n > 3 => r[Offset(x) + n - 4] = MemoryByte(Plus(x, n))

LEMMA Gathering ==
    ASSUME TypeInv, IdInv, ControlInv, DataInv, NEW i, InputOf(i), RespValid(i),
           NEW a \in Access, Active = <<a>>, ~a.we, i.rvalid, ~pmp_err_q,
           IsSplit(a) => answered
    PROVE  \A n \in 0 .. Size(a.type) - 1 : Gathers(i.rdata, a.addr, n, IsSplit(a))
<1> DEFINE x == a.addr
           r == i.rdata
           off == Offset(x)
<1>1. InIdle(a) /\ ls_fsm_cs = "IDLE"
  BY Queues, LastAnswer DEF RespValid
<1>2. \A k \in 0 .. 3 : r[k] = MemoryByte(4 * PartWord(a, IF IsSplit(a) THEN 2 ELSE 1) + k)
  <2> DEFINE last == IF IsSplit(a) THEN 2 ELSE 1
  <2>1. mem_q = <<Txn(a, last)>>
    BY <1>1 DEF InIdle, OnBus
  <2>2. Head(mem_q) = Txn(a, last)
    BY <2>1, Queues, Zenon
  <2> QED
    BY <2>2, Answering
<1>3. IsSplit(a) => \A k \in 1 .. 3 : rdata_q[k] = MemoryByte(4 * PartWord(a, 1) + k)
  BY <1>1 DEF DataInv
<1>4. /\ off \in 0 .. 3 /\ Size(a.type) \in 1 .. 4 /\ x \in Bytes
      /\ IsSplit(a) => off # 0
      /\ ~IsSplit(a) => \A n \in 0 .. Size(a.type) - 1 : off + n <= 3
  BY AccessParts, LanesAre
<1>5. PartWord(a, 1) = WordOf(x) /\ PartWord(a, 2) = WordOf(Plus(x, 4))
  BY DEF PartWord
<1>6. \A n \in 0 .. 3 :
        /\ off + n <= 3 => 4 * WordOf(x) + (off + n) = Plus(x, n)
        /\ off + n > 3 => 4 * WordOf(Plus(x, 4)) + (off + n - 4) = Plus(x, n)
  BY <1>4, Places
<1> HIDE DEF x, r, off
<1> SUFFICES ASSUME NEW n \in 0 .. Size(a.type) - 1
             PROVE  Gathers(r, x, n, IsSplit(a))
  BY DEF r, x
<1>7. n \in 0 .. 3
  BY <1>4
<1>8. CASE ~IsSplit(a)
  <2>1. off + n \in 0 .. 3 /\ off + n <= 3
    BY <1>4, <1>7, <1>8
  <2>2. r[off + n] = MemoryByte(4 * WordOf(x) + (off + n))
    BY <1>2, <1>5, <1>8, <2>1
  <2>3. 4 * WordOf(x) + (off + n) = Plus(x, n)
    BY <1>6, <1>7, <2>1
  <2> QED
    BY <1>8, <2>2, <2>3 DEF Gathers, off
<1>9. CASE IsSplit(a) /\ off + n <= 3
  <2>1. off + n \in 1 .. 3
    BY <1>4, <1>7, <1>9
  <2>2. rdata_q[off + n] = MemoryByte(4 * WordOf(x) + (off + n))
    BY <1>3, <1>5, <1>9, <2>1
  <2>3. 4 * WordOf(x) + (off + n) = Plus(x, n)
    BY <1>6, <1>7, <1>9
  <2>4. ~(off + n > 3)
    BY <1>4, <1>7, <1>9
  <2> QED
    BY <1>9, <2>2, <2>3, <2>4 DEF Gathers, off
<1>10. CASE IsSplit(a) /\ off + n > 3
  <2>1. off + n - 4 \in 0 .. 3
    BY <1>4, <1>7, <1>10
  <2>2. r[off + n - 4] = MemoryByte(4 * WordOf(Plus(x, 4)) + (off + n - 4))
    BY <1>2, <1>5, <1>10, <2>1
  <2>3. 4 * WordOf(Plus(x, 4)) + (off + n - 4) = Plus(x, n)
    BY <1>6, <1>7, <1>10
  <2>4. ~(off + n <= 3)
    BY <1>4, <1>7, <1>10
  <2> QED
    BY <1>10, <2>2, <2>3, <2>4 DEF Gathers, off
<1>11. off + n <= 3 \/ off + n > 3
  BY <1>4, <1>7
<1> QED
  BY <1>8, <1>9, <1>10, <1>11

\* The alignment network puts them in order and extends them.
LEMMA Aligning ==
    ASSUME NEW i, NEW a \in Access, Recorded(a),
           \A n \in 0 .. Size(a.type) - 1 : Gathers(i.rdata, a.addr, n, IsSplit(a))
    PROVE  RdataExt(i) = LoadValue(a)
<1> DEFINE r == i.rdata
           o == Offset(a.addr)
           size == Size(a.type)
           value(n) == MemoryByte(Plus(a.addr, n))
           load == [k \in 0 .. 3 |-> IF k < size THEN value(k)
                                     ELSE Extension(value(size - 1), a.sign)]
           upper == IF o = 3 THEN r[0] ELSE r[o + 1]
           word == [k \in 0 .. 3 |-> IF o = 0 THEN r[k]
                                     ELSE IF o + k <= 3 THEN rdata_q[o + k] ELSE r[o + k - 4]]
           first == IF o = 3 THEN rdata_q[3] ELSE r[o]
           arm(k) == CASE k = 0 -> first [] k = 1 -> upper [] k > 1 -> Extension(upper, a.sign)
           half == [k \in 0 .. 3 |-> arm(k)]
           byte == [k \in 0 .. 3 |-> IF k = 0 THEN r[o] ELSE Extension(r[o], a.sign)]
<1>1. /\ o \in 0 .. 3 /\ a.type \in {"word", "half", "byte"}
      /\ IsSplit(a) <=> \/ a.type = "word" /\ o # 0
                        \/ a.type = "half" /\ o = 3
  BY AccessParts DEF Types
<1>2. rdata_offset_q = o /\ data_type_q = a.type /\ data_sign_ext_q = a.sign
  BY DEF Recorded
<1>3. LoadValue(a) = load
  BY Zenon DEF LoadValue
<1>4. HalfUpper(i) = upper
  BY <1>2, Zenon DEF HalfUpper
<1>5. RdataExt(i) = CASE a.type = "word" -> word
                      [] a.type = "half" -> half
                      [] a.type = "byte" -> byte
  <2> DEFINE p == rdata_offset_q
             s == data_sign_ext_q
             high == HalfUpper(i)
             wide == [k \in 0 .. 3 |-> IF p = 0 THEN r[k]
                                       ELSE IF p + k <= 3 THEN rdata_q[p + k] ELSE r[p + k - 4]]
             pick(k) == CASE k = 0 -> IF p = 3 THEN rdata_q[3] ELSE r[p]
                          [] k = 1 -> high [] k > 1 -> Extension(high, s)
             mid == [k \in 0 .. 3 |-> pick(k)]
             thin == [k \in 0 .. 3 |-> IF k = 0 THEN r[p] ELSE Extension(r[p], s)]
  <2>1. RdataExt(i) = CASE data_type_q = "word" -> wide
                        [] data_type_q = "half" -> mid
                        [] data_type_q = "byte" -> thin
    BY Zenon DEF RdataExt
  <2>2. wide = word /\ thin = byte
    BY <1>2
  <2>3. \A k : pick(k) = arm(k)
    BY <1>2, <1>4, Zenon
  <2>4. mid = half
    <3> HIDE DEF pick, arm
    <3> QED
      BY <2>3
  <2> HIDE DEF wide, mid, thin, word, half, byte
  <2> QED
    BY <1>2, <2>1, <2>2, <2>4, Zenon
<1>6. \A n \in 0 .. size - 1 :
        /\ ~IsSplit(a) => r[o + n] = value(n)
        /\ IsSplit(a) /\ o + n <= 3 => rdata_q[o + n] = value(n)
        /\ IsSplit(a) /\ o + n > 3 => r[o + n - 4] = value(n)
  BY DEF Gathers
<1>7. /\ a.type = "word" => size = 4
      /\ a.type = "half" => size = 2
      /\ a.type = "byte" => size = 1
  BY Sizes
<1>8. half = [k \in 0 .. 3 |-> IF k = 0 THEN first
                               ELSE IF k = 1 THEN upper ELSE Extension(upper, a.sign)]
  <2>1. \A k : arm(k) = CASE k = 0 -> first [] k = 1 -> upper
                          [] k > 1 -> Extension(upper, a.sign)
    BY Zenon
  <2>2. \A k \in 0 .. 3 : k = 0 \/ k = 1 \/ k > 1
    OBVIOUS
  <2>3. ~(0 = 1) /\ ~(0 > 1) /\ ~(1 > 1)
    OBVIOUS
  <2> DEFINE ext == Extension(upper, a.sign)
             big(k) == k > 1
  <2>4. /\ \A k \in 0 .. 3 : k = 0 \/ k = 1 \/ big(k)
        /\ ~big(0) /\ ~big(1)
        /\ \A k : arm(k) = CASE k = 0 -> first [] k = 1 -> upper [] big(k) -> ext
    BY <2>1, <2>2, <2>3, Zenon
  <2> HIDE DEF arm, first, upper, ext, big
  <2>5. \A k \in 0 .. 3 : arm(k) = IF k = 0 THEN first ELSE IF k = 1 THEN upper ELSE ext
    <3> SUFFICES ASSUME NEW k \in 0 .. 3
                 PROVE  arm(k) = IF k = 0 THEN first ELSE IF k = 1 THEN upper ELSE ext
      OBVIOUS
    <3>1. CASE k = 0
      BY <2>3, <2>4, <3>1, Zenon
    <3>2. CASE k = 1
      BY <2>3, <2>4, <3>2, Zenon
    <3>3. CASE k # 0 /\ k # 1
      BY <2>4, <3>3, Zenon
    <3> QED
      BY <3>1, <3>2, <3>3, Zenon
  <2> QED
    BY <2>5, Zenon DEF ext
<1> HIDE DEF r, o, size, value, arm, word, half, byte, load, first, upper
<1>9. CASE a.type = "word"
  <2>1. RdataExt(i) = word
    BY <1>5, <1>9, Zenon
  <2>2. word = load
    <3>1. \A k \in 0 .. 3 : /\ o = 0 => r[k] = value(k)
                            /\ o # 0 /\ o + k <= 3 => rdata_q[o + k] = value(k)
                            /\ o # 0 /\ ~(o + k <= 3) => r[o + k - 4] = value(k)
      BY <1>1, <1>6, <1>7, <1>9
    <3>2. size = 4
      BY <1>7, <1>9
    <3> QED
      BY <3>1, <3>2 DEF word, load
  <2> QED
    BY <1>3, <2>1, <2>2
<1>10. CASE a.type = "half"
  <2>1. RdataExt(i) = half
    BY <1>5, <1>10, Zenon
  <2>2. first = value(0) /\ upper = value(1) /\ size = 2
    <3>1. size = 2 /\ 0 \in 0 .. size - 1 /\ 1 \in 0 .. size - 1
      BY <1>7, <1>10
    <3>2. CASE o = 3
      <4>1. IsSplit(a) /\ o + 0 <= 3 /\ o + 1 > 3 /\ o + 0 = 3 /\ o + 1 - 4 = 0
        BY <1>1, <1>10, <3>2
      <4>2. rdata_q[o + 0] = value(0) /\ r[o + 1 - 4] = value(1)
        BY <1>6, <3>1, <4>1
      <4> QED
        BY <3>1, <3>2, <4>1, <4>2 DEF first, upper
    <3>3. CASE o # 3
      <4>1. ~IsSplit(a) /\ o + 0 = o
        BY <1>1, <1>10, <3>3
      <4>2. r[o + 0] = value(0) /\ r[o + 1] = value(1)
        BY <1>6, <3>1, <4>1
      <4> QED
        BY <3>1, <3>3, <4>1, <4>2 DEF first, upper
    <3> QED
      BY <3>2, <3>3
  <2>3. half = load
    BY <1>8, <2>2 DEF load
  <2> QED
    BY <1>3, <2>1, <2>3
<1>11. CASE a.type = "byte"
  <2>1. RdataExt(i) = byte
    BY <1>5, <1>11, Zenon
  <2>2. size = 1 /\ r[o] = value(0)
    <3>1. size = 1 /\ ~IsSplit(a) /\ 0 \in 0 .. size - 1 /\ o + 0 = o
      BY <1>1, <1>7, <1>11
    <3>2. r[o + 0] = value(0)
      BY <1>6, <3>1
    <3> QED
      BY <3>1, <3>2
  <2>3. byte = load
    BY <2>2 DEF byte, load
  <2> QED
    BY <1>3, <2>1, <2>3
<1> QED
  BY <1>1, <1>9, <1>10, <1>11

LEMMA LoadedStep ==
    ASSUME TypeInv, IdInv, ControlInv, DataInv, NEW i, InputOf(i), Clock(i), RespValid(i),
           NEW a \in Access, Active = <<a>>
    PROVE  LoadedValuePrompt'
<1>1. Says(i, a)
  BY Saying
<1>2. Recorded(a) /\ ~(i.err /\ ~i.rvalid)
  BY Queues, LastAnswer DEF InIdle, InputOf
<1> SUFFICES ASSUME ~a.we, ~resp'.err, IsSplit(a) => resp'.prompt
             PROVE  HasValue'
  BY <1>1 DEF LoadedValuePrompt, Says, IsSplit
<1>3. ~lsu_err_q /\ ~i.err /\ ~pmp_err_q /\ (IsSplit(a) => answered)
  BY <1>1 DEF Says
<1>4. i.rvalid /\ ~data_we_q
  BY <1>2, <1>3 DEF RespValid, Recorded
<1>5. resp'.toRegister /\ resp'.rdata = RdataExt(i)
  BY <1>1, <1>3, <1>4 DEF Says
<1>6. RdataExt(i) = LoadValue(a)
  BY <1>2, <1>3, <1>4, Gathering, Aligning
<1>7. LoadValue(Acc)' = LoadValue(a)
  BY <1>1 DEF Says, LoadValue
<1> QED
  BY <1>5, <1>6, <1>7 DEF HasValue

-----------------------------------------------------------------------------
(* The theorems.                                                           *)

LEMMA NextStep ==
    ASSUME IInv, Next
    PROVE  IInv'
<1>1. PICK i : InputOf(i) /\ Clock(i)
  BY Inputs
<1>2. TypeInv /\ IdInv /\ ControlInv /\ WaitInv /\ DataInv
  BY DEF IInv
<1>3. TypeInv' /\ IdInv' /\ ControlInv' /\ WaitInv' /\ DataInv'
  BY <1>1, <1>2, Step, StepTypes
<1>4. AnswerInv'
  <2>1. CASE ~RespValid(i)
    <3>1. resp' = NoResp
      BY <1>1, <2>1, Keeping
    <3>2. NoResp' = NoResp
      BY DEF NoResp
    <3> QED
      BY <1>3, <3>1, <3>2, NoAnswerNext
  <2>2. CASE RespValid(i)
    <3>1. Active # <<>>
      BY <1>1, <1>2, <2>2 DEF ControlInv, AtRest, RespValid, InputOf
    <3>2. PICK a \in Access : Active = <<a>>
      BY <1>2, <3>1, CoreParts DEF Active
    <3>3. ErrorsReported' /\ FaultAddress' /\ OneAnswerEach'
      BY <1>1, <1>2, <2>2, <3>2, ErrorsStep
    <3>4. StoredBytes'
      BY <1>1, <1>2, <2>2, <3>2, StoredStep
    <3>5. LoadedValuePrompt'
      BY <1>1, <1>2, <2>2, <3>2, LoadedStep
    <3> QED
      BY <3>3, <3>4, <3>5 DEF AnswerInv
  <2> QED
    BY <2>1, <2>2
<1> QED
  BY <1>3, <1>4 DEF IInv

\* Whatever the bus, the PMP and the program do, the state machine, the queue
\* of the bus, the PMP's verdicts and the bytes written are those of one access
\* (rtl/ibex_load_store_unit.sv).
THEOREM Invariance == Spec => []IInv
<1>1. Init => IInv
  BY Starts, NoAnswer DEF IInv
<1>2. IInv /\ [Next]_vars => IInv'
  BY NextStep, Stuttering
<1> QED
  BY <1>1, <1>2, PTL DEF Spec

\* Each answer belongs to an access that waits for one, and leaves nothing of
\* it on the bus.
THEOREM EachAnsweredOnce == Spec => []OneAnswerEach
<1>1. IInv => OneAnswerEach
  BY DEF IInv, AnswerInv
<1> QED
  BY <1>1, Invariance, PTL

\* An access fails exactly when one of its parts does, also when the PMP
\* refuses one part and the bus answers the other.
THEOREM FailuresReported == Spec => []ErrorsReported
<1>1. IInv => ErrorsReported
  BY DEF IInv, AnswerInv
<1> QED
  BY <1>1, Invariance, PTL

\* The address left for mtval is that of the first part that failed.
THEOREM FaultAddressRight == Spec => []FaultAddress
<1>1. IInv => FaultAddress
  BY DEF IInv, AnswerInv
<1> QED
  BY <1>1, Invariance, PTL

\* A store writes its bytes, at the end of the address space also those that
\* wrap around, and no others.
THEOREM BytesInPlace == Spec => []StoredBytes
<1>1. IInv => StoredBytes
  BY DEF IInv, AnswerInv
<1> QED
  BY <1>1, Invariance, PTL

\* A load within a word, or whose answers follow each other, returns the value
\* its instruction asks for.
THEOREM PromptLoads == Spec => []LoadedValuePrompt
<1>1. IInv => LoadedValuePrompt
  BY DEF IInv, AnswerInv
<1> QED
  BY <1>1, Invariance, PTL

LEMMA HeldStep ==
    ASSUME IInv, Next, waiting # <<>>
    PROVE  \/ waiting' = waiting
           \/ /\ waiting' = <<>>
              /\ mem_q' # <<>>
              /\ mem_q'[Len(mem_q')] = waiting[1]
<1>1. PICK i : InputOf(i) /\ Clock(i)
  BY Inputs
<1>2. TypeInv /\ IdInv /\ ControlInv /\ WaitInv
  BY DEF IInv
<1>3. ls_fsm_cs \in {"WAIT_GNT", "WAIT_GNT_MIS", "WAIT_RVALID_MIS"} /\ ls_fsm_cs # "IDLE"
  BY <1>2 DEF WaitInv
<1>4. PICK a \in Access : BusyWith(i, a)
  BY <1>1, <1>2, <1>3, BusyCycle
<1>5. waiting = <<Txn(a, Part)>> /\ ~Refused(a, Part) /\ i.acc = a
  BY <1>2, <1>4 DEF WaitInv, BusyWith
<1>6. /\ ls_fsm_cs = "WAIT_GNT" => InWaitGnt(a)
      /\ ls_fsm_cs = "WAIT_GNT_MIS" => InWaitGntMis(a)
      /\ ls_fsm_cs = "WAIT_RVALID_MIS" => InWaitRvalidMis(a)
  BY <1>2, <1>4 DEF ControlInv, BusyWith
<1>7. Requested(i, a, Part)
  <2>1. /\ DataReq(i) /\ Part \in {1, 2}
        /\ handle_misaligned_q <=> Part = 2
        /\ DataAddr(i) = IF Part = 2 THEN Plus(a.addr, 4) ELSE a.addr
    BY <1>3, <1>5, <1>6 DEF DataReq, DataAddr, AddrIncrReq, Part, InWaitGnt, InWaitGntMis,
       InWaitRvalidMis
  <2> QED
    BY <1>1, <1>5, <2>1, RequestingAfter
<1>8. mem_q = <<>> \/ \E x : mem_q = <<x>>
  BY <1>3, <1>6 DEF InWaitGnt, InWaitGntMis, InWaitRvalidMis, Waits, OnBus
<1>9. Kept(i) = <<>> \/ \E x : Kept(i) = <<x>>
  <2>1. CASE mem_q = <<>> \/ ~i.rvalid
    BY <1>1, <1>8, <2>1, KeptQueue
  <2>2. CASE i.rvalid /\ \E x : mem_q = <<x>>
    BY <1>1, <2>2, KeptQueue
  <2> QED
    BY <1>8, <2>1, <2>2
<1>10. CASE ~i.gnt
  BY <1>5, <1>7, <1>10 DEF Requested
<1>11. CASE i.gnt
  <2>1. waiting' = <<>> /\ waiting[1] = Txn(a, Part)
    BY <1>5, <1>7, <1>11 DEF Requested
  <2>2. mem_q' = <<Txn(a, Part)>> \/ \E x : mem_q' = <<x, Txn(a, Part)>>
    BY <1>7, <1>9, <1>11 DEF Requested
  <2>3. mem_q' # <<>> /\ mem_q'[Len(mem_q')] = Txn(a, Part)
    <3>1. CASE mem_q' = <<Txn(a, Part)>>
      BY <3>1
    <3>2. CASE \E x : mem_q' = <<x, Txn(a, Part)>>
      BY <3>2
    <3> QED
      BY <2>2, <3>1, <3>2
  <2> QED
    BY <2>1, <2>3
<1> QED
  BY <1>10, <1>11

\* A request stays as it is until it is granted, also that of a second part
\* while the answer to the first arrives.
THEOREM RequestsStable == Spec => RequestHeld
<1>1. IInv /\ [Next]_vars =>
        [waiting # <<>> => \/ waiting' = waiting
                           \/ /\ waiting' = <<>>
                              /\ mem_q' # <<>>
                              /\ mem_q'[Len(mem_q')] = waiting[1]]_vars
  <2>1. IInv /\ Next => (waiting # <<>> => \/ waiting' = waiting
                                           \/ /\ waiting' = <<>>
                                              /\ mem_q' # <<>>
                                              /\ mem_q'[Len(mem_q')] = waiting[1])
    BY HeldStep
  <2> QED
    BY <2>1, Zenon
<1> QED
  BY <1>1, Invariance, PTL DEF Spec, RequestHeld
=============================================================================
