------------------------- MODULE SimpleSystemProofs -------------------------
(***************************************************************************)
(* Theorems about the simple system's software and its timer, for every    *)
(* word size, every increment, every time between two instructions and     *)
(* every starting value of the counters.                                   *)
(***************************************************************************)
EXTENDS SimpleSystem, TLAPS

-----------------------------------------------------------------------------
(* The inductive invariant.                                                *)

Measuring == {"off1", "reset", "on", "puts", "off2", "measured"}
Update    == {"read_h", "read_l", "check_h", "write_max", "write_h", "write_l"}
Setup     == {"enable", "updated", "mstatus"} \cup Update
Loop      == {"first", "get", "print1", "print2", "print3", "wfi", "asleep",
              "halted"}

TypeInv ==
    /\ mtime_q \in Nat /\ mtimecmp_q \in Nat /\ interrupt_q \in BOOLEAN
    /\ mpc \in Measuring \cup Setup \cup Loop
    /\ hpc \in {"none", "updated", "mret"} \cup Update
    /\ rd_h \in Nat /\ rd_l \in Nat /\ new_time \in Nat /\ called \in Nat
    /\ time_increment \in Nat /\ time_elapsed \in Nat /\ last_elapsed_time \in Nat
    /\ mie \in BOOLEAN /\ mstatus_mie \in BOOLEAN /\ mcountinhibit \in BOOLEAN
    /\ counts \in [Counters -> Nat] /\ measured \in [Counters -> Nat]
    /\ cleared \in 0 .. 4
    /\ idle \in 0 .. MaxIdle

\* Interrupts are on in main's loop only, and off in the handler.
ControlInv ==
    /\ hpc # "none" => mpc \in Loop /\ ~mstatus_mie
    /\ mstatus_mie => mpc \in Loop

\* Where the last timer_read has returned.
Returned == {"write_max", "write_h", "write_l", "updated", "mret", "mstatus"}
            \cup Loop

\* What timer_read has read so far: the low word in the last step, since when
\* mtime has gone on by the idle cycles; and what it has returned.
ReadInv ==
    /\ Pc = "read_l" => rd_h = High(called) /\ called < mtime_q
    /\ Pc = "check_h" => /\ rd_h = High(called)
                         /\ called + 1 + idle <= mtime_q
                         /\ rd_l = Low(mtime_q - (1 + idle))
    /\ Pc \in Returned =>
              /\ called + time_increment <= new_time
              /\ new_time <= mtime_q + time_increment

\* What timecmp_update has written so far, and what the timer does with it.
CompareInv ==
    /\ Pc = "write_l" => High(mtimecmp_q) = High(new_time)
    /\ Pc \notin {"enable"} \cup Update =>
           mtimecmp_q = new_time /\ (interrupt_q => mtime_q > new_time)

\* The halves of the counters that pcount_reset has cleared.
CountInv ==
    /\ mpc \in {"off1", "reset", "on"} => measured = [c \in Counters |-> 0]
    /\ mpc = "off1" => cleared = 0
    /\ mpc \in {"reset", "on"} =>
           /\ mcountinhibit
           /\ mpc = "reset" => cleared < 4
           /\ mpc = "on" => cleared = 4
           /\ cleared >= 1 => Low(counts["minstret"]) = 0
           /\ cleared >= 2 => Low(counts["mcycle"]) = 0
           /\ cleared >= 3 => High(counts["minstret"]) = 0
           /\ cleared >= 4 => High(counts["mcycle"]) = 0
    /\ mpc \in {"puts", "off2"} => ~mcountinhibit
    /\ mpc \in {"puts", "off2", "measured"} => counts = measured

\* The k-th step after timer_read read the low word comes in time.
Within(k) ==
    mtime_q + time_increment <= new_time + 1 + (k - 1) * (MaxIdle + 1) + idle

Behind == time_elapsed - last_elapsed_time

\* How many steps timecmp_update and what follows it are from timer_read.
UpdatePace ==
    /\ Pc = "write_max" => Within(2)
    /\ Pc = "write_h" => Within(3)
    /\ Pc = "write_l" => Within(4)
    /\ Pc = "updated" => Within(5)
    /\ Pc \in {"mstatus", "mret"} => Within(6)

\* How far main may be behind the ticks, and that no interrupt comes before
\* it has done three instructions after the last one.
MainPace ==
    /\ mpc = "first" => Behind = 0 /\ Within(7)
    /\ mpc = "get" => Behind <= 2 /\ (Within(7) \/ (Behind = 0 /\ Within(8)))
    /\ mpc = "print1" => Behind = 0 /\ Within(8)
    /\ mpc = "print2" => Behind = 0 /\ Within(9)
    /\ mpc = "print3" => Behind <= 0 \/ (Behind <= 1 /\ Within(7))
    /\ mpc = "wfi" => Behind <= 0 \/ (Behind <= 1 /\ Within(8))
    /\ mpc = "asleep" => Behind <= 1
    /\ mpc = "halted" => Behind <= 2

\* Where the handler interrupts main, and what its tick makes of that.
HandlerPace ==
    /\ mpc \in {"get", "halted", "print3", "wfi"}
    /\ Behind <= (IF hpc = "mret" THEN 1 ELSE 0)
                 + (IF mpc \in {"get", "halted"} THEN 1 ELSE 0)

PaceInv ==
    /\ UpdatePace
    /\ mpc \in Measuring \cup Setup => time_elapsed = 0 /\ last_elapsed_time = 0
    /\ time_increment >= PassTime =>
           /\ hpc = "none" => MainPace
           /\ hpc # "none" => HandlerPace

IInv == /\ TypeInv /\ ControlInv /\ ReadInv /\ CompareInv /\ CountInv
        /\ PaceInv

-----------------------------------------------------------------------------
(* The words of a number.                                                  *)

LEMMA WordsOf ==
    ASSUME NEW x \in Nat
    PROVE  /\ Low(x) \in 0 .. B - 1 /\ High(x) \in Nat
           /\ x = B * High(x) + Low(x)
BY TimerAssumption DEF Low, High

LEMMA Multiples ==
    ASSUME NEW m \in Nat, NEW n \in Nat, m < n
    PROVE  B * m + B <= B * n
<1>1. PICK d \in Nat : n = m + 1 + d
  <2>1. n - m - 1 \in Nat /\ n = m + 1 + (n - m - 1)
    OBVIOUS
  <2> QED
    BY <2>1
<1>2. B * n = B * m + B + B * d
  BY <1>1, TimerAssumption
<1>3. B * d >= 0
  BY TimerAssumption
<1> QED
  BY <1>2, <1>3, TimerAssumption

\* A number has one pair of words, and the high ones grow with it.
LEMMA WordsUnique ==
    ASSUME NEW h \in Nat, NEW l \in 0 .. B - 1
    PROVE  /\ Join(h, l) \in Nat
           /\ High(Join(h, l)) = h /\ Low(Join(h, l)) = l
<1> DEFINE x == Join(h, l)
<1>1. x = B * h + l /\ x \in Nat
  BY TimerAssumption DEF Join
<1>2. /\ High(x) \in Nat /\ Low(x) \in 0 .. B - 1
      /\ x = B * High(x) + Low(x)
  BY <1>1, WordsOf
<1> HIDE DEF x
<1>3. ~(h < High(x)) /\ ~(High(x) < h)
  BY <1>1, <1>2, Multiples, TimerAssumption
<1>4. h = High(x)
  BY <1>2, <1>3
<1>5. B * h + l = B * h + Low(x)
  BY <1>1, <1>2, <1>4
<1>6. l = Low(x)
  <2> DEFINE p == B * h
  <2>1. p \in Nat
    BY TimerAssumption
  <2>2. p + l = p + Low(x)
    BY <1>5
  <2>3. l \in Nat /\ Low(x) \in Nat
    BY <1>2, TimerAssumption
  <2> HIDE DEF p
  <2> QED
    BY <2>1, <2>2, <2>3
<1> QED
  BY <1>1, <1>4, <1>6 DEF x

LEMMA HighGrows ==
    ASSUME NEW x \in Nat, NEW y \in Nat, x <= y
    PROVE  High(x) <= High(y)
<1>1. /\ High(x) \in Nat /\ Low(x) \in 0 .. B - 1 /\ x = B * High(x) + Low(x)
      /\ High(y) \in Nat /\ Low(y) \in 0 .. B - 1 /\ y = B * High(y) + Low(y)
  BY WordsOf
<1>2. ~(High(y) < High(x))
  BY <1>1, Multiples, TimerAssumption
<1> QED
  BY <1>1, <1>2

LEMMA Rejoined ==
    ASSUME NEW x \in Nat
    PROVE  Join(High(x), Low(x)) = x
BY WordsOf DEF Join

LEMMA ReadsMtime == Rdata("MTIME") = Low(mtime_q) /\ Rdata("MTIMEH") = High(mtime_q)
BY Zenon DEF Rdata

-----------------------------------------------------------------------------
(* A clock cycle.                                                          *)

\* The timer in a cycle that does not write mtimecmp.
Quiet == /\ mtime_q' = mtime_q + 1
         /\ mtimecmp_q' = mtimecmp_q
         /\ interrupt_q' \in BOOLEAN
         /\ interrupt_q' <=> mtime_q >= mtimecmp_q \/ interrupt_q

\* The counters in a cycle that does not write them.
Counting(retire) ==
    LET inc == [minstret |-> retire, mcycle |-> TRUE]
    IN  /\ counts' = [c \in Counters |->
              IF inc[c] /\ ~mcountinhibit THEN counts[c] + 1 ELSE counts[c]]
        /\ measured' = [c \in Counters |->
              measured[c] + (IF Measures /\ inc[c] THEN 1 ELSE 0)]

LEMMA CounterFacts ==
    ASSUME NEW c, NEW a, NEW reg, NEW regh, NEW inc
    PROVE  /\ ~Writes(a, reg) /\ ~Writes(a, regh)
                  => CounterD(c, a, reg, regh, inc) = IF inc THEN c + 1 ELSE c
           /\ Writes(a, reg) /\ ~Writes(a, regh)
                  => CounterD(c, a, reg, regh, inc) = Join(High(c), a.wdata)
           /\ ~Writes(a, reg) /\ Writes(a, regh)
                  => CounterD(c, a, reg, regh, inc) = Join(a.wdata, Low(c))
<1>1. ASSUME ~Writes(a, reg), ~Writes(a, regh)
      PROVE  CounterD(c, a, reg, regh, inc) = IF inc THEN c + 1 ELSE c
  BY <1>1, Zenon DEF CounterD
<1>2. ASSUME Writes(a, reg), ~Writes(a, regh)
      PROVE  CounterD(c, a, reg, regh, inc) = Join(High(c), a.wdata)
  BY <1>2, Zenon DEF CounterD
<1>3. ASSUME ~Writes(a, reg), Writes(a, regh)
      PROVE  CounterD(c, a, reg, regh, inc) = Join(a.wdata, Low(c))
  BY <1>3, Zenon DEF CounterD
<1> QED
  BY <1>1, <1>2, <1>3

LEMMA ClockFacts ==
    ASSUME TypeInv, NEW a, NEW retire \in BOOLEAN, Clock(a, retire)
    PROVE  /\ mtime_q' = mtime_q + 1
           /\ ~MtimecmpWritten(a) => Quiet
           /\ MtimecmpWritten(a) => mtimecmp_q' = MtimecmpD(a) /\ interrupt_q' = FALSE
           /\ (\A reg \in {"minstret", "minstreth", "mcycle", "mcycleh"} :
                   ~Writes(a, reg)) => Counting(retire)
<1>1. TimerClock(a) /\ CountersClock(a, retire)
  BY DEF Clock
<1>2. mtime_q' = mtime_q + 1
  BY <1>1 DEF TimerClock
<1>3. ASSUME ~MtimecmpWritten(a)
      PROVE  Quiet
  BY <1>1, <1>3 DEF TimerClock, InterruptD, Quiet
<1>4. ASSUME MtimecmpWritten(a)
      PROVE  mtimecmp_q' = MtimecmpD(a) /\ interrupt_q' = FALSE
  BY <1>1, <1>4 DEF TimerClock, InterruptD
<1>5. ASSUME \A reg \in {"minstret", "minstreth", "mcycle", "mcycleh"} :
                 ~Writes(a, reg)
      PROVE  Counting(retire)
  <2> DEFINE inc == [minstret |-> retire, mcycle |-> TRUE]
  <2>1. ASSUME NEW c \in Counters
        PROVE  CounterD(counts[c], a, c, HighOf[c], inc[c] /\ ~mcountinhibit)
               = IF inc[c] /\ ~mcountinhibit THEN counts[c] + 1 ELSE counts[c]
    <3>1. ~Writes(a, c) /\ ~Writes(a, HighOf[c])
      BY <1>5, <2>1 DEF Counters, HighOf
    <3>2. \A i : CounterD(counts[c], a, c, HighOf[c], i)
                     = IF i THEN counts[c] + 1 ELSE counts[c]
      BY <3>1, CounterFacts
    <3> QED
      BY <3>2, Zenon
  <2> QED
    BY <1>1, <2>1, Zenon DEF CountersClock, Counting
<1> QED
  BY <1>2, <1>3, <1>4, <1>5

\* Which accesses write what.
LEMMA AccessFacts ==
    /\ ~MtimecmpWritten(NoAccess)
    /\ \A reg : ~Writes(NoAccess, reg)
    /\ \A reg, val : /\ Write(reg, val).wdata = val
                     /\ \A r : Writes(Write(reg, val), r) <=> reg = r
    /\ \A reg, val : MtimecmpWritten(Write(reg, val))
                         <=> reg \in {"MTIMECMP", "MTIMECMPH"}
BY DEF NoAccess, Write, Writes, MtimecmpWritten

\* A step of the core that accesses neither the timer nor a counter.
LEMMA PlainStep ==
    ASSUME TypeInv, Step(NoAccess)
    PROVE  ~Interrupted /\ Quiet /\ Counting(TRUE) /\ idle' = 0
BY ClockFacts, AccessFacts DEF Step

\* The three writes of timecmp_update.
LEMMA CompareFacts ==
    ASSUME TypeInv, NEW at, NEW next, NEW reg \in {"MTIMECMP", "MTIMECMPH"},
           NEW val \in Nat, Compare(at, next, reg, val)
    PROVE  /\ Pc = at /\ GoesTo(next)
           /\ ~Interrupted /\ Counting(TRUE) /\ idle' = 0
           /\ mtime_q' = mtime_q + 1 /\ interrupt_q' = FALSE
           /\ mtimecmp_q' = IF reg = "MTIMECMPH" THEN Join(val, Low(mtimecmp_q))
                                                ELSE Join(High(mtimecmp_q), val)
           /\ mtimecmp_q' \in Nat
           /\ UNCHANGED <<readVars, tickVars, csrVars>>
<1> DEFINE a == Write(reg, val)
<1>1. Clock(a, TRUE) /\ ~Interrupted /\ idle' = 0
  BY DEF Compare, Step
<1>2. MtimecmpWritten(a)
  BY AccessFacts
<1>3. /\ a.wdata = val
      /\ Writes(a, "MTIMECMPH") <=> reg = "MTIMECMPH"
      /\ Writes(a, "MTIMECMP") <=> reg = "MTIMECMP"
      /\ \A r \in {"minstret", "minstreth", "mcycle", "mcycleh"} : ~Writes(a, r)
  BY AccessFacts
<1> HIDE DEF a
<1>4. /\ mtime_q' = mtime_q + 1 /\ interrupt_q' = FALSE /\ Counting(TRUE)
      /\ mtimecmp_q' = MtimecmpD(a)
  BY <1>1, <1>2, <1>3, ClockFacts
<1>5. mtimecmp_q' = IF reg = "MTIMECMPH" THEN Join(val, Low(mtimecmp_q))
                                         ELSE Join(High(mtimecmp_q), val)
  BY <1>3, <1>4 DEF MtimecmpD
<1>6. Low(mtimecmp_q) \in Nat /\ High(mtimecmp_q) \in Nat
  BY WordsOf DEF TypeInv
<1>7. mtimecmp_q' \in Nat
  BY <1>5, <1>6, TimerAssumption DEF Join
<1> QED
  BY <1>1, <1>4, <1>5, <1>7 DEF Compare

\* One instruction of pcount_reset, while the counters are stopped.
LEMMA ResetFacts ==
    ASSUME TypeInv, CountInv, PcountReset
    PROVE  /\ Quiet /\ ~Interrupted /\ idle' = 0 /\ hpc = "none" /\ hpc' = "none"
           /\ mpc = "reset" /\ mpc' = (IF cleared = 3 THEN "on" ELSE "reset")
           /\ cleared \in 0 .. 3 /\ cleared' = cleared + 1
           /\ UNCHANGED <<readVars, tickVars, mie, mstatus_mie, mcountinhibit>>
           /\ measured' = measured
           /\ counts' \in [Counters -> Nat]
           /\ Low(counts'["minstret"]) = 0
           /\ cleared >= 1 => Low(counts'["mcycle"]) = 0
           /\ cleared >= 2 => High(counts'["minstret"]) = 0
           /\ cleared >= 3 => High(counts'["mcycle"]) = 0
<1>1. /\ cleared \in 0 .. 3 /\ cleared' = cleared + 1
      /\ mpc = "reset" /\ mpc' = (IF cleared = 3 THEN "on" ELSE "reset")
      /\ hpc = "none" /\ hpc' = "none" /\ ~Interrupted /\ idle' = 0
      /\ Clock(Write(ResetOrder[cleared + 1], 0), TRUE)
      /\ UNCHANGED <<readVars, tickVars, mie, mstatus_mie, mcountinhibit>>
  <2>1. Len(ResetOrder) = 4
    BY DEF ResetOrder
  <2>2. /\ cleared < Len(ResetOrder) /\ cleared' = cleared + 1
        /\ MainAt("reset", IF cleared + 1 = Len(ResetOrder) THEN "on" ELSE "reset")
        /\ Step(Write(ResetOrder[cleared + 1], 0))
        /\ UNCHANGED <<readVars, tickVars, mie, mstatus_mie, mcountinhibit>>
    BY Zenon DEF PcountReset
  <2>3. cleared \in 0 .. 3
    BY <2>1, <2>2 DEF TypeInv
  <2>4. /\ mpc = "reset" /\ mpc' = (IF cleared = 3 THEN "on" ELSE "reset")
        /\ hpc = "none" /\ hpc' = "none"
    BY <2>1, <2>2, <2>3 DEF MainAt
  <2>5. /\ ~Interrupted /\ idle' = 0
        /\ Clock(Write(ResetOrder[cleared + 1], 0), TRUE)
    BY <2>2, Zenon DEF Step
  <2> QED
    BY <2>2, <2>3, <2>4, <2>5, Zenon
<1> DEFINE half == ResetOrder[cleared + 1]
           a == Write(half, 0)
<1>2. /\ cleared = 0 => half = "minstret"
      /\ cleared = 1 => half = "mcycle"
      /\ cleared = 2 => half = "minstreth"
      /\ cleared = 3 => half = "mcycleh"
  BY <1>1 DEF ResetOrder
<1>3. /\ a.wdata = 0
      /\ \A r : Writes(a, r) <=> half = r
      /\ ~MtimecmpWritten(a)
  BY <1>1, <1>2, AccessFacts
<1>4. Clock(a, TRUE)
  BY <1>1
<1> HIDE DEF a
<1> HIDE DEF half
<1>5. Quiet
  BY <1>3, <1>4, ClockFacts
<1>6. CountersClock(a, TRUE)
  BY <1>4 DEF Clock
<1>7. measured' = measured
  BY <1>1, <1>6 DEF CountersClock, Measures, TypeInv
<1> DEFINE inc == [minstret |-> TRUE, mcycle |-> TRUE]
<1>8. counts' = [c \in Counters |->
          CounterD(counts[c], a, c, HighOf[c], inc[c] /\ ~mcountinhibit)]
  BY <1>6 DEF CountersClock
<1>9. mcountinhibit
  BY <1>1 DEF CountInv
<1> DEFINE up(c) == inc[c] /\ ~mcountinhibit
<1>10. \A c \in Counters :
          counts'[c] = CounterD(counts[c], a, c, HighOf[c], up(c))
  BY <1>8, Zenon
<1>11. \A c \in Counters : ~up(c)
  BY <1>9
<1> HIDE DEF up
<1>12. \A c \in Counters :
          /\ half = c => counts'[c] = Join(High(counts[c]), 0)
          /\ half = HighOf[c] => counts'[c] = Join(0, Low(counts[c]))
          /\ half # c /\ half # HighOf[c] => counts'[c] = counts[c]
  <2> SUFFICES ASSUME NEW c \in Counters
               PROVE  /\ half = c => counts'[c] = Join(High(counts[c]), 0)
                      /\ half = HighOf[c] => counts'[c] = Join(0, Low(counts[c]))
                      /\ half # c /\ half # HighOf[c] => counts'[c] = counts[c]
    OBVIOUS
  <2>1. c # HighOf[c]
    BY DEF Counters, HighOf
  <2>2. counts'[c] = CounterD(counts[c], a, c, HighOf[c], up(c)) /\ ~up(c)
    BY <1>10, <1>11
  <2>3. ASSUME half = c
        PROVE  counts'[c] = Join(High(counts[c]), 0)
    BY <1>3, <2>1, <2>2, <2>3, CounterFacts
  <2>4. ASSUME half = HighOf[c]
        PROVE  counts'[c] = Join(0, Low(counts[c]))
    BY <1>3, <2>1, <2>2, <2>4, CounterFacts
  <2>5. ASSUME half # c, half # HighOf[c]
        PROVE  counts'[c] = counts[c]
    BY <1>3, <2>1, <2>2, <2>5, CounterFacts
  <2> QED
    BY <2>3, <2>4, <2>5
<1>13. \A c \in Counters :
          /\ half = c => /\ counts'[c] \in Nat
                         /\ Low(counts'[c]) = 0 /\ High(counts'[c]) = High(counts[c])
          /\ half = HighOf[c] => /\ counts'[c] \in Nat
                                 /\ High(counts'[c]) = 0
                                 /\ Low(counts'[c]) = Low(counts[c])
          /\ half # c /\ half # HighOf[c] => counts'[c] = counts[c]
  <2> SUFFICES ASSUME NEW c \in Counters
               PROVE  /\ half = c => /\ counts'[c] \in Nat
                                     /\ Low(counts'[c]) = 0
                                     /\ High(counts'[c]) = High(counts[c])
                      /\ half = HighOf[c] => /\ counts'[c] \in Nat
                                             /\ High(counts'[c]) = 0
                                             /\ Low(counts'[c]) = Low(counts[c])
    BY <1>12
  <2>1. counts[c] \in Nat
    BY DEF TypeInv
  <2>2. Low(counts[c]) \in 0 .. B - 1 /\ High(counts[c]) \in Nat
    BY <2>1, WordsOf
  <2>3. 0 \in 0 .. B - 1
    BY TimerAssumption
  <2> QED
    BY <1>12, <2>2, <2>3, WordsUnique
<1>14. "minstret" \in Counters /\ "mcycle" \in Counters
       /\ HighOf["minstret"] = "minstreth" /\ HighOf["mcycle"] = "mcycleh"
  BY DEF Counters, HighOf
<1>15. counts' \in [Counters -> Nat]
  <2>1. \A c \in Counters : counts'[c] \in Nat
    BY <1>13 DEF TypeInv
  <2>2. counts' = [c \in Counters |-> counts'[c]]
    BY <1>8, Zenon
  <2> QED
    BY <2>1, <2>2
<1>16. /\ cleared >= 1 => Low(counts["minstret"]) = 0
       /\ cleared >= 2 => Low(counts["mcycle"]) = 0
       /\ cleared >= 3 => High(counts["minstret"]) = 0
  BY <1>1 DEF CountInv
<1>17. /\ Low(counts'["minstret"]) = 0
       /\ cleared >= 1 => Low(counts'["mcycle"]) = 0
       /\ cleared >= 2 => High(counts'["minstret"]) = 0
       /\ cleared >= 3 => High(counts'["mcycle"]) = 0
  <2>1. /\ half = "minstret" => /\ Low(counts'["minstret"]) = 0
                                /\ counts'["mcycle"] = counts["mcycle"]
        /\ half = "mcycle" => /\ Low(counts'["mcycle"]) = 0
                              /\ counts'["minstret"] = counts["minstret"]
        /\ half = "minstreth" =>
              /\ High(counts'["minstret"]) = 0
              /\ Low(counts'["minstret"]) = Low(counts["minstret"])
              /\ counts'["mcycle"] = counts["mcycle"]
        /\ half = "mcycleh" => /\ High(counts'["mcycle"]) = 0
                               /\ Low(counts'["mcycle"]) = Low(counts["mcycle"])
                               /\ counts'["minstret"] = counts["minstret"]
    BY <1>13, <1>14
  <2> QED
    BY <1>1, <1>2, <1>16, <2>1
<1> QED
  BY <1>1, <1>5, <1>7, <1>15, <1>17

LEMMA CountingTyped ==
    ASSUME TypeInv, NEW retire \in BOOLEAN, Counting(retire)
    PROVE  counts' \in [Counters -> Nat] /\ measured' \in [Counters -> Nat]
<1> DEFINE inc == [minstret |-> retire, mcycle |-> TRUE]
           up(c) == inc[c] /\ ~mcountinhibit
           seen(c) == Measures /\ inc[c]
<1>1. /\ counts' = [c \in Counters |-> IF up(c) THEN counts[c] + 1 ELSE counts[c]]
      /\ measured' = [c \in Counters |-> measured[c] + (IF seen(c) THEN 1 ELSE 0)]
  BY Zenon DEF Counting
<1> HIDE DEF up, seen
<1> QED
  BY <1>1 DEF TypeInv

\* A cycle in which the core does nothing.
LEMMA IdleFacts ==
    ASSUME TypeInv, Idle
    PROVE  /\ Waits \/ idle < MaxIdle
           /\ idle' = (IF Waits THEN 0 ELSE idle + 1)
           /\ Quiet /\ Counting(FALSE)
           /\ UNCHANGED <<mpc, hpc, readVars, tickVars, csrVars>>
<1>1. Clock(NoAccess, FALSE)
  BY Zenon DEF Idle
<1>2. Quiet /\ Counting(FALSE)
  BY <1>1, ClockFacts, AccessFacts
<1> QED
  BY <1>2, Zenon DEF Idle

\* The timer interrupt is taken.
LEMMA TakeFacts ==
    ASSUME TypeInv, TakeInterrupt
    PROVE  /\ interrupt_q /\ mie /\ mstatus_mie
           /\ hpc' = "read_h" /\ mstatus_mie' = FALSE /\ idle' = 0
           /\ mpc' = (IF mpc = "asleep" THEN LoopTest(last_elapsed_time) ELSE mpc)
           /\ Quiet /\ Counting(FALSE)
           /\ UNCHANGED <<readVars, tickVars, mie, mcountinhibit, cleared>>
<1>1. Clock(NoAccess, FALSE)
  BY Zenon DEF TakeInterrupt
<1>2. Quiet /\ Counting(FALSE)
  BY <1>1, ClockFacts, AccessFacts
<1> QED
  BY <1>2, Zenon DEF TakeInterrupt, Interrupted

\* One instruction of the program that accesses neither the timer nor a
\* counter's value.
Plain(action) == action => ~Interrupted /\ Quiet /\ Counting(TRUE) /\ idle' = 0

LEMMA PlainActions ==
    ASSUME TypeInv
    PROVE  /\ \A at, next : \A enable \in BOOLEAN : Plain(PcountEnable(at, next, enable))
           /\ Plain(Puts) /\ Plain(TimerEnable) /\ Plain(ReadHigh)
           /\ Plain(ReadLow) /\ Plain(CheckHigh) /\ Plain(EnableTimerIrq)
           /\ Plain(EnableIrqs) /\ Plain(GetElapsed) /\ Plain(PrintTick)
           /\ Plain(Wfi) /\ Plain(CountTick) /\ Plain(Mret)
<1>1. Step(NoAccess) => ~Interrupted /\ Quiet /\ Counting(TRUE) /\ idle' = 0
  BY PlainStep
<1> QED
  BY <1>1, Zenon DEF Plain, PcountEnable, Puts, TimerEnable, ReadHigh, ReadLow,
     CheckHigh, EnableTimerIrq, EnableIrqs, GetElapsed, PrintTick, Wfi,
     CountTick, Mret

-----------------------------------------------------------------------------
(* Types.                                                                  *)

\* What every cycle does to the clocks.
Ticked == /\ mtime_q' = mtime_q + 1 /\ mtimecmp_q' \in Nat
          /\ interrupt_q' \in BOOLEAN
          /\ counts' \in [Counters -> Nat] /\ measured' \in [Counters -> Nat]

LEMMA TickTyped ==
    ASSUME TypeInv, NEW retire \in BOOLEAN, Quiet, Counting(retire)
    PROVE  Ticked
BY CountingTyped DEF TypeInv, Quiet, Ticked

LEMMA CompareTyped ==
    ASSUME TypeInv, UpdateCompare
    PROVE  Ticked /\ UNCHANGED <<readVars, tickVars, csrVars>> /\ idle' = 0
<1>0. B - 1 \in Nat /\ High(new_time) \in Nat /\ Low(new_time) \in Nat
  BY WordsOf, TimerAssumption DEF TypeInv
<1>1. ASSUME NEW at, NEW next, NEW reg \in {"MTIMECMP", "MTIMECMPH"},
             NEW val \in Nat, Compare(at, next, reg, val)
      PROVE  Ticked /\ UNCHANGED <<readVars, tickVars, csrVars>> /\ idle' = 0
  BY <1>1, CompareFacts, CountingTyped DEF Ticked
<1> QED
  BY <1>0, <1>1 DEF UpdateCompare

Pcs == Measuring \cup Setup \cup Loop
Hpcs == {"none", "updated", "mret"} \cup Update

LEMMA TypeStep ==
    ASSUME TypeInv, CountInv, Idle \/ CoreStep
    PROVE  TypeInv'
<1> DEFINE Rest ==
      /\ mpc' \in Pcs /\ hpc' \in Hpcs
      /\ rd_h' \in Nat /\ rd_l' \in Nat /\ new_time' \in Nat /\ called' \in Nat
      /\ time_increment' \in Nat /\ time_elapsed' \in Nat /\ last_elapsed_time' \in Nat
      /\ mie' \in BOOLEAN /\ mstatus_mie' \in BOOLEAN /\ mcountinhibit' \in BOOLEAN
      /\ cleared' \in 0 .. 4
      /\ idle' \in 0 .. MaxIdle
<1>1. ASSUME Ticked, Rest
      PROVE  TypeInv'
  BY <1>1 DEF TypeInv, Ticked, Pcs, Hpcs
<1>2. 0 \in 0 .. MaxIdle
  BY SimpleSystemAssumption
<1>3. ASSUME Idle
      PROVE  TypeInv'
  <2>1. /\ Waits \/ idle < MaxIdle
        /\ idle' = (IF Waits THEN 0 ELSE idle + 1)
        /\ Ticked
        /\ UNCHANGED <<mpc, hpc, readVars, tickVars, csrVars>>
    BY <1>3, IdleFacts, TickTyped
  <2>2. idle' \in 0 .. MaxIdle
    BY <1>2, <2>1, SimpleSystemAssumption DEF TypeInv
  <2> QED
    BY <1>1, <2>1, <2>2 DEF TypeInv, readVars, tickVars, csrVars, Pcs, Hpcs
<1>4. \A action : Plain(action) /\ action => Ticked /\ idle' = 0
  BY TickTyped DEF Plain
<1> DEFINE Typed(action) == action => TypeInv'
<1>5. \A at, next : \A enable \in BOOLEAN :
          /\ next \in Pcs => Typed(PcountEnable(at, next, enable))
  <2> SUFFICES ASSUME NEW at, NEW next, NEW enable \in BOOLEAN, next \in Pcs,
                      PcountEnable(at, next, enable)
               PROVE  TypeInv'
    OBVIOUS
  <2>1. Ticked /\ idle' = 0
    BY <1>4, PlainActions
  <2> QED
    BY <1>1, <1>2, <2>1
       DEF TypeInv, PcountEnable, MainAt, readVars, tickVars, csrVars, Pcs, Hpcs
<1>6. ASSUME Puts
      PROVE  TypeInv'
  <2>1. Ticked /\ idle' = 0
    BY <1>4, <1>6, PlainActions
  <2>2. Puts
    BY <1>6
  <2>3. Rest
    BY <1>2, <2>1, <2>2
       DEF TypeInv, Puts, MainAt, readVars, tickVars, csrVars,
           Pcs, Hpcs, Measuring, Setup, Loop, Update
  <2> QED
    BY <1>1, <2>1, <2>2, <2>3
<1>7. ASSUME TimerEnable
      PROVE  TypeInv'
  <2>1. Ticked /\ idle' = 0
    BY <1>4, <1>7, PlainActions
  <2>2. TimerEnable
    BY <1>7
  <2>3. Rest
    BY <1>2, <2>1, <2>2, SimpleSystemAssumption
       DEF TypeInv, TimerEnable, MainAt, readVars, tickVars, csrVars,
           Pcs, Hpcs, Measuring, Setup, Loop, Update
  <2> QED
    BY <1>1, <2>1, <2>2, <2>3
<1>8. ASSUME ReadHigh
      PROVE  TypeInv'
  <2>1. Ticked /\ idle' = 0
    BY <1>4, <1>8, PlainActions
  <2>2. ReadHigh
    BY <1>8
  <2>3. Low(mtime_q) \in Nat /\ High(mtime_q) \in Nat
    BY WordsOf DEF TypeInv
  <2>4. Rest
    BY <1>2, <2>1, <2>2, <2>3, ReadsMtime
       DEF TypeInv, ReadHigh, Pc, GoesTo, readVars, tickVars, csrVars,
           Pcs, Hpcs, Measuring, Setup, Loop, Update
  <2> QED
    BY <1>1, <2>1, <2>2, <2>4
<1>9. ASSUME ReadLow
      PROVE  TypeInv'
  <2>1. Ticked /\ idle' = 0
    BY <1>4, <1>9, PlainActions
  <2>2. ReadLow
    BY <1>9
  <2>3. Low(mtime_q) \in Nat /\ High(mtime_q) \in Nat
    BY WordsOf DEF TypeInv
  <2>4. Rest
    BY <1>2, <2>1, <2>2, <2>3, ReadsMtime
       DEF TypeInv, ReadLow, Pc, GoesTo, readVars, tickVars, csrVars,
           Pcs, Hpcs, Measuring, Setup, Loop, Update
  <2> QED
    BY <1>1, <2>1, <2>2, <2>4
<1>10. ASSUME EnableTimerIrq
      PROVE  TypeInv'
  <2>1. Ticked /\ idle' = 0
    BY <1>4, <1>10, PlainActions
  <2>2. EnableTimerIrq
    BY <1>10
  <2>3. Rest
    BY <1>2, <2>1, <2>2
       DEF TypeInv, EnableTimerIrq, MainAt, readVars, tickVars, csrVars,
           Pcs, Hpcs, Measuring, Setup, Loop, Update
  <2> QED
    BY <1>1, <2>1, <2>2, <2>3
<1>11. ASSUME EnableIrqs
      PROVE  TypeInv'
  <2>1. Ticked /\ idle' = 0
    BY <1>4, <1>11, PlainActions
  <2>2. EnableIrqs
    BY <1>11
  <2>3. Rest
    BY <1>2, <2>1, <2>2
       DEF TypeInv, EnableIrqs, MainAt, readVars, tickVars, csrVars,
           Pcs, Hpcs, Measuring, Setup, Loop, Update
  <2> QED
    BY <1>1, <2>1, <2>2, <2>3
<1>12. ASSUME GetElapsed
      PROVE  TypeInv'
  <2>1. Ticked /\ idle' = 0
    BY <1>4, <1>12, PlainActions
  <2>2. GetElapsed
    BY <1>12
  <2>3. Rest
    BY <1>2, <2>1, <2>2
       DEF TypeInv, GetElapsed, MainAt, LoopTest, readVars, tickVars, csrVars,
           Pcs, Hpcs, Measuring, Setup, Loop, Update
  <2> QED
    BY <1>1, <2>1, <2>2, <2>3
<1>13. ASSUME PrintTick
      PROVE  TypeInv'
  <2>1. Ticked /\ idle' = 0
    BY <1>4, <1>13, PlainActions
  <2>2. PrintTick
    BY <1>13
  <2>3. Rest
    BY <1>2, <2>1, <2>2
       DEF TypeInv, PrintTick, MainAt, readVars, tickVars, csrVars,
           Pcs, Hpcs, Measuring, Setup, Loop, Update
  <2> QED
    BY <1>1, <2>1, <2>2, <2>3
<1>14. ASSUME Wfi
      PROVE  TypeInv'
  <2>1. Ticked /\ idle' = 0
    BY <1>4, <1>14, PlainActions
  <2>2. Wfi
    BY <1>14
  <2>3. Rest
    BY <1>2, <2>1, <2>2
       DEF TypeInv, Wfi, MainAt, readVars, tickVars, csrVars,
           Pcs, Hpcs, Measuring, Setup, Loop, Update
  <2> QED
    BY <1>1, <2>1, <2>2, <2>3
<1>15. ASSUME CountTick
      PROVE  TypeInv'
  <2>1. Ticked /\ idle' = 0
    BY <1>4, <1>15, PlainActions
  <2>2. CountTick
    BY <1>15
  <2>3. Rest
    BY <1>2, <2>1, <2>2
       DEF TypeInv, CountTick, readVars, tickVars, csrVars,
           Pcs, Hpcs, Measuring, Setup, Loop, Update
  <2> QED
    BY <1>1, <2>1, <2>2, <2>3
<1>16. ASSUME Mret
      PROVE  TypeInv'
  <2>1. Ticked /\ idle' = 0
    BY <1>4, <1>16, PlainActions
  <2>2. Mret
    BY <1>16
  <2>3. Rest
    BY <1>2, <2>1, <2>2
       DEF TypeInv, Mret, readVars, tickVars, csrVars,
           Pcs, Hpcs, Measuring, Setup, Loop, Update
  <2> QED
    BY <1>1, <2>1, <2>2, <2>3
<1>17. ASSUME CheckHigh
      PROVE  TypeInv'
  <2>1. Ticked /\ idle' = 0
    BY <1>4, <1>17, PlainActions
  <2>2. Join(rd_h, rd_l) + time_increment \in Nat
    BY TimerAssumption DEF TypeInv, Join
  <2>3. CheckHigh
    BY <1>17
  <2>4. Rest
    BY <1>2, <2>1, <2>2, <2>3
       DEF TypeInv, CheckHigh, Pc, GoesTo, readVars, tickVars, csrVars,
           Pcs, Hpcs, Measuring, Setup, Loop, Update
  <2> QED
    BY <1>1, <2>1, <2>2, <2>4
<1>18. ASSUME UpdateCompare
      PROVE  TypeInv'
  <2>1. Ticked /\ idle' = 0 /\ UNCHANGED <<readVars, tickVars, csrVars>>
    BY <1>18, CompareTyped
  <2>2. mpc' \in Pcs /\ hpc' \in Hpcs
    BY <1>18 DEF UpdateCompare, Compare, GoesTo, TypeInv, Pcs, Hpcs,
           Measuring, Setup, Loop, Update
  <2>3. Rest
    BY <1>2, <2>1, <2>2 DEF TypeInv, readVars, tickVars, csrVars
  <2> QED
    BY <1>1, <2>1, <2>2, <2>3
<1>19. ASSUME TakeInterrupt
      PROVE  TypeInv'
  <2>1. /\ Ticked /\ idle' = 0 /\ hpc' = "read_h" /\ mstatus_mie' = FALSE
        /\ mpc' = (IF mpc = "asleep" THEN LoopTest(last_elapsed_time) ELSE mpc)
        /\ UNCHANGED <<readVars, tickVars, mie, mcountinhibit, cleared>>
    BY <1>19, TakeFacts, TickTyped
  <2>2. Rest
    BY <1>2, <2>1 DEF TypeInv, LoopTest, readVars, tickVars,
           Pcs, Hpcs, Measuring, Setup, Loop, Update
  <2> QED
    BY <1>1, <2>1, <2>2
<1>20. ASSUME PcountReset
      PROVE  TypeInv'
  <2>1. /\ Quiet /\ idle' = 0 /\ hpc' = "none"
        /\ mpc' = (IF cleared = 3 THEN "on" ELSE "reset")
        /\ cleared \in 0 .. 3 /\ cleared' = cleared + 1
        /\ UNCHANGED <<readVars, tickVars, mie, mstatus_mie, mcountinhibit>>
        /\ measured' = measured
        /\ counts' \in [Counters -> Nat]
    BY <1>20, ResetFacts
  <2>2. Ticked
    BY <2>1 DEF Ticked, Quiet, TypeInv
  <2>3. Rest
    BY <1>2, <2>1, <2>2 DEF TypeInv, readVars, tickVars,
           Pcs, Hpcs, Measuring, Setup, Loop, Update
  <2> QED
    BY <1>1, <2>1, <2>2, <2>3
<1> QED
  <2>1. {"reset", "puts", "measured"} \subseteq Pcs
    BY DEF Pcs, Measuring
  <2> QED
    BY <1>3, <1>5, <1>6, <1>7, <1>8, <1>9, <1>10, <1>11, <1>12, <1>13, <1>14, <1>15, <1>16, <1>17, <1>18, <1>19, <1>20, <2>1 DEF CoreStep

-----------------------------------------------------------------------------
(* The control flow.                                                       *)

LEMMA ControlStep ==
    ASSUME TypeInv, ControlInv, Idle \/ CoreStep
    PROVE  ControlInv'
<1>1. ASSUME Idle
      PROVE  ControlInv'
  BY <1>1, IdleFacts DEF ControlInv, csrVars
<1>2. ASSUME NEW at, NEW next, NEW enable, at \notin Loop,
             PcountEnable(at, next, enable)
      PROVE  ControlInv'
  BY <1>2 DEF ControlInv, PcountEnable, MainAt
<1>3. ASSUME PcountReset \/ Puts \/ TimerEnable \/ EnableTimerIrq
      PROVE  ControlInv'
  BY <1>3 DEF ControlInv, PcountReset, Puts, TimerEnable, EnableTimerIrq, MainAt,
              csrVars, Loop
<1>4. ASSUME ReadHigh \/ ReadLow \/ CheckHigh \/ UpdateCompare
      PROVE  ControlInv'
  BY <1>4 DEF ControlInv, ReadHigh, ReadLow, CheckHigh, UpdateCompare, Compare,
              Pc, GoesTo, csrVars, Loop
<1>5. ASSUME EnableIrqs \/ GetElapsed \/ PrintTick \/ Wfi
      PROVE  ControlInv'
  BY <1>5 DEF ControlInv, EnableIrqs, GetElapsed, PrintTick, Wfi, MainAt, LoopTest,
              csrVars, Loop
<1>6. ASSUME TakeInterrupt
      PROVE  ControlInv'
  BY <1>6, TakeFacts DEF ControlInv, LoopTest, Loop
<1>7. ASSUME CountTick \/ Mret
      PROVE  ControlInv'
  BY <1>7 DEF ControlInv, CountTick, Mret, csrVars
<1> QED
  <2>1. "off1" \notin Loop /\ "on" \notin Loop /\ "off2" \notin Loop
    BY DEF Loop
  <2> QED
    BY <1>1, <1>2, <1>3, <1>4, <1>5, <1>6, <1>7, <2>1 DEF CoreStep

-----------------------------------------------------------------------------
(* timer_read.                                                             *)

\* A cycle that leaves what timer_read returned alone.
LEMMA ReadKept ==
    ASSUME TypeInv, ReadInv, mtime_q' = mtime_q + 1,
           UNCHANGED <<readVars, time_increment>>,
           Pc' \in Returned => Pc \in Returned,
           Pc' \notin {"read_l", "check_h"}
    PROVE  ReadInv'
BY DEF TypeInv, ReadInv, readVars

\* The words agree when the second reading of the high one does: the time is
\* that at which the low one was read.
LEMMA ReadTime ==
    ASSUME TypeInv, ReadInv, CheckHigh, ~ReadAgain(rd_h)
    PROVE  /\ Pc = "check_h" /\ Pc' = "write_max"
           /\ UNCHANGED <<called, tickVars>> /\ UNCHANGED time_increment
           /\ called + 1 + idle <= mtime_q
           /\ new_time' = mtime_q - (1 + idle) + time_increment
<1>1. /\ Pc = "check_h" /\ Pc' = "write_max"
      /\ new_time' = Join(rd_h, rd_l) + time_increment
      /\ UNCHANGED <<called, tickVars>> /\ UNCHANGED time_increment
  BY DEF CheckHigh, GoesTo, Pc, tickVars
<1> DEFINE R == mtime_q - (1 + idle)
<1>2. /\ R \in Nat /\ called <= R /\ R <= mtime_q
      /\ rd_h = High(called) /\ rd_l = Low(R)
      /\ called + 1 + idle <= mtime_q
  BY <1>1, SimpleSystemAssumption DEF TypeInv, ReadInv
<1>3. rd_h = High(mtime_q)
  BY ReadsMtime DEF ReadAgain
<1>4. High(called) <= High(R) /\ High(R) <= High(mtime_q)
  BY <1>2, HighGrows DEF TypeInv
<1>5. rd_h = High(R)
  <2>1. High(R) \in Nat /\ rd_h \in Nat
    BY <1>2, WordsOf DEF TypeInv
  <2> QED
    BY <1>2, <1>3, <1>4, <2>1
<1>6. Join(rd_h, rd_l) = R
  BY <1>2, <1>5, Rejoined
<1> QED
  BY <1>1, <1>2, <1>6

LEMMA ReadStep ==
    ASSUME TypeInv, ControlInv, ReadInv, CountInv, Idle \/ CoreStep
    PROVE  ReadInv'
<1>0. \A action : Plain(action) /\ action => mtime_q' = mtime_q + 1 /\ idle' = 0
  BY DEF Plain, Quiet
<1>1. ASSUME Idle
      PROVE  ReadInv'
  <2>1. /\ Waits \/ idle < MaxIdle
        /\ idle' = (IF Waits THEN 0 ELSE idle + 1)
        /\ mtime_q' = mtime_q + 1
        /\ UNCHANGED <<mpc, hpc, readVars, tickVars>>
    BY <1>1, IdleFacts DEF Quiet
  <2>2. Pc' = Pc
    BY <2>1 DEF Pc
  <2>3. Pc = "check_h" => ~Waits
    BY DEF Pc, Waits, Asleep, ControlInv, Loop
  <2>4. Pc = "check_h" => mtime_q' - (1 + idle') = mtime_q - (1 + idle)
    BY <2>1, <2>3, SimpleSystemAssumption DEF TypeInv
  <2> QED
    BY <2>1, <2>2, <2>3, <2>4, SimpleSystemAssumption
       DEF TypeInv, ReadInv, readVars, tickVars
<1>2. ASSUME NEW at, NEW next \in Measuring, NEW enable \in BOOLEAN,
             PcountEnable(at, next, enable)
      PROVE  ReadInv'
  <2>1. mtime_q' = mtime_q + 1
    BY <1>0, <1>2, PlainActions
  <2>2. Pc' \in Measuring /\ UNCHANGED <<readVars, time_increment>>
    BY <1>2 DEF PcountEnable, MainAt, Pc, tickVars
  <2> QED
    BY <2>1, <2>2, ReadKept DEF Measuring, Returned, Loop
<1>3. ASSUME PcountReset
      PROVE  ReadInv'
  <2>1. mtime_q' = mtime_q + 1 /\ UNCHANGED <<readVars, time_increment>>
    BY <1>3, ResetFacts DEF Quiet, tickVars
  <2>2. Pc' \in {"reset", "on"}
    BY <1>3, ResetFacts DEF Pc
  <2> QED
    BY <2>1, <2>2, ReadKept DEF Returned, Loop
<1>4. ASSUME Puts
      PROVE  ReadInv'
  <2>1. mtime_q' = mtime_q + 1
    BY <1>0, <1>4, PlainActions
  <2>2. Pc' \in {"puts", "off2"} /\ UNCHANGED <<readVars, time_increment>>
    BY <1>4 DEF Puts, MainAt, Pc, tickVars
  <2> QED
    BY <2>1, <2>2, ReadKept DEF Returned, Loop
<1>5. ASSUME TimerEnable
      PROVE  ReadInv'
  <2>1. Pc' = "read_h"
    BY <1>5 DEF TimerEnable, MainAt, Pc
  <2> QED
    BY <2>1 DEF ReadInv, Returned, Loop
<1>6. ASSUME ReadHigh
      PROVE  ReadInv'
  <2>1. mtime_q' = mtime_q + 1
    BY <1>0, <1>6, PlainActions
  <2>2. Pc' = "read_l" /\ rd_h' = High(mtime_q) /\ called' = mtime_q
    BY <1>6, ReadsMtime DEF ReadHigh, GoesTo, Pc
  <2>3. rd_h' = High(called')
    BY <2>2
  <2> QED
    BY <2>1, <2>2, <2>3 DEF TypeInv, ReadInv, Returned, Loop, High
<1>7. ASSUME ReadLow
      PROVE  ReadInv'
  <2>1. mtime_q' = mtime_q + 1 /\ idle' = 0
    BY <1>0, <1>7, PlainActions
  <2>2. /\ Pc = "read_l" /\ Pc' = "check_h" /\ rd_l' = Low(mtime_q)
        /\ UNCHANGED <<rd_h, called>>
    BY <1>7, ReadsMtime DEF ReadLow, GoesTo, Pc
  <2>3. mtime_q' - (1 + idle') = mtime_q
    BY <2>1 DEF TypeInv
  <2> QED
    BY <2>1, <2>2, <2>3 DEF TypeInv, ReadInv, Returned, Loop, High
<1>8. ASSUME CheckHigh
      PROVE  ReadInv'
  <2>1. mtime_q' = mtime_q + 1
    BY <1>0, <1>8, PlainActions
  <2>2. Pc = "check_h"
    BY <1>8 DEF CheckHigh
  <2>3. CASE ReadAgain(rd_h)
    <3>1. Pc' = "read_h"
      BY <1>8, <2>3 DEF CheckHigh, GoesTo, Pc
    <3> QED
      BY <3>1 DEF ReadInv, Returned, Loop
  <2>4. CASE ~ReadAgain(rd_h)
    <3>1. /\ Pc' = "write_max" /\ UNCHANGED <<called, time_increment>>
          /\ called + 1 + idle <= mtime_q
          /\ new_time' = mtime_q - (1 + idle) + time_increment
      BY <1>8, <2>4, ReadTime
    <3> QED
      BY <2>1, <3>1, SimpleSystemAssumption DEF TypeInv, ReadInv
  <2> QED
    BY <2>3, <2>4
<1>9. ASSUME UpdateCompare
      PROVE  ReadInv'
  <2>1. mtime_q' = mtime_q + 1 /\ UNCHANGED <<readVars, time_increment>>
    BY <1>9, CompareTyped DEF Ticked, tickVars
  <2>2. Pc \in Returned /\ Pc' \in {"write_h", "write_l", "updated"}
    BY <1>9 DEF UpdateCompare, Compare, GoesTo, Pc, Returned
  <2> QED
    BY <2>1, <2>2, ReadKept DEF Returned
<1>10. ASSUME EnableTimerIrq \/ EnableIrqs \/ GetElapsed \/ PrintTick \/ Wfi
       PROVE  ReadInv'
  <2>1. mtime_q' = mtime_q + 1
    BY <1>0, <1>10, PlainActions
  <2>2. /\ Pc \in Returned /\ Pc' \in {"mstatus"} \cup Loop
        /\ UNCHANGED <<readVars, time_increment>>
    BY <1>10 DEF EnableTimerIrq, EnableIrqs, GetElapsed, PrintTick, Wfi, MainAt,
                 LoopTest, Pc, Returned, Loop, tickVars
  <2> QED
    BY <2>1, <2>2, ReadKept DEF Returned, Loop
<1>11. ASSUME TakeInterrupt
       PROVE  ReadInv'
  <2>1. Pc' = "read_h"
    BY <1>11, TakeFacts DEF Pc
  <2> QED
    BY <2>1 DEF ReadInv, Returned, Loop
<1>12. ASSUME CountTick \/ Mret
       PROVE  ReadInv'
  <2>1. mtime_q' = mtime_q + 1
    BY <1>0, <1>12, PlainActions
  <2>2. /\ Pc \in Returned /\ Pc' \in {"mret"} \cup Loop
        /\ UNCHANGED <<readVars, time_increment>>
    BY <1>12 DEF CountTick, Mret, ControlInv, Pc, Returned, tickVars
  <2> QED
    BY <2>1, <2>2, ReadKept DEF Returned, Loop
<1> QED
  <2>1. {"reset", "puts", "measured"} \subseteq Measuring
    BY DEF Measuring
  <2> QED
    BY <1>1, <1>2, <1>3, <1>4, <1>5, <1>6, <1>7, <1>8, <1>9, <1>10, <1>11,
       <1>12, <2>1 DEF CoreStep

-----------------------------------------------------------------------------
(* timecmp_update and the timer.                                           *)

\* A cycle that leaves mtimecmp and the time it is set to alone.
LEMMA CompareKept ==
    ASSUME TypeInv, CompareInv, Quiet, new_time' = new_time,
           Pc' # "write_l",
           Pc' \notin {"enable"} \cup Update => Pc \notin {"enable"} \cup Update
    PROVE  CompareInv'
BY DEF TypeInv, CompareInv, Quiet

LEMMA CompareStep ==
    ASSUME TypeInv, ControlInv, CompareInv, CountInv, Idle \/ CoreStep
    PROVE  CompareInv'
<1>0. \A action : Plain(action) /\ action => Quiet
  BY DEF Plain
<1>1. ASSUME Idle
      PROVE  CompareInv'
  <2>1. Quiet /\ UNCHANGED <<mpc, hpc, readVars>>
    BY <1>1, IdleFacts
  <2>2. Pc' = Pc /\ new_time' = new_time
    BY <2>1 DEF Pc, readVars
  <2> QED
    BY <2>1, <2>2 DEF TypeInv, CompareInv, Quiet, High
<1>2. ASSUME NEW at \in Measuring, NEW next, NEW enable \in BOOLEAN,
             next \in Measuring, PcountEnable(at, next, enable)
      PROVE  CompareInv'
  <2>1. Quiet
    BY <1>0, <1>2, PlainActions
  <2>2. Pc' \in Measuring /\ Pc \in Measuring /\ new_time' = new_time
    BY <1>2 DEF PcountEnable, MainAt, Pc, readVars
  <2> QED
    BY <2>1, <2>2, CompareKept DEF Measuring, Update
<1>3. ASSUME PcountReset
      PROVE  CompareInv'
  <2>1. Quiet /\ new_time' = new_time
    BY <1>3, ResetFacts DEF readVars
  <2>2. Pc' \in {"reset", "on"} /\ Pc = "reset"
    BY <1>3, ResetFacts DEF Pc
  <2> QED
    BY <2>1, <2>2, CompareKept DEF Update
<1>4. ASSUME Puts
      PROVE  CompareInv'
  <2>1. Quiet
    BY <1>0, <1>4, PlainActions
  <2>2. Pc' \in {"puts", "off2"} /\ Pc = "puts" /\ new_time' = new_time
    BY <1>4 DEF Puts, MainAt, Pc, readVars
  <2> QED
    BY <2>1, <2>2, CompareKept DEF Update
<1>5. ASSUME TimerEnable \/ ReadHigh \/ ReadLow \/ CheckHigh \/ TakeInterrupt
      PROVE  CompareInv'
  <2>1. Pc' \in Update \ {"write_l"}
    <3>1. TakeInterrupt => Pc' = "read_h"
      BY TakeFacts DEF Pc
    <3> QED
      BY <1>5, <3>1 DEF TimerEnable, ReadHigh, ReadLow, CheckHigh, MainAt, Pc, GoesTo, Update
  <2> QED
    BY <2>1 DEF CompareInv
<1>6. ASSUME UpdateCompare
      PROVE  CompareInv'
  <2>1. B - 1 \in Nat /\ High(new_time) \in Nat /\ Low(new_time) \in 0 .. B - 1
    BY WordsOf, TimerAssumption DEF TypeInv
  <2>2. CASE Compare("write_max", "write_h", "MTIMECMP", B - 1)
    <3>1. Pc' = "write_h"
      BY <2>2 DEF Compare, GoesTo, Pc
    <3> QED
      BY <3>1 DEF CompareInv, Update
  <2>3. CASE Compare("write_h", "write_l", "MTIMECMPH", High(new_time))
    <3>1. Pc' = "write_l" /\ new_time' = new_time
      BY <2>3 DEF Compare, GoesTo, Pc, readVars
    <3>2. mtimecmp_q' = Join(High(new_time), Low(mtimecmp_q))
      BY <2>1, <2>3, CompareFacts
    <3>3. Low(mtimecmp_q) \in 0 .. B - 1
      BY WordsOf DEF TypeInv
    <3>4. High(mtimecmp_q') = High(new_time)
      BY <2>1, <3>2, <3>3, WordsUnique
    <3> QED
      BY <3>1, <3>4 DEF CompareInv, Update, High
  <2>4. CASE Compare("write_l", "updated", "MTIMECMP", Low(new_time))
    <3>1. Pc' = "updated" /\ Pc = "write_l" /\ new_time' = new_time
      BY <2>4 DEF Compare, GoesTo, Pc, readVars
    <3>2. Low(new_time) \in Nat
      BY <2>1, TimerAssumption
    <3>3. mtimecmp_q' = Join(High(mtimecmp_q), Low(new_time)) /\ interrupt_q' = FALSE
      BY <2>4, <3>2, CompareFacts
    <3>4. mtimecmp_q' = new_time
      BY <3>1, <3>3, Rejoined DEF CompareInv, TypeInv
    <3> QED
      BY <3>1, <3>3, <3>4 DEF CompareInv
  <2> QED
    BY <1>6, <2>2, <2>3, <2>4 DEF UpdateCompare
<1>7. ASSUME EnableTimerIrq \/ EnableIrqs \/ GetElapsed \/ PrintTick \/ Wfi
      PROVE  CompareInv'
  <2>1. Quiet
    BY <1>0, <1>7, PlainActions
  <2>2. /\ Pc \notin {"enable"} \cup Update /\ Pc' # "write_l"
        /\ new_time' = new_time
    BY <1>7 DEF EnableTimerIrq, EnableIrqs, GetElapsed, PrintTick, Wfi, MainAt,
                LoopTest, Pc, Update, readVars
  <2> QED
    BY <2>1, <2>2, CompareKept
<1>8. ASSUME CountTick \/ Mret
      PROVE  CompareInv'
  <2>1. Quiet
    BY <1>0, <1>8, PlainActions
  <2>2. /\ Pc \notin {"enable"} \cup Update /\ Pc' # "write_l"
        /\ new_time' = new_time
    BY <1>8 DEF CountTick, Mret, ControlInv, Pc, Update, Loop, readVars
  <2> QED
    BY <2>1, <2>2, CompareKept
<1> QED
  <2>1. {"off1", "on", "off2", "reset", "puts", "measured"} \subseteq Measuring
    BY DEF Measuring
  <2> QED
    BY <1>1, <1>2, <1>3, <1>4, <1>5, <1>6, <1>7, <1>8, <2>1 DEF CoreStep

-----------------------------------------------------------------------------
(* The counters.                                                           *)

\* A cycle in which the counters stand still and nothing is measured.
LEMMA Stopped ==
    ASSUME TypeInv, NEW retire \in BOOLEAN, Counting(retire),
           mcountinhibit, ~Measures
    PROVE  counts' = counts /\ measured' = measured
<1> DEFINE inc == [minstret |-> retire, mcycle |-> TRUE]
           up(c) == inc[c] /\ ~mcountinhibit
           seen(c) == Measures /\ inc[c]
<1>1. /\ counts' = [c \in Counters |-> IF up(c) THEN counts[c] + 1 ELSE counts[c]]
      /\ measured' = [c \in Counters |-> measured[c] + (IF seen(c) THEN 1 ELSE 0)]
  BY Zenon DEF Counting
<1>2. \A c \in Counters : ~up(c) /\ ~seen(c)
  OBVIOUS
<1> HIDE DEF up, seen
<1> QED
  BY <1>1, <1>2 DEF TypeInv

\* Nothing is measured before the counters run.
LEMMA NotMeasured ==
    ASSUME TypeInv, NEW retire \in BOOLEAN, Counting(retire), ~Measures
    PROVE  measured' = measured
<1> DEFINE inc == [minstret |-> retire, mcycle |-> TRUE]
           seen(c) == Measures /\ inc[c]
<1>1. measured' = [c \in Counters |-> measured[c] + (IF seen(c) THEN 1 ELSE 0)]
  BY Zenon DEF Counting
<1>2. \A c \in Counters : ~seen(c)
  OBVIOUS
<1> HIDE DEF seen
<1> QED
  BY <1>1, <1>2 DEF TypeInv

\* A cycle that the counters count and main measures.
LEMMA Running ==
    ASSUME TypeInv, NEW retire \in BOOLEAN, Counting(retire),
           ~mcountinhibit, Measures, counts = measured
    PROVE  counts' = measured'
<1> DEFINE inc == [minstret |-> retire, mcycle |-> TRUE]
           up(c) == inc[c] /\ ~mcountinhibit
           seen(c) == Measures /\ inc[c]
<1>1. /\ counts' = [c \in Counters |-> IF up(c) THEN counts[c] + 1 ELSE counts[c]]
      /\ measured' = [c \in Counters |-> measured[c] + (IF seen(c) THEN 1 ELSE 0)]
  BY Zenon DEF Counting
<1>2. \A c \in Counters : up(c) <=> seen(c)
  OBVIOUS
<1> HIDE DEF up, seen
<1> QED
  BY <1>1, <1>2 DEF TypeInv

LEMMA CountStep ==
    ASSUME TypeInv, ControlInv, CountInv, ~Over, Idle \/ CoreStep
    PROVE  CountInv'
<1>0. \A action : Plain(action) /\ action => Counting(TRUE)
  BY DEF Plain
<1>1. ASSUME Idle
      PROVE  CountInv'
  <2>1. Counting(FALSE) /\ UNCHANGED <<mpc, hpc, cleared, mcountinhibit>>
    BY <1>1, IdleFacts DEF csrVars
  <2>2. mpc # "measured"
    BY DEF ControlInv, Over, Loop
  <2>3. mpc \in {"off1", "reset", "on"} => measured' = measured
    BY <2>1, NotMeasured DEF Measures
  <2>4. mpc \in {"reset", "on"} => counts' = counts
    BY <2>1, Stopped DEF Measures, CountInv
  <2>5. mpc \in {"puts", "off2"} => counts' = measured'
    BY <2>1, Running DEF Measures, CountInv
  <2> QED
    BY <2>1, <2>2, <2>3, <2>4, <2>5 DEF CountInv
<1>2. ASSUME PcountEnable("off1", "reset", FALSE)
      PROVE  CountInv'
  <2>1. Counting(TRUE)
    BY <1>0, <1>2, PlainActions
  <2>2. mpc = "off1" /\ mpc' = "reset" /\ mcountinhibit' = TRUE /\ cleared' = cleared
    BY <1>2 DEF PcountEnable, MainAt
  <2>3. measured' = measured
    BY <2>1, <2>2, NotMeasured DEF Measures
  <2> QED
    BY <2>2, <2>3 DEF CountInv
<1>3. ASSUME PcountReset
      PROVE  CountInv'
  <2>1. /\ mpc = "reset" /\ mpc' = (IF cleared = 3 THEN "on" ELSE "reset")
        /\ cleared \in 0 .. 3 /\ cleared' = cleared + 1
        /\ mcountinhibit' = mcountinhibit /\ measured' = measured
        /\ Low(counts'["minstret"]) = 0
        /\ cleared >= 1 => Low(counts'["mcycle"]) = 0
        /\ cleared >= 2 => High(counts'["minstret"]) = 0
        /\ cleared >= 3 => High(counts'["mcycle"]) = 0
    BY <1>3, ResetFacts
  <2> QED
    BY <2>1 DEF CountInv, Low, High
<1>4. ASSUME PcountEnable("on", "puts", TRUE)
      PROVE  CountInv'
  <2>1. Counting(TRUE)
    BY <1>0, <1>4, PlainActions
  <2>2. mpc = "on" /\ mpc' = "puts" /\ mcountinhibit' = FALSE
    BY <1>4 DEF PcountEnable, MainAt
  <2>3. measured' = measured /\ counts' = counts
    BY <2>1, <2>2, Stopped DEF Measures, CountInv
  <2>4. ASSUME NEW c \in Counters
        PROVE  counts[c] = 0
    <3>1. counts[c] \in Nat
      BY DEF TypeInv
    <3>2. Low(counts[c]) = 0 /\ High(counts[c]) = 0
      BY <2>2 DEF CountInv, Counters
    <3> QED
      BY <3>1, <3>2, WordsOf, TimerAssumption, SMTT(20)
  <2>5. counts = measured
    BY <2>2, <2>4 DEF TypeInv, CountInv
  <2> QED
    BY <2>2, <2>3, <2>5 DEF CountInv
<1>5. ASSUME Puts
      PROVE  CountInv'
  <2>1. Counting(TRUE)
    BY <1>0, <1>5, PlainActions
  <2>2. mpc = "puts" /\ mpc' \in {"puts", "off2"} /\ mcountinhibit' = mcountinhibit
    BY <1>5 DEF Puts, MainAt, csrVars
  <2>3. counts' = measured'
    BY <2>1, <2>2, Running DEF Measures, CountInv
  <2> QED
    BY <2>2, <2>3 DEF CountInv
<1>6. ASSUME PcountEnable("off2", "measured", FALSE)
      PROVE  CountInv'
  <2>1. Counting(TRUE)
    BY <1>0, <1>6, PlainActions
  <2>2. mpc = "off2" /\ mpc' = "measured"
    BY <1>6 DEF PcountEnable, MainAt
  <2>3. counts' = measured'
    BY <2>1, <2>2, Running DEF Measures, CountInv
  <2> QED
    BY <2>2, <2>3 DEF CountInv
<1>7. ASSUME mpc' \notin Measuring
      PROVE  CountInv'
  BY <1>7 DEF CountInv, Measuring
<1>8. ASSUME \/ TimerEnable \/ ReadHigh \/ ReadLow \/ CheckHigh \/ UpdateCompare
             \/ EnableTimerIrq \/ EnableIrqs \/ GetElapsed \/ PrintTick \/ Wfi
             \/ TakeInterrupt \/ CountTick \/ Mret
      PROVE  mpc' \notin Measuring
  <2>1. CASE TimerEnable \/ EnableTimerIrq \/ EnableIrqs \/ GetElapsed \/ PrintTick \/ Wfi
    BY <2>1 DEF TimerEnable, EnableTimerIrq, EnableIrqs, GetElapsed, PrintTick, Wfi,
                MainAt, LoopTest, Measuring
  <2>2. CASE ReadHigh \/ ReadLow \/ CheckHigh \/ UpdateCompare
    BY <2>2 DEF ReadHigh, ReadLow, CheckHigh, UpdateCompare, Compare, Pc, GoesTo,
                ControlInv, Loop, Measuring
  <2>3. CASE TakeInterrupt
    BY <2>3, TakeFacts DEF ControlInv, LoopTest, Loop, Measuring
  <2>4. CASE CountTick \/ Mret
    BY <2>4 DEF CountTick, Mret, ControlInv, Loop, Measuring
  <2> QED
    BY <1>8, <2>1, <2>2, <2>3, <2>4
<1> QED
  BY <1>1, <1>2, <1>3, <1>4, <1>5, <1>6, <1>7, <1>8 DEF CoreStep

-----------------------------------------------------------------------------
(* The pace of main and of the handler.                                    *)

\* A step may take MaxIdle + 1 cycles.
LEMMA WithinSteps ==
    ASSUME TypeInv, mtime_q' = mtime_q + 1, idle' = 0,
           UNCHANGED <<new_time, time_increment>>
    PROVE  /\ (Within(2) => Within(3)') /\ (Within(3) => Within(4)')
           /\ (Within(4) => Within(5)') /\ (Within(5) => Within(6)')
           /\ (Within(6) => Within(7)') /\ (Within(7) => Within(8)')
           /\ (Within(8) => Within(9)') /\ (Within(6) => Within(8)')
BY SimpleSystemAssumption DEF TypeInv, Within

LEMMA WithinIdle ==
    ASSUME TypeInv, mtime_q' = mtime_q + 1, idle' = idle + 1,
           UNCHANGED <<new_time, time_increment>>
    PROVE  /\ (Within(2) => Within(2)') /\ (Within(3) => Within(3)')
           /\ (Within(4) => Within(4)') /\ (Within(5) => Within(5)')
           /\ (Within(6) => Within(6)') /\ (Within(7) => Within(7)')
           /\ (Within(8) => Within(8)') /\ (Within(9) => Within(9)')
BY SimpleSystemAssumption DEF TypeInv, Within

\* As long as main or the handler is within nine steps of the last reading,
\* the next deadline is not over.
LEMMA NotYet ==
    ASSUME TypeInv, CompareInv, time_increment >= PassTime,
           Pc \notin {"enable"} \cup Update,
           Within(7) \/ Within(8) \/ Within(9)
    PROVE  ~interrupt_q
<1>1. mtime_q <= new_time
  BY SimpleSystemAssumption DEF TypeInv, Within, PassTime
<1> QED
  BY <1>1 DEF TypeInv, CompareInv

\* The handler goes on, without counting the tick.
LEMMA HandlerKept ==
    ASSUME TypeInv, PaceInv, time_increment >= PassTime,
           hpc # "none", hpc # "mret", UNCHANGED <<mpc, tickVars>>
    PROVE  HandlerPace'
BY DEF TypeInv, PaceInv, HandlerPace, Behind, tickVars

LEMMA PaceStep ==
    ASSUME TypeInv, ControlInv, ReadInv, CompareInv, CountInv, PaceInv,
           ~Over, Idle \/ CoreStep
    PROVE  PaceInv'
<1>0. \A action : Plain(action) /\ action =>
          ~Interrupted /\ mtime_q' = mtime_q + 1 /\ idle' = 0
  BY DEF Plain, Quiet
<1> DEFINE Late == /\ (Within(2) => Within(3)') /\ (Within(3) => Within(4)')
                   /\ (Within(4) => Within(5)') /\ (Within(5) => Within(6)')
                   /\ (Within(6) => Within(7)') /\ (Within(7) => Within(8)')
                   /\ (Within(8) => Within(9)') /\ (Within(6) => Within(8)')
<1>1. \A action : Plain(action) /\ action /\ UNCHANGED <<new_time, time_increment>>
          => Late
  BY <1>0, WithinSteps
<1> HIDE DEF Late
<1>2. ASSUME Idle
      PROVE  PaceInv'
  <2>1. /\ Waits \/ idle < MaxIdle
        /\ idle' = (IF Waits THEN 0 ELSE idle + 1)
        /\ mtime_q' = mtime_q + 1
        /\ UNCHANGED <<mpc, hpc, readVars, tickVars>>
    BY <1>2, IdleFacts DEF Quiet
  <2>2. Pc' = Pc /\ Behind' = Behind
    BY <2>1 DEF Pc, Behind, tickVars
  <2>3. CASE Waits
    <3>1. \/ hpc = "none" /\ mpc \in {"puts", "enable", "asleep"}
      BY <2>3 DEF Waits, Asleep, ControlInv, Loop
    <3>2. Pc \in {"puts", "enable", "asleep"}
      BY <3>1 DEF Pc
    <3> QED
      BY <2>1, <2>2, <3>1, <3>2
         DEF PaceInv, UpdatePace, MainPace, tickVars
  <2>4. CASE ~Waits
    <3>1. idle' = idle + 1 /\ UNCHANGED <<new_time, time_increment>>
      BY <2>1, <2>4 DEF readVars, tickVars
    <3>2. /\ (Within(2) => Within(2)') /\ (Within(3) => Within(3)')
          /\ (Within(4) => Within(4)') /\ (Within(5) => Within(5)')
          /\ (Within(6) => Within(6)') /\ (Within(7) => Within(7)')
          /\ (Within(8) => Within(8)') /\ (Within(9) => Within(9)')
      BY <2>1, <3>1, WithinIdle
    <3>3. UpdatePace'
      BY <2>2, <3>2 DEF PaceInv, UpdatePace
    <3>4. time_increment >= PassTime /\ hpc = "none" => MainPace'
      BY <2>1, <2>2, <3>2 DEF PaceInv, MainPace
    <3>5. time_increment >= PassTime /\ hpc # "none" => HandlerPace'
      BY <2>1, <2>2 DEF PaceInv, HandlerPace
    <3> QED
      BY <2>1, <3>3, <3>4, <3>5 DEF PaceInv, tickVars
  <2> QED
    BY <2>3, <2>4
<1>3. ASSUME hpc' = "none", mpc' \in Measuring, mpc \in Measuring, UNCHANGED tickVars
      PROVE  PaceInv'
  <2>1. Pc' \in Measuring
    BY <1>3 DEF Pc
  <2> QED
    BY <1>3, <2>1 DEF PaceInv, UpdatePace, MainPace, Measuring, tickVars
<1>4. ASSUME PcountReset
      PROVE  PaceInv'
  <2>1. /\ mpc = "reset" /\ mpc' \in {"reset", "on"} /\ hpc' = "none"
        /\ UNCHANGED tickVars
    BY <1>4, ResetFacts
  <2> QED
    BY <1>3, <2>1 DEF Measuring
<1>5. ASSUME NEW at \in Measuring, NEW next \in Measuring, NEW enable,
             PcountEnable(at, next, enable)
      PROVE  PaceInv'
  BY <1>3, <1>5 DEF PcountEnable, MainAt
<1>6. ASSUME Puts
      PROVE  PaceInv'
  BY <1>3, <1>6 DEF Puts, MainAt, Measuring
<1>7. ASSUME TimerEnable
      PROVE  PaceInv'
  <2>1. /\ mpc = "enable" /\ mpc' = "read_h" /\ hpc' = "none"
        /\ time_elapsed' = 0 /\ last_elapsed_time' = last_elapsed_time
    BY <1>7 DEF TimerEnable, MainAt
  <2>2. Pc' = "read_h"
    BY <2>1 DEF Pc
  <2> QED
    BY <2>1, <2>2 DEF PaceInv, UpdatePace, MainPace, Setup
<1>8. ASSUME UNCHANGED tickVars, Pc \in Update,
             Pc' \in Update \cup {"updated"}, UpdatePace', GoesTo(Pc')
      PROVE  PaceInv'
  <2>1. CASE hpc = "none"
    <3>1. hpc' = "none" /\ mpc = Pc /\ mpc' = Pc'
      BY <1>8, <2>1 DEF GoesTo, Pc
    <3> QED
      BY <1>8, <2>1, <3>1 DEF PaceInv, MainPace, Setup, Update, tickVars
  <2>2. CASE hpc # "none"
    <3>1. hpc = Pc /\ hpc' = Pc' /\ mpc' = mpc
      BY <1>8, <2>2 DEF GoesTo, Pc
    <3>2. hpc # "mret" /\ hpc' # "none"
      BY <1>8, <3>1 DEF Update
    <3>3. time_increment >= PassTime => HandlerPace'
      BY <1>8, <2>2, <3>1, <3>2, HandlerKept
    <3> QED
      BY <1>8, <3>1, <3>2, <3>3 DEF PaceInv, tickVars
  <2> QED
    BY <2>1, <2>2
<1>9. ASSUME ReadHigh \/ ReadLow
      PROVE  PaceInv'
  <2>1. /\ Pc \in Update /\ Pc' \in {"read_l", "check_h"} /\ GoesTo(Pc')
        /\ UNCHANGED tickVars
    BY <1>9 DEF ReadHigh, ReadLow, GoesTo, Pc, Update
  <2>2. UpdatePace'
    BY <2>1 DEF UpdatePace
  <2>3. Pc' \in Update
    BY <2>1 DEF Update
  <2> QED
    BY <1>8, <2>1, <2>2, <2>3
<1>10. ASSUME CheckHigh
       PROVE  PaceInv'
  <2>1. /\ Pc \in Update /\ Pc' \in {"read_h", "write_max"} /\ GoesTo(Pc')
        /\ UNCHANGED tickVars
    BY <1>10 DEF CheckHigh, GoesTo, Pc, Update
  <2>2. mtime_q' = mtime_q + 1 /\ idle' = 0
    BY <1>0, <1>10, PlainActions
  <2>3. Pc' = "write_max" => Within(2)'
    <3>1. SUFFICES ASSUME Pc' = "write_max"
                   PROVE  Within(2)'
      OBVIOUS
    <3>2. ~ReadAgain(rd_h)
      BY <1>10, <3>1 DEF CheckHigh, GoesTo, Pc
    <3>3. /\ new_time' = mtime_q - (1 + idle) + time_increment
          /\ UNCHANGED time_increment
      BY <1>10, <3>2, ReadTime
    <3> QED
      BY <2>2, <3>3, SimpleSystemAssumption DEF TypeInv, Within
  <2>4. UpdatePace'
    BY <2>1, <2>3 DEF UpdatePace
  <2>5. Pc' \in Update
    BY <2>1 DEF Update
  <2> QED
    BY <1>8, <2>1, <2>4, <2>5
<1>11. ASSUME UpdateCompare
       PROVE  PaceInv'
  <2>1. mtime_q' = mtime_q + 1 /\ idle' = 0 /\ UNCHANGED <<readVars, tickVars>>
    BY <1>11, CompareTyped DEF Ticked
  <2>2. Late
    BY <2>1, WithinSteps DEF Late, readVars, tickVars
  <2>3. /\ GoesTo(Pc')
        /\ \/ Pc = "write_max" /\ Pc' = "write_h"
           \/ Pc = "write_h" /\ Pc' = "write_l"
           \/ Pc = "write_l" /\ Pc' = "updated"
    BY <1>11 DEF UpdateCompare, Compare, GoesTo, Pc
  <2>4. UpdatePace'
    BY <2>2, <2>3 DEF PaceInv, UpdatePace, Late
  <2>5. Pc \in Update /\ Pc' \in Update \cup {"updated"}
    BY <2>3 DEF Update
  <2> QED
    BY <1>8, <2>1, <2>3, <2>4, <2>5
<1>12. ASSUME EnableTimerIrq
       PROVE  PaceInv'
  <2>1. Late
    BY <1>1, <1>12, PlainActions DEF EnableTimerIrq, readVars, tickVars
  <2>2. /\ mpc = "updated" /\ mpc' = "mstatus" /\ hpc = "none" /\ hpc' = "none"
        /\ UNCHANGED tickVars
    BY <1>12 DEF EnableTimerIrq, MainAt
  <2>3. Pc = "updated" /\ Pc' = "mstatus"
    BY <2>2 DEF Pc
  <2> QED
    BY <2>1, <2>2, <2>3 DEF PaceInv, UpdatePace, MainPace, Setup, Late, tickVars
<1>13. ASSUME EnableIrqs
       PROVE  PaceInv'
  <2>1. Late
    BY <1>1, <1>13, PlainActions DEF EnableIrqs, readVars, tickVars
  <2>2. /\ mpc = "mstatus" /\ mpc' = "first" /\ hpc = "none" /\ hpc' = "none"
        /\ UNCHANGED tickVars
    BY <1>13 DEF EnableIrqs, MainAt
  <2>3. Pc = "mstatus" /\ Pc' = "first"
    BY <2>2 DEF Pc
  <2>4. Behind' = 0
    BY <2>2 DEF PaceInv, Setup, Behind, tickVars
  <2> QED
    BY <2>1, <2>2, <2>3, <2>4 DEF PaceInv, UpdatePace, MainPace, Measuring, Setup,
       Update, Late
<1>14. ASSUME GetElapsed
       PROVE  PaceInv'
  <2>1. Late
    BY <1>1, <1>14, PlainActions DEF GetElapsed, readVars
  <2>2. /\ hpc = "none" /\ hpc' = "none" /\ Behind' = 0
        /\ UNCHANGED time_increment
    BY <1>14 DEF GetElapsed, MainAt, Behind, TypeInv
  <2>3. \/ mpc = "first" /\ mpc' \in {"get", "halted"}
        \/ mpc = "get" /\ mpc' = "print1" /\ Behind # 0
        \/ mpc = "get" /\ mpc' = "wfi"
    BY <1>14 DEF GetElapsed, MainAt, LoopTest, Behind, TypeInv
  <2>4. Pc' = mpc'
    BY <2>2 DEF Pc
  <2> QED
    BY <2>1, <2>2, <2>3, <2>4 DEF PaceInv, UpdatePace, MainPace, Measuring, Setup,
       Update, Late
<1>15. ASSUME PrintTick \/ Wfi
       PROVE  PaceInv'
  <2>1. Late
    BY <1>1, <1>15, PlainActions DEF PrintTick, Wfi, readVars, tickVars
  <2>2. /\ hpc = "none" /\ hpc' = "none" /\ Behind' = Behind
        /\ UNCHANGED time_increment
    BY <1>15 DEF PrintTick, Wfi, MainAt, Behind, tickVars
  <2>3. \/ mpc = "print1" /\ mpc' = "print2"
        \/ mpc = "print2" /\ mpc' = "print3"
        \/ mpc = "print3" /\ mpc' = "wfi"
        \/ mpc = "wfi" /\ mpc' = "asleep"
    BY <1>15 DEF PrintTick, Wfi, MainAt
  <2>4. Pc' = mpc'
    BY <2>2 DEF Pc
  <2>5. time_increment >= PassTime => MainPace'
    BY <2>1, <2>2, <2>3 DEF PaceInv, MainPace, Late, Behind, TypeInv
  <2> QED
    BY <2>2, <2>3, <2>4, <2>5 DEF PaceInv, UpdatePace, Measuring, Setup, Update
<1>16. ASSUME TakeInterrupt
       PROVE  PaceInv'
  <2>1. /\ interrupt_q /\ mstatus_mie /\ hpc' = "read_h"
        /\ mpc' = (IF mpc = "asleep" THEN LoopTest(last_elapsed_time) ELSE mpc)
        /\ UNCHANGED tickVars
    BY <1>16, TakeFacts
  <2>2. hpc = "none" /\ mpc \in Loop \ {"halted"}
    BY <2>1 DEF ControlInv, Over
  <2>3. Pc = mpc /\ Pc \notin {"enable"} \cup Update
    BY <2>2 DEF Pc, Update, Loop
  <2>4. UpdatePace'
    BY <2>1 DEF UpdatePace, Pc
  <2>5. mpc' \in Loop
    BY <2>1, <2>2 DEF LoopTest, Loop
  <2>6. ASSUME time_increment >= PassTime
        PROVE  HandlerPace'
    <3>1. ~(Within(7) \/ Within(8) \/ Within(9))
      BY <2>1, <2>3, <2>6, NotYet
    <3>2. MainPace
      BY <2>2, <2>6 DEF PaceInv
    <3>3. /\ mpc \in {"print3", "wfi", "asleep"}
          /\ mpc # "asleep" => Behind <= 0
          /\ mpc = "asleep" => Behind <= 1
      BY <2>2, <3>1, <3>2 DEF MainPace, Loop
    <3>4. Behind' = Behind
      BY <2>1 DEF Behind, tickVars
    <3> QED
      BY <2>1, <3>3, <3>4 DEF HandlerPace, LoopTest, Behind, TypeInv
  <2> QED
    BY <2>1, <2>4, <2>5, <2>6 DEF PaceInv, Measuring, Setup, Update, Loop, tickVars
<1>17. ASSUME CountTick
       PROVE  PaceInv'
  <2>1. Late
    BY <1>1, <1>17, PlainActions DEF CountTick, readVars
  <2>2. /\ hpc = "updated" /\ hpc' = "mret" /\ mpc' = mpc
        /\ time_elapsed' = time_elapsed + 1
        /\ UNCHANGED <<last_elapsed_time, time_increment>>
    BY <1>17 DEF CountTick
  <2>3. Pc = "updated" /\ Pc' = "mret" /\ mpc \in Loop
    BY <2>2 DEF Pc, ControlInv
  <2>4. UpdatePace'
    BY <2>1, <2>3 DEF PaceInv, UpdatePace, Late
  <2>5. time_increment >= PassTime => HandlerPace'
    BY <2>2 DEF PaceInv, HandlerPace, Behind, TypeInv
  <2> QED
    BY <2>2, <2>3, <2>4, <2>5 DEF PaceInv, Measuring, Setup, Update, Loop
<1>18. ASSUME Mret
       PROVE  PaceInv'
  <2>1. Late
    BY <1>1, <1>18, PlainActions DEF Mret, readVars, tickVars
  <2>2. hpc = "mret" /\ hpc' = "none" /\ mpc' = mpc /\ UNCHANGED tickVars
    BY <1>18 DEF Mret
  <2>3. Pc = "mret" /\ Pc' = mpc /\ mpc \in Loop
    BY <2>2 DEF Pc, ControlInv
  <2>4. Within(7)' /\ Within(8)'
    BY <2>1, <2>3 DEF PaceInv, UpdatePace, Late
  <2>5. time_increment >= PassTime => MainPace'
    <3>1. Behind' = Behind
      BY <2>2 DEF Behind, tickVars
    <3> QED
      BY <2>2, <2>4, <3>1 DEF PaceInv, HandlerPace, MainPace, Behind, TypeInv
  <2> QED
    BY <2>2, <2>3, <2>5 DEF PaceInv, UpdatePace, Measuring, Setup, Update, Loop,
       tickVars
<1> QED
  <2>1. {"off1", "on", "off2", "reset", "puts", "measured"} \subseteq Measuring
    BY DEF Measuring
  <2> QED
    BY <1>2, <1>4, <1>5, <1>6, <1>7, <1>9, <1>10, <1>11, <1>12, <1>13, <1>14,
       <1>15, <1>16, <1>17, <1>18, <2>1 DEF CoreStep

-----------------------------------------------------------------------------
(* The theorems.                                                           *)

LEMMA InitHolds == Init => IInv
<1> SUFFICES ASSUME Init
             PROVE  IInv
  OBVIOUS
<1>1. mtime_q \in Nat
  BY SimpleSystemAssumption DEF Init
<1>2. /\ counts \in [Counters -> Nat] /\ measured = [c \in Counters |-> 0]
      /\ mpc = "enable" => counts = measured
  <2>1. /\ measured = [c \in Counters |-> 0]
        /\ mpc = "enable" => counts = measured
        /\ mpc # "enable" => counts \in [Counters -> BootCounts]
    BY Zenon DEF Init
  <2>2. [c \in Counters |-> 0] \in [Counters -> Nat]
    OBVIOUS
  <2>3. [Counters -> BootCounts] \subseteq [Counters -> Nat]
    BY SimpleSystemAssumption
  <2> QED
    BY <2>1, <2>2, <2>3, Zenon
<1>3. TypeInv
  <2>1. interrupt_q \in BOOLEAN /\ mcountinhibit \in BOOLEAN
    <3>1. interrupt_q = (mtime_q > 0) /\ mcountinhibit = (mpc = "enable")
      BY Zenon DEF Init
    <3> QED
      BY <3>1
  <2>2. measured \in [Counters -> Nat]
    <3>1. [c \in Counters |-> 0] \in [Counters -> Nat]
      OBVIOUS
    <3> QED
      BY <1>2, <3>1, Zenon
  <2>3. 0 \in 0 .. MaxIdle /\ 0 \in 0 .. 4
    BY SimpleSystemAssumption
  <2>4. /\ mtimecmp_q = 0 /\ mpc \in {"off1", "enable"} /\ hpc = "none"
        /\ rd_h = 0 /\ rd_l = 0 /\ new_time = 0 /\ called = 0
        /\ time_increment = 0 /\ time_elapsed = 0 /\ last_elapsed_time = 0
        /\ mie = FALSE /\ mstatus_mie = FALSE /\ cleared = 0 /\ idle = 0
    BY Zenon DEF Init
  <2> QED
    BY <1>1, <1>2, <2>1, <2>2, <2>4, <2>3 DEF TypeInv, Measuring, Setup
<1>4. Pc \in {"off1", "enable"}
  BY DEF Init, Pc
<1>5. ControlInv /\ CountInv
  BY <1>2 DEF Init, ControlInv, CountInv
<1>6. ReadInv /\ CompareInv
  BY <1>1, <1>4 DEF Init, ReadInv, Returned, Loop, CompareInv
<1>7. PaceInv
  BY <1>4 DEF Init, PaceInv, UpdatePace, MainPace
<1> QED
  BY <1>3, <1>5, <1>6, <1>7 DEF IInv

LEMMA NextHolds == IInv /\ [Next]_vars => IInv'
<1> SUFFICES ASSUME IInv, [Next]_vars
             PROVE  IInv'
  OBVIOUS
<1>1. ASSUME ~Over, Idle \/ CoreStep
      PROVE  IInv'
  BY <1>1, TypeStep, ControlStep, ReadStep, CompareStep, CountStep, PaceStep DEF IInv
<1>2. ASSUME UNCHANGED vars
      PROVE  IInv'
  BY <1>2 DEF vars, timerVars, readVars, tickVars, csrVars, countVars, IInv, TypeInv,
     ControlInv, ReadInv, CompareInv, CountInv, PaceInv, UpdatePace, MainPace,
     HandlerPace, Within, Behind, Pc, High, Low
<1> QED
  BY <1>1, <1>2 DEF Next, Ended

\* The inductive invariant holds in every reachable state.
THEOREM Invariance == Spec => []IInv
<1> QED
  BY InitHolds, NextHolds, PTL DEF Spec

\* timer_read returns a time between its call and its return, wherever the
\* carry into the high word falls among its three loads.
THEOREM ReadsInWindow == Spec => []ReadInWindow
<1>1. IInv => ReadInWindow
  BY DEF IInv, TypeInv, ReadInv, Returned, ReadInWindow
<1> QED
  BY <1>1, Invariance, PTL

\* What pcount_reset and pcount_enable make of the counters is exact, for
\* every value they start from.
THEOREM CountsExact == Spec => []CountersExact
<1>1. IInv => CountersExact
  BY DEF IInv, CountInv, CountersExact
<1> QED
  BY <1>1, Invariance, PTL

\* main never falls more than two ticks behind, if the increment is at least
\* the time of the handler's instructions.
THEOREM KeepsUp == Spec => []MainKeepsUp
<1>1. IInv => MainKeepsUp
  <2> SUFFICES ASSUME IInv, time_increment >= PassTime
               PROVE  time_elapsed <= last_elapsed_time + 2
    BY DEF MainKeepsUp
  <2>1. CASE mpc \in Measuring \cup Setup
    BY <2>1 DEF IInv, PaceInv
  <2>2. CASE mpc \in Loop /\ hpc = "none"
    BY <2>2 DEF IInv, TypeInv, PaceInv, MainPace, Behind, Loop
  <2>3. CASE hpc # "none"
    BY <2>3 DEF IInv, TypeInv, PaceInv, HandlerPace, Behind
  <2> QED
    BY <2>1, <2>2, <2>3 DEF IInv, TypeInv
<1> QED
  BY <1>1, Invariance, PTL

\* A deadline that has come, also one that came before timecmp_update was
\* through, raises the request in the next cycle.
THEOREM TicksKept == Spec => NoLostTick
<1>1. IInv /\ [Next]_vars =>
          [Armed /\ Armed' /\ mtime_q >= new_time => interrupt_q']_vars
  <2> SUFFICES ASSUME IInv, Idle \/ CoreStep, Armed, mtime_q >= new_time
               PROVE  interrupt_q'
    BY DEF Next, Ended
  <2>1. Pc \notin {"enable"} \cup Update
    BY DEF Armed, Pc, Update
  <2>2. mtimecmp_q = new_time
    BY <2>1 DEF IInv, CompareInv
  <2>3. Quiet
    <3>1. ~UpdateCompare
      BY <2>1 DEF UpdateCompare, Compare, Update
    <3>2. \A action : Plain(action) /\ action => Quiet
      BY DEF Plain
    <3>3. TypeInv /\ CountInv
      BY DEF IInv
    <3>4. Idle \/ TakeInterrupt \/ PcountReset => Quiet
      BY <3>3, IdleFacts, TakeFacts, ResetFacts
    <3> QED
      BY <3>1, <3>2, <3>3, <3>4, PlainActions DEF CoreStep
  <2> QED
    BY <2>2, <2>3 DEF IInv, TypeInv, Quiet
<1> QED
  BY <1>1, Invariance, PTL DEF Spec, NoLostTick

\* No interrupt comes before the increment has passed since the time that the
\* deadline was computed from.
THEOREM TicksOnTime == Spec => NoEarlyTick
<1>1. IInv /\ [Next]_vars =>
          [hpc = "none" /\ hpc' # "none" => mtime_q >= called + time_increment]_vars
  <2> SUFFICES ASSUME IInv, Idle \/ CoreStep, hpc = "none", hpc' # "none"
               PROVE  mtime_q >= called + time_increment
    BY DEF Next, Ended
  <2>1. TakeInterrupt
    BY DEF Idle, CoreStep, PcountEnable, PcountReset, Puts, TimerEnable, ReadHigh, ReadLow,
       CheckHigh, UpdateCompare, Compare, EnableTimerIrq, EnableIrqs, GetElapsed,
       PrintTick, Wfi, CountTick, Mret, MainAt, GoesTo
  <2>2. interrupt_q /\ mpc \in Loop
    BY <2>1, TakeFacts DEF IInv, ControlInv
  <2>3. Pc \in Returned /\ Pc \notin {"enable"} \cup Update
    BY <2>2 DEF Pc, Returned, Loop, Update
  <2> QED
    BY <2>2, <2>3 DEF IInv, TypeInv, ReadInv, CompareInv
<1> QED
  BY <1>1, Invariance, PTL DEF Spec, NoEarlyTick
=============================================================================
