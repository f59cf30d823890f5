---------------------------- MODULE SimLoadProofs ----------------------------
(***************************************************************************)
(* Theorems about what the simulation program has loaded when it starts,   *)
(* for every command line, and every set of files and memories.            *)
(***************************************************************************)
EXTENDS SimMainProofs, SequenceTheorems, FiniteSetTheorems,
        WellFoundedInduction

-----------------------------------------------------------------------------
(* The inductive invariant.                                                *)

Token == [opt : STRING, arg : STRING, text : STRING]
Scan  == [todo : Seq(Token), opts : Seq(Token), words : Seq(Token)]

OptionsOf(s) == {k \in DOMAIN s : IsOption(s[k])}

\* f takes the options of s, in their order, to those of t.
Reorders(f, s, t) ==
    /\ f \in [OptionsOf(s) -> OptionsOf(t)]
    /\ \A k \in OptionsOf(s) : t[f[k]] = s[k]
    /\ \A i, j \in OptionsOf(s) : i < j => f[i] < f[j]
    /\ \A m \in OptionsOf(t) : \E k \in OptionsOf(s) : f[k] = m

\* s and t have the same options, in the same order, between whatever words.
SameOptions(s, t) == \E f \in [OptionsOf(s) -> OptionsOf(t)] : Reorders(f, s, t)

\* A scan has consumed options only, and stepped over words only.
ScanSplits(s) ==
    /\ s \in Scan
    /\ \A k \in DOMAIN s.opts : IsOption(s.opts[k])
    /\ \A k \in DOMAIN s.words : ~IsOption(s.words[k])

\* A scan of the command line, which may be permuted meanwhile.
ScanInv ==
    /\ pc \in SetupPcs => argv \in Seq(Token)
    /\ pc = "main" => scan = ScanOf(argv)
    /\ AllAttached /\ pc \in {"options", "extensions", "memory"} =>
          ScanSplits(scan) /\ SameOptions(argv, Permuted(scan))

HelpSeen(s) == \A k \in DOMAIN s : s[k].opt = "h" => exit_app

\* The controller's parser has seen every -h the loader's will find.
HelpInv ==
    AllAttached => /\ pc = "options" => HelpSeen(scan.opts)
                   /\ pc \in {"extensions", "memory"} => HelpSeen(argv)

\* What an option asks for is there.
Possible(t) == /\ Request(t).name \in DOMAIN mem_register
               /\ Request(t).path \in DOMAIN Files

\* An option has not ended the program.
Obeyed(t) == (t.opt = "l" => t.arg # "list") /\ (Loads(t) => Possible(t))

InMemory(t) == Holds(memory[mem_register[Request(t).name].location],
                     Request(t).path, Request(t).vmem)

Image(path) == [b \in 0 .. LenBytes(path) - 1 |-> ImageByte(path, b)]

\* The MemWrite in progress is what option t asks for.
Serves(t) ==
    /\ Loads(t) /\ Obeyed(t)
    /\ job.step = "loaded" => InMemory(t)
    /\ job.step \in {"open", "begin", "inspect", "copy", "words"} =>
          /\ "path" \in DOMAIN job /\ "area" \in DOMAIN job
          /\ job.path = Request(t).path /\ ~Request(t).vmem
          /\ job.area = mem_register[Request(t).name]
          /\ job.area.location \in Scopes
    /\ job.step = "words" => buf = Image(job.path)

\* The last of the options that load has been served.
LastLoaded(s) ==
    \A k \in DOMAIN s :
        Loads(s[k]) /\ (\A j \in k + 1 .. Len(s) : ~Loads(s[j])) => InMemory(s[k])

ServedInv ==
    /\ AllAttached /\ pc \in SetupPcs =>
          /\ DOMAIN memory = Scopes
          /\ \A s \in Scopes : DOMAIN memory[s] = 0 .. WordBytes * Depth - 1
    /\ AllAttached /\ pc = "extensions" =>
          (\A k \in DOMAIN scan.opts : Obeyed(scan.opts[k])) /\ LastLoaded(scan.opts)
    /\ AllAttached /\ pc = "memory" =>
          /\ scan.opts # <<>>
          /\ \A k \in 1 .. Len(scan.opts) - 1 : Obeyed(scan.opts[k])
          /\ job.step # "failed" => Serves(scan.opts[Len(scan.opts)])

-----------------------------------------------------------------------------
(* Least and greatest elements.                                            *)

\* A set of natural numbers that is not empty has a least element.
LEMMA LeastOf ==
    ASSUME NEW T, T \subseteq Nat, T # {}
    PROVE  Min(T) \in T /\ \A y \in T : Min(T) <= y
\* The sets 0 .. y are finite, so one of them has no other within it.
<1> DEFINE R == StrictSubsetOrdering(Nat)
           Below == {0 .. y : y \in T}
<1>1. Below \subseteq FiniteSubsetsOf(Nat) /\ Below # {}
  <2>1. \A y \in T : 0 .. y \in FiniteSubsetsOf(Nat)
    BY FS_Interval DEF FiniteSubsetsOf
  <2> QED
    BY <2>1
<1>2. PICK X \in Below : \A Y \in Below : ~(<<Y, X>> \in R)
  <2>1. IsWellFoundedOn(R, FiniteSubsetsOf(Nat))
    BY FS_StrictSubsetOrderingWellFounded
  <2> HIDE DEF R, Below
  <2> QED
    BY <2>1, <1>1, WFMin
<1>3. PICK x \in T : X = 0 .. x
  BY <1>2
<1>4. \A y \in T : x <= y
  <2> SUFFICES ASSUME NEW y \in T, ~(x <= y) PROVE FALSE
    OBVIOUS
  <2>1. x \in Nat /\ y \in Nat /\ y < x
    OBVIOUS
  <2>2. 0 .. y \subseteq 0 .. x /\ x \in 0 .. x /\ x \notin 0 .. y
    BY <2>1
  <2>3. (0 .. y) \in SUBSET Nat /\ (0 .. x) \in SUBSET Nat /\ 0 .. y # 0 .. x
    BY <2>2
  <2>4. <<0 .. y, X>> \in R
    BY <2>2, <2>3, <1>3 DEF StrictSubsetOrdering
  <2>5. 0 .. y \in Below
    OBVIOUS
  <2> QED
    BY <2>4, <2>5, <1>2
<1>5. \A z \in T : (\A y \in T : z <= y) => z = x
  BY <1>4
<1> QED
  BY <1>4, <1>5 DEF Min

\* And a greatest one if it is bounded.
LEMMA GreatestOf ==
    ASSUME NEW T, T \subseteq Nat, T # {}, NEW b \in Nat, \A y \in T : y <= b
    PROVE  Max(T) \in T /\ \A y \in T : Max(T) >= y
<1> DEFINE B == {n \in Nat : \A y \in T : y <= n}
<1>1. B \subseteq Nat /\ B # {}
  OBVIOUS
<1>2. PICK m : m \in B /\ \A n \in B : m <= n
  BY <1>1, LeastOf
<1>3. m \in Nat /\ \A y \in T : y <= m
  BY <1>2
<1>4. m \in T
  <2> SUFFICES ASSUME m \notin T PROVE FALSE
    OBVIOUS
  <2>1. \A y \in T : y \in Nat /\ y < m
    BY <1>3
  <2>2. m - 1 \in Nat /\ \A y \in T : y <= m - 1
    <3>1. PICK z \in T : TRUE
      OBVIOUS
    <3>2. m \in Nat /\ z \in Nat /\ z < m
      BY <3>1, <2>1, <1>3
    <3> QED
      BY <3>2, <2>1
  <2>3. m - 1 \in B
    BY <2>2
  <2> QED
    BY <2>3, <1>2, <1>3
<1> QED
  BY <1>3, <1>4 DEF Max

\* Behind some address there is no segment.
LEMMA EndsBounded ==
    ASSUME NEW segs \in Seq(Segment)
    PROVE  \E b \in Nat : \A k \in DOMAIN segs : SegmentEnd(segs[k]) <= b
<1> DEFINE Bound(n, b) == \A k \in 1 .. n : SegmentEnd(segs[k]) <= b
           Bad == {n \in 0 .. Len(segs) : ~\E b \in Nat : Bound(n, b)}
<1>0. Len(segs) \in Nat /\ DOMAIN segs = 1 .. Len(segs)
  BY LenProperties
<1>1. \A k \in 1 .. Len(segs) : SegmentEnd(segs[k]) \in Nat
  <2> TAKE k \in 1 .. Len(segs)
  <2>1. segs[k] \in Segment
    BY ElementOfSeq
  <2> QED
    BY <2>1 DEF Segment, SegmentEnd
<1>2. Bad = {}
  <2> SUFFICES ASSUME Bad # {} PROVE FALSE
    OBVIOUS
  <2>1. PICK m : m \in Bad /\ \A n \in Bad : m <= n
    <3>1. Bad \subseteq Nat
      BY <1>0
    <3> QED
      BY <3>1, LeastOf
  <2>2. m \in 0 .. Len(segs) /\ ~\E b \in Nat : Bound(m, b)
    BY <2>1
  <2>3. m # 0
    <3>1. Bound(0, 0)
      OBVIOUS
    <3> QED
      BY <3>1, <2>2
  <2>4. PICK b \in Nat : Bound(m - 1, b)
    <3>1. m - 1 \in 0 .. Len(segs) /\ ~(m <= m - 1)
      BY <2>2, <2>3, <1>0
    <3>2. m - 1 \notin Bad
      BY <3>1, <2>1
    <3> QED
      BY <3>1, <3>2
  <2>5. m \in 1 .. Len(segs)
    BY <2>2, <2>3, <1>0
  <2> DEFINE c == b + SegmentEnd(segs[m])
  <2>6. SegmentEnd(segs[m]) \in Nat /\ c \in Nat
    <3>1. SegmentEnd(segs[m]) \in Nat
      BY <2>5, <1>1
    <3>2. b \in Nat
      BY <2>4
    <3> HIDE DEF Bad, Bound
    <3> QED
      BY <3>1, <3>2
  <2>7. Bound(m, c)
    <3> SUFFICES ASSUME NEW k \in 1 .. m PROVE SegmentEnd(segs[k]) <= c
      OBVIOUS
    <3>1. k \in 1 .. Len(segs)
      BY <2>5, <1>0
    <3>2. SegmentEnd(segs[k]) \in Nat
      BY <3>1, <1>1
    <3>3. CASE k = m
      BY <3>3, <2>6
    <3>4. CASE k # m
      <4>1. k \in 1 .. m - 1
        BY <3>4, <2>5, <1>0
      <4>2. SegmentEnd(segs[k]) <= b
        BY <4>1, <2>4
      <4> QED
        BY <4>2, <3>2, <2>6
    <3> QED
      BY <3>3, <3>4
  <2> QED
    BY <2>6, <2>7, <2>2
<1>3. Len(segs) \notin Bad
  BY <1>2
<1>4. \E b \in Nat : Bound(Len(segs), b)
  BY <1>3, <1>0
<1> QED
  BY <1>4, <1>0

-----------------------------------------------------------------------------
(* Images.                                                                 *)

\* The fields of a segment are numbers.
LEMMA SegmentsOf ==
    ASSUME NEW path \in DOMAIN Files
    PROVE  /\ Files[path].segments \in Seq(Segment)
           /\ \A k \in DOMAIN Files[path].segments :
                 /\ Files[path].segments[k].paddr \in Nat
                 /\ Files[path].segments[k].filesz \in Nat
                 /\ k \in Nat
<1>1. Files[path] \in Contents
  BY MemUtilAssumption
<1>2. Files[path].segments \in Seq(Segment)
  BY <1>1 DEF Contents
<1> DEFINE segs == Files[path].segments
<1>3. DOMAIN segs = 1 .. Len(segs) /\ Len(segs) \in Nat
  BY <1>2, LenProperties
<1>4. \A k \in DOMAIN segs : segs[k] \in Segment
  BY <1>2, <1>3, ElementOfSeq
<1> QED
  BY <1>2, <1>3, <1>4 DEF Segment

\* The lowest segment starts the image, and all of the image is in reach.
LEMMA Extent ==
    ASSUME NEW path \in DOMAIN Files, NEW k \in Loadable(path)
    PROVE  /\ Low(path) \in Nat /\ High(path) \in Nat
           /\ Low(path) <= Files[path].segments[k].paddr
           /\ SegmentEnd(Files[path].segments[k]) <= High(path)
<1> DEFINE segs == Files[path].segments
           starts == {segs[j].paddr : j \in Loadable(path)}
           ends == {SegmentEnd(segs[j]) : j \in Loadable(path)}
<1>1. \A j \in Loadable(path) : j \in DOMAIN segs
  BY DEF Loadable
<1>2. \A j \in Loadable(path) : segs[j].paddr \in Nat /\ SegmentEnd(segs[j]) \in Nat
  BY <1>1, SegmentsOf DEF SegmentEnd
<1>3. starts \subseteq Nat /\ starts # {} /\ segs[k].paddr \in starts
  BY <1>2
<1>4. Low(path) \in Nat /\ Low(path) <= segs[k].paddr
  <2>1. Low(path) = Min(starts)
    BY DEF Low
  <2> HIDE DEF starts
  <2> QED
    BY <2>1, <1>3, LeastOf
<1>5. ends \subseteq Nat /\ ends # {} /\ SegmentEnd(segs[k]) \in ends
  BY <1>2
<1>6. PICK b \in Nat : \A j \in DOMAIN segs : SegmentEnd(segs[j]) <= b
  BY SegmentsOf, EndsBounded
<1>7. \A y \in ends : y <= b
  BY <1>6, <1>1
<1>8. High(path) \in Nat /\ SegmentEnd(segs[k]) <= High(path)
  <2>1. High(path) = Max(ends)
    BY DEF High
  <2> HIDE DEF ends
  <2> QED
    BY <2>1, <1>5, <1>7, GreatestOf
<1> QED
  BY <1>4, <1>8

\* A byte of an image is in one of its words (the rounding of WriteElfToMem).
LEMMA WordArithmetic ==
    ASSUME NEW len \in Nat \ {0}, NEW n \in Nat, n < len
    PROVE  /\ WordCount(len) \in Nat
           /\ ~(n \div WordBytes >= WordCount(len))
           /\ n < WordBytes * WordCount(len)
BY DEF WordCount, WordBytes

\* What WriteWords leaves in a memory that has room for the image.
LEMMA ElfHolds ==
    ASSUME NEW path \in DOMAIN Files, NEW old,
           WordCount(LenBytes(path)) <= Depth,
           NEW bytes,
           bytes = [b \in 0 .. WordBytes * Depth - 1 |->
                       CASE b \div WordBytes >= WordCount(LenBytes(path)) -> old[b]
                         [] b < LenBytes(path) -> Image(path)[b]
                         [] OTHER -> Garbage]
    PROVE  Holds(bytes, path, FALSE)
<1> DEFINE segs == Files[path].segments
           loaded == {k \in DOMAIN segs :
                         FALSE \/ (segs[k].load /\ segs[k].filesz > 0)}
           In(k, a) == segs[k].paddr <= a /\ a < segs[k].paddr + segs[k].filesz
<1>1. loaded = Loadable(path)
  BY SegmentsOf DEF Loadable
<1>2. SUFFICES ASSUME NEW k \in Loadable(path),
                      NEW a \in segs[k].paddr .. segs[k].paddr + segs[k].filesz - 1,
                      \A j \in Loadable(path) : j > k => ~In(j, a)
               PROVE  /\ a - Low(path) \in DOMAIN bytes
                      /\ bytes[a - Low(path)] = <<path, k, a - segs[k].paddr>>
  BY <1>1, Zenon DEF Holds, Low
<1>3. /\ k \in DOMAIN segs /\ k \in Nat
      /\ segs[k].paddr \in Nat /\ segs[k].filesz \in Nat
  BY SegmentsOf DEF Loadable
<1>4. /\ Low(path) \in Nat /\ High(path) \in Nat
      /\ Low(path) <= segs[k].paddr /\ segs[k].paddr + segs[k].filesz <= High(path)
  BY Extent DEF SegmentEnd
<1> DEFINE off == a - Low(path)
<1>5. LenBytes(path) = High(path) - Low(path)
  BY DEF LenBytes
<1>6. a \in Nat /\ off \in Nat /\ off < LenBytes(path) /\ LenBytes(path) \in Nat \ {0}
  BY <1>3, <1>4, <1>5
<1>7. /\ ~(off \div WordBytes >= WordCount(LenBytes(path)))
      /\ off \in 0 .. WordBytes * Depth - 1
  <2>1. /\ ~(off \div WordBytes >= WordCount(LenBytes(path)))
        /\ off < WordBytes * WordCount(LenBytes(path))
        /\ WordCount(LenBytes(path)) \in Nat
    BY <1>6, WordArithmetic
  <2>2. Depth \in Nat
    BY MemUtilAssumption
  <2> QED
    BY <2>1, <2>2, <1>6 DEF WordBytes
<1>8. bytes[off] = Image(path)[off]
  BY <1>6, <1>7
<1>9. Image(path)[off] = ImageByte(path, off)
  BY <1>6 DEF Image
<1>10. ImageByte(path, off) = <<path, k, a - segs[k].paddr>>
  <2>1. Low(path) + off = a
    BY <1>4, <1>6
  <2>2. k \in Covering(path, off)
    BY <2>1, <1>3 DEF Covering, SegmentEnd
  <2>3. \A j \in Covering(path, off) : j \in Nat /\ ~(j > k)
    <3> SUFFICES ASSUME NEW j \in Covering(path, off) PROVE j \in Nat /\ ~(j > k)
      OBVIOUS
    <3>1. /\ j \in Loadable(path)
          /\ a \in segs[j].paddr .. SegmentEnd(segs[j]) - 1
      BY <2>1 DEF Covering
    <3>2. j \in Nat /\ segs[j].paddr \in Nat /\ segs[j].filesz \in Nat
      BY <3>1, SegmentsOf DEF Loadable
    <3>3. In(j, a)
      BY <3>1, <3>2, <1>6 DEF SegmentEnd
    <3> QED
      BY <3>1, <3>2, <3>3, <1>2
  <2>4. Max(Covering(path, off)) = k
    <3>1. \A y \in Covering(path, off) : k >= y
      BY <2>3, <1>3
    <3>2. \A x \in Covering(path, off) :
             (\A y \in Covering(path, off) : x >= y) => x = k
      BY <2>2, <2>3, <1>3
    <3> QED
      BY <2>2, <3>1, <3>2 DEF Max
  <2> QED
    <3>1. Covering(path, off) # {}
      BY <2>2
    <3>2. ImageByte(path, off)
            = <<path, k, Low(path) + off - Files[path].segments[k].paddr>>
      BY <3>1, <2>4, Zenon DEF ImageByte
    <3>3. Low(path) + off - segs[k].paddr = a - segs[k].paddr
      BY <1>3, <1>4, <1>6
    <3> HIDE DEF off
    <3> QED
      BY <3>2, <3>3, Zenon
<1> QED
  BY <1>7, <1>8, <1>9, <1>10

\* What $readmemh leaves in a memory, of the part of the file it has room for.
LEMMA VmemHolds ==
    ASSUME NEW path \in DOMAIN Files, NEW old, NEW bytes,
           bytes = [b \in DOMAIN old |->
                      IF \E k \in DOMAIN Files[path].segments :
                            LET s == Files[path].segments[k]
                            IN  b \in s.paddr .. SegmentEnd(s) - 1
                      THEN <<path, b>> ELSE old[b]]
    PROVE  Holds(bytes, path, TRUE)
<1> DEFINE segs == Files[path].segments
<1>1. SUFFICES ASSUME NEW k \in DOMAIN segs,
                      NEW a \in segs[k].paddr .. segs[k].paddr + segs[k].filesz - 1,
                      a \in DOMAIN bytes
               PROVE  bytes[a] = <<path, a>>
  BY Zenon DEF Holds
<1>2. a \in segs[k].paddr .. SegmentEnd(segs[k]) - 1
  BY <1>1, SegmentsOf DEF SegmentEnd
<1> QED
  BY <1>1, <1>2

-----------------------------------------------------------------------------
(* Scans.                                                                  *)

\* What a sequence of tokens is.
LEMMA SequencesAre ==
    ASSUME NEW s \in Seq(Token)
    PROVE  /\ Len(s) \in Nat /\ DOMAIN s = 1 .. Len(s)
           /\ \A k \in 1 .. Len(s) : s[k] \in Token
           /\ OptionsOf(s) \subseteq 1 .. Len(s)
BY LenProperties, ElementOfSeq DEF OptionsOf

\* A command line nobody has permuted.
LEMMA SameOptionsReflexive ==
    ASSUME NEW s \in Seq(Token)
    PROVE  SameOptions(s, s)
<1> DEFINE f == [k \in OptionsOf(s) |-> k]
<1>1. f \in [OptionsOf(s) -> OptionsOf(s)]
  OBVIOUS
<1>2. Reorders(f, s, s)
  BY <1>1 DEF Reorders
<1> QED
  BY <1>1, <1>2 DEF SameOptions

\* A command line permuted twice, by one parser after the other.
LEMMA SameOptionsTransitive ==
    ASSUME NEW s \in Seq(Token), NEW t \in Seq(Token), NEW u \in Seq(Token),
           SameOptions(s, t), SameOptions(t, u)
    PROVE  SameOptions(s, u)
<1>1. PICK f \in [OptionsOf(s) -> OptionsOf(t)] : Reorders(f, s, t)
  BY DEF SameOptions
<1>2. PICK g \in [OptionsOf(t) -> OptionsOf(u)] : Reorders(g, t, u)
  BY DEF SameOptions
<1> DEFINE h == [k \in OptionsOf(s) |-> g[f[k]]]
<1>3. \A k \in OptionsOf(s) : f[k] \in OptionsOf(t) /\ h[k] = g[f[k]]
  BY <1>1
<1>4. h \in [OptionsOf(s) -> OptionsOf(u)]
  BY <1>2, <1>3
<1>5. \A k \in OptionsOf(s) : u[h[k]] = s[k]
  BY <1>1, <1>2, <1>3 DEF Reorders
<1>6. \A i, j \in OptionsOf(s) : i < j => h[i] < h[j]
  BY <1>1, <1>2, <1>3 DEF Reorders
<1>7. \A m \in OptionsOf(u) : \E k \in OptionsOf(s) : h[k] = m
  <2> SUFFICES ASSUME NEW m \in OptionsOf(u)
               PROVE  \E k \in OptionsOf(s) : h[k] = m
    OBVIOUS
  <2>1. PICK l \in OptionsOf(t) : g[l] = m
    BY <1>2 DEF Reorders
  <2>2. PICK k \in OptionsOf(s) : f[k] = l
    BY <1>1 DEF Reorders
  <2> QED
    BY <2>1, <2>2, <1>3
<1>8. Reorders(h, s, u)
  <2> HIDE DEF h
  <2> QED
    BY <1>4, <1>5, <1>6, <1>7 DEF Reorders
<1> QED
  BY <1>4, <1>8 DEF SameOptions

\* An option moved in front of the words before it.
LEMMA MovedToFront ==
    ASSUME NEW p \in Seq(Token), NEW q \in Seq(Token), Len(q) = Len(p),
           NEW a \in 1 .. Len(p), NEW b \in a .. Len(p),
           IsOption(p[b]), \A i \in a .. b - 1 : ~IsOption(p[i]),
           \A i \in 1 .. Len(p) :
              q[i] = IF i = a THEN p[b]
                     ELSE IF a < i /\ i <= b THEN p[i - 1] ELSE p[i]
    PROVE  SameOptions(p, q)
<1> DEFINE f == [i \in OptionsOf(p) |-> IF i = b THEN a ELSE i]
<1>0. /\ Len(p) \in Nat /\ DOMAIN p = 1 .. Len(p) /\ DOMAIN q = 1 .. Len(p)
      /\ a \in Nat /\ b \in Nat /\ a <= b /\ b <= Len(p) /\ 1 <= a
  BY SequencesAre
<1>1. \A i \in OptionsOf(p) :
         i \in 1 .. Len(p) /\ IsOption(p[i]) /\ (i < a \/ i >= b)
  BY <1>0 DEF OptionsOf
<1>2. \A i \in OptionsOf(q) :
         i \in 1 .. Len(p) /\ IsOption(q[i]) /\ (i <= a \/ i > b)
  <2> SUFFICES ASSUME NEW i \in 1 .. Len(p), IsOption(q[i]), a < i, i <= b
               PROVE  FALSE
    BY <1>0 DEF OptionsOf
  <2>1. q[i] = p[i - 1] /\ i - 1 \in a .. b - 1
    BY <1>0
  <2> QED
    BY <2>1
<1>3. \A i \in OptionsOf(p) : f[i] \in OptionsOf(q) /\ q[f[i]] = p[i]
  <2> SUFFICES ASSUME NEW i \in OptionsOf(p)
               PROVE  f[i] \in OptionsOf(q) /\ q[f[i]] = p[i]
    OBVIOUS
  <2>1. CASE i = b
    <3>1. f[i] = a /\ q[a] = p[b]
      BY <2>1
    <3> QED
      BY <3>1, <2>1, <1>0 DEF OptionsOf
  <2>2. CASE i # b
    <3>1. f[i] = i /\ i \in 1 .. Len(p) /\ IsOption(p[i]) /\ (i < a \/ i > b)
      BY <2>2, <1>1, <1>0
    <3>2. q[i] = p[i]
      BY <3>1, <1>0
    <3> QED
      BY <3>1, <3>2, <1>0 DEF OptionsOf
  <2> QED
    BY <2>1, <2>2
<1>4. f \in [OptionsOf(p) -> OptionsOf(q)]
  BY <1>3
<1>5. \A i, j \in OptionsOf(p) : i < j => f[i] < f[j]
  BY <1>1, <1>0
<1>6. \A m \in OptionsOf(q) : \E k \in OptionsOf(p) : f[k] = m
  <2> SUFFICES ASSUME NEW m \in OptionsOf(q)
               PROVE  \E k \in OptionsOf(p) : f[k] = m
    OBVIOUS
  <2>1. CASE m = a
    <3>1. b \in OptionsOf(p) /\ f[b] = a
      BY <1>0 DEF OptionsOf
    <3> QED
      BY <2>1, <3>1
  <2>2. CASE m # a
    <3>1. m \in 1 .. Len(p) /\ IsOption(q[m]) /\ (m < a \/ m > b)
      BY <2>2, <1>2, <1>0
    <3>2. q[m] = p[m]
      BY <3>1, <1>0
    <3>3. m \in OptionsOf(p) /\ f[m] = m
      BY <3>1, <3>2, <1>0 DEF OptionsOf
    <3> QED
      BY <3>3
  <2> QED
    BY <2>1, <2>2
<1>7. Reorders(f, p, q)
  <2> HIDE DEF f
  <2> QED
    BY <1>3, <1>4, <1>5, <1>6 DEF Reorders
<1> QED
  BY <1>4, <1>7 DEF SameOptions

\* The elements of three sequences in a row.
LEMMA ConcatThree ==
    ASSUME NEW x \in Seq(Token), NEW y \in Seq(Token), NEW z \in Seq(Token)
    PROVE  /\ x \o y \o z \in Seq(Token)
           /\ Len(x \o y \o z) = Len(x) + Len(y) + Len(z)
           /\ \A i \in 1 .. Len(x) + Len(y) + Len(z) :
                 (x \o y \o z)[i] =
                    IF i <= Len(x) THEN x[i]
                    ELSE IF i <= Len(x) + Len(y) THEN y[i - Len(x)]
                    ELSE z[i - Len(x) - Len(y)]
<1>1. PICK f : /\ f = x \o y /\ f \in Seq(Token) /\ Len(f) = Len(x) + Len(y)
               /\ \A i \in 1 .. Len(x) + Len(y) :
                     f[i] = IF i <= Len(x) THEN x[i] ELSE y[i - Len(x)]
  <2>1. /\ x \o y \in Seq(Token) /\ Len(x \o y) = Len(x) + Len(y)
        /\ \A i \in 1 .. Len(x) + Len(y) :
              (x \o y)[i] = IF i <= Len(x) THEN x[i] ELSE y[i - Len(x)]
    BY ConcatProperties, Zenon
  <2> QED
    BY <2>1, Zenon
<1>2. PICK g : /\ g = f \o z /\ g \in Seq(Token) /\ Len(g) = Len(f) + Len(z)
               /\ \A i \in 1 .. Len(f) + Len(z) :
                     g[i] = IF i <= Len(f) THEN f[i] ELSE z[i - Len(f)]
  <2>1. f \in Seq(Token)
    BY <1>1
  <2>2. /\ f \o z \in Seq(Token) /\ Len(f \o z) = Len(f) + Len(z)
        /\ \A i \in 1 .. Len(f) + Len(z) :
              (f \o z)[i] = IF i <= Len(f) THEN f[i] ELSE z[i - Len(f)]
    BY <2>1, ConcatProperties, Zenon
  <2> QED
    BY <2>2, Zenon
<1>3. Len(x) \in Nat /\ Len(y) \in Nat /\ Len(z) \in Nat
  BY LenProperties
<1>4. ASSUME NEW i \in 1 .. Len(x) + Len(y) + Len(z)
      PROVE  g[i] = IF i <= Len(x) THEN x[i]
                    ELSE IF i <= Len(x) + Len(y) THEN y[i - Len(x)]
                    ELSE z[i - Len(x) - Len(y)]
  <2>1. i \in Nat /\ i \in 1 .. Len(f) + Len(z)
    BY <1>1, <1>3
  <2>2. g[i] = IF i <= Len(f) THEN f[i] ELSE z[i - Len(f)]
    BY <2>1, <1>2
  <2>3. CASE i <= Len(f)
    <3>1. i \in 1 .. Len(x) + Len(y)
      BY <2>1, <2>3, <1>1, <1>3
    <3> QED
      BY <3>1, <2>2, <2>3, <1>1, <1>3
  <2>4. CASE ~(i <= Len(f))
    <3>1. i - Len(f) = i - Len(x) - Len(y) /\ ~(i <= Len(x)) /\ ~(i <= Len(x) + Len(y))
      BY <2>1, <2>4, <1>1, <1>3
    <3> QED
      BY <3>1, <2>2, <2>4
  <2> QED
    BY <2>3, <2>4
<1>5. x \o y \o z = g
  BY <1>1, <1>2
<1>6. g \in Seq(Token) /\ Len(g) = Len(x) + Len(y) + Len(z)
  BY <1>1, <1>2
<1> QED
  BY <1>4, <1>5, <1>6, Zenon

\* Where the elements of a scan are in its permuted command line.
LEMMA PermutedAt ==
    ASSUME NEW s \in Scan
    PROVE  /\ s.todo \in Seq(Token) /\ s.opts \in Seq(Token) /\ s.words \in Seq(Token)
           /\ Permuted(s) \in Seq(Token)
           /\ Len(Permuted(s)) = Len(s.opts) + Len(s.words) + Len(s.todo)
           /\ \A i \in 1 .. Len(s.opts) + Len(s.words) + Len(s.todo) :
                 Permuted(s)[i] =
                    IF i <= Len(s.opts) THEN s.opts[i]
                    ELSE IF i <= Len(s.opts) + Len(s.words)
                    THEN s.words[i - Len(s.opts)]
                    ELSE s.todo[i - Len(s.opts) - Len(s.words)]
<1>1. s.todo \in Seq(Token) /\ s.opts \in Seq(Token) /\ s.words \in Seq(Token)
  BY DEF Scan
<1> QED
  BY <1>1, ConcatThree, Zenon DEF Permuted

\* The next option of a scan is the first there is, behind words only.
LEMMA FirstOption ==
    ASSUME NEW s \in Seq(Token), \E j \in DOMAIN s : IsOption(s[j])
    PROVE  /\ SelectInSeq(s, IsOption) \in 1 .. Len(s)
           /\ IsOption(s[SelectInSeq(s, IsOption)])
           /\ \A j \in 1 .. SelectInSeq(s, IsOption) - 1 : ~IsOption(s[j])
<1> DEFINE I == {j \in 1 .. Len(s) : IsOption(s[j])}
<1>1. Len(s) \in Nat /\ DOMAIN s = 1 .. Len(s)
  BY SequencesAre
<1>2. I \subseteq Nat /\ I # {}
  BY <1>1
<1>3. SelectInSeq(s, IsOption) = Min(I)
  BY <1>2, Zenon DEF SelectInSeq
<1>4. Min(I) \in I /\ \A y \in I : Min(I) <= y
  <2> HIDE DEF I
  <2> QED
    BY <1>2, LeastOf
<1>5. \A j \in 1 .. Min(I) - 1 : ~IsOption(s[j])
  <2> SUFFICES ASSUME NEW j \in 1 .. Min(I) - 1, IsOption(s[j]) PROVE FALSE
    OBVIOUS
  <2>1. Min(I) \in 1 .. Len(s)
    BY <1>4
  <2>2. j \in 1 .. Len(s) /\ ~(Min(I) <= j)
    BY <2>1, <1>1
  <2> QED
    BY <2>2, <1>4
<1> QED
  BY <1>3, <1>4, <1>5

\* What a scan consumes moves in front of the words it stepped over.
LEMMA ConsumedMoves ==
    ASSUME NEW s \in Scan, NEW r \in Scan,
           NEW O \in Nat, NEW W \in Nat, NEW n \in Nat, NEW k \in 1 .. n,
           Len(s.opts) = O, Len(s.words) = W, Len(s.todo) = n,
           Len(r.opts) = O + 1, Len(r.words) = W + (k - 1), Len(r.todo) = n - k,
           \A i \in 1 .. O : r.opts[i] = s.opts[i],
           r.opts[O + 1] = s.todo[k],
           \A i \in 1 .. W + (k - 1) :
              r.words[i] = IF i <= W THEN s.words[i] ELSE s.todo[i - W],
           \A i \in 1 .. n - k : r.todo[i] = s.todo[k + i],
           \A i \in 1 .. W : ~IsOption(s.words[i]),
           \A i \in 1 .. k - 1 : ~IsOption(s.todo[i]),
           IsOption(s.todo[k])
    PROVE  SameOptions(Permuted(s), Permuted(r))
<1> DEFINE a == O + 1
           b == O + W + k
           N == O + W + n
<1>0. O \in Nat /\ W \in Nat /\ n \in Nat /\ k \in Int /\ 1 <= k /\ k <= n
  OBVIOUS
<1>1. /\ Permuted(s) \in Seq(Token) /\ Len(Permuted(s)) = N
      /\ \A i \in 1 .. N : Permuted(s)[i] =
            IF i <= O THEN s.opts[i]
            ELSE IF i <= O + W THEN s.words[i - O] ELSE s.todo[i - O - W]
  BY PermutedAt
<1>2. Len(r.opts) = O + 1 /\ Len(r.words) = W + (k - 1) /\ Len(r.todo) = n - k
  OBVIOUS
<1>3. (O + 1) + (W + (k - 1)) + (n - k) = N
  OBVIOUS
<1>4. /\ Permuted(r) \in Seq(Token) /\ Len(Permuted(r)) = N
      /\ \A i \in 1 .. N : Permuted(r)[i] =
            IF i <= O + 1 THEN r.opts[i]
            ELSE IF i <= (O + 1) + (W + (k - 1)) THEN r.words[i - (O + 1)]
            ELSE r.todo[i - (O + 1) - (W + (k - 1))]
  <2>1. /\ Permuted(r) \in Seq(Token)
        /\ Len(Permuted(r)) = Len(r.opts) + Len(r.words) + Len(r.todo)
        /\ \A i \in 1 .. Len(r.opts) + Len(r.words) + Len(r.todo) :
              Permuted(r)[i] =
                 IF i <= Len(r.opts) THEN r.opts[i]
                 ELSE IF i <= Len(r.opts) + Len(r.words)
                 THEN r.words[i - Len(r.opts)]
                 ELSE r.todo[i - Len(r.opts) - Len(r.words)]
    BY PermutedAt, Zenon
  <2>2. Len(r.opts) + Len(r.words) + Len(r.todo) = N
    BY <1>2, <1>3
  <2> HIDE DEF N
  <2> QED
    BY ONLY <1>2, <2>1, <2>2
<1>5. a \in 1 .. N /\ b \in a .. N
  OBVIOUS
<1>6. Permuted(s)[b] = s.todo[k]
  <2>1. b \in 1 .. N /\ ~(b <= O) /\ ~(b <= O + W) /\ b - O - W = k
    BY ONLY <1>0
  <2> QED
    BY <1>1, <2>1
<1>7. ASSUME NEW i \in a .. b - 1 PROVE ~IsOption(Permuted(s)[i])
  <2>1. i \in 1 .. N /\ ~(i <= O)
    OBVIOUS
  <2>2. CASE i <= O + W
    <3>1. i - O \in 1 .. W /\ Permuted(s)[i] = s.words[i - O]
      BY <2>1, <2>2, <1>1
    <3> QED
      BY <3>1
  <2>3. CASE ~(i <= O + W)
    <3>1. i - O - W \in 1 .. k - 1 /\ Permuted(s)[i] = s.todo[i - O - W]
      BY <2>1, <2>3, <1>1
    <3> QED
      BY <3>1
  <2> QED
    BY <2>2, <2>3
<1>8. ASSUME NEW i \in 1 .. N
      PROVE  Permuted(r)[i] = IF i = a THEN Permuted(s)[b]
                              ELSE IF a < i /\ i <= b THEN Permuted(s)[i - 1]
                              ELSE Permuted(s)[i]
  <2>1. CASE i <= O
    <3>1. /\ i \in 1 .. O /\ i # a /\ ~(a < i) /\ i <= O + 1
          /\ Permuted(s)[i] = s.opts[i] /\ Permuted(r)[i] = r.opts[i]
      BY <2>1, <1>1, <1>4
    <3> QED
      BY <3>1
  <2>2. CASE i = a
    <3>1. Permuted(r)[i] = r.opts[O + 1]
      BY <2>2, <1>4
    <3> QED
      BY <3>1, <2>2, <1>6
  <2>3. CASE a < i /\ i <= b
    <3>0. /\ i - (O + 1) \in 1 .. W + (k - 1)
          /\ ~(i <= O + 1) /\ i <= (O + 1) + (W + (k - 1))
      BY ONLY <2>3, <1>0, i \in 1 .. N
    <3>1. Permuted(r)[i] = r.words[i - (O + 1)] /\ i - (O + 1) \in 1 .. W + (k - 1)
      BY ONLY <3>0, <1>4, i \in 1 .. N
    <3>2. r.words[i - (O + 1)] = IF i - (O + 1) <= W THEN s.words[i - (O + 1)]
                                 ELSE s.todo[i - (O + 1) - W]
      BY <3>1
    <3>3. Permuted(s)[i - 1] = IF (i - 1) <= O + W THEN s.words[(i - 1) - O]
                               ELSE s.todo[(i - 1) - O - W]
      <4>1. i - 1 \in 1 .. N /\ ~(i - 1 <= O)
        BY <2>3
      <4> QED
        BY <4>1, <1>1
    <3>4. /\ i - (O + 1) = (i - 1) - O /\ i - (O + 1) - W = (i - 1) - O - W
          /\ i - (O + 1) <= W <=> i - 1 <= O + W
          /\ i # a
      BY <2>3
    <3> QED
      BY <2>3, <3>1, <3>2, <3>3, <3>4
  <2>4. CASE i > b
    <3>1. /\ i # a /\ ~(i <= b) /\ ~(i <= O) /\ ~(i <= O + W) /\ ~(i <= O + 1)
          /\ ~(i <= (O + 1) + (W + (k - 1)))
          /\ i - (O + 1) - (W + (k - 1)) \in 1 .. n - k
          /\ k + (i - (O + 1) - (W + (k - 1))) = i - O - W
      BY <2>4
    <3>2. Permuted(s)[i] = s.todo[i - O - W]
      BY <3>1, <1>1
    <3>3. Permuted(r)[i] = r.todo[i - (O + 1) - (W + (k - 1))]
      BY <3>1, <1>4
    <3>4. r.todo[i - (O + 1) - (W + (k - 1))] = s.todo[i - O - W]
      BY <3>1
    <3> QED
      BY <3>1, <3>2, <3>3, <3>4
  <2> QED
    BY <2>1, <2>2, <2>3, <2>4
<1>9. IsOption(Permuted(s)[b])
  BY <1>6
<1> HIDE DEF a, b, N
<1>10. /\ Permuted(s) \in Seq(Token) /\ Permuted(r) \in Seq(Token)
       /\ Len(Permuted(r)) = Len(Permuted(s))
       /\ a \in 1 .. Len(Permuted(s)) /\ b \in a .. Len(Permuted(s))
       /\ \A i \in 1 .. Len(Permuted(s)) :
             Permuted(r)[i] = IF i = a THEN Permuted(s)[b]
                              ELSE IF a < i /\ i <= b THEN Permuted(s)[i - 1]
                              ELSE Permuted(s)[i]
  BY ONLY <1>1, <1>4, <1>5, <1>8
<1>11. \A i \in a .. b - 1 : ~IsOption(Permuted(s)[i])
  BY <1>7
<1> QED
  BY ONLY <1>9, <1>10, <1>11, MovedToFront, Zenon

\* One call of getopt_long that takes no argument from the tokens behind.
LEMMA ScanStep ==
    ASSUME NEW s, ScanSplits(s), ~Finished(s), NEW known, NEW takers,
           \A k \in DOMAIN s.todo :
              IsOption(s.todo[k]) /\ s.todo[k].opt \in takers => s.todo[k].arg # NoArg
    PROVE  \E t \in Token, r \in Scan :
              /\ NextOption(s, known, takers)
                   = [opt |-> IF t.opt \in known THEN t.opt ELSE "?",
                      arg |-> t.arg, scan |-> r]
              /\ IsOption(t) /\ r.opts = Append(s.opts, t) /\ ScanSplits(r)
              /\ SameOptions(Permuted(s), Permuted(r))
<1>0. /\ s \in Scan
      /\ \A k \in DOMAIN s.opts : IsOption(s.opts[k])
      /\ \A k \in DOMAIN s.words : ~IsOption(s.words[k])
  BY DEF ScanSplits
<1>1. /\ s.todo \in Seq(Token) /\ s.opts \in Seq(Token) /\ s.words \in Seq(Token)
      /\ Permuted(s) \in Seq(Token)
  BY <1>0, PermutedAt
<1> DEFINE k == SelectInSeq(s.todo, IsOption)
           t == s.todo[k]
           n == Len(s.todo)
           rest == SubSeq(s.todo, k + 1, n)
           skipped == SubSeq(s.todo, 1, k - 1)
           r == [todo |-> rest, opts |-> s.opts \o <<t>>,
                 words |-> s.words \o skipped]
<1>2. k \in 1 .. n /\ IsOption(t) /\ \A j \in 1 .. k - 1 : ~IsOption(s.todo[j])
  BY <1>1, FirstOption DEF Finished
<1>3. n \in Nat /\ k \in Nat /\ DOMAIN s.todo = 1 .. n /\ t \in Token
  BY <1>1, <1>2, SequencesAre
<1>4. NextOption(s, known, takers)
        = [opt |-> IF t.opt \in known THEN t.opt ELSE "?", arg |-> t.arg, scan |-> r]
  <2>1. ~(t.opt \in takers /\ t.arg = NoArg)
    BY <1>2, <1>3
  <2> DEFINE o == CASE t.opt \notin known -> "?"
                    [] t.opt \in takers /\ t.arg = NoArg -> ":"
                    [] OTHER -> t.opt
  <2>2. o = IF t.opt \in known THEN t.opt ELSE "?"
    <3>1. CASE t.opt \in known
      BY <2>1, <3>1, Zenon
    <3>2. CASE t.opt \notin known
      BY <2>1, <3>2, Zenon
    <3> QED
      BY <3>1, <3>2
  <2>3. NextOption(s, known, takers) = [opt |-> o, arg |-> t.arg, scan |-> r]
    BY <2>1, Zenon DEF NextOption
  <2> HIDE DEF o, k
  <2> QED
    BY <2>2, <2>3, Zenon
<1> HIDE DEF k
<1>5. /\ rest \in Seq(Token) /\ Len(rest) = n - k
      /\ \A i \in 1 .. n - k : rest[i] = s.todo[k + i]
  <2>1. k + 1 \in Int /\ n \in Int /\ \A i \in k + 1 .. n : s.todo[i] \in Token
    BY <1>1, <1>2, <1>3, SequencesAre
  <2>2. /\ rest \in Seq(Token) /\ Len(rest) = IF k + 1 <= n THEN n - (k + 1) + 1 ELSE 0
        /\ \A i \in 1 .. n - (k + 1) + 1 : rest[i] = s.todo[(k + 1) + i - 1]
    BY <2>1, SubSeqProperties
  <2> HIDE DEF rest
  <2>3. Len(rest) = n - k
    BY <2>2, <1>2, <1>3
  <2>4. \A i \in 1 .. n - k : rest[i] = s.todo[k + i]
    <3> SUFFICES ASSUME NEW i \in 1 .. n - k PROVE rest[i] = s.todo[k + i]
      OBVIOUS
    <3>1. (k + 1) + i - 1 = k + i /\ i \in 1 .. n - (k + 1) + 1
      BY <1>3
    <3> QED
      BY <3>1, <2>2
  <2> QED
    BY <2>2, <2>3, <2>4
<1>6. /\ skipped \in Seq(Token) /\ Len(skipped) = k - 1
      /\ \A i \in 1 .. k - 1 : skipped[i] = s.todo[i]
  <2>1. 1 \in Int /\ k - 1 \in Int /\ \A i \in 1 .. k - 1 : s.todo[i] \in Token
    BY <1>1, <1>2, <1>3, SequencesAre
  <2>2. /\ skipped \in Seq(Token) /\ Len(skipped) = IF 1 <= k - 1 THEN (k - 1) - 1 + 1 ELSE 0
        /\ \A i \in 1 .. (k - 1) - 1 + 1 : skipped[i] = s.todo[1 + i - 1]
    BY <2>1, SubSeqProperties
  <2> HIDE DEF skipped
  <2>3. Len(skipped) = k - 1
    BY <2>2, <1>2, <1>3
  <2>4. \A i \in 1 .. k - 1 : skipped[i] = s.todo[i]
    <3> SUFFICES ASSUME NEW i \in 1 .. k - 1 PROVE skipped[i] = s.todo[i]
      OBVIOUS
    <3>1. 1 + i - 1 = i /\ i \in 1 .. (k - 1) - 1 + 1
      BY <1>3
    <3> QED
      BY <3>1, <2>2
  <2> QED
    BY <2>2, <2>3, <2>4
<1> DEFINE O == Len(s.opts)
           W == Len(s.words)
<1>7. O \in Nat /\ W \in Nat /\ DOMAIN s.opts = 1 .. O /\ DOMAIN s.words = 1 .. W
  BY <1>1, SequencesAre
<1>8. /\ s.opts \o <<t>> \in Seq(Token) /\ s.opts \o <<t>> = Append(s.opts, t)
      /\ Len(s.opts \o <<t>>) = O + 1
      /\ \A i \in 1 .. O : (s.opts \o <<t>>)[i] = s.opts[i]
      /\ (s.opts \o <<t>>)[O + 1] = t
  <2>1. s.opts \o <<t>> = Append(s.opts, t)
    BY <1>1, <1>3, AppendIsConcat
  <2> HIDE DEF t
  <2> QED
    BY <2>1, <1>1, <1>3, AppendProperties
<1>9. /\ s.words \o skipped \in Seq(Token) /\ Len(s.words \o skipped) = W + (k - 1)
      /\ \A i \in 1 .. W + (k - 1) : (s.words \o skipped)[i] =
            IF i <= W THEN s.words[i] ELSE s.todo[i - W]
  <2> HIDE DEF skipped
  <2>0. s.words \in Seq(Token) /\ skipped \in Seq(Token)
    BY <1>1, <1>6
  <2>1. /\ s.words \o skipped \in Seq(Token)
        /\ Len(s.words \o skipped) = Len(s.words) + Len(skipped)
        /\ \A i \in 1 .. Len(s.words) + Len(skipped) : (s.words \o skipped)[i] =
              IF i <= Len(s.words) THEN s.words[i] ELSE skipped[i - Len(s.words)]
    BY ONLY <2>0, ConcatProperties, Zenon
  <2>2. ASSUME NEW i \in 1 .. W + (k - 1)
        PROVE  (s.words \o skipped)[i] = IF i <= W THEN s.words[i] ELSE s.todo[i - W]
    <3>1. i <= W \/ i - W \in 1 .. k - 1
      BY <1>2, <1>3, <1>7
    <3> QED
      BY <2>1, <3>1, <1>6
  <2> QED
    BY <2>1, <2>2, <1>6
<1>10. r \in Scan /\ r.todo = rest /\ r.opts = s.opts \o <<t>> /\ r.words = s.words \o skipped
  BY <1>5, <1>8, <1>9 DEF Scan
<1> HIDE DEF r, rest, skipped, t
<1>11. ScanSplits(r)
  <2>1. ASSUME NEW i \in DOMAIN r.opts PROVE IsOption(r.opts[i])
    <3>1. i \in 1 .. O + 1
      BY <1>8, <1>10, SequencesAre
    <3> QED
      BY <3>1, <1>0, <1>2, <1>7, <1>8, <1>10
  <2>2. ASSUME NEW i \in DOMAIN r.words PROVE ~IsOption(r.words[i])
    <3>1. i \in 1 .. W + (k - 1)
      BY <1>9, <1>10, SequencesAre
    <3>2. i \in 1 .. W \/ (i - W \in 1 .. k - 1 /\ ~(i <= W))
      BY <3>1, <1>2, <1>3, <1>7
    <3>3. r.words[i] = IF i <= W THEN s.words[i] ELSE s.todo[i - W]
      BY <3>1, <1>9, <1>10
    <3>4. CASE i \in 1 .. W
      BY <3>3, <3>4, <1>0, <1>7
    <3>5. CASE i - W \in 1 .. k - 1 /\ ~(i <= W)
      BY <3>3, <3>5, <1>2
    <3> QED
      BY <3>2, <3>4, <3>5
  <2> QED
    BY <2>1, <2>2, <1>10 DEF ScanSplits
<1>12. SameOptions(Permuted(s), Permuted(r))
  <2>1. Len(r.opts) = O + 1 /\ Len(r.words) = W + (k - 1) /\ Len(r.todo) = n - k
    BY <1>5, <1>8, <1>9, <1>10, Zenon
  <2>2. /\ \A i \in 1 .. O : r.opts[i] = s.opts[i]
        /\ r.opts[O + 1] = s.todo[k]
        /\ \A i \in 1 .. W + (k - 1) :
              r.words[i] = IF i <= W THEN s.words[i] ELSE s.todo[i - W]
        /\ \A i \in 1 .. n - k : r.todo[i] = s.todo[k + i]
    BY <1>5, <1>8, <1>9, <1>10, Zenon DEF t
  <2>3. IsOption(s.todo[k])
    BY <1>2 DEF t
  <2> HIDE DEF O, W, n
  <2> QED
    BY <1>0, <1>2, <1>3, <1>7, <1>10, <2>1, <2>2, <2>3, ConsumedMoves DEF O, W, n
<1> QED
  BY <1>2, <1>3, <1>4, <1>8, <1>10, <1>11, <1>12 DEF t

\* Where the options of a scan are in its permuted command line.
LEMMA OptionsPlaced ==
    ASSUME NEW s, ScanSplits(s)
    PROVE  /\ Permuted(s) \in Seq(Token)
           /\ \A k \in DOMAIN s.opts :
                 k \in OptionsOf(Permuted(s)) /\ Permuted(s)[k] = s.opts[k]
           /\ \A k \in DOMAIN s.todo : IsOption(s.todo[k]) =>
                 \E m \in OptionsOf(Permuted(s)) : Permuted(s)[m] = s.todo[k]
           /\ Finished(s) => OptionsOf(Permuted(s)) = DOMAIN s.opts
<1> DEFINE O == Len(s.opts)
           W == Len(s.words)
           n == Len(s.todo)
           p == Permuted(s)
<1>0. /\ s \in Scan
      /\ \A k \in DOMAIN s.opts : IsOption(s.opts[k])
      /\ \A k \in DOMAIN s.words : ~IsOption(s.words[k])
  BY DEF ScanSplits
<1>1. /\ s.todo \in Seq(Token) /\ s.opts \in Seq(Token) /\ s.words \in Seq(Token)
      /\ p \in Seq(Token) /\ Len(p) = O + W + n
      /\ \A i \in 1 .. O + W + n :
            p[i] = IF i <= O THEN s.opts[i]
                   ELSE IF i <= O + W THEN s.words[i - O] ELSE s.todo[i - O - W]
  BY <1>0, PermutedAt
<1>2. /\ O \in Nat /\ W \in Nat /\ n \in Nat /\ DOMAIN s.opts = 1 .. O
      /\ DOMAIN s.words = 1 .. W /\ DOMAIN s.todo = 1 .. n /\ DOMAIN p = 1 .. O + W + n
  BY <1>1, SequencesAre
<1> HIDE DEF O, W, n, p
<1>3. ASSUME NEW k \in DOMAIN s.opts
      PROVE  k \in OptionsOf(p) /\ p[k] = s.opts[k]
  <2>1. k \in 1 .. O + W + n /\ k <= O
    BY <1>2
  <2>2. p[k] = s.opts[k]
    BY <1>1, <2>1
  <2> QED
    BY <2>1, <2>2, <1>0, <1>2 DEF OptionsOf
<1>4. ASSUME NEW k \in DOMAIN s.todo, IsOption(s.todo[k])
      PROVE  \E m \in OptionsOf(p) : p[m] = s.todo[k]
  <2> DEFINE m == O + W + k
  <2>1. m \in 1 .. O + W + n /\ ~(m <= O) /\ ~(m <= O + W) /\ m - O - W = k
    BY <1>2
  <2>2. p[m] = s.todo[k]
    BY <1>1, <2>1
  <2>3. m \in OptionsOf(p)
    BY <1>2, <1>4, <2>1, <2>2 DEF OptionsOf
  <2> QED
    BY <2>2, <2>3
<1>5. ASSUME Finished(s), NEW m \in OptionsOf(p)
      PROVE  m \in DOMAIN s.opts
  <2>1. m \in 1 .. O + W + n /\ IsOption(p[m])
    BY <1>2 DEF OptionsOf
  <2> SUFFICES ASSUME ~(m <= O) PROVE FALSE
    BY <2>1, <1>2
  <2>2. CASE m <= O + W
    <3>1. p[m] = s.words[m - O] /\ m - O \in 1 .. W
      BY <1>1, <1>2, <2>1, <2>2
    <3> QED
      BY <3>1, <2>1, <1>0, <1>2
  <2>3. CASE ~(m <= O + W)
    <3>1. p[m] = s.todo[m - O - W] /\ m - O - W \in 1 .. n
      BY <1>1, <1>2, <2>1, <2>3
    <3> QED
      BY <3>1, <2>1, <1>2, <1>5 DEF Finished
  <2> QED
    BY <2>2, <2>3
<1> QED
  BY <1>1, <1>3, <1>4, <1>5 DEF p

\* Every option in a permuted command line was given by the caller.
LEMMA OptionsGiven ==
    ASSUME NEW p, SameOptions(argv, p), NEW m \in OptionsOf(p)
    PROVE  \E k \in OptionsOf(argv) : argv[k] = p[m]
<1>1. PICK f \in [OptionsOf(argv) -> OptionsOf(p)] : Reorders(f, argv, p)
  BY DEF SameOptions
<1>2. PICK k \in OptionsOf(argv) : f[k] = m
  BY <1>1 DEF Reorders
<1> QED
  BY <1>1, <1>2 DEF Reorders

\* A parser takes option t of the command line, and leaves scan r.
Took(known, t, r, next) ==
    /\ next = [opt |-> IF t.opt \in known THEN t.opt ELSE "?",
               arg |-> t.arg, scan |-> r]
    /\ r.opts = Append(scan.opts, t) /\ ScanSplits(r)
    /\ SameOptions(argv, Permuted(r))
    /\ \E k \in DOMAIN argv : argv[k] = t

\* One step of a parser over a command line whose arguments are attached.
LEMMA ParserStep ==
    ASSUME argv \in Seq(Token), AllAttached, ScanSplits(scan),
           SameOptions(argv, Permuted(scan)), ~Finished(scan),
           NEW known, NEW takers, takers \subseteq Takers \cup {"c"}
    PROVE  \E t \in Token, r \in Scan :
              Took(known, t, r, NextOption(scan, known, takers))
<1>1. ASSUME NEW k \in DOMAIN scan.todo, IsOption(scan.todo[k])
      PROVE  \E m \in DOMAIN argv : argv[m] = scan.todo[k]
  <2>1. PICK i \in OptionsOf(Permuted(scan)) : Permuted(scan)[i] = scan.todo[k]
    BY <1>1, OptionsPlaced
  <2>2. PICK m \in OptionsOf(argv) : argv[m] = Permuted(scan)[i]
    BY <2>1, OptionsGiven
  <2> QED
    BY <2>1, <2>2 DEF OptionsOf
<1>2. \A k \in DOMAIN scan.todo :
         IsOption(scan.todo[k]) /\ scan.todo[k].opt \in takers => scan.todo[k].arg # NoArg
  BY <1>1 DEF AllAttached
<1>3. PICK t \in Token, r \in Scan :
         /\ NextOption(scan, known, takers)
              = [opt |-> IF t.opt \in known THEN t.opt ELSE "?",
                 arg |-> t.arg, scan |-> r]
         /\ IsOption(t) /\ r.opts = Append(scan.opts, t) /\ ScanSplits(r)
         /\ SameOptions(Permuted(scan), Permuted(r))
  BY <1>2, ScanStep
<1>4. Permuted(scan) \in Seq(Token) /\ Permuted(r) \in Seq(Token)
  BY <1>3, OptionsPlaced
<1>5. SameOptions(argv, Permuted(r))
  BY <1>3, <1>4, SameOptionsTransitive
<1>6. \E k \in DOMAIN argv : argv[k] = t
  <2> DEFINE o == Len(scan.opts) + 1
  <2>1. scan.opts \in Seq(Token) /\ r.opts \in Seq(Token)
    BY <1>3 DEF ScanSplits, Scan
  <2>2. o \in DOMAIN r.opts /\ r.opts[o] = t
    BY <1>3, <2>1, AppendProperties, SequencesAre
  <2>3. o \in OptionsOf(Permuted(r)) /\ Permuted(r)[o] = t
    BY <1>3, <2>2, OptionsPlaced
  <2>4. PICK k \in OptionsOf(argv) : argv[k] = t
    BY <1>5, <2>3, OptionsGiven
  <2> QED
    BY <2>4 DEF OptionsOf
<1> QED
  BY <1>3, <1>5, <1>6 DEF Took

\* A scan that begins.
LEMMA ScanBegins ==
    ASSUME NEW s \in Seq(Token)
    PROVE  ScanSplits(ScanOf(s)) /\ Permuted(ScanOf(s)) = s
<1>1. <<>> \in Seq(Token) /\ DOMAIN (<<>>) = {}
  BY EmptySeq, SequencesAre
<1>2. ScanSplits(ScanOf(s))
  BY <1>1 DEF ScanSplits, Scan, ScanOf
<1>3. Permuted(ScanOf(s)) = <<>> \o <<>> \o s
  BY DEF Permuted, ScanOf
<1>4. <<>> \o <<>> = <<>> /\ <<>> \o s = s
  BY <1>1, ConcatEmptySeq
<1> QED
  BY <1>2, <1>3, <1>4

-----------------------------------------------------------------------------
(* What is asked for, and what is done.                                    *)

\* The options of the loader's parser that want an argument.
LEMMA TakersAre == Takers = {"r", "m", "f", "l"} /\ DOMAIN TargetOf = {"r", "m", "f"}
BY DEF Takers, TargetOf

AsAsked ==
    (\A k \in DOMAIN argv : argv[k].opt # "h" /\ Obeyed(argv[k])) /\ LastLoaded(argv)

\* AsAsked says of a simulation that starts what RunsOnlyAsAsked asks.
LEMMA AsAskedMeans == (pc = "start" /\ AllAttached => AsAsked) => RunsOnlyAsAsked
<1> SUFFICES ASSUME AsAsked
             PROVE  \A k \in DOMAIN argv :
                       /\ argv[k].opt # "h" /\ (argv[k].opt = "l" => argv[k].arg # "list")
                       /\ Loads(argv[k]) =>
                             LET r == Request(argv[k]) IN
                             /\ r.name \in DOMAIN mem_register
                             /\ r.path \in DOMAIN Files
                             /\ (\A j \in k + 1 .. Len(argv) : ~Loads(argv[j])) =>
                                   Holds(memory[mem_register[r.name].location],
                                         r.path, r.vmem)
  BY Zenon DEF RunsOnlyAsAsked
<1> QED
  BY Zenon DEF AsAsked, Obeyed, Possible, LastLoaded, InMemory

\* The same of the next state.
LEMMA AsAskedNext == ((pc = "start" /\ AllAttached => AsAsked) => RunsOnlyAsAsked)'
<1>1. (pc = "start" /\ AllAttached => AsAsked) => RunsOnlyAsAsked
  BY AsAskedMeans
<1> QED
  BY <1>1, PTL

\* When the second scan is finished, all has been done that was asked for.
LEMMA FinishedAsAsked ==
    ASSUME argv \in Seq(Token), ScanSplits(scan), SameOptions(argv, Permuted(scan)),
           Finished(scan), HelpSeen(argv), ~exit_app,
           \A k \in DOMAIN scan.opts : Obeyed(scan.opts[k]), LastLoaded(scan.opts)
    PROVE  AsAsked
<1> DEFINE p == Permuted(scan)
           opts == scan.opts
<1>1. PICK f \in [OptionsOf(argv) -> OptionsOf(p)] : Reorders(f, argv, p)
  BY DEF SameOptions
<1>2. /\ OptionsOf(p) = DOMAIN opts
      /\ \A k \in DOMAIN opts : p[k] = opts[k]
  BY OptionsPlaced
<1>3. opts \in Seq(Token) /\ DOMAIN opts = 1 .. Len(opts) /\ Len(opts) \in Nat
      /\ DOMAIN argv = 1 .. Len(argv) /\ Len(argv) \in Nat
  BY SequencesAre DEF ScanSplits, Scan
<1> HIDE DEF p, opts
<1>4. \A k \in OptionsOf(argv) : f[k] \in DOMAIN opts /\ opts[f[k]] = argv[k]
  BY <1>1, <1>2 DEF Reorders
<1>5. \A k \in DOMAIN argv : k \notin OptionsOf(argv) => argv[k].opt = "word"
  BY DEF OptionsOf, IsOption
<1>6. \A k \in DOMAIN argv : k \notin OptionsOf(argv) =>
         argv[k].opt # "l" /\ argv[k].opt # "h" /\ ~Loads(argv[k])
  BY <1>5, TakersAre DEF Loads
<1>7. ASSUME NEW k \in DOMAIN argv
      PROVE  argv[k].opt # "h" /\ Obeyed(argv[k])
  <2>1. argv[k].opt # "h"
    BY DEF HelpSeen
  <2>2. CASE k \in OptionsOf(argv)
    BY <2>1, <2>2, <1>4 DEF opts
  <2>3. CASE k \notin OptionsOf(argv)
    BY <2>1, <2>3, <1>6 DEF Obeyed
  <2> QED
    BY <2>2, <2>3
<1>8. ASSUME NEW k \in DOMAIN argv, Loads(argv[k]),
             \A j \in k + 1 .. Len(argv) : ~Loads(argv[j])
      PROVE  InMemory(argv[k])
  <2>1. k \in OptionsOf(argv) /\ f[k] \in DOMAIN opts /\ opts[f[k]] = argv[k]
    BY <1>4, <1>6, <1>8
  <2>2. ASSUME NEW i \in f[k] + 1 .. Len(opts)
        PROVE  ~Loads(opts[i])
    <3>1. i \in DOMAIN opts /\ f[k] < i
      BY <1>3, <2>1
    <3>2. PICK j \in OptionsOf(argv) : f[j] = i
      BY <1>1, <1>2, <3>1 DEF Reorders
    <3>3. j \in 1 .. Len(argv) /\ k \in 1 .. Len(argv) /\ f[j] \in Nat /\ f[k] \in Nat
      BY <1>3, <1>4, <2>1 DEF OptionsOf
    <3>4. ~(j < k)
      <4>1. j < k => f[j] < f[k]
        BY <1>1, <2>1 DEF Reorders
      <4> QED
        BY <4>1, <3>1, <3>2, <3>3
    <3>5. j # k
      BY <3>1, <3>2, <3>3
    <3>6. j \in k + 1 .. Len(argv)
      BY <3>3, <3>4, <3>5
    <3> QED
      BY <3>2, <3>6, <1>4, <1>8
  <2>3. InMemory(opts[f[k]])
    BY <2>1, <2>2, <1>8 DEF LastLoaded, opts
  <2> QED
    BY <2>1, <2>3
<1> QED
  BY <1>7, <1>8 DEF AsAsked, LastLoaded

-----------------------------------------------------------------------------
(* The loader serves an option.                                            *)

MemoryShape == /\ DOMAIN memory = Scopes
               /\ \A s \in Scopes : DOMAIN memory[s] = 0 .. WordBytes * Depth - 1

\* An image is a vmem file if its name or the caller says so.
LEMMA NamedTypes ==
    ASSUME NEW name
    PROVE  /\ GetMemImageTypeByName(name) = "kMemImageVmem" <=> name = "vmem"
           /\ DetectMemImageType(name) = "kMemImageVmem" <=> VmemName(name)
<1>1. ASSUME NEW n
      PROVE  GetMemImageTypeByName(n) = "kMemImageVmem" <=> n = "vmem"
  <2>1. CASE n = "elf"
    <3>1. GetMemImageTypeByName(n) = "kMemImageElf"
      BY <2>1, Zenon DEF GetMemImageTypeByName
    <3> QED
      BY <2>1, <3>1
  <2>2. CASE n = "vmem"
    <3>1. n # "elf"
      BY <2>2
    <3>2. GetMemImageTypeByName(n) = "kMemImageVmem"
      BY <2>2, <3>1, Zenon DEF GetMemImageTypeByName
    <3> QED
      BY <2>2, <3>2
  <2>3. CASE n # "elf" /\ n # "vmem"
    <3>1. GetMemImageTypeByName(n) = "kMemImageUnknown"
      BY <2>3, Zenon DEF GetMemImageTypeByName
    <3> QED
      BY <2>3, <3>1
  <2> QED
    BY <2>1, <2>2, <2>3
<1>2. DetectMemImageType(name) = "kMemImageVmem" <=> VmemName(name)
  BY <1>1 DEF DetectMemImageType, VmemName
<1> QED
  BY <1>1, <1>2

\* The arguments with which the loader calls MemWrite are what the option says.
LEMMA TargetRequest ==
    ASSUME NEW t, t.opt \in DOMAIN TargetOf
    PROVE  /\ Loads(t) /\ t.opt # "l"
           /\ Request(t).name = TargetOf[t.opt] /\ Request(t).path = t.arg
           /\ Request(t).vmem <=> DetectMemImageType(t.arg) = "kMemImageVmem"
<1>1. Loads(t) /\ t.opt # "l"
  BY TakersAre DEF Loads
<1>2. Request(t) = [name |-> TargetOf[t.opt], path |-> t.arg, vmem |-> VmemName(t.arg)]
  BY <1>1, Zenon DEF Request
<1>3. /\ Request(t).name = TargetOf[t.opt] /\ Request(t).path = t.arg
      /\ Request(t).vmem = VmemName(t.arg)
  BY <1>2
<1> QED
  BY <1>1, <1>3, NamedTypes

\* The same of --meminit=name,file[,type].
LEMMA MeminitRequest ==
    ASSUME NEW t \in Token, t.opt = "l", t.arg # "list", ParseMemArg(t.arg).ok
    PROVE  /\ Loads(t)
           /\ Request(t).name = ParseMemArg(t.arg).name
           /\ Request(t).path = ParseMemArg(t.arg).path
           /\ Request(t).vmem <=> ParseMemArg(t.arg).type = "kMemImageVmem"
<1> DEFINE f == IF t.arg \in DOMAIN Fields THEN Fields[t.arg] ELSE <<t.arg>>
           type == CASE Len(f) < 2 -> "kMemImageUnknown"
                     [] Len(f) = 2 -> DetectMemImageType(f[2])
                     [] OTHER      -> GetMemImageTypeByName(f[3])
           path == IF Len(f) >= 2 THEN f[2] ELSE ""
           ok == /\ Len(f) >= 2
                 /\ \A k \in 1 .. 3 : k < Len(f) => f[k] # ""
<1>1. Loads(t)
  BY TakersAre DEF Loads
<1>2. ParseMemArg(t.arg) = [ok |-> ok, name |-> f[1], path |-> path, type |-> type]
  BY Zenon DEF ParseMemArg
<1> HIDE DEF type, path, ok
<1>3. /\ ok /\ ParseMemArg(t.arg).name = f[1] /\ ParseMemArg(t.arg).path = path
      /\ ParseMemArg(t.arg).type = type
  BY <1>2
<1>4. t.arg \in DOMAIN Fields
  <2> SUFFICES ASSUME t.arg \notin DOMAIN Fields PROVE FALSE
    OBVIOUS
  <2>1. Len(f) = 1
    OBVIOUS
  <2> HIDE DEF f
  <2>2. Len(f) >= 2
    BY <1>3 DEF ok
  <2> QED
    BY ONLY <2>1, <2>2
<1>5. f = Fields[t.arg]
  BY <1>4
<1>6. Len(f) \in Nat /\ Len(f) >= 2
  <2>1. f \in Seq(STRING)
    BY <1>4, <1>5, MemUtilAssumption
  <2> QED
    BY <2>1, <1>3, LenProperties DEF ok
<1> HIDE DEF f
<1>7. path = f[2]
  BY <1>6 DEF path
<1>8. Request(t) = [name |-> f[1], path |-> f[2],
                    vmem |-> IF Len(f) >= 3 THEN f[3] = "vmem" ELSE VmemName(f[2])]
  BY <1>5, Zenon DEF Request
<1>9. /\ Request(t).name = f[1] /\ Request(t).path = f[2]
      /\ Request(t).vmem = IF Len(f) >= 3 THEN f[3] = "vmem" ELSE VmemName(f[2])
  BY <1>8
<1>10. Request(t).vmem <=> type = "kMemImageVmem"
  <2>1. CASE Len(f) = 2
    <3>1. ~(Len(f) < 2) /\ ~(Len(f) >= 3)
      BY <2>1
    <3>2. type = DetectMemImageType(f[2])
      BY <2>1, <3>1, Zenon DEF type
    <3> QED
      BY <3>1, <3>2, <1>9, NamedTypes
  <2>2. CASE Len(f) # 2
    <3>1. ~(Len(f) < 2) /\ Len(f) >= 3
      <4>1. \A l \in Nat : l >= 2 /\ l # 2 => ~(l < 2) /\ l >= 3
        OBVIOUS
      <4> QED
        BY <2>2, <1>6, <4>1, Zenon
    <3>2. type = GetMemImageTypeByName(f[3])
      BY <2>2, <3>1, Zenon DEF type
    <3> QED
      BY <3>1, <3>2, <1>9, NamedTypes
  <2> QED
    BY <2>1, <2>2
<1> QED
  BY <1>1, <1>3, <1>7, <1>9, <1>10

\* MemWrite begins to serve the option, does so at once, or fails.
LEMMA MemWriteServes ==
    ASSUME MemoryShape, NEW t, Loads(t), t.opt = "l" => t.arg # "list",
           NEW type, Request(t).vmem <=> type = "kMemImageVmem",
           MemWrite(Request(t).name, Request(t).path, type)
    PROVE  /\ MemoryShape' /\ UNCHANGED mem_register
           /\ job'.step # "failed" => Serves(t)'
<1> DEFINE name == Request(t).name
           path == Request(t).path
           area == mem_register[name]
           ok == /\ name \in DOMAIN mem_register
                 /\ IsFileReadable(path) /\ area.location \in Scopes
           written == [b \in DOMAIN memory[area.location] |->
                         IF \E k \in DOMAIN Files[path].segments :
                               LET s == Files[path].segments[k]
                               IN  b \in s.paddr .. SegmentEnd(s) - 1
                         THEN <<path, b>> ELSE memory[area.location][b]]
           Elf == /\ ok /\ type = "kMemImageElf"
                  /\ job' = [step |-> "open", path |-> path, area |-> area]
                  /\ UNCHANGED memory
           Vmem == /\ ok /\ type = "kMemImageVmem"
                   /\ memory' = [memory EXCEPT ![area.location] = written]
                   /\ job' = [step |-> "loaded"]
           Fails == job' = [step |-> "failed"] /\ UNCHANGED memory
<1>1. UNCHANGED mem_register
  BY DEF MemWrite
<1>2. Elf \/ Vmem \/ Fails
  <2>1. CASE ok /\ type = "kMemImageElf"
    BY <2>1, Zenon DEF MemWrite
  <2>2. CASE ok /\ type = "kMemImageVmem"
    <3>1. type # "kMemImageElf"
      BY <2>2
    <3> QED
      BY <2>2, <3>1, Zenon DEF MemWrite, Ends
  <2>3. CASE ~(ok /\ type = "kMemImageElf") /\ ~(ok /\ type = "kMemImageVmem")
    BY <2>3, Zenon DEF MemWrite, Ends
  <2> QED
    BY <2>1, <2>2, <2>3
<1>3. ok => Obeyed(t)
  BY DEF Obeyed, Possible, IsFileReadable
<1>4. CASE Elf
  <2>1. /\ job'.step = "open" /\ job'.path = path /\ job'.area = area
        /\ "path" \in DOMAIN job' /\ "area" \in DOMAIN job'
    BY <1>4
  <2>2. ~Request(t).vmem
    BY <1>4
  <2>3. Obeyed(t)'
    BY <1>1, <1>3, <1>4 DEF Obeyed, Possible
  <2>4. Serves(t)'
    BY <1>1, <1>4, <2>1, <2>2, <2>3 DEF Serves
  <2>5. MemoryShape'
    BY <1>4 DEF MemoryShape
  <2> QED
    BY <1>1, <2>4, <2>5
<1>5. CASE Vmem
  <2>1. job'.step = "loaded"
    BY <1>5
  <2>2. area.location \in DOMAIN memory
    BY <1>5 DEF MemoryShape
  <2>3. memory'[area.location] = written /\ DOMAIN memory' = DOMAIN memory
    BY <1>5, <2>2
  <2>4. Obeyed(t)'
    BY <1>1, <1>3, <1>5 DEF Obeyed, Possible
  <2>5. path \in DOMAIN Files /\ Request(t).vmem
    BY <1>5 DEF IsFileReadable
  <2>6. Request(t).vmem = TRUE
    <3>1. Request(t).vmem \in BOOLEAN
      BY Zenon DEF Request, VmemName
    <3> QED
      BY <3>1, <2>5
  <2>7. Holds(written, path, TRUE)
    BY <2>5, VmemHolds
  <2>8. InMemory(t)'
    <3> HIDE DEF written
    <3>1. memory'[mem_register'[name].location] = written
      BY <1>1, <2>3
    <3> QED
      BY <2>6, <2>7, <3>1, Zenon DEF InMemory
  <2>9. Serves(t)'
    BY <2>1, <2>4, <2>8 DEF Serves
  <2>10. MemoryShape'
    <3>1. ASSUME NEW s \in Scopes
          PROVE  DOMAIN memory'[s] = 0 .. WordBytes * Depth - 1
      <4>1. DOMAIN written = DOMAIN memory[area.location]
        OBVIOUS
      <4>2. memory'[s] = IF s = area.location THEN written ELSE memory[s]
        <5> HIDE DEF written
        <5> QED
          BY <1>5 DEF MemoryShape
      <4> HIDE DEF written
      <4> QED
        BY <4>1, <4>2, <1>5 DEF MemoryShape
    <3> QED
      BY <3>1, <2>3 DEF MemoryShape
  <2> QED
    BY <1>1, <2>9, <2>10
<1>6. CASE Fails
  BY <1>1, <1>6 DEF MemoryShape
<1> QED
  BY <1>2, <1>4, <1>5, <1>6

\* A step of the load goes on serving the option, or fails.
LEMMA LoadStepServes ==
    ASSUME MemoryShape, LoadInv, NEW t, job.step # "failed" => Serves(t), LoadStep
    PROVE  /\ MemoryShape' /\ UNCHANGED mem_register
           /\ job'.step # "failed" => Serves(t)'
<1> DEFINE name == Request(t).name
           path == Request(t).path
           Working == {"open", "begin", "inspect", "copy", "words"}
           Goal == /\ MemoryShape' /\ UNCHANGED mem_register
                   /\ job'.step # "failed" => Serves(t)'
           Advances(step) == job' = [job EXCEPT !.step = step]
<1>1. "step" \in DOMAIN job
  BY DEF LoadInv
<1>2. ASSUME job.step \in Working
      PROVE  /\ Loads(t) /\ Obeyed(t)
             /\ "path" \in DOMAIN job /\ "area" \in DOMAIN job
             /\ job.path = path /\ ~Request(t).vmem
             /\ job.area = mem_register[name]
             /\ job.area.location \in Scopes
             /\ job.step = "words" => buf = Image(job.path)
  BY <1>2 DEF Serves
<1>3. ASSUME job.step \in Working, NEW step \in {"begin", "inspect", "copy", "words"},
             Advances(step), UNCHANGED <<mem_register, memory>>,
             step = "words" => buf' = Image(job.path)
      PROVE  Goal
  <2>1. /\ job'.step = step /\ "path" \in DOMAIN job' /\ "area" \in DOMAIN job'
        /\ job'.path = job.path /\ job'.area = job.area
    BY <1>1, <1>2, <1>3
  <2>2. Obeyed(t)'
    BY <1>2, <1>3 DEF Obeyed, Possible
  <2>3. Serves(t)'
    BY <1>2, <1>3, <2>1, <2>2 DEF Serves
  <2> QED
    BY <1>3, <2>3 DEF MemoryShape
<1>4. ASSUME NEW h, LoadFails(h)
      PROVE  Goal
  BY <1>4 DEF LoadFails, Ends, MemoryShape
<1>5. ASSUME NEW ok \in BOOLEAN, OpenElf(ok)
      PROVE  Goal
  <2>1. /\ job.step \in Working
        /\ \/ Advances("begin") /\ UNCHANGED <<mem_register, memory>>
           \/ LoadFails(held)
    BY <1>5 DEF OpenElf
  <2> QED
    BY <1>3, <1>4, <2>1
<1>6. ASSUME NEW ok \in BOOLEAN, BeginElf(ok)
      PROVE  Goal
  <2>1. /\ job.step \in Working
        /\ \/ Advances("inspect") /\ UNCHANGED <<mem_register, memory>>
           \/ LoadFails(ReturnFdEnd(held))
    BY <1>6 DEF BeginElf
  <2> QED
    BY <1>3, <1>4, <2>1
<1>7. ASSUME NEW ok \in BOOLEAN, InspectElf(ok)
      PROVE  Goal
  <2>1. /\ job.step \in Working
        /\ \/ Advances("copy") /\ UNCHANGED <<mem_register, memory>>
           \/ LoadFails(ReturnElfEnd(held))
    BY <1>7 DEF InspectElf
  <2> QED
    BY <1>3, <1>4, <2>1
<1>8. ASSUME NEW ok \in BOOLEAN, CopySegments(ok)
      PROVE  Goal
  <2>1. /\ job.step \in Working
        /\ \/ /\ Advances("words") /\ UNCHANGED <<mem_register, memory>>
              /\ buf' = Image(job.path)
           \/ LoadFails(ReturnElfEnd(held \ {"buf"}))
    BY <1>8 DEF CopySegments, Image
  <2> QED
    BY <1>3, <1>4, <2>1
<1>9. CASE WriteWords
  <2> DEFINE loc == job.area.location
             words == WordCount(LenBytes(job.path))
             written == [b \in DOMAIN memory[loc] |->
                            CASE b \div WordBytes >= words -> memory[loc][b]
                              [] b < LenBytes(job.path) -> buf[b]
                              [] OTHER -> Garbage]
  <2>1. /\ job.step = "words" /\ UNCHANGED mem_register
        /\ memory' = [memory EXCEPT ![loc] = written]
        /\ job' = [step |-> IF words <= Depth THEN "loaded" ELSE "failed"]
    BY <1>9, Zenon DEF WriteWords, Ends
  <2>2. job.step \in Working
    BY <2>1
  <2>3. /\ Loads(t) /\ Obeyed(t) /\ job.path = path /\ ~Request(t).vmem
        /\ job.area = mem_register[name] /\ loc \in Scopes /\ buf = Image(path)
    BY <1>2, <2>1, <2>2
  <2>4. /\ loc \in DOMAIN memory /\ DOMAIN memory' = DOMAIN memory
        /\ memory'[loc] = written
        /\ DOMAIN memory[loc] = 0 .. WordBytes * Depth - 1
    <3> HIDE DEF written
    <3> QED
      BY <2>1, <2>3 DEF MemoryShape
  <2>5. MemoryShape'
    <3>1. ASSUME NEW s \in Scopes
          PROVE  DOMAIN memory'[s] = 0 .. WordBytes * Depth - 1
      <4>1. DOMAIN written = DOMAIN memory[loc]
        OBVIOUS
      <4> HIDE DEF written
      <4>2. memory'[s] = IF s = loc THEN written ELSE memory[s]
        BY <2>1 DEF MemoryShape
      <4> QED
        BY <4>1, <4>2, <2>4 DEF MemoryShape
    <3> QED
      BY <3>1, <2>4 DEF MemoryShape
  <2>6. ASSUME job'.step # "failed"
        PROVE  Serves(t)'
    <3>1. job'.step = "loaded" /\ words <= Depth
      <4> HIDE DEF words
      <4> QED
        BY <2>1, <2>6
    <3>2. path \in DOMAIN Files
      BY <2>3 DEF Obeyed, Possible
    <3>3. written = [b \in 0 .. WordBytes * Depth - 1 |->
                        CASE b \div WordBytes >= WordCount(LenBytes(path)) -> memory[loc][b]
                          [] b < LenBytes(path) -> Image(path)[b]
                          [] OTHER -> Garbage]
      BY <2>3, <2>4, ZenonT(60)
    <3>4. WordCount(LenBytes(path)) <= Depth
      BY <2>3, <3>1
    <3>5. Holds(written, path, FALSE)
      <4> HIDE DEF written
      <4> QED
        BY <3>2, <3>3, <3>4, ElfHolds
    <3>6. Request(t).vmem = FALSE
      <4>1. Request(t).vmem \in BOOLEAN
        BY Zenon DEF Request, VmemName
      <4> QED
        BY <4>1, <2>3
    <3>7. InMemory(t)'
      <4> HIDE DEF written
      <4>1. memory'[mem_register'[name].location] = written
        BY <2>1, <2>3, <2>4
      <4> QED
        BY <3>5, <3>6, <4>1, Zenon DEF InMemory
    <3>8. Obeyed(t)'
      BY <2>1, <2>3 DEF Obeyed, Possible
    <3> QED
      BY <2>3, <3>1, <3>7, <3>8 DEF Serves
  <2> QED
    BY <2>1, <2>5, <2>6
<1> QED
  BY <1>5, <1>6, <1>7, <1>8, <1>9 DEF LoadStep

-----------------------------------------------------------------------------
(* Steps.                                                                  *)

LoadedInv == ScanInv /\ HelpInv /\ ServedInv /\ RunsOnlyAsAsked

\* The state these invariants speak of.
loadVars == <<pc, argv, scan, exit_app, memVars>>

\* Outside main and before the loop.
LEMMA LoadedOutside ==
    ASSUME pc \notin SetupPcs
    PROVE  LoadedInv
BY DEF LoadedInv, ScanInv, HelpInv, ServedInv, RunsOnlyAsAsked, SetupPcs

\* Steps that change nothing these invariants speak of.
LEMMA LoadedUnchanged ==
    ASSUME LoadedInv, UNCHANGED loadVars
    PROVE  LoadedInv'
<1>1. UNCHANGED <<pc, argv, scan, exit_app, mem_register, memory, job, buf>>
  BY DEF loadVars, memVars
<1>2. AllAttached' = AllAttached
  BY <1>1 DEF AllAttached
<1>3. ScanInv'
  BY <1>1, <1>2 DEF LoadedInv, ScanInv
<1>4. HelpInv'
  BY <1>1, <1>2 DEF LoadedInv, HelpInv, HelpSeen
<1>5. \A t : /\ Obeyed(t)' <=> Obeyed(t)
             /\ InMemory(t)' <=> InMemory(t)
  BY <1>1, Zenon DEF Obeyed, Possible, InMemory
<1>6. \A t : Serves(t) => Serves(t)'
  BY <1>1, <1>5 DEF Serves
<1>7. \A s : LastLoaded(s) => LastLoaded(s)'
  BY <1>5 DEF LastLoaded
<1>8. ServedInv'
  BY <1>1, <1>2, <1>5, <1>6, <1>7 DEF LoadedInv, ServedInv
<1>9. RunsOnlyAsAsked'
  BY <1>1, <1>2, Zenon DEF LoadedInv, RunsOnlyAsAsked
<1> QED
  BY <1>3, <1>4, <1>8, <1>9 DEF LoadedInv

\* Steps that leave the setup of the simulation.
LEMMA OutsideNext == (pc \notin SetupPcs => LoadedInv)'
<1>1. pc \notin SetupPcs => LoadedInv
  BY LoadedOutside
<1> QED
  BY <1>1, PTL

\* The phases before the loop.
LEMMA SetupAre == SetupPcs = {"main", "options", "extensions", "memory", "start"}
BY DEF SetupPcs

\* A sequence longer by one element.
LEMMA Appended ==
    ASSUME NEW s \in Seq(Token), NEW t \in Token
    PROVE  /\ Append(s, t) # <<>> /\ Len(Append(s, t)) = Len(s) + 1
           /\ Len(s) \in Nat /\ DOMAIN s = 1 .. Len(s)
           /\ DOMAIN Append(s, t) = 1 .. Len(s) + 1
           /\ \A k \in 1 .. Len(s) : Append(s, t)[k] = s[k]
           /\ Append(s, t)[Len(s) + 1] = t
           /\ \A k \in DOMAIN Append(s, t) : k \in DOMAIN s \/ k = Len(s) + 1
<1>1. Append(s, t) \in Seq(Token)
  BY AppendProperties
<1>2. /\ Append(s, t) # <<>> /\ Len(Append(s, t)) = Len(s) + 1
      /\ \A k \in 1 .. Len(s) : Append(s, t)[k] = s[k]
      /\ Append(s, t)[Len(s) + 1] = t
  BY AppendProperties
<1>3. /\ Len(s) \in Nat /\ DOMAIN s = 1 .. Len(s)
      /\ DOMAIN Append(s, t) = 1 .. Len(s) + 1
  BY <1>1, <1>2, SequencesAre
<1> QED
  BY <1>2, <1>3

\* main registers the memory, and begins the first scan.
LEMMA MainLoaded ==
    ASSUME LoadedInv, Main
    PROVE  LoadedInv'
<1>1. /\ pc = "main" /\ pc' \in {"main", "options"}
      /\ UNCHANGED <<argv, scan, exit_app, memory>>
  BY DEF Main, RegisterMemoryArea, memVars, parseVars
<1>2. argv \in Seq(Token) /\ scan = ScanOf(argv) /\ (AllAttached => MemoryShape)
  BY <1>1, SetupAre DEF LoadedInv, ScanInv, ServedInv, MemoryShape
<1>3. ScanSplits(scan) /\ SameOptions(argv, Permuted(scan)) /\ scan.opts = <<>>
  BY <1>2, ScanBegins, SameOptionsReflexive DEF ScanOf
<1>4. ScanInv'
  BY <1>1, <1>2, <1>3 DEF ScanInv
<1>5. HelpInv'
  BY <1>1, <1>3 DEF HelpInv, HelpSeen
<1>6. ServedInv'
  BY <1>1, <1>2 DEF ServedInv, MemoryShape, AllAttached
<1>7. RunsOnlyAsAsked'
  BY <1>1, Zenon DEF RunsOnlyAsAsked
<1> QED
  BY <1>4, <1>5, <1>6, <1>7 DEF LoadedInv

\* The controller's parser takes an option.
LEMMA ParseOptionLoaded ==
    ASSUME LoadedInv, ParseOption, UNCHANGED memVars
    PROVE  LoadedInv'
<1>1. /\ pc = "options" /\ ~Finished(scan) /\ UNCHANGED <<argv, memory>>
      /\ pc' \in {"options", "exited"}
      /\ scan' = NextOption(scan, {"c", "t", "h"}, {"c"}).scan
      /\ exit_app' = (exit_app \/ NextOption(scan, {"c", "t", "h"}, {"c"}).opt = "h")
  BY DEF ParseOption, Exit, memVars
<1>2. argv \in Seq(Token) /\ (AllAttached => MemoryShape)
  BY <1>1, SetupAre DEF LoadedInv, ScanInv, ServedInv, MemoryShape
<1>3. CASE pc' = "exited"
  BY <1>3, OutsideNext, SetupAre
<1>4. CASE pc' = "options" /\ ~AllAttached
  <2>1. ~AllAttached'
    BY <1>1, <1>4 DEF AllAttached
  <2> QED
    BY <1>1, <1>2, <1>4, <2>1
       DEF LoadedInv, ScanInv, HelpInv, ServedInv, RunsOnlyAsAsked
<1>5. CASE pc' = "options" /\ AllAttached
  <2>1. /\ ScanSplits(scan) /\ SameOptions(argv, Permuted(scan))
        /\ HelpSeen(scan.opts)
    BY <1>1, <1>5 DEF LoadedInv, ScanInv, HelpInv
  <2>2. PICK t \in Token, r \in Scan :
           /\ NextOption(scan, {"c", "t", "h"}, {"c"})
                = [opt |-> IF t.opt \in {"c", "t", "h"} THEN t.opt ELSE "?",
                   arg |-> t.arg, scan |-> r]
           /\ r.opts = Append(scan.opts, t) /\ ScanSplits(r)
           /\ SameOptions(argv, Permuted(r))
    <3>1. {"c"} \subseteq Takers \cup {"c"}
      OBVIOUS
    <3> DEFINE known == {"c", "t", "h"}
               takers == {"c"}
    <3> HIDE DEF known, takers
    <3>2. takers \subseteq Takers \cup {"c"}
      BY <3>1 DEF takers
    <3>3. \E t \in Token, r \in Scan :
             Took(known, t, r, NextOption(scan, known, takers))
      BY <1>1, <1>2, <1>5, <2>1, <3>2, ParserStep, Zenon
    <3> QED
      BY <3>3, Zenon DEF known, takers, Took
  <2>3. scan' = r /\ exit_app' = (exit_app \/ t.opt = "h")
    BY <1>1, <2>2
  <2>4. scan.opts \in Seq(Token)
    BY <2>1 DEF ScanSplits, Scan
  <2>5. HelpSeen(scan.opts)'
    <3> SUFFICES ASSUME NEW k \in DOMAIN r.opts, r.opts[k].opt = "h"
                 PROVE  exit_app'
      BY <2>3 DEF HelpSeen
    <3>1. CASE k \in DOMAIN scan.opts
      <4>1. r.opts[k] = scan.opts[k]
        BY <2>2, <2>4, <3>1, Appended
      <4> QED
        BY <2>1, <2>3, <3>1, <4>1 DEF HelpSeen
    <3>2. CASE k = Len(scan.opts) + 1
      <4>1. r.opts[k] = t
        BY <2>2, <2>4, <3>2, Appended
      <4> QED
        BY <2>3, <4>1
    <3> QED
      BY <2>2, <2>4, <3>1, <3>2, Appended
  <2>6. ScanInv'
    BY <1>1, <1>2, <1>5, <2>2, <2>3 DEF ScanInv
  <2>7. HelpInv'
    BY <1>5, <2>5 DEF HelpInv
  <2>8. ServedInv'
    BY <1>1, <1>2, <1>5 DEF ServedInv, MemoryShape
  <2>9. RunsOnlyAsAsked'
    BY <1>5, Zenon DEF RunsOnlyAsAsked
  <2> QED
    BY <2>6, <2>7, <2>8, <2>9 DEF LoadedInv
<1> QED
  BY <1>1, <1>3, <1>4, <1>5

\* The controller's parser has finished, and the loader's begins.
LEMMA OptionsParsedLoaded ==
    ASSUME LoadedInv, OptionsParsed, UNCHANGED memVars
    PROVE  LoadedInv'
<1>1. /\ pc = "options" /\ Finished(scan) /\ UNCHANGED <<argv, exit_app, memory>>
      /\ pc' = "extensions" /\ scan' = ScanOf(Permuted(scan))
  BY DEF OptionsParsed, memVars
<1>2. argv \in Seq(Token) /\ (AllAttached => MemoryShape)
  BY <1>1, SetupAre DEF LoadedInv, ScanInv, ServedInv, MemoryShape
<1>3. CASE ~AllAttached
  <2>1. ~AllAttached'
    BY <1>1, <1>3 DEF AllAttached
  <2> QED
    BY <1>1, <1>2, <2>1
       DEF LoadedInv, ScanInv, HelpInv, ServedInv, RunsOnlyAsAsked
<1>4. CASE AllAttached
  <2>1. /\ ScanSplits(scan) /\ SameOptions(argv, Permuted(scan))
        /\ HelpSeen(scan.opts)
    BY <1>1, <1>4 DEF LoadedInv, ScanInv, HelpInv
  <2>2. /\ Permuted(scan) \in Seq(Token)
        /\ OptionsOf(Permuted(scan)) = DOMAIN scan.opts
        /\ \A k \in DOMAIN scan.opts : Permuted(scan)[k] = scan.opts[k]
    BY <1>1, <2>1, OptionsPlaced
  <2>3. /\ ScanSplits(scan)' /\ SameOptions(argv, Permuted(scan))'
        /\ scan'.opts = <<>>
    <3>1. /\ ScanSplits(ScanOf(Permuted(scan)))
          /\ Permuted(ScanOf(Permuted(scan))) = Permuted(scan)
      BY <2>2, ScanBegins
    <3>2. ScanOf(Permuted(scan)).opts = <<>>
      BY DEF ScanOf
    <3> QED
      BY <1>1, <2>1, <3>1, <3>2
  <2>4. HelpSeen(argv)
    <3> SUFFICES ASSUME NEW k \in DOMAIN argv, argv[k].opt = "h"
                 PROVE  exit_app
      BY DEF HelpSeen
    <3>1. PICK f \in [OptionsOf(argv) -> OptionsOf(Permuted(scan))] :
             Reorders(f, argv, Permuted(scan))
      BY <2>1 DEF SameOptions
    <3>2. k \in OptionsOf(argv)
      BY DEF OptionsOf, IsOption
    <3>3. f[k] \in DOMAIN scan.opts /\ scan.opts[f[k]] = argv[k]
      BY <2>2, <3>1, <3>2 DEF Reorders
    <3> QED
      BY <2>1, <3>3 DEF HelpSeen
  <2>5. ScanInv'
    BY <1>1, <1>2, <2>3 DEF ScanInv
  <2>6. HelpInv'
    BY <1>1, <2>4 DEF HelpInv, HelpSeen
  <2>7. DOMAIN scan'.opts = {}
    BY <2>3
  <2>8. ServedInv'
    BY <1>1, <1>2, <1>4, <2>7 DEF ServedInv, MemoryShape, LastLoaded
  <2>9. RunsOnlyAsAsked'
    BY <1>1, Zenon DEF RunsOnlyAsAsked
  <2> QED
    BY <2>5, <2>6, <2>8, <2>9 DEF LoadedInv
<1> QED
  BY <1>3, <1>4

\* What ParseCLIArguments does with an option.
LEMMA ParseCases ==
    ASSUME ParseCLIArguments, NEW t, NEW r,
           NextOption(scan, Takers \cup {"h"}, Takers)
             = [opt |-> IF t.opt \in Takers \cup {"h"} THEN t.opt ELSE "?",
                arg |-> t.arg, scan |-> r]
    PROVE  /\ pc = "extensions" /\ ~Finished(scan) /\ scan' = r /\ UNCHANGED argv
           /\ \/ /\ t.opt \in DOMAIN TargetOf
                 /\ MemWrite(TargetOf[t.opt], t.arg, DetectMemImageType(t.arg))
                 /\ pc' = "memory" /\ (exit_app => exit_app')
              \/ /\ t.opt = "l" /\ t.arg # "list" /\ ParseMemArg(t.arg).ok
                 /\ MemWrite(ParseMemArg(t.arg).name, ParseMemArg(t.arg).path,
                             ParseMemArg(t.arg).type)
                 /\ pc' = "memory" /\ (exit_app => exit_app')
              \/ pc' = "exited"
              \/ /\ t.opt = "h" /\ ~exit_app
                 /\ pc' = "start" /\ UNCHANGED memVars
              \/ /\ t.opt \notin Takers \cup {"h"} /\ (exit_app => exit_app')
                 /\ UNCHANGED <<pc, memVars>>
<1> DEFINE n == NextOption(scan, Takers \cup {"h"}, Takers)
           m == ParseMemArg(n.arg)
           Target == n.opt \in DOMAIN TargetOf
           Meminit == n.opt = "l" /\ n.arg # "list" /\ m.ok
           Wrong == n.opt = ":" \/ (n.opt = "l" /\ n.arg # "list" /\ ~m.ok)
           Stop == n.opt = "h" \/ (n.opt = "l" /\ n.arg = "list")
           A == /\ MemWrite(TargetOf[n.opt], n.arg, DetectMemImageType(n.arg))
                /\ pc' = "memory" /\ UNCHANGED exit_code
           B == /\ MemWrite(m.name, m.path, m.type)
                /\ pc' = "memory" /\ UNCHANGED exit_code
           C == Exit(1) /\ UNCHANGED memVars
           D == /\ IF exit_app' THEN Exit(0) ELSE pc' = "start" /\ UNCHANGED exit_code
                /\ UNCHANGED memVars
           E == UNCHANGED <<pc, exit_code, memVars>>
<1>1. /\ n.opt = IF t.opt \in Takers \cup {"h"} THEN t.opt ELSE "?"
      /\ n.arg = t.arg /\ n.scan = r
  OBVIOUS
<1>2. /\ pc = "extensions" /\ ~Finished(scan) /\ scan' = n.scan /\ UNCHANGED argv
      /\ exit_app' = ExitApp(n)
  BY DEF ParseCLIArguments
<1>3. (CASE Target -> A [] Meminit -> B [] Wrong -> C [] Stop -> D [] OTHER -> E)
  BY Zenon DEF ParseCLIArguments
<1>4. exit_app' <=> exit_app \/ (n.opt = "l" /\ n.arg = "list")
  BY <1>2 DEF ExitApp
<1>5. Target => n.opt \in {"r", "m", "f"}
  BY TakersAre
<1>6. /\ Target => A
      /\ ~Target /\ Meminit => B
      /\ ~Target /\ ~Meminit /\ Wrong => C
      /\ ~Target /\ ~Meminit /\ ~Wrong /\ Stop => D
      /\ ~Target /\ ~Meminit /\ ~Wrong /\ ~Stop => E
  <2>1. /\ Meminit => ~Target /\ ~Wrong /\ ~Stop
        /\ Wrong => ~Target /\ ~Meminit /\ ~Stop
        /\ Stop => ~Target /\ ~Meminit /\ ~Wrong
    BY <1>5
  <2> HIDE DEF Target, Meminit, Wrong, Stop, A, B, C, D, E
  <2>2. Target => A
    BY <1>3, <2>1, Zenon
  <2>3. Meminit => B
    BY <1>3, <2>1, Zenon
  <2>4. Wrong => C
    BY <1>3, <2>1, Zenon
  <2>5. Stop => D
    BY <1>3, <2>1, Zenon
  <2>6. ~Target /\ ~Meminit /\ ~Wrong /\ ~Stop => E
    BY <1>3, Zenon
  <2> QED
    BY <2>2, <2>3, <2>4, <2>5, <2>6
<1>7. n.opt = "h" <=> t.opt = "h"
  BY <1>1
<1>8. n.opt = "l" <=> t.opt = "l"
  BY <1>1, TakersAre
<1>9. ASSUME Target
      PROVE  t.opt = n.opt
  BY <1>1, <1>5, <1>9
<1>10. exit_app => exit_app'
  BY <1>4
<1>11. C => pc' = "exited"
  BY DEF Exit
<1>12. ASSUME Stop, D
       PROVE  \/ pc' = "exited"
              \/ t.opt = "h" /\ ~exit_app /\ pc' = "start" /\ UNCHANGED memVars
  BY <1>4, <1>7, <1>12 DEF Exit
<1>13. ~Target /\ ~Meminit /\ ~Wrong /\ ~Stop => t.opt \notin Takers \cup {"h"}
  BY <1>1, TakersAre
<1>14. Target /\ A => /\ t.opt \in DOMAIN TargetOf /\ pc' = "memory"
                     /\ MemWrite(TargetOf[t.opt], t.arg, DetectMemImageType(t.arg))
  BY <1>1, <1>9
<1>15. Meminit /\ B => /\ t.opt = "l" /\ t.arg # "list" /\ ParseMemArg(t.arg).ok
                      /\ MemWrite(ParseMemArg(t.arg).name, ParseMemArg(t.arg).path,
                                  ParseMemArg(t.arg).type)
                      /\ pc' = "memory"
  BY <1>1, <1>8
<1>16. E => UNCHANGED <<pc, memVars>>
  OBVIOUS
<1> HIDE DEF Target, Meminit, Wrong, Stop, A, B, C, D, E
<1>17. scan' = r
  BY <1>1, <1>2
<1> QED
  BY <1>2, <1>6, <1>10, <1>11, <1>12, <1>13, <1>14, <1>15, <1>16, <1>17

\* An option that is not an image to load is no load of its own.
LEMMA LastLoadedAppended ==
    ASSUME NEW s \in Seq(Token), NEW t \in Token, LastLoaded(s), ~Loads(t)
    PROVE  LastLoaded(Append(s, t))
<1> DEFINE a == Append(s, t)
<1>1. /\ Len(a) = Len(s) + 1 /\ Len(s) \in Nat /\ DOMAIN s = 1 .. Len(s)
      /\ \A k \in 1 .. Len(s) : a[k] = s[k]
      /\ a[Len(s) + 1] = t
      /\ \A k \in DOMAIN a : k \in DOMAIN s \/ k = Len(s) + 1
  BY Appended
<1> HIDE DEF a
<1> SUFFICES ASSUME NEW k \in DOMAIN a, Loads(a[k]),
                    \A j \in k + 1 .. Len(a) : ~Loads(a[j])
             PROVE  InMemory(a[k])
  BY DEF LastLoaded, a
<1>2. k \in DOMAIN s /\ a[k] = s[k]
  BY <1>1
<1>3. ASSUME NEW j \in k + 1 .. Len(s)
      PROVE  ~Loads(s[j])
  <2>1. j \in k + 1 .. Len(a) /\ j \in 1 .. Len(s)
    BY <1>1, <1>2
  <2>2. a[j] = s[j]
    BY <1>1, <2>1
  <2> QED
    BY <2>1, <2>2
<1> QED
  BY <1>2, <1>3 DEF LastLoaded

\* The last of the options asks for an image that is in its memory.
LEMMA LastLoadedLast ==
    ASSUME NEW s \in Seq(Token), s # <<>>, Loads(s[Len(s)]), InMemory(s[Len(s)])
    PROVE  LastLoaded(s)
<1>1. Len(s) \in Nat /\ DOMAIN s = 1 .. Len(s) /\ Len(s) # 0
  BY SequencesAre, EmptySeq
<1> SUFFICES ASSUME NEW k \in DOMAIN s,
                    \A j \in k + 1 .. Len(s) : ~Loads(s[j])
             PROVE  InMemory(s[k])
  BY DEF LastLoaded
<1>2. CASE k = Len(s)
  BY <1>2
<1>3. CASE k # Len(s)
  <2>1. Len(s) \in k + 1 .. Len(s)
    BY <1>1, <1>3
  <2> QED
    BY <2>1
<1> QED
  BY <1>2, <1>3

\* The loader's parser takes an option.
LEMMA ParseCLILoaded ==
    ASSUME LoadedInv, ParseCLIArguments
    PROVE  LoadedInv'
<1> DEFINE n == NextOption(scan, Takers \cup {"h"}, Takers)
<1>1. /\ pc = "extensions" /\ ~Finished(scan) /\ UNCHANGED argv
      /\ pc' \in {"extensions", "memory", "start", "exited"}
  BY DEF ParseCLIArguments, Exit
<1>2. argv \in Seq(Token) /\ (AllAttached => MemoryShape)
  BY <1>1, SetupAre DEF LoadedInv, ScanInv, ServedInv, MemoryShape
<1>3. CASE pc' = "exited"
  BY <1>3, OutsideNext, SetupAre
<1>4. CASE pc' # "exited" /\ ~AllAttached
  <2>1. ~AllAttached'
    BY <1>1, <1>4 DEF AllAttached
  <2> QED
    BY <1>1, <1>2, <1>4, <2>1
       DEF LoadedInv, ScanInv, HelpInv, ServedInv, RunsOnlyAsAsked
<1>5. CASE pc' # "exited" /\ AllAttached
  <2>1. /\ ScanSplits(scan) /\ SameOptions(argv, Permuted(scan))
        /\ HelpSeen(argv)
        /\ \A k \in DOMAIN scan.opts : Obeyed(scan.opts[k])
        /\ LastLoaded(scan.opts)
    BY <1>1, <1>5 DEF LoadedInv, ScanInv, HelpInv, ServedInv
  <2>2. PICK t \in Token, r \in Scan : Took(Takers \cup {"h"}, t, r, n)
    <3> DEFINE known == Takers \cup {"h"}
               takers == Takers
    <3>1. takers \subseteq Takers \cup {"c"}
      OBVIOUS
    <3> HIDE DEF known, takers
    <3>2. \E t \in Token, r \in Scan :
             Took(known, t, r, NextOption(scan, known, takers))
      BY <1>1, <1>2, <1>5, <2>1, <3>1, ParserStep, Zenon
    <3> QED
      BY <3>2, Zenon DEF known, takers
  <2>3. /\ n = [opt |-> IF t.opt \in Takers \cup {"h"} THEN t.opt ELSE "?",
                arg |-> t.arg, scan |-> r]
        /\ r.opts = Append(scan.opts, t) /\ ScanSplits(r)
        /\ SameOptions(argv, Permuted(r))
        /\ \E k \in DOMAIN argv : argv[k] = t
    BY <2>2, Zenon DEF Took
  <2> HIDE DEF n
  <2>4. scan.opts \in Seq(Token)
    BY <2>1 DEF ScanSplits, Scan
  <2>5. /\ scan' = r
        /\ \/ /\ t.opt \in DOMAIN TargetOf
              /\ MemWrite(TargetOf[t.opt], t.arg, DetectMemImageType(t.arg))
              /\ pc' = "memory" /\ (exit_app => exit_app')
           \/ /\ t.opt = "l" /\ t.arg # "list" /\ ParseMemArg(t.arg).ok
              /\ MemWrite(ParseMemArg(t.arg).name, ParseMemArg(t.arg).path,
                          ParseMemArg(t.arg).type)
              /\ pc' = "memory" /\ (exit_app => exit_app')
           \/ t.opt = "h" /\ ~exit_app
           \/ /\ t.opt \notin Takers \cup {"h"} /\ (exit_app => exit_app')
              /\ UNCHANGED <<pc, memVars>>
    BY <1>5, <2>3, ParseCases DEF n
  <2>6. ScanInv'
    BY <1>1, <1>2, <1>5, <2>3, <2>5 DEF ScanInv
  <2>7. ~(t.opt = "h" /\ ~exit_app)
    BY <2>1, <2>3 DEF HelpSeen
  <2>8. HelpInv'
    BY <1>1, <1>5, <2>1, <2>5, <2>7 DEF HelpInv, HelpSeen
  <2>9. /\ scan'.opts = Append(scan.opts, t) /\ scan'.opts # <<>>
        /\ Len(scan'.opts) = Len(scan.opts) + 1 /\ Len(scan.opts) \in Nat
        /\ DOMAIN scan.opts = 1 .. Len(scan.opts)
        /\ \A k \in 1 .. Len(scan.opts) : scan'.opts[k] = scan.opts[k]
        /\ scan'.opts[Len(scan.opts) + 1] = t
        /\ \A k \in DOMAIN scan'.opts : k \in DOMAIN scan.opts \/ k = Len(scan.opts) + 1
    BY <2>3, <2>4, <2>5, Appended
  <2>10. ASSUME pc' = "memory", MemoryShape', UNCHANGED mem_register,
                job'.step # "failed" => Serves(t)'
         PROVE  LoadedInv'
    <3>1. (\A k \in 1 .. Len(scan.opts) - 1 : Obeyed(scan.opts[k]))'
      BY <2>1, <2>9, <2>10 DEF Obeyed, Possible
    <3>2. scan'.opts[Len(scan'.opts)] = t
      BY <2>9
    <3>3. ServedInv'
      BY <2>9, <2>10, <3>1, <3>2 DEF ServedInv, MemoryShape
    <3>4. RunsOnlyAsAsked'
      BY <2>10, Zenon DEF RunsOnlyAsAsked
    <3> QED
      BY <2>6, <2>8, <3>3, <3>4 DEF LoadedInv
  <2>11. CASE /\ t.opt \in DOMAIN TargetOf /\ pc' = "memory"
              /\ MemWrite(TargetOf[t.opt], t.arg, DetectMemImageType(t.arg))
    <3>1. /\ Loads(t) /\ t.opt # "l"
          /\ Request(t).name = TargetOf[t.opt] /\ Request(t).path = t.arg
          /\ Request(t).vmem <=> DetectMemImageType(t.arg) = "kMemImageVmem"
      BY <2>11, TargetRequest
    <3>2. MemWrite(Request(t).name, Request(t).path, DetectMemImageType(t.arg))
      BY <2>11, <3>1
    <3>3. /\ MemoryShape' /\ UNCHANGED mem_register
          /\ job'.step # "failed" => Serves(t)'
      BY <1>2, <1>5, <3>1, <3>2, MemWriteServes
    <3> QED
      BY <2>10, <2>11, <3>3
  <2>12. CASE /\ t.opt = "l" /\ t.arg # "list" /\ ParseMemArg(t.arg).ok
              /\ MemWrite(ParseMemArg(t.arg).name, ParseMemArg(t.arg).path,
                          ParseMemArg(t.arg).type)
              /\ pc' = "memory"
    <3>1. /\ Loads(t)
          /\ Request(t).name = ParseMemArg(t.arg).name
          /\ Request(t).path = ParseMemArg(t.arg).path
          /\ Request(t).vmem <=> ParseMemArg(t.arg).type = "kMemImageVmem"
      BY <2>12, MeminitRequest
    <3>2. MemWrite(Request(t).name, Request(t).path, ParseMemArg(t.arg).type)
      BY <2>12, <3>1
    <3>3. /\ MemoryShape' /\ UNCHANGED mem_register
          /\ job'.step # "failed" => Serves(t)'
      BY <1>2, <1>5, <2>12, <3>1, <3>2, MemWriteServes
    <3> QED
      BY <2>10, <2>12, <3>3
  <2>13. CASE t.opt \notin Takers \cup {"h"} /\ UNCHANGED <<pc, memVars>>
    <3>1. ~Loads(t) /\ Obeyed(t)
      BY <2>13, TakersAre DEF Loads, Obeyed
    <3>2. UNCHANGED <<mem_register, memory>>
      BY <2>13 DEF memVars
    <3>3. \A k \in DOMAIN scan'.opts : Obeyed(scan'.opts[k])
      BY <2>1, <2>9, <3>1
    <3>4. (\A k \in DOMAIN scan.opts : Obeyed(scan.opts[k]))'
      BY <3>2, <3>3 DEF Obeyed, Possible
    <3>5. LastLoaded(scan'.opts)
      BY <2>1, <2>4, <2>9, <3>1, LastLoadedAppended
    <3>6. LastLoaded(scan.opts)'
      BY <3>2, <3>5 DEF LastLoaded, InMemory
    <3>7. ServedInv'
      BY <1>1, <1>2, <1>5, <2>13, <3>2, <3>4, <3>6 DEF ServedInv, MemoryShape
    <3>8. RunsOnlyAsAsked'
      BY <1>1, <2>13, Zenon DEF RunsOnlyAsAsked
    <3> QED
      BY <2>6, <2>8, <3>7, <3>8 DEF LoadedInv
  <2> QED
    BY <2>5, <2>7, <2>11, <2>12, <2>13
<1> QED
  BY <1>3, <1>4, <1>5

\* A step of the load in progress.
LEMMA LoadingLoaded ==
    ASSUME LoadedInv, LoadInv, Loading
    PROVE  LoadedInv'
<1> DEFINE t == scan.opts[Len(scan.opts)]
<1>1. /\ pc = "memory" /\ LoadStep /\ UNCHANGED <<pc, argv, scan, exit_app>>
  BY DEF Loading, ctrlVars, parseVars
<1>2. AllAttached' = AllAttached
  BY <1>1 DEF AllAttached
<1>3. ScanInv' /\ HelpInv' /\ RunsOnlyAsAsked'
  <2>1. ScanInv'
    BY <1>1, <1>2 DEF LoadedInv, ScanInv
  <2>2. HelpInv'
    BY <1>1, <1>2 DEF LoadedInv, HelpInv, HelpSeen
  <2>3. RunsOnlyAsAsked'
    BY <1>1, Zenon DEF RunsOnlyAsAsked
  <2> QED
    BY <2>1, <2>2, <2>3
<1>4. CASE ~AllAttached
  BY <1>2, <1>3, <1>4 DEF LoadedInv, ServedInv
<1>5. CASE AllAttached
  <2>1. /\ MemoryShape /\ scan.opts # <<>>
        /\ \A k \in 1 .. Len(scan.opts) - 1 : Obeyed(scan.opts[k])
        /\ job.step # "failed" => Serves(t)
    BY <1>1, <1>5, SetupAre DEF LoadedInv, ServedInv, MemoryShape
  <2>2. PICK o : o = t
    OBVIOUS
  <2>3. job.step # "failed" => Serves(o)
    BY <2>1, <2>2
  <2>4. /\ MemoryShape' /\ UNCHANGED mem_register
        /\ job'.step # "failed" => Serves(o)'
    BY <1>1, <2>1, <2>3, LoadStepServes
  <2>5. scan'.opts[Len(scan'.opts)] = o
    BY <1>1, <2>2
  <2>6. (\A k \in 1 .. Len(scan.opts) - 1 : Obeyed(scan.opts[k]))'
    BY <1>1, <2>1, <2>4 DEF Obeyed, Possible
  <2>7. ServedInv'
    BY <1>1, <2>1, <2>4, <2>5, <2>6 DEF ServedInv, MemoryShape
  <2> QED
    BY <1>3, <2>7 DEF LoadedInv
<1> QED
  BY <1>4, <1>5

\* MemWrite has returned.
LEMMA MemoryWrittenLoaded ==
    ASSUME LoadedInv, MemoryWritten
    PROVE  LoadedInv'
<1>1. /\ pc = "memory" /\ UNCHANGED <<argv, scan, exit_app, mem_register, memory>>
      /\ pc' = "exited" \/ (job.step = "loaded" /\ pc' = "extensions")
  BY DEF MemoryWritten, Exit, parseVars
<1>2. AllAttached' = AllAttached
  BY <1>1 DEF AllAttached
<1>3. CASE pc' = "exited"
  BY <1>3, OutsideNext, SetupAre
<1>4. CASE job.step = "loaded" /\ pc' = "extensions"
  <2>1. ScanInv'
    BY <1>1, <1>2, <1>4, SetupAre DEF LoadedInv, ScanInv
  <2>2. HelpInv'
    BY <1>1, <1>2, <1>4 DEF LoadedInv, HelpInv, HelpSeen
  <2>3. RunsOnlyAsAsked'
    BY <1>4, Zenon DEF RunsOnlyAsAsked
  <2>4. CASE ~AllAttached
    BY <1>2, <2>1, <2>2, <2>3, <2>4 DEF LoadedInv, ServedInv
  <2>5. CASE AllAttached
    <3> DEFINE opts == scan.opts
    <3>1. /\ MemoryShape /\ opts # <<>>
          /\ \A k \in 1 .. Len(opts) - 1 : Obeyed(opts[k])
          /\ Serves(opts[Len(opts)])
      BY <1>1, <1>4, <2>5, SetupAre DEF LoadedInv, ServedInv, MemoryShape
    <3>2. Loads(opts[Len(opts)]) /\ Obeyed(opts[Len(opts)]) /\ InMemory(opts[Len(opts)])
      BY <1>4, <3>1 DEF Serves
    <3>3. opts \in Seq(Token)
      BY <1>1, <2>5 DEF LoadedInv, ScanInv, ScanSplits, Scan
    <3>4. LastLoaded(opts)
      BY <3>1, <3>2, <3>3, LastLoadedLast
    <3>5. \A k \in DOMAIN opts : Obeyed(opts[k])
      <4>1. DOMAIN opts = 1 .. Len(opts) /\ Len(opts) \in Nat
        BY <3>3, SequencesAre
      <4> SUFFICES ASSUME NEW k \in DOMAIN opts PROVE Obeyed(opts[k])
        OBVIOUS
      <4>2. CASE k = Len(opts)
        BY <3>2, <4>2
      <4>3. CASE k # Len(opts)
        <5>1. k \in 1 .. Len(opts) - 1
          BY <4>1, <4>3
        <5> QED
          BY <3>1, <5>1
      <4> QED
        BY <4>2, <4>3
    <3>6. (\A k \in DOMAIN scan.opts : Obeyed(scan.opts[k]))'
      BY <1>1, <3>5 DEF Obeyed, Possible
    <3>7. LastLoaded(scan.opts)'
      BY <1>1, <3>4 DEF LastLoaded, InMemory
    <3>8. ServedInv'
      BY <1>1, <1>4, <3>1, <3>6, <3>7 DEF ServedInv, MemoryShape
    <3> QED
      BY <2>1, <2>2, <2>3, <3>8 DEF LoadedInv
  <2> QED
    BY <2>4, <2>5
<1> QED
  BY <1>1, <1>3, <1>4

\* The loader's parser has finished: the simulation starts as asked.
LEMMA ExtensionsParsedLoaded ==
    ASSUME LoadedInv, ExtensionsParsed
    PROVE  LoadedInv'
<1>1. /\ pc = "extensions" /\ Finished(scan)
      /\ UNCHANGED <<argv, scan, exit_app, mem_register, memory>>
      /\ pc' = "exited" \/ (~exit_app /\ pc' = "start")
  BY DEF ExtensionsParsed, Exit, parseVars, memVars
<1>2. AllAttached' = AllAttached
  BY <1>1 DEF AllAttached
<1>3. CASE pc' = "exited"
  BY <1>3, OutsideNext, SetupAre
<1>4. CASE ~exit_app /\ pc' = "start"
  <2>1. ScanInv'
    BY <1>1, <1>4, SetupAre DEF LoadedInv, ScanInv
  <2>2. HelpInv'
    BY <1>4 DEF HelpInv
  <2>3. ServedInv'
    BY <1>1, <1>2, <1>4, SetupAre DEF LoadedInv, ServedInv
  <2>4. ASSUME AllAttached
        PROVE  AsAsked
    <3>1. /\ argv \in Seq(Token) /\ ScanSplits(scan)
          /\ SameOptions(argv, Permuted(scan)) /\ HelpSeen(argv)
          /\ \A k \in DOMAIN scan.opts : Obeyed(scan.opts[k])
          /\ LastLoaded(scan.opts)
      BY <1>1, <2>4, SetupAre DEF LoadedInv, ScanInv, HelpInv, ServedInv
    <3> QED
      BY <1>1, <1>4, <3>1, FinishedAsAsked
  <2>5. AllAttached => AsAsked'
    BY <1>1, <2>4 DEF AsAsked, Obeyed, Possible, LastLoaded, InMemory
  <2>6. RunsOnlyAsAsked'
    <3>1. (pc = "start" /\ AllAttached => AsAsked)'
      BY <1>2, <2>5
    <3> QED
      BY <3>1, AsAskedNext
  <2> QED
    BY <2>1, <2>2, <2>3, <2>6 DEF LoadedInv
<1> QED
  BY <1>1, <1>3, <1>4

\* Every step of the program, and every signal.
LEMMA LoadedStep ==
    ASSUME LoadedInv, LoadInv, [Next]_vars
    PROVE  LoadedInv'
<1>1. CASE Main
  BY <1>1, MainLoaded
<1>2. CASE ParseCLIArguments
  BY <1>2, ParseCLILoaded
<1>3. CASE Loading
  BY <1>3, LoadingLoaded
<1>4. CASE MemoryWritten
  BY <1>4, MemoryWrittenLoaded
<1>5. CASE ExtensionsParsed
  BY <1>5, ExtensionsParsedLoaded
<1>6. CASE Start
  <2>1. pc' = "announce"
    BY <1>6 DEF Start
  <2> QED
    BY <2>1, OutsideNext, SetupAre
<1>7. CASE ParseOption /\ UNCHANGED memVars
  BY <1>7, ParseOptionLoaded
<1>8. CASE OptionsParsed /\ UNCHANGED memVars
  BY <1>8, OptionsParsedLoaded
<1>9. CASE RunStep
  <2>1. pc' \in {"announce", "clear", "dump", "check", "tick", "final", "exited"}
    BY <1>9 DEF RunStep, Announce, Clear, Dump, Check, Final, Tick, Exit
  <2> QED
    BY <2>1, OutsideNext, SetupAre
<1>10. CASE Signal /\ UNCHANGED memVars
  <2>1. UNCHANGED loadVars
    BY <1>10 DEF Signal, SigInt, SigUsr1, loadVars, parseVars
  <2> QED
    BY <2>1, LoadedUnchanged
<1>11. CASE UNCHANGED vars
  <2>1. UNCHANGED loadVars
    BY <1>11 DEF vars, ctrlVars, parseVars, loadVars
  <2> QED
    BY <2>1, LoadedUnchanged
<1> QED
  BY <1>1, <1>2, <1>3, <1>4, <1>5, <1>6, <1>7, <1>8, <1>9, <1>10, <1>11
     DEF Next, MainStep, Exited

-----------------------------------------------------------------------------
(* Theorems.                                                               *)

\* What the proof of the next theorem rests on: at every step of the two
\* parsers and of the loader, the scans hold the options of the command line in
\* its order, and the memories what the options scanned so far ask for
\* (ParseCommandArgs, ParseCLIArguments and MemWrite).
THEOREM LoadedInvariance == Spec => []LoadedInv
<1>1. Init => LoadedInv
  <2> SUFFICES ASSUME Init PROVE LoadedInv
    OBVIOUS
  <2>1. pc = "main" /\ scan = ScanOf(argv)
    BY DEF Init, CtrlInit
  <2>2. argv \in Seq(Token)
    BY SimMainAssumption DEF Init, Token
  <2>3. ScanInv /\ HelpInv
    BY <2>1, <2>2 DEF ScanInv, HelpInv
  <2>4. ServedInv
    BY <2>1 DEF Init, MemInit, ServedInv
  <2>5. RunsOnlyAsAsked
    BY <2>1, Zenon DEF RunsOnlyAsAsked
  <2> QED
    BY <2>3, <2>4, <2>5 DEF LoadedInv
<1>2. IInv /\ LoadedInv /\ [Next]_vars => LoadedInv'
  BY LoadedStep DEF IInv
<1> QED
  BY <1>1, <1>2, Invariance, PTL DEF Spec

\* The simulation starts only if every memory an option names exists and holds
\* the last image asked for it, whatever the command line, the files and the
\* memories, and never if help or the list of memories is asked for (Exec, from
\* ParseCommandArgs to RunSimulation).
THEOREM StartsAsAsked == Spec => []RunsOnlyAsAsked
<1>1. LoadedInv => RunsOnlyAsAsked
  BY DEF LoadedInv
<1> QED
  BY <1>1, LoadedInvariance, PTL
=============================================================================
