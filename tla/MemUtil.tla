------------------------------ MODULE MemUtil ------------------------------
(***************************************************************************)
(* The memory loader of the Verilator simulations                          *)
(* (dv/verilator/memutil/cpp/verilator_memutil.cc).                        *)
(*                                                                         *)
(* It reads an image file step by step, and any call of the ELF library or *)
(* of the file system may fail, and writes it to a memory of the design    *)
(* through the DPI functions of the memory's scope.  Memory is made of     *)
(* bytes; a byte of an image is named by its file, segment and offset.     *)
(***************************************************************************)
EXTENDS Integers, Sequences, SequencesExt

CONSTANTS
    Areas,      \* the memory areas main() registers, in order
    Scopes,     \* the scopes of the design that have a memory
    Depth,      \* words of a memory
    Files,      \* the files there are: path -> contents
    Extensions, \* path -> what follows its last dot, where it has one
    Fields      \* argument -> its parts between commas, where it has commas

NoScope == "NoScope"
Initial == <<"initial">>    \* what a memory holds before anything is loaded
Garbage == <<"garbage">>    \* a byte of the heap nobody has written

\* Memories are 32 bits wide by default, and so is the only one registered.
WordBytes == 4

Types   == {"kMemImageUnknown", "kMemImageElf", "kMemImageVmem"}

\* A file: what elf_kind and gelf_getclass say of it, and its segments (of an
\* ELF file the program headers, of a vmem file the addressed parts).
Segment  == [load : BOOLEAN, paddr : Nat, filesz : Nat]
Contents == [kind : {"elf32", "elf64", "text"}, segments : Seq(Segment)]

ASSUME MemUtilAssumption ==
    /\ Depth \in Nat \ {0}
    /\ \A p \in DOMAIN Files : Files[p] \in Contents
    /\ \A a \in DOMAIN Fields : Fields[a] \in Seq(STRING)

VARIABLES
    mem_register,   \* the registered areas: name -> [name, location]
    memory,         \* scope -> the bytes of its memory
    svScope,        \* the scope DPI functions refer to
    job,            \* the MemWrite in progress: [step, name, path, ...]
    held,           \* what ElfFileToBinary has opened and not yet released
    buf             \* the binary image it made

memVars == <<mem_register, memory, svScope, job, held, buf>>

-----------------------------------------------------------------------------
(* Arguments.                                                              *)

GetMemImageTypeByName(name) == CASE name = "elf"  -> "kMemImageElf"
                                 [] name = "vmem" -> "kMemImageVmem"
                                 [] OTHER         -> "kMemImageUnknown"

DetectMemImageType(path) == IF path \in DOMAIN Extensions
                            THEN GetMemImageTypeByName(Extensions[path])
                            ELSE "kMemImageElf"

\* name,file[,type]: a field before the third comma must not be empty, and
\* what follows the third comma is ignored.
ParseMemArg(arg) ==
    LET f == IF arg \in DOMAIN Fields THEN Fields[arg] ELSE <<arg>>
    IN  [ok   |-> /\ Len(f) >= 2
                  /\ \A k \in 1 .. 3 : k < Len(f) => f[k] # "",
         name |-> f[1],
         path |-> IF Len(f) >= 2 THEN f[2] ELSE "",
         type |-> CASE Len(f) < 2 -> "kMemImageUnknown"
                    [] Len(f) = 2 -> DetectMemImageType(f[2])
                    [] OTHER      -> GetMemImageTypeByName(f[3])]

IsFileReadable(path) == path \in DOMAIN Files

-----------------------------------------------------------------------------
(* The binary image of an ELF file.                                        *)

Loadable(path) ==
    {k \in DOMAIN Files[path].segments :
        Files[path].segments[k].load /\ Files[path].segments[k].filesz # 0}

SegmentEnd(s) == s.paddr + s.filesz
Low(path)  == Min({Files[path].segments[k].paddr : k \in Loadable(path)})
High(path) == Max({SegmentEnd(Files[path].segments[k]) : k \in Loadable(path)})

\* Without a loadable segment high - low is 0 - (2^64 - 1).
LenBytes(path) == IF Loadable(path) = {} THEN 1 ELSE High(path) - Low(path)

\* The segment whose bytes are at an offset, the last one copied there.
Covering(path, byte) ==
    {k \in Loadable(path) :
        LET s == Files[path].segments[k]
        IN  Low(path) + byte \in s.paddr .. SegmentEnd(s) - 1}

ImageByte(path, byte) ==
    IF Covering(path, byte) = {} THEN Garbage
    ELSE LET k == Max(Covering(path, byte))
         IN  <<path, k, Low(path) + byte - Files[path].segments[k].paddr>>

-----------------------------------------------------------------------------
(* State changes.                                                          *)

Idle == [step |-> "idle"]

\* MemWrite ends; the caller takes the result.
Ends(ok) == job' = [step |-> IF ok THEN "loaded" ELSE "failed"]

\* The exits of ElfFileToBinary, the second reached through the first.
ReturnFdEnd(h) == h \ {"fd"}

\* Defect for the model's own test: the descriptor stays open after elf_end.
ReturnElfEndOnly(h) == h \ {"elf"}

ReturnElfEnd(h) == ReturnFdEnd(h \ {"elf"})

\* WriteElfToMem gives up: the previous scope is set again, buf is freed.
LoadFails(h) == /\ Ends(FALSE)
                /\ held' = h \ {"buf"}
                /\ svScope' = NoScope
                /\ UNCHANGED <<mem_register, memory, buf>>

\* emplace leaves an area that is already there alone.
RegisterMemoryArea(area) ==
    /\ mem_register' = IF area.name \in DOMAIN mem_register THEN mem_register
                       ELSE [n \in DOMAIN mem_register \cup {area.name} |->
                                IF n = area.name THEN area ELSE mem_register[n]]
    /\ UNCHANGED <<memory, svScope, job, held, buf>>

\* MemWrite up to the switch over types: WriteElfToMem sets the scope, and
\* WriteVmemToMem does and ends, whatever $readmemh finds in the file.
MemWrite(name, path, type) ==
    /\ job.step = "idle"
    /\ LET known == name \in DOMAIN mem_register
           area  == mem_register[name]
           ok    == known /\ IsFileReadable(path) /\ area.location \in Scopes
       IN  CASE ok /\ type = "kMemImageElf" ->
                    /\ job' = [step |-> "open", path |-> path, area |-> area]
                    /\ svScope' = area.location
                    /\ UNCHANGED memory
             [] ok /\ type = "kMemImageVmem" ->
                    /\ memory' = [memory EXCEPT ![area.location] =
                          [b \in DOMAIN @ |->
                             IF \E k \in DOMAIN Files[path].segments :
                                   LET s == Files[path].segments[k]
                                   IN  b \in s.paddr .. SegmentEnd(s) - 1
                             THEN <<path, b>> ELSE @[b]]]
                    /\ Ends(TRUE)
                    /\ UNCHANGED svScope
             [] OTHER -> Ends(FALSE) /\ UNCHANGED <<memory, svScope>>
    /\ UNCHANGED <<mem_register, held, buf>>

\* elf_version, open.
OpenElf(ok) ==
    /\ job.step = "open"
    /\ IF ok
       THEN /\ job' = [job EXCEPT !.step = "begin"]
            /\ held' = {"fd"}
            /\ UNCHANGED <<mem_register, memory, svScope, buf>>
       ELSE LoadFails(held)

\* elf_begin.
BeginElf(ok) ==
    /\ job.step = "begin"
    /\ IF ok
       THEN /\ job' = [job EXCEPT !.step = "inspect"]
            /\ held' = held \cup {"elf"}
            /\ UNCHANGED <<mem_register, memory, svScope, buf>>
       ELSE LoadFails(ReturnFdEnd(held))

\* elf_kind, gelf_getclass, elf_getphdrnum, and gelf_getphdr of every header.
\* Then the buffer is allocated.
InspectElf(ok) ==
    /\ job.step = "inspect"
    /\ IF ok /\ Files[job.path].kind = "elf32"
       THEN /\ job' = [job EXCEPT !.step = "copy"]
            /\ held' = held \cup {"buf"}
            /\ UNCHANGED <<mem_register, memory, svScope, buf>>
       ELSE LoadFails(ReturnElfEnd(held))

\* elf_getdata_rawchunk and memcpy of every loadable segment.
CopySegments(ok) ==
    /\ job.step = "copy"
    /\ IF ok
       THEN /\ job' = [job EXCEPT !.step = "words"]
            /\ buf' = [b \in 0 .. LenBytes(job.path) - 1 |-> ImageByte(job.path, b)]
            /\ held' = ReturnElfEnd(held)
            /\ UNCHANGED <<mem_register, memory, svScope>>
       ELSE LoadFails(ReturnElfEnd(held \ {"buf"}))

\* Defect: a last word that is not full is dropped.
WordCountFloor(len) == len \div WordBytes

\* Words the image takes, the last of them perhaps in part.
WordCount(len) == (len + WordBytes - 1) \div WordBytes

\* simutil_verilator_set_mem for one word after the other: the memory accepts
\* those it has.  The bytes after the end of buf are whatever is there.
WriteWords ==
    /\ job.step = "words"
    /\ LET len   == LenBytes(job.path)
           words == WordCount(len)
       IN  /\ memory' = [memory EXCEPT ![job.area.location] =
                 [b \in DOMAIN @ |-> CASE b \div WordBytes >= words -> @[b]
                                       [] b < len -> buf[b]
                                       [] OTHER -> Garbage]]
           /\ Ends(words <= Depth)
    /\ svScope' = NoScope
    /\ held' = held \ {"buf"}
    /\ buf' = <<>>
    /\ UNCHANGED mem_register

LoadStep == \/ \E ok \in BOOLEAN : \/ OpenElf(ok) \/ BeginElf(ok)
                                   \/ InspectElf(ok) \/ CopySegments(ok)
            \/ WriteWords

MemInit == /\ mem_register = <<>>
           /\ memory \in [Scopes -> {[b \in 0 .. WordBytes * Depth - 1 |-> Initial]}]
           /\ svScope = NoScope
           /\ job = Idle
           /\ held = {}
           /\ buf = <<>>
=============================================================================
