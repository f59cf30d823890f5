------------------------------ MODULE SimMain ------------------------------
(***************************************************************************)
(* The simulation program of the simple system and of the compliance test  *)
(* bench (examples/simple_system/ibex_simple_system.cc,                    *)
(* dv/riscv_compliance/ibex_riscv_compliance.cc): main registers the       *)
(* memory areas and the memory loader, and Exec parses the command line,   *)
(* twice, loads what it says and runs the simulation.                      *)
(***************************************************************************)
EXTENDS SimCtrl, MemUtil

CONSTANT CommandLines       \* the command lines the program may be given

ASSUME SimMainAssumption ==
    CommandLines \subseteq Seq([opt : STRING, arg : STRING, text : STRING])

vars == <<ctrlVars, memVars>>

-----------------------------------------------------------------------------
(* main                                                                    *)

Main ==
    /\ pc = "main"
    /\ IF mem_register = <<>>
       THEN RegisterMemoryArea(Areas[1]) /\ pc' = pc
       ELSE pc' = "options" /\ UNCHANGED memVars
    /\ UNCHANGED <<parseVars, exit_code, clockVars, tracing_possible_, traceVars,
                   stopVars>>

-----------------------------------------------------------------------------
(* ParseCLIArguments of the memory loader.                                 *)

TargetOf == [r |-> "rom", m |-> "ram", f |-> "flash"]
Takers == DOMAIN TargetOf \cup {"l"}

\* meminit=list ends the program without running anything.
ExitApp(n) == exit_app \/ (n.opt = "l" /\ n.arg = "list")

\* One option: the memories are written at once, option by option.
ParseCLIArguments ==
    /\ pc = "extensions" /\ ~Finished(scan)
    /\ LET n == NextOption(scan, Takers \cup {"h"}, Takers)
           m == ParseMemArg(n.arg)
       IN  /\ scan' = n.scan
           /\ exit_app' = ExitApp(n)
           /\ CASE n.opt \in DOMAIN TargetOf ->
                      /\ MemWrite(TargetOf[n.opt], n.arg, DetectMemImageType(n.arg))
                      /\ pc' = "memory" /\ UNCHANGED exit_code
                [] n.opt = "l" /\ n.arg # "list" /\ m.ok ->
                      /\ MemWrite(m.name, m.path, m.type)
                      /\ pc' = "memory" /\ UNCHANGED exit_code
                [] n.opt = ":" \/ (n.opt = "l" /\ n.arg # "list" /\ ~m.ok) ->
                      Exit(1) /\ UNCHANGED memVars
                [] n.opt = "h" \/ (n.opt = "l" /\ n.arg = "list") ->
                      \* The rest of the command line is not looked at.
                      /\ IF exit_app' THEN Exit(0)
                                      ELSE pc' = "start" /\ UNCHANGED exit_code
                      /\ UNCHANGED memVars
                [] OTHER -> UNCHANGED <<pc, exit_code, memVars>>
    /\ UNCHANGED <<argv, term_after_cycles_, clockVars, tracing_possible_,
                   traceVars, stopVars>>

Loading == /\ pc = "memory" /\ LoadStep
           /\ UNCHANGED ctrlVars

\* MemWrite has returned.
MemoryWritten ==
    /\ pc = "memory" /\ job.step \in {"loaded", "failed"}
    /\ IF job.step = "loaded" THEN pc' = "extensions" /\ UNCHANGED exit_code
                              ELSE Exit(1)
    /\ job' = Idle
    /\ UNCHANGED <<parseVars, clockVars, tracing_possible_, traceVars, stopVars,
                   mem_register, memory, svScope, held, buf>>

ExtensionsParsed ==
    /\ pc = "extensions" /\ Finished(scan)
    /\ IF exit_app THEN Exit(0) ELSE pc' = "start" /\ UNCHANGED exit_code
    /\ UNCHANGED <<parseVars, clockVars, tracing_possible_, traceVars, stopVars,
                   memVars>>

\* Run up to its loop.  From here on the memories are the design's, and
\* nobody looks at the command line any more.
Start ==
    /\ pc = "start"
    /\ pc' = "announce"
    /\ reset' = FALSE
    /\ argv' = <<>> /\ scan' = ScanOf(<<>>)
    /\ memory' = [s \in Scopes |-> <<>>]
    /\ UNCHANGED <<exit_app, term_after_cycles_, exit_code, time_, clk, edges,
                   resets, tracing_possible_, traceVars, stopVars,
                   mem_register, svScope, job, held, buf>>

-----------------------------------------------------------------------------
MainStep == \/ Main \/ ParseCLIArguments \/ Loading \/ MemoryWritten
            \/ ExtensionsParsed \/ Start
            \/ (ParseOption \/ OptionsParsed \/ RunStep) /\ UNCHANGED memVars

\* main has returned.
Exited == pc = "exited" /\ UNCHANGED vars

Init == /\ argv \in CommandLines
        /\ CtrlInit /\ MemInit

Next == \/ MainStep
        \/ Signal /\ UNCHANGED memVars
        \/ Exited

Spec == Init /\ [][Next]_vars

\* The main program runs; signals need not come.
FairSpec == Spec /\ WF_vars(MainStep)

-----------------------------------------------------------------------------
(* Properties.                                                             *)

\* Options whose arguments are attached to them, which no other parser moves.
AllAttached == \A k \in DOMAIN argv :
                  argv[k].opt \in Takers \cup {"c"} => argv[k].arg # NoArg

\* Whatever call fails in the middle of loading an image, no descriptor, ELF
\* handle, buffer or scope outlives MemWrite (the exits of ElfFileToBinary and
\* WriteElfToMem).
LoadLeavesNothing == job.step \in {"idle", "loaded", "failed"} =>
                        held = {} /\ svScope = NoScope

\* The image an option asks for, and the memory it is for.
Loads(t) == t.opt \in Takers /\ ~(t.opt = "l" /\ t.arg = "list")
VmemName(path) == path \in DOMAIN Extensions /\ Extensions[path] = "vmem"
Request(t) ==
    IF t.opt = "l"
    THEN LET f == Fields[t.arg]
         IN  [name |-> f[1], path |-> f[2],
              vmem |-> IF Len(f) >= 3 THEN f[3] = "vmem" ELSE VmemName(f[2])]
    ELSE [name |-> TargetOf[t.opt], path |-> t.arg, vmem |-> VmemName(t.arg)]

\* Every byte a segment gives, and no later segment gives again, is in the
\* memory: at its address in a vmem file, and relative to the lowest segment
\* of an ELF file.  Only of a vmem file may some have no room: nobody asks
\* $readmemh what it did (WriteVmemToMem).
Holds(bytes, path, vmem) ==
    LET segs   == Files[path].segments
        loaded == {k \in DOMAIN segs :
                      vmem \/ (segs[k].load /\ segs[k].filesz > 0)}
        base   == Min({segs[k].paddr : k \in loaded})
        In(k, a) == segs[k].paddr <= a /\ a < segs[k].paddr + segs[k].filesz
    IN  \A k \in loaded : \A a \in segs[k].paddr .. segs[k].paddr + segs[k].filesz - 1 :
            (\A j \in loaded : j > k => ~In(j, a)) =>
                IF vmem
                THEN a \in DOMAIN bytes => bytes[a] = <<path, a>>
                ELSE /\ a - base \in DOMAIN bytes
                     /\ bytes[a - base] = <<path, k, a - segs[k].paddr>>

\* The simulation starts only if every memory an option names exists and holds
\* the last image asked for it: a failure anywhere, also after other memories
\* were written, ends the program.  And it never starts if help or the list of
\* memories is asked for (Exec: exit requested by the command line).
RunsOnlyAsAsked ==
    pc = "start" /\ AllAttached =>
        \A k \in DOMAIN argv :
            /\ argv[k].opt # "h" /\ (argv[k].opt = "l" => argv[k].arg # "list")
            /\ Loads(argv[k]) =>
                  LET r == Request(argv[k]) IN
                  /\ r.name \in DOMAIN mem_register
                  /\ r.path \in DOMAIN Files
                  /\ (\A j \in k + 1 .. Len(argv) : ~Loads(argv[j])) =>
                        Holds(memory[mem_register[r.name].location], r.path, r.vmem)

\* A stop request of whatever origin ends the program, and so does the number
\* of cycles given.
StopsInTheEnd ==
    (request_stop_ \/ gotFinish \/ (pc = "start" /\ term_after_cycles_ > 0))
        ~> pc = "exited"
=============================================================================
