# Ibex in TLA+

Specifications of the control of the Ibex RISC-V core (`rtl/`) and of the C and C++
programs around it: the simulation controller and memory loader of its Verilator
simulations, the demo software with the timer it runs on, and the self-checking test
bench of the CSRs. With them come the configurations for TLC, and theorems checked by
TLAPS. Paths below are relative to the repository.

In the modules of the core one action is one clock cycle. Registers (`*_q`) are VARIABLES, the combinational
logic of a cycle is a set of operators over the current registers and a record `i`
of the cycle's inputs, and the `always_ff` block is the conjunction of primed
variables (`FifoClock`, `PrefetchClock`, `LsuClock`, `IdClock`, `Edge`). Names are
those of the RTL. In the modules of the programs one action is a step between two points
at which something else can happen: a signal, a failing call, a clock edge.

## 1. The system

| Part | State | Operations in a cycle | Talks to |
|---|---|---|---|
| Fetch FIFO (`ibex_fetch_fifo.sv`) | 3 words with error flags, pc | push, pop, clear | prefetch buffer |
| Prefetch buffer (`ibex_prefetch_buffer.sv`) | waiting request, fetch address, queue of 2 outstanding requests with discard and PMP flags | request, grant, answer, branch | bus, PMP, IF stage |
| IF stage (`ibex_if_stage.sv`) | IF-ID register | redirect, advance, stall, flush | controller, ID |
| Load-store unit (`ibex_load_store_unit.sv`) | 5-state machine, remembered first word, address, error | start, split, answer | ID, WB, data bus, PMP |
| ID/EX stage (`ibex_id_stage.sv`) | FIRST_CYCLE / MULTI_CYCLE, registered branch | execute, stall, retire | all |
| Writeback stage (`ibex_wb_stage.sv`, optional) | the instruction waiting for its answer | accept, finish | ID, LSU, register file |
| Controller (`ibex_controller.sv`) | 10-state machine, NMI and debug mode, exception flags | take interrupt, flush, sleep, debug | IF, ID, CSRs |
| Trap CSRs (`ibex_cs_registers.sv`) | mstatus, mepc, NMI backups, dpc, dcsr | save, restore, write | controller, ID |
| PMP (`ibex_pmp.sv`) | - (registers in the CSRs) | match an address | IF, LSU |
| Instruction cache (`ibex_icache.sv`, optional) | tag and data RAM, fill buffers | look up, fill, invalidate | replaces the prefetch buffer |
| Multiplier/divider (`ibex_multdiv_*.sv`) | iteration state | step | ID/EX |
| Counters (`ibex_counters.sv`) | 64-bit counts | write a half, increment | CSRs |
| PMP and counter CSRs (`ibex_cs_registers.sv`) | configurations, addresses, mcountinhibit | read, write, set, clear, reset | ID, test bench |
| Timer (`shared/rtl/timer.sv`) | mtime, mtimecmp, interrupt | count, write or read a word | the core's data bus and interrupt |
| Software (`examples/sw/simple_system`) | tick counts, increment, deadline | enable, read, move the deadline, count ticks, measure | timer, counter CSRs |
| Simulation controller (`dv/verilator/simutil_verilator`) | time, clock, reset, tracing, stop request, result | parse options, run the loop, handle signals | design, extensions, user |
| Memory loader (`dv/verilator/memutil`) | registered memories | parse options, read an image, write it | controller, files, the design's memories |
| Simulation programs (`examples/simple_system/*.cc`, `dv/riscv_compliance/*.cc`) | - | register memories, run | controller, loader |
| CSR test bench (`dv/cs_registers`) | model of the registers, transaction and reset drivers, verdict | drive, monitor, compare, reset, stop | CSRs (DPI), controller |
| Bus and memories of the simple system (`shared/rtl/bus.sv`, `ram_*.sv`) | arbitration, data | grant, answer | the core's buses |

Decoder, compressed decoder, ALU and register file are combinational or plain arrays.

The hard behaviours are all of one kind: units that make progress at their own pace
meet events that redirect the core. A branch overtakes requests on their way; the PMP
refuses a request that the buffer then has to answer itself; one half of a split access
fails; an interrupt, NMI or debug request comes in any cycle of an instruction that
needs several, or is gone when the controller acts on it. Around the core, a program
reads and writes in words what the hardware keeps in 64 bits and goes on changing;
signals arrive between any two steps of the simulation; calls fail with resources held;
two parsers share a command line; and two clocked processes of a test bench run in an
order that nobody fixed. `PROJECT.json` lists the
hazards at their lines with the properties that watch them.

## 2. Modules

    InstrStream      what the fetch stage promises                 (abstract)
    FetchFifo  <- PrefetchBuffer <- IfStage                        (fetch side)
       IfStage implements InstrStream; MCIfStage, IfStageProofs, IfStreamProofs
    LoadStoreUnit <- DataSide                                      (data side)
       MCDataSide, DataSideProofs
    IdStage, TrapCsrs <- Controller <- CorePipeline                (pipeline)
       MCCorePipeline, CorePipelineProofs
    Getopt <- SimCtrl; SimCtrl, MemUtil <- SimMain                 (simulation program)
       MCSimMain, SimMainProofs, SimLoadProofs
    Timer <- SimpleSystem                                          (demo software)
       MCSimpleSystem, SimpleSystemProofs
    RegisterModel <- CsRegisters <- CsBench                        (CSR test bench)
       MCCsBench, CsBenchProofs

Each `MC` module instantiates its component for TLC, each `Proofs` module proves about it
for every value of its constants.

### Fetch side

`FetchFifo` and `PrefetchBuffer` follow their RTL register by register. `IfStage` adds
the IF-ID register and the environment: the bus and its memory (`mem_q`, the granted
words still to be answered, in order, at the earliest one cycle after the grant),
the PMP, and controller and ID, which choose in each cycle whether to redirect the
program counter (`SetPc`) and whether ID keeps its instruction (`Stall`), lets it go
(`Advance`) or throws it away (`Flush`).

Data are abstracted to what the logic tells apart. A word is its address plus, for each
half, whether a compressed instruction starts there (the two low bits that the aligner
looks at), plus the bus error flag. `image` is the memory as the current privilege level
sees it: compressed halves, failing words, refused words. Traps and returns change the
refused words in the very cycle of the redirection, because the PMP judges with
`priv_lvl_d`. A word that the PMP refused has arbitrary contents (`Noise`), as the data
bus then carries anything. Registers whose value no logic can use any more are `Stale`
(FIFO entries) or `NoInstr` (the IF-ID register while invalid), which merges equivalent
states.

`InstrStream` is the abstract specification: ID is offered the instructions of the
memory one after the other from the last redirection on, and each is marked faulty
exactly when a word it needs is. `IfStage` implements it with `mem <- image`,
`pc <- instr_addr_q` and `offered <-` the valid contents of the IF-ID register
(property `InOrderStream`).

### Data side

`LoadStoreUnit` is the state machine with everything it latches; memory bytes are named
by their address, so a load's result shows for each byte of the register which memory
byte (or which sign extension) it is. `DataSide` adds ID, the writeback stage and the
bus. Without a writeback stage ID requests in its first cycle and keeps the access until
the answer; with one it hands the access on when both grants are there, waits with the
next one, and drops that one if the answer is an error. `written`, `failed`, `answered`
and `resp` are history variables for the properties.

### Pipeline

`IdStage`, `Controller` and `TrapCsrs` model the default configuration
(`WritebackStage = 0`, `BranchTargetALU = 0`). The program is arbitrary: each fetch
delivers an instruction of any of the run's `Kinds`, so the same address need not hold
the same instruction twice. One action per state of `ctrl_fsm_cs`, and in FLUSH one per
kind of flush. `pc_if` stands for the fetch stage and `lsu` (`idle`, `granting`,
`answering`) for the load-store unit, the two interfaces established above. `lines` is
the level of `irq_nm_i`, the pending maskable interrupts and `debug_req_i`, free to
change in every cycle; with `HoldsLines` a line stays up until its handler runs, which is
what `doc/exception_interrupts.rst:60` asks of interrupt sources.

`CorePipeline` composes them and adds `npc`, the address that comes next in program
order, and `interrupted`, what an NMI handler has to give back. The pipeline reads
neither.

Simplifications: `EBREAK` into debug mode depends on one bit (`dcsr.ebreakm/u` of the
current level); a debug-only instruction outside debug mode is illegal; all interrupts
share one handler address and the NMI has another (priorities between maskable lines
select a cause, not a behaviour). In FLUSH, the branch "CSR access that needs a flush,
with an interrupt pending, goes to IRQ_TAKEN" (`ibex_controller.sv:640`) has no action:
`csr_pipe_flush` depends on `csr_op_en_o`, which is low in FLUSH, so the branch is dead.

### Simulation program

`SimCtrl` is `VerilatorSimCtrl`: `pc` says where the main program is, and `SigInt` and
`SigUsr1` may come at any point from the registration of the handlers to the end.
`Trace()` is three actions (message, acknowledgement, dump), because a signal between
the first two is what the code does not see. A `Tick` is half a clock period; within it
an extension's `OnClock`, or the design through DPI, may request a stop as a success or
a failure, and the design may call `$finish`.

`MemUtil` is the loader. `held` is what `ElfFileToBinary` and `WriteElfToMem` have open:
the descriptor, the ELF handle, the buffer; each labelled exit is an operator that
releases what the code releases there. Every group of library calls is a step that may
fail. An image is a set of bytes named by file, segment and offset, so that a memory
shows whose byte it holds; a byte behind the end of the buffer is `Garbage`. A
`.vmem` file may be larger than its memory: `WriteVmemToMem` does not learn what
`$readmemh` made of it (`verilator_memutil.cc:467`), so `RunsOnlyAsAsked` promises of such
a file the bytes that have room, and of an ELF file every byte.

`SimMain` composes them with the command line. `Getopt` (external) is what both parsers
have in common: the scan takes options, steps over words and permutes the vector. The
controller's parser runs first and does not know `-m`, `-r`, `-f` and `-l`; the loader's
then scans the permuted vector from its beginning. With an argument that stands apart,
the first scan may put the argument of `-m` behind other options, and `-m a.elf -c 10`
then loads the file `-c`: the same happens to the code, and `RunsOnlyAsAsked` is
stated for arguments attached to their options, as the documents
write them (`--meminit=ram,<file>`, `examples/simple_system/README.md:56`). Once the loop starts, memories
and command line are dropped from the state. `edges`, `resets`, `announced`, `raced` and
`failed` are history.

### Demo software

`Timer` is `timer.sv` with words of `B` values instead of 2^32, and the update rule of
`ibex_counters.sv`. In `SimpleSystem` a step is a clock cycle in which the core idles,
makes one access of main or of the handler, or takes the interrupt; the RTL timer counts
in all of them. `timer_read` is three reads with a retry, `timecmp_update` three writes.
The two parts of main, measuring with the counters and then counting ticks, share no
state; a behaviour is one of them, with every value at boot that brings the carries
near.

### CSR test bench

`RegisterModel` is the C++ model of the registers: a word is the set of its bits, each
class has its lock mask and its legalization. `CsRegisters` is the RTL of the same
registers: fields of each region, locks per region, counters of a width. They were
written from their own sources and share only the numbering of bits and addresses.
`CsBench` is everything between: the two `always_ff` processes of
`tb_cs_registers.sv`, in either order in each edge; the second also on a falling reset;
the drivers with their delays; monitor, stop requests, `$finish`, the exit code. With
`dut_ok = FALSE` a read may return a wrong bit, so that mismatches happen.

Simplifications: the reset of `VerilatorSimCtrl` falls inside the first reset of the
bench and is not a separate input; a transaction is chosen at the edge that takes it and
not at the one before (nobody looks at it in between); the registers sample their inputs
from before the edge, as the simulator does; `PMPGranularity` is 0 and
the number of regions a multiple of 4, with other values the C++ model does not claim to
know the registers (`model/register_model.cc:13`); events are not connected, so of the
counters only `mcycle` moves by itself, and its value is any of `CycleWords`.

## 3. Runs

| Run | Question | Bounds |
|---|---|---|
| `if_stage` | Are the queue's accounts right, and does ID get the program in order? | 4 words, 24 memories, 2 branch targets |
| `if_live` | Can fetch starve ID? | one memory with every kind of word |
| `if_withdrawn` | (violated) Does a request stay up until it is granted? | as `if_stage` |
| `data_side` | Are split, failing, refused and overlapping accesses handled right, with and without a writeback stage? | 2 words; without: every type at offsets 0-3 and at the end of memory; with: word and half within a word and across two; every set of refused words |
| `data_side_split` | (violated) Does a split load keep its first word? | no writeback stage |
| `pipe` | Are traps, NMIs, debug entries and multicycle instructions precise, and does the program run in order? | 4 addresses; three workloads: 8 kinds with free interrupt lines, 7 kinds without interrupts, 6 kinds with held debug and NMI lines |
| `pipe_live` | Is an NMI always taken? | 4 addresses, 5 kinds, NMI held |
| `pipe_twice` | (violated) Program order when a load meets an interrupt | `alu`, `load`, NMI held |
| `pipe_ebreak` | (violated) dpc after EBREAK with a debug request | 4 kinds, debug line held |
| `sim_main` | Does the simulation program do what its command line says, release what it holds, reset for the right cycles, and end with the right exit code? | command lines of up to two options of every kind and some of three or four; 8 files; 4 words of memory; delay 1, duration 2; time capped at 10 half periods |
| `sw_timer` | Are times, deadlines, ticks and counts right although they are handled by words? | words of 16 values; increments 5, 9, 18; 17 boot times; at most one idle cycle between two accesses; 120 cycles |
| `cs_bench` | Do the model and the RTL of the CSRs agree, and is the verdict right? | 8 regions, one 40-bit counter, three sets of registers and write data, 5 transactions, resets 6 or 8 cycles apart |

Why the bounds are enough. Fetch: the FIFO has 3 entries and the queue 2; 4 words are
enough to fill the FIFO and wrap around, and the logic compares no addresses, so longer
memories only rename words. The 24 memories cross no/only/mixed compressed instructions
(two mixtures in which 32-bit instructions straddle words) with bus errors in none, one
or two words and a word refused by the PMP; the targets are an aligned and an unaligned
instruction. Data: an access touches at most two words. Pipeline: the model never
compares program counters except with `npc`; 4 addresses keep the next instruction, the
branch target and the handlers apart, and ID and IF hold one instruction each. The kinds
are split between workloads by what they meet: interrupts, errors and waiting, debug; what
the split leaves out is accesses together with interrupts, of which `pipe_twice` shows that
program order is lost (`pipe_live` has both).

Simulation program: the parsers look at one option at a time, and two of them cover every
order; the files cover gaps, overlaps in both orders, a partial last word, an image that
is too large, none at all, a wrong class and a file that is not ELF. The time is capped
above reset and timeout and keeps its parity after that. Demo software: the handler
takes nine steps; increments are shorter than that, as long, and
longer than a word, so that each write of `timecmp_update` is overtaken by the deadline
in some behaviour; the boot times place a carry of `mtime` between any two reads. Test
bench: a lock takes two transactions to matter and one to clear in vain, and a reset
falls before, on and after each of them, as delays of 1 and 4 against 6 and 8 drift; the
registers are a region at the end of its configuration register with its successor in the
next, the last region, missing ones, and counters of both widths. Registers of different
groups do not read each other, so one behaviour has one group.

Every property of a passing run is broken by a mutant of a
definition of the model (`PROJECT.json`, `mutants`); the mutated forms stand beside the
definitions, each marked as a defect.

### What the violated runs show

* `pipe_twice`: when a load or store completes in the cycle in which the controller
  takes an interrupt, `halt_if` keeps it in ID. In IRQ_TAKEN nothing flushes ID, and
  `stall_mem` (`lsu_req_dec & ~lsu_valid_i`) stalls for the finished access, so
  `instr_valid_clear_o = ~(stall | halt_if) | flush_id` stays low. After the redirection
  the access is done a second time, with the handler already at the fetch stage. Other
  multicycle instructions do not stall in IRQ_TAKEN and are cleared; this is why
  no workload of `pipe` has both accesses and interrupts.
* `pipe_ebreak`: an EBREAK that enters debug mode while a halt request or a single step
  is up reaches DBG_TAKEN_IF instead of DBG_TAKEN_ID and leaves the address of the next
  instruction in dpc, against the comment in DBG_TAKEN_ID. `DebugPrecise` is therefore
  stated for the other instructions.
* `data_side_split`: `rdata_q` is cleared whenever it is not loaded, so the bytes of the
  first word survive one cycle only. On a memory that answers in consecutive cycles this
  never shows (`LoadedValuePrompt`).
* `if_withdrawn`: a request waiting for its grant is withdrawn when a trap or return
  makes the PMP refuse it. Without a change of level it stays (`RequestHeld`, proved).

### What the passing runs show of the programs

* Some properties hold with a stated exception, and the exception is what the code does:
  a change of tracing by a signal between message and acknowledgement is not announced
  (`ChangesAnnounced`, history `raced`); a mismatch captured in the clock edge of
  `$finish` itself is printed by `OnFinal` but missing from the exit code if `env_tick`
  ran first (`VerdictRight`); a tick between `get_elapsed_time` and `wfi` is seen by main
  one tick late (`MainKeepsUp`).
* `timecmp_update` never makes an early tick and never loses one, for increments shorter
  than the handler too; what protects it is the order of its writes together with the
  interrupt that stays up until `mtimecmp` is written and comes back by comparison with
  `>=`.
* The lock of a PMP address by the mode of the next region, in another register for
  regions 3, 7 and 11, is the same in C++ and RTL, also for the last region.

### Fairness

`IfStage`: the boot address is set; while fetch is enabled, a request is granted in the
end, granted requests are answered, ID takes an instruction in the end. `DataSide`: the
clock runs, the bus grants and answers. Both are what the bus protocol of the documents
promises of a memory. `CorePipeline`: the clock runs (clock gating stops it only in SLEEP
with no wake-up condition up), `fetch_enable_i` rises, memory answers, the divider ends.
No fairness is assumed of interrupts, of the program or of the kinds of instructions.
`SimMain`: the main program goes on (a process is scheduled); signals need not come, and
however many come they do not stop it. `CsBench`: the simulator goes on; nothing is
assumed of delays, resets or the order of processes.

## 4. Proofs

Every theorem is about the specification that the runs check, for every value of its
constants, under the named ASSUMEs beside their declarations: types, sizes that are not
zero, and what the code's own parameters are restricted to. TLC evaluates them in
the runs. All the proofs go the same way: an invariant, in conjuncts named
for what they say; a lemma per conjunct or per action that a step keeps it; then the
properties. Bounds that serve TLC only (`TimeCap`, `MaxTime`, `MaxIdle`) are constants, so
the theorems hold for all of them.

### Fetch side: `IfStageProofs`

For every number of words, every set of memories and of branch targets: `Invariance`,
`TypeCorrect`, `QueueOrdered` (`QueueInv`), `BusAgrees` (`BusAccounted`),
`FifoNeverOverflows` (`NoPushWhenFull`), `FakesHideNothing` (`NoAnswerHidden`),
`RequestStable` (`RequestHeld`).

`Inv` is `TypeOK /\ QueueInv /\ RoomInv /\ WaitingInv /\ BusAccounted`. `NoPushWhenFull`
alone is not inductive: that a word finds room depends
on what was reserved when its request was made, possibly several branches ago. `RoomInv`
says how many live requests (outstanding and not discarded, or waiting and not
discarded) go with each filling of the FIFO. A discarded request must stay discarded and
the older ones with it, which is `QueueInv`; a waiting request's address must be the one
the bus saw and not one the PMP refused, or a faked answer could overtake the bus, which
is `WaitingInv`. `RoomInv` and `WaitingInv` serve the proof only and no run checks them.
The step is proved by parts (`QueueStep`, `RoomStep`, `WaitingStep`,
`TypeStep`, `BusStep`), over lemmas that give the next value of each queue entry
(`QueueNext`) and FIFO entry (`FifoNext`) as a formula of the current ones.

### Refinement: `IfStreamProofs`

`StreamImplemented` proves `Spec => InOrderStream`: `IfStage` implements `InstrStream`
under the mapping of `S` in `IfStage`. The state of `InstrStream` says nothing of words
that are still on their way, so the invariant has to: `StreamInv` (theorem
`StreamInvariance`) counts from the address at the output. `At0` to `At2` are the words
the FIFO's entries stand for, `At3` and `At4` those of the outstanding requests, `At5` that
of the waiting one, `At6` that of the next request; each is the word after the one before,
unless nothing live stands in between (`After`). `EntriesInv` says that a valid entry holds
what the memory has at its word, the error flag included; `FlightInv` that a live
request carries the PMP's verdict on its word, that the bus owes exactly that word at its
place in `mem_q`, and that `stored_addr_q` and `fetch_addr_q` continue the count. It
rests on `Inv`: `RoomInv` so that no arriving word is lost, `QueueInv` and
`BusAccounted` so that the answer of the bus belongs to the oldest request. The step
follows the word: `Arriving` (an answer that is kept is the word at `At3`), `FifoMoves`
and `EntriesStep` (entries move up), `LiveNext`, `AddressNext`, `VerdictNext` and `BusNext`
(requests enter, move up or are dropped by a branch), `FlightStep`. `Offering` shows that
the aligner then hands out `InstrAt` of the address at the output, `ClockRefines`
that a clock edge is `Redirect`, `Offer`, `Retire` or a stutter of `InstrStream`. Of a
word the PMP refused only the error is known, so the length of such an instruction
stays open, as in `MayBeCompressed`.


### Data side: `DataSideProofs`

For every size of the address space, both cores, every program of accesses and every set
of words the PMP refuses: `EachAnsweredOnce` (`OneAnswerEach`), `FailuresReported`
(`ErrorsReported`), `FaultAddressRight` (`FaultAddress`), `BytesInPlace` (`StoredBytes`),
`PromptLoads` (`LoadedValuePrompt`), `RequestsStable` (`RequestHeld`).

The invariant names the access that is under way (`Active`: in ID until its last grant,
with a writeback stage in that stage from then on) and says for each state of the state
machine what of it is on the bus, in memory and in the registers (`InWaitGntMis`,
`InWaitRvalidMis`, `InWaitGnt`, `InGntsDone`, `InIdle`). The delicate part is the errors:
`pmp_err_q` belongs to the first part in some states and to the second in others, and
`lsu_err_q` collects the first part's from either side, so that the answer to the second
part decides with both. Stores need `Covers`: the lanes of the two parts are the bytes
of the access, each once, also where the address wraps. Loads need `Aligning`: the
alignment network puts those bytes in order. `DataInv` keeps the first word of a split load for the
one cycle in which a prompt second answer needs it (`data_side_split` shows that it is gone
afterwards).

### Pipeline: `CorePipelineProofs`

For every number of addresses, every choice of handlers and branch targets and every
workload: `TypeCorrect` (`TypeOK`), `AccessesOwned` (`AccessOwned`), `CyclesOwned`
(`MultiCycleOwned`), `Shielded` (`HandlersShielded`), `NmisRecover` (`NmiRecoverable`).
The invariant `IInv` says to whom the second cycle and the outstanding access belong
(`OwnedInv`), what a state of the controller implies of ID (`StateInv`), and what the
backup registers hold (`NmiInv`).

Under the hypothesis `Undisturbed`, `ProgramOrder` (`RunsProgramOrder`), `PreciseTraps`
(`TrapsPrecise`) and `PreciseDebug` (`DebugPrecise`). `OrderInv` gives, for each state of the
controller, the address at which the fetch stage stands as a function of ID and `npc`.
`Undisturbed` is needed because the code does not keep program order otherwise: an access that meets an
interrupt is done twice (`pipe_twice`), and an access or EBREAK that meets a debug
request which is withdrawn too early may be as well. So it excludes workloads with both
accesses and `nmi` or `irq`, and asks that debug lines stay up where accesses or EBREAK
meet them. The three workloads of `pipe` satisfy it, and those of `pipe_twice` do not.

### Simulation program: `SimMainProofs`

For every delay and duration of the reset, every command line and every set of files and
memories: `FailureKept` (`FailureSticks`), `ResetAsConfigured` (`ResetWindow`),
`TerminationExact` (`TermExact`), `TraceClosed` (`TraceFileClosed`), `ChangesToldOf`
(`ChangesAnnounced`), `NothingLeft` (`LoadLeavesNothing`). The invariant is in two halves
that share no variable: the loop's flags, trace, clock and limit, phase by phase of
`pc`, with the number of resets seen as a function of the number of edges (`Window`); and
the loader, for which `Held` lists what is open at each step. A signal is a step
like any other, so every conjunct has to survive it in every phase; the announcement does
not, which is why it is stated for runs that are not `raced`.

### What is loaded: `SimLoadProofs`

For every command line, and every set of memories, files and names: `StartsAsAsked`
(`RunsOnlyAsAsked`), from the invariant `LoadedInv` (theorem `LoadedInvariance`) and
`LoadInv` of `SimMainProofs`. `LoadedInv` has three parts, all for command lines whose
arguments are attached.

* `ScanInv`: each parser permutes the command line, the second after the first, and the
  property is about the one given. `SameOptions` says what both have in common: an
  order-preserving bijection between the options, whatever words stand in between.
  `ScanStep` shows that one call of `getopt_long` keeps it (`MovedToFront`: the option
  moves in front of words only), so that after the second scan the consumed options are
  those of the command line, in its order (`FinishedAsAsked`).
* `HelpInv`: the controller's parser has seen every `-h` by the time the loader's begins, so
  that the loader's own `-h`, which would start the simulation with the rest of the
  command line unread, always finds the exit requested.
* `ServedInv`: every option scanned so far was obeyed, the last load among them is in its
  memory, and the load in progress is what the last option asks for, with the image in
  `buf` once it is made (`Serves`).

That a finished load is the image (`ElfHolds`) takes arithmetic on the segments: the least
address and the greatest end of a finite set of segments exist (`LeastOf`, `GreatestOf`,
`Extent`; strict inclusion of finite sets is well-founded), a byte of the image lies in its
extent, the last segment that covers it gives it, and the number of words covers the
bytes (`WordArithmetic`).

### Demo software: `SimpleSystemProofs`

For every word size, increment, start of the counters and pause between two
instructions: `ReadsInWindow` (`ReadInWindow`), `CountsExact` (`CountersExact`), `KeepsUp`
(`MainKeepsUp`), `TicksKept` (`NoLostTick`), `TicksOnTime` (`NoEarlyTick`). `ReadInv` bounds each
word that `timer_read` has by a time since the call; the retry is what makes
the high word that of the low one (`Rejoined`). `CompareInv` says what `timecmp_update` has
written so far, and that a request which is up once it has finished is one of the new
deadline. `PaceInv` counts the steps from one reading of the time to the next tick and says
how many main has made.

### CSR test bench: `CsBenchProofs`

For every number of PMP regions that the model claims to know (a multiple of 4 up to 16),
every number and width of counters, every selection of registers and every set of
transactions: `Agreement` (`ModelAgrees`), `Verdict` (`VerdictRight`). The two sides update in
different processes of the same edge, in either order; `Pending` is the C++ model as its
process will leave it, and the invariant says that the RTL's registers read as `Pending`
(`SyncInv`). That a transaction takes both sides to agreeing values is `TransactionAgrees`, over one
lemma per kind of register: where the locks are (`AddrLocked`, with the next region's
mode), what is legalized (`LegalBits`), which halves of a counter exist
(`HalvesWritten`). The theorems are stated of `FairSpec`, the specification of the run.

### Only model-checked

* Liveness (`Progress`, `EveryAccessAnswered`, `NmiTaken`, `StopsInTheEnd`, `RunEnds`): fairness and
  ENABLED are out of the prover's reach.

Every safety invariant and action property of the passing runs has a theorem.

## 5. Not modelled

The pipeline with a writeback stage (forwarding, load-use hazards), the instruction cache,
PMP matching, multiplier and divider, decoders, ALU, register file, hardware triggers,
the other CSRs, privilege levels in the pipeline (the fetch side has their effect on the
PMP), bus arbitration and memories of the simple system, the secure-build additions
(register enables, one-hot selects). Of the programs: help texts, statistics, the report
of the performance counters, seeds and distributions of random numbers, the exception
handler and start-up code of the demo software, 64-bit wide memories (no caller registers
one). Beyond that the UVM environments in `dv/uvm`, `util/` and `vendor/`.

What is worth adding next, in order:

1. Pipeline with a writeback stage: load-use hazards, `instr_kill`, `ready_wb_i`, one
   writer of the register file per cycle.
2. PMP matching; the fill buffers of the instruction cache as another implementation of
   `InstrStream`.
