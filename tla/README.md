# Frizzle in TLA+

Frizzle is a SystemC/TLM simulator of a small RISC-V computer: a verilated
processor and a verilated debug module issue transactions, a bus (the "magic
school bus") routes them, and a memory, a uart, a vga text display and the
debug module's slave port answer them.  This directory models the parts whose
correctness depends on order, concurrency or arithmetic, together with the
example programs it comes with, checks them with TLC and proves with TLAPS that
the safety properties checked hold for every value of the parameters.

## 1. The system

| part | source | state | operations |
|---|---|---|---|
| address map | `bus/magic_school_bus.*` | `addr_map`, `target_index` | `register_target`, the two lookups |
| elaboration | `main.cpp` | what is bound to the bus | six registrations, then `sc_start` |
| bus | `bus/magic_school_bus.*` | `requester_map` (pointer to requester, never erased) | `handle_initiator_req`, `handle_target_resp` |
| initiator adapter | `bus/generic_initiator.*` | the transaction in hand | `initiator_thread` (SC_THREAD), `nb_transport_bw` |
| processor port | `core/core_tlm.*` | `request_in_flight`, signal `resp` | `generator_thread` (SC_METHOD) |
| debugger master port | `debugger/jtag_tlm.*`, `debugger/top.sv` | none | first half of `generator_thread` (SC_METHOD) |
| debugger slave port | same | `request_in_flight1/2`, strobe | second half of `generator_thread`, `target_thread` (SC_THREAD) |
| uart | `uart/uart_tlm.*` | `transaction_ptr`, wishbone signals | `target_thread` (an SC_METHOD in spite of its name), the wrapper's `target_thread` (SC_THREAD) |
| memory | `memory/magic_memory.*` | `page_map` | `load_memory`, `response_thread` (SC_THREAD) |
| vga | `vga/*` | font, palette and text arrays | `target_thread` (SC_THREAD), `on_draw`/`draw_chars` (GTK thread) |
| examples | `examples/*.c` | their variables, the devices' registers they use | `_start` and what it calls, the interrupt `handler` |

A transaction is a `tlm_generic_payload` that an initiator allocates, that
travels as a pointer and that the same initiator deletes when its answer
arrives:

    generator_thread -> request_fifo -> initiator_thread
        -> handle_initiator_req -> nb_transport_fw of the target wrapper
        -> request_fifo -> target -> response_fifo -> target_thread
        -> handle_target_resp -> nb_transport_bw -> response_fifo
        -> generator_thread

Every arrow into a fifo may block (in a thread) or end the simulation (in a
method, which may not wait).  The two initiators share every target, and the
bus remembers requesters by pointer although pointers are reused.

What is hard here, and what must hold:

* **address map**: 32-bit wrap-around, entries shared by a region's end and its
  neighbour's base, the order of registrations.  Every address must decode to
  the region that holds it; overlaps must be refused.
* **transport**: two initiators, six fifos in a row, pointer reuse, a map that is never
  cleaned, answers that come out of order between targets.  Nothing may be
  lost, duplicated, misrouted or freed too early; the assertions in
  `rv_core` and in the bus must hold; every access must be answered.
* **clocked targets** (slave port, uart): the strobe, the latency of the device
  and the code's registers must stay aligned at any distance between requests.
* **debugger master port**: one access of the debug module becomes several
  transactions, and the first two answers are its grant and its data.  The
  others must not be taken for answers to the next access, nor fill a fifo.
* **memory**: pages are invisible; a file is loaded across their boundaries.
* **vga**: a data race by design; the last picture must be right.
* **examples**: division by shifts on a processor that has no division, with
  comparisons that wrap around; recursion on a small stack; a scroll in place;
  an interrupt handler that shares the uart with the code it interrupts.

`PROJECT.json` lists these hazards one by one, at their lines.

## 2. The modules

| module | models | state and actions |
|---|---|---|
| `AddressMap` | `register_target`, `addr_map` | `addr_map` is a function from keys to target numbers or `NULL`; `RegisterTarget` is a call whose assertions hold, `RefuseTarget` one that fails (after the insertion, when the last check fails, as in the code). `LowerBound` is `lower_bound` under `std::greater`. |
| `AddressMapProofs` | theorems about it and about `Elaboration` | |
| `Elaboration` | `sc_main` up to `sc_start`, on top of `AddressMap` | `BindTarget`, `RegisterInitiator` in any order, `Start` |
| `OrderedBus` | *abstract*: what the bus promises its initiators | queues `pending[i][d]` |
| `SchoolBus` | the path of a transaction: both initiators, the bus, all targets | one action per SC_METHOD at an edge (`CoreClock`, `DebuggerClock`, `UartClock`), one per step of each SC_THREAD between two blocking calls (`InitiatorFetch`, `InitiatorDeliver`, `ThreadTargetServe`, `ThreadTargetAnswer`, `TargetTake`, `TargetReturn`), `Posedge`, `ReleaseReset` |
| `SchoolBusMC` | instances for TLC | |
| `SchoolBusProofs` | theorems about it | |
| `AtomicTarget` | *abstract*: what a clocked target promises | `waiting`, `done`, a register whose reads have an effect |
| `DebugSlave` | the slave port with its data | `Deliver`, `Clock`, `Return` |
| `UartTarget` | the uart with its data | `Deliver`, `Clock(ack)`, `Return` |
| `Selection` | `Only`: the elements of a queue that somebody is interested in | |
| `DataLemmas` | facts about queues, quotients and functions over `Nat` for the proofs | |
| `UartTargetProofs` | theorems about the uart | |
| `DebugMaster` | the master port and an access of the debug module | `Edge` is `generator_thread` at an edge, with the debug module's step (`Start`, `StayIdle`, `Grant`, `Valid`); `Answer` is the bus |
| `DebuggerProofs` | theorems about both ports of the debugger | |
| `FlatMemory` | *abstract*: an array of bytes | `Read`, `Write`, `Load` |
| `MagicMemory` | pages, `load_memory`, `response_thread` | `LoadChunk` is one iteration of the loop; `Read`, `Write` |
| `MagicMemoryProofs` | theorems about it | |
| `VgaDisplay` | the vga's stores and the GTK thread's redraw | `CopyDefault` (a byte copied by the constructor), `Construct` (its end), `BeginWrite`, `StoreLane`, `FinishWrite` against `BeginDraw`, `ReadColor`, `DrawCell` |
| `VgaDisplayMC` | instances for TLC | |
| `VgaDisplayProofs` | theorems about it | |
| `SoftArith` | `__modsi3`, `__divsi3`, `__udivsi3`, `__clzsi2`, `__mulsi3` of testcode.c | a call runs through `EnterDivision`, `DivideStep`, `LeaveDivision`, `MultiplyStep`, `LeaveMultiplication`: one action per iteration |
| `Testcode` | testcode.c: Kruskal's algorithm with `foo` (find) and `bar` (union) | `FillArrays`, `ConsiderEdge` (one iteration), `FindResult` |
| `Testvga` | testvga.c | one action per cell or color: `DrawPattern`, `ExchangeColor`, `DrawPicture`, `ScrollTop`, `ScrollRow` |
| `Testuart` | testuart.c | `Greet` (a store of `_start`) against `EnterHandler`, `StoreCharacter`, `StoreAttribute`, `Echo` |
| `Examples`, `ExamplesMC` | the choice of the program in memory; instances for TLC | |
| `ExamplesProofs` | theorems about the programs | |

The components meet in `SchoolBus`, which has the control of all of them and
none of the data; `DebugSlave`, `UartTarget`, `MagicMemory` and `VgaDisplay` take
one target each and add the data, with the rest of the system reduced to "a
transaction arrives, an answer is taken".  `DebugMaster` does the same for the
debugger's master port: `SchoolBus` lets the debug module strobe as it likes, up
to `MaxDebug` transactions under way, and `DebugMaster` shows what bounds
them.  The four target
wrappers have the same `nb_transport_fw` and `target_thread`; the map names one of
them for each action (`memory_wrapper`, `vga_wrapper`).  `SchoolBus` abstracts an address to
the target it decodes to, which is what `AddressMap` shows to be well defined; of
an address of the vga's region it leaves open whether it lies in one of the
arrays, so that `get_address`'s assertion may fail at each (`VgaDisplay` has the
arrays' places).

### What is assumed of SystemC

* A clock edge makes the three SC_METHODs runnable; they run in any order and
  read signals and fifos as they were before the edge.  Threads wake in a later
  delta cycle, so they run after all methods (`todo = {}`).
* Time passes only when nothing is runnable (`Quiescent`), so between two edges
  the threads run until all are blocked.  Delta cycles are not modelled one by
  one: a thread may run as soon as what it waits for is there.  This allows more
  interleavings than the kernel produces, never fewer.
* `sc_fifo::write` in a thread blocks until there is room, in a method it ends
  the simulation (`halted = "method_blocked"`).  A failed `sc_assert` ends it as
  well.
* `operator new` returns any free address, in particular one just deleted.

### External parts

The processor, the debug module and wbuart are submodules that are not in the
repository.  They are modelled from the signals the code drives and reads:
`Vcore` holds an access until it sees `resp`; the debug module holds its strobe
until it is granted and then waits for valid data, both of which `top.sv:146`
connects to `dmm_resp` (in `SchoolBus`: it strobes whenever it likes, bounded by
`MaxDebug`), and makes its accesses at least `Gap` edges apart, because each is
shifted in over jtag bit by bit; it executes a slave strobe
at the edge after it and has its read data one edge later; wbuart executes what
is strobed and acknowledges each strobe once, after any number of edges; what it
reads is on the wishbone only together with the acknowledgement.

## 3. What is checked

| run | question | bounds |
|---|---|---|
| `address_map` | does every sequence of registrations leave a correct map, and is every refusal explained? | 8 addresses, 3 targets: room for a region before, between and after two others, for equal, adjacent, nested and wrapping ranges |
| `address_map_adjacent` | *violated*: are adjacent regions always accepted, as the comments say? | same |
| `elaboration` | are main.cpp's own bindings accepted in every order? | the real regions, in units of 16 bytes |
| `school_bus` | is every transaction in one place, routed home, answered once, to the access that made it; does the transport implement `OrderedBus`? | three pointers, fifos of 2, two debugger transactions: one pointer fewer than would avoid reuse |
| `school_bus_tight` | the same when every fifo fills up | fifos of 1, `MaxDebug` 3, which is `2 * FifoSize + 1`; with 4 the debugger does write to a full fifo; the vga as the target with a thread; unmapped accesses and accesses to the vga's holes |
| `school_bus_live` | is every access of the processor answered, although threads block on full fifos? | fifos of 1, two debugger transactions: in some reachable states an initiator's thread waits for a target's fifo that the other initiator filled, in others a target's thread waits for an initiator's |
| `debug_slave` | does the pipeline implement `AtomicTarget`? | 3 pointers, 2 values: both stages full and one request waiting |
| `uart_target` | the same for the uart, and is every request answered? | 3 pointers, 2 values: one in flight, one waiting, one answered |
| `magic_memory` | does the file arrive, and are pages invisible? | 2 pages of 4 bytes, words of 2, files up to 5 bytes at every address |
| `vga_display` | does the window show the last write, in all arrays, holes included, and does it catch up? | 1 cell, 2 characters, 2 colours; a draw interleaves with stores between its color and its character already, and `ShowsLastWrite` is proved for any number of cells |
| `debug_master` | does every access of the debug module end, with an answer of its own, and how many transactions does it make? | latencies of 0 to 4 edges, three accesses, the shortest gap the assumption allows |
| `examples` | do the programs compute what they should? | all pairs of operands of 8 bits; all Petersen graphs of up to 20 vertices, and the program's own of 160; a screen of 5 rows and 3 columns with more passes than rows; three typed characters and two cells |

The properties, by module:

* `AddressMap`: `MapInv` (the inductive layout), `DecodeOK`, `RegionsDisjoint`,
  `RefusalExplained`; `RefusesOnlyOverlaps` is what the comments promise and the
  code does not do.  `Elaboration`: `EveryBindingAccepted`,
  `DecodedAsIntended`, which also covers the uart's assertion "bad uart
  address".
* `SchoolBus`: `EachInOnePlace` (no loss, no duplicate, no use after delete),
  `RoutedToRequester` (stale entries of `requester_map` do no harm),
  `NeverAborts` (the assertions of `rv_core` and of `handle_target_resp`; only an
  address where nothing is ends the program, unmapped or in one of the holes that
  the vga's arrays leave in its region, at the assertion of `get_address`; no method
  finds a full fifo as long as the debugger has at most `2 * FifoSize` transactions
  under way, 32 in the program; with fifos of 1 even 3 are fine), `AnswerMatchesAccess` (why `rv_core` tests
  `resp == 0`), `ImplementsOrderedBus`, `CoreAnswered`.
* `DebugSlave`, `UartTarget`: `ImplementsAtomicTarget` (each request executed
  once, in order, answered with its own data), `StrobeIsInFlight` and
  `OnePhase` (the invariants that make it so), `EveryRequestAnswered`.
* `DebugMaster`: `AnswerIsOwn` (the answers nobody took are used up before the
  next access looks for its grant; it fails without the gap), `IssueBound`
  (`MaxLatency + 2` transactions, so with a latency of up to 30 edges the bound
  of `NeverAborts` holds), `EveryAccessAnswered`.
* `MagicMemory`: `FileIsLoaded`, `ImplementsFlatMemory`.
* `VgaDisplay`: `ShowsLastWrite`, `WindowConverges`.
* `SoftArith`: `DivisionExact`.  `Testcode`: `ClassesAreComponents`,
  `SearchIsShort` (union by size bounds the recursion of `foo`); `Components`
  merges the classes each edge touches, in the order of the code's loop.  `Testvga`:
  `PalettesExchanged`, `ScrollExact`.  `Testuart`: `OutputsAreMerged`.

Every property of a passing run has a mutant in `PROJECT.json`: a plausible bug
in the code (a dropped condition, an off-by-one, a stage that is not cleared)
under which the property fails.

Deadlock is checked except in `address_map*`, `school_bus_tight` and
`vga_display`, where a failed assertion ends the program, and in `examples`,
whose programs end in a loop that does nothing.

### Fairness

* `SchoolBus!Fairness`: `WF(Next)`, as the kernel runs whatever is runnable and
  `sc_main` calls `sc_start` for ever.  No fairness between processes is needed:
  time passes only when all are blocked, so each gets its turn.  Strong fairness
  of `UartClock(TRUE)` says that wbuart acknowledges in the end.
* `UartTarget!FairSpec`: the clock runs and wbuart acknowledges in the end.
* `VgaDisplay!FairSpec`: the two operating-system threads both run.
* `DebugMaster!FairSpec`: the clock runs, and the bus answers in the end, which
  is `CoreAnswered` for the other initiator.

In `school_bus_live` the fifos have one entry and do fill up, so `CoreAnswered`
is about threads that block: the processor's behind the debugger's transaction, the
debugger's behind the processor's, and the targets' behind answers an initiator has
not taken yet.  With two debugger transactions at most one thread waits for a fifo
at a time.  With three, two may wait for the same one, and which of them wakes
first is not fixed by the code; were it always the debugger's, the processor would
starve.  The fairness above does not exclude that, and the run does not cover it.

### Finding

`register_target` refuses a region that ends exactly where a registered region
begins (`magic_school_bus.cpp:68`: `lower_bound(upper_bound)` finds the
neighbour's base), although it accepts the same two regions in the other order,
and although the comments at :58 and :69 speak only of overlap and of "adjacent
range".  main.cpp has no adjacent regions, so the program is not affected
(`elaboration`).

## 4. What is proved

`AddressMapProofs` proves, for every `AddrLimit > 0` and every `NumTargets`:

* `MapInvariant`: `Spec => [](MapInv /\ RegionsDisjoint)`
* `TypeCorrect`: `Spec => []TypeOK`
* `DecodeCorrect`: `Spec => []DecodeOK`
* `NoOverlap`: `Spec => []RegionsDisjoint`
* `RefusalsHaveReasons`: `Spec => []RefusalExplained`

`DecodeOK` is not inductive: to know what a lookup finds after the next
registration one must know which keys are there.  `MapInv` says so:
every region has its base and its end in the map and no key between them
(`RegionsMapped`), every other entry is `NULL` (`EntriesAreBases`), and every
lookup finds a key (`LookupDefined`).  `InitEstablishesInv`,
`RegisterKeepsInv` and `RefuseKeepsInv` are the three facts of the induction;
`AcceptedIsClear` turns the code's check of one key at the end into "no key
inside the new region"; `InsertKeepsFloors` says what an insertion does to
lookups; `LayoutDecodes` derives `DecodeOK`.  For a refusal the argument runs
backwards: every key of the map is the base or the end of a region
(`MarkersAreEnds`), so the key that the failed check met belongs to a region that
overlaps the new one or begins where it ends (`RefusalHasReason`).  The only
assumption is `AddressMapAssumption`.

For `Elaboration` it proves, for every address space of at least 32 bits and a
bus of at least four targets and two initiators (`ElaborationAssumption`):

* `BindingsAccepted`: `ElabSpec => []EveryBindingAccepted`
* `RunsAsIntended`: `ElabSpec => []DecodedAsIntended`

The invariant `ElabInv` (`ElaborationInvariant`) says that what is bound are
distinct devices, each with the region main.cpp gives it; when the simulation has
started, all of them.  Between any two of main.cpp's regions there is a gap
(`MainRegionsApart`), so `RefusalHasReason` leaves no reason to refuse one
(`NextIsAccepted`), and `DecodeOK` makes every boundary decode as intended.

`SchoolBusProofs` proves, for every number of transactions and targets, every
capacity of the fifos and every interleaving (`SchoolBusAssumption`):

* `OnePlace`: `Spec => []EachInOnePlace`
* `Routed`: `Spec => []RoutedToRequester`
* `AnswersMatch`: `Spec => []AnswerMatchesAccess`
* `AssertionsHold`: the program never ends as "out of order", "misrouted" or
  "dangling"; this needs no bound on the debugger
* `RunsOn`: `MaxDebug <= 2 * FifoSize` implies `Spec => []NeverAborts`; what may
  still end the program is an access to an unmapped address or to a hole of the vga
* `TypeCorrect`: `Spec => []TypeOK`
* `Refinement`: `Spec => ImplementsOrderedBus`

`Store` gathers all fifos, stages and threads into one function from places to
sequences, and `Orderly` says of it at once that no place holds a transaction
twice, no two places the same one, that they hold the allocated ones and nothing
else, and that a place of a node holds what belongs there (`BelongsTo`: an
initiator's own, or those made to the target, with `requester_map` naming the
owner).  A step of the program is a few changes of the store, each of which keeps
it orderly: a transaction enters (`EnterKeeps`), leaves (`LeaveKeeps`) or moves
on (`MoveKeeps`, `ShiftKeeps`); an edge of the debugger is five of them in a row
(`PipelineKeeps`).  `EachInOnePlace` alone is not inductive, since a thread that
waits for a full fifo must still know where to go (`ThreadsBound`), and the
answer `rv_core` frees must be the one it waits for: `CoreOK` says that the core
has no transaction but `request_in_flight`, made for its present access.  With
`TypeOK` and the reasons to end (`Ended`) these are `BusInv`; `BusKept` has one
lemma per action under it.

For `RunsOn`, `Few` counts the debugger's transactions and `Room` says that a
method that has yet to run at this edge finds room for what it writes.  Threads
do not run before the methods have, and no method writes where another does, so
`Room` need only be established when time passes (`RoomAtEdge`).  Then nothing
is runnable: a full fifo keeps a thread waiting, which waits for another full
fifo, and with what the method has in hand these hold more than
`2 * FifoSize + 1` transactions, the debugger's and the core's one (`Crowd`).
With one transaction more the count alone does not suffice, and
`2 * FifoSize + 1` is only model-checked (`school_bus_tight`, `FifoSize = 1`).

For `Refinement`, what is pending from an initiator to a destination is spread
over eight places that stand one behind another, from the answers at the
initiator back to its request fifo (`RowOf`, `InLine`); `ChainIs` shows that the
mapping's `PendingOf` is this line.  A thread or a pipeline that moves a
transaction moves it to the end of the place ahead, which leaves the line as it
is (`HandedOn`, `MovedChain`, `MovesQuietly`), so the step is a stutter
(`QuietStutters`).  An initiator that issues appends to one line and one that
takes an answer takes the head of one (`EnteredChain`, `LeftChain`); an edge of
the debugger may do both, and moves its slave port's pipeline as well
(`DebuggerChanges`).  `StepsAllowed` puts the actions together.  That no
transaction is in two places (`BusInv`) is what keeps one initiator's line from
changing with another's.  `Only` stands for `SelectSeq`, whose operator argument
the provers cannot instantiate.

`DebuggerProofs` (slave port) and `UartTargetProofs` prove, for every set of pointers and
every number of register values:

* `TypeCorrect`: `Spec => []TypeOK`
* `StrobeCorrect`: `Spec => []StrobeIsInFlight`, `PhaseCorrect`: `Spec => []OnePhase`
* `Refinement`: `Spec => ImplementsAtomicTarget`, with fifos and traffic of any
  length

The inductive invariant `IInv` is the types, `IsInjective(Pointers)` (no
transaction is in two places) and `StrobeIsInFlight` or `OnePhase`.  The
type invariant alone is not inductive: that an edge loses and duplicates
nothing depends on the strobe, or the phase of the wishbone, agreeing with the
register that holds the transaction.  The argument goes by concatenation:
`InTarget` lists everything in the target from the oldest to the newest, so that
a delivery appends to it, a return takes its head (`TakeFromFirst`), and an edge
moves elements over the borders between registers and fifos
(`HeadThenTail`, associativity) and replaces one transaction by its answer,
which has the same pointer (`AnswerKeepsPointers`).  For the refinement the same
list is cut where the device executes: an edge with the strobe up is the
abstract `Execute` (`StrobeExecutes`), every other edge a stutter
(`OtherEdgesStutter`), `Deliver` is `Arrive` and `Return` is `Return`.  The
assumptions are `DebugSlaveAssumption` and `UartTargetAssumption`: there is at least one register
value and the null pointer is no transaction.

`VgaDisplayProofs` proves, for arrays of every size and place with aligned
words:

* `LastWriteShown`: `Spec => []ShowsLastWrite`
* `TypeCorrect`: `Spec => []TypeOK`

`ShowsLastWrite` says nothing about the time while a draw is under way, so it is
not inductive.  `DrawInv` adds that unless a redraw is queued, every cell drawn
since the draw began, and the color already read of the cell in hand, shows the
arrays as they are: a store queues the redraw it makes necessary
(`DrawnIsCurrent`).  `TypeCorrect` rests on `WordFits`: a word whose address
`get_address` finds lies in the array as a whole.

`DebuggerProofs` (master port) proves, for every `MaxLatency` and every
`Gap > MaxLatency * (MaxLatency + 1)`:

* `AnswersAreOwn`: `MasterSpec => []AnswerIsOwn`
* `TransactionsBounded`: `MasterSpec => []IssueBound`
* `MasterTypeCorrect`: `MasterSpec => []MasterTypeOK`

`MasterInv` counts the transactions of an access phase by phase (`Counted`):
until the first answer there are as many as edges the oldest has been served
for, plus one; the answer takes two more edges to stop the strobe.  `AllMine`
says that they all belong to the current access, and `Draining` that an idle
debug module leaves them enough time: an edge is an edge of service for the
oldest, so `Service(Len(bus)) - age` edges empty the bus, and that many are
left of the gap.  The next access then begins with empty queues
(`StartKeepsMaster`).

`MagicMemoryProofs` proves, for every page size that is a multiple of the word
size, every number of pages, every load address and every file that fits behind
it (`MagicMemoryAssumption`, `Init`):

* `FileArrives`: `Spec => []FileIsLoaded`
* `Refinement`: `Spec => ImplementsFlatMemory`
* `TypeCorrect`: `Spec => []TypeOK`

The invariant `MemoryInv` adds to the two what ties the loader together
(`InStep`): while it runs, `address` is `base + pos`, or 0 behind the last byte
of the memory, where nothing is left to copy (`CopyFits`).  The rest is
arithmetic of pages, from the uniqueness of quotient and remainder
(`DivisionUnique`): an aligned word lies in one page (`WordInPage`), up to the
end of a page addresses differ in their offsets only (`WithinPage`), and a step
that replaces one page leaves the defined bytes of the others (`PageReplaced`).
`LoadStep`, `ReadStep` and `WriteStep` say which bytes a step changes; the
refinement follows, `LoadChunk` being `Load` of its chunk.

`ExamplesProofs` proves about the programs of `examples/`, from the assumptions
of their modules, that `ProgramsInv`, the conjunction of one invariant for each
program, is inductive (`ProgramsInvariant`), and from it `TypeCorrect` (each loop
of testvga.c stays inside the arrays it uses, testcode.c's parents are vertices,
testuart.c's receive fifo holds no more than was typed) and:

* testuart.c, `OutputsMerge`: `Spec => []OutputsAreMerged`.  `UartInv` counts:
  what `_start` and what `handler` have sent are the first `greeted` and `index`
  elements of what they shall send; the characters typed are those handled, then
  those in the fifo; the screen shows those stored.
* testvga.c, `PalettesAreExchanged` and `ScrollIsExact`: `VgaInv` says for each
  cell how many passes of the scroll it has seen (`Passes`) and for each column
  which character the one-row buffer holds (`ColumnBuffered`).  That the generator
  is the one of the specification, call by call, is `GeneratorInStep`.
* testcode.c, `DivisionIsExact`: `Spec => []DivisionExact`, for words of 2, 4, 8,
  16 or 32 bits, of which the code's is the last.  `ClzExact` says that the binary
  search of `__clzsi2` finds the highest bit, so that `__udivsi3` starts with a
  remainder smaller than the divisor.  `Divides` is the loop invariant of the
  shift register, in which what is left of the dividend lies above the quotient's
  digits; `DigitFound` is one iteration of it: neither the doubled rest nor the
  comparison wraps around, because a divisor with the sign bit set fits at most
  once.  `__mulsi3` and the signs are computed modulo `2 ^ WordBits` (`Same`).  The
  powers of two up to 2 ^ 32 are enumerated (`PowerDoubles`), as `^` has no laws in
  the provers.
* testcode.c, `RootsAreComponents`, `RootsAreConnected` and `RecursionIsShort`, for
  every set of Petersen graphs: `foo` is a recursion over data, so the invariant
  `CodeInv` speaks of witnesses, a root `top[v]` and a depth `depth[v]` for each
  vertex that agree with `nodes` (`Forest`); `FindIsTop` and `DepthIsDepth` show
  by induction on the depth that `foo` and the depths of `SearchIsShort` are
  those.  `bar` hooks one root below another (`HookKeepsForest`), which merges
  two trees (`HookMerges`), adds their sizes and, as the smaller goes below the
  larger, lets no depth outgrow the logarithm of the size (`HookKeepsSizes`).
  `RootsConnect` restates the components without an algorithm: two vertices
  have different roots exactly if a set of vertices that no considered edge
  leaves has one of them and not the other.

Inductions over natural numbers go through the set of the numbers for which a
fact holds (`Induction` and `Recursion` of `DataLemmas`), as the library's
theorems take an operator.

Only model-checked: the largest `MaxDebug` of `NeverAborts`, and the liveness
properties `CoreAnswered`, `EveryRequestAnswered`, `WindowConverges` and
`EveryAccessAnswered`, which are out of the prover's reach.  `RefusesOnlyOverlaps`
is violated.

## 5. What is not modelled

* the contents of `vga_common.cpp` (two constant tables) and of testvga.c's two
  tables, pixels, colours and blinking;
* the processor, the debug module, the jtag server and wbuart, beyond the
  signals named above; the serial line;
* reset after the start: `sc_main` releases it once and the code has no
  handling ("TODO need anything for reset here?");
* unaligned accesses ("TODO alignment");
* a file that cannot be opened or read (the assertions of `load_memory` at
  `magic_memory.cpp:77` and :84): the file loaded is one that can;
* the start-up code of the examples (`entry.h` sets the stack pointer), and the
  processor they run on: a statement that touches a device is one step;
* the end of the simulator (and the thread it leaves running), tracing, the
  command line and the scripts;
* what GTK does when `queue_draw` is called from a thread of its own: the model
  takes it as one atomic step.

## 6. Plan

1. A composition of the data-carrying targets with the address map, so that a
   load of the processor is compared with its last store, and its refinement of
   one array of registers and bytes.
2. `NeverAborts` for `MaxDebug = 2 * FifoSize + 1`, for which it must be known
   which fifos the debugger's transactions can fill at once.
