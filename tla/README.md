# A TLA+ verification of PicoGpu

PicoGpu is a simulated GPU in SystemC: a command streamer, a blitter, a
rendering pipeline of seven blocks, an array of shader units with its own
instruction set, and a memory behind a controller that arbitrates between the
blocks. This project models it in TLA+, checks the models with TLC on small
instances and proves the most important invariants with TLAPS for all.

## 1. How the program runs, and how the models treat it

Every block is one or more `SC_CTHREAD`s that wait for the rising edge of one
clock. In a tick every thread runs from one `wait()` to the next. It reads the
values that signals had before the tick; what it writes becomes visible in the
next tick, and of several writes of one thread to one signal the last one
counts. Threads of one tick are run in an order the kernel does not specify.
So:

- **a step of a model is one tick of the clock**, a conjunction of one action
  of every thread (`Tick == Blocks!Tick /\ Controller!Tick /\ Ram!Work`);
- reading a signal is reading the unprimed variable, writing it is assigning the
  primed one;
- the position of a thread, that is the `wait()` it is at, is a variable
  (`phase`, `sendPhase`, `receivePhase`); work between two waits is one action;
- the order of the threads in a tick is invisible as long as each signal has one
  writer. The one signal with two writers, `clientsLatched[i].enable`
  (`SC_UNCHECKED_WRITERS`), takes the value of either
  (`MemoryController!Latch`).

The only fairness is that the clock ticks as long as the simulation is run
(`sc_start`): `WF_vars(Tick)`, or in `ShaderArray` that the variable `inpClock`, which
every tick toggles, changes for ever (the same, and much cheaper for TLC: a tick is
always possible, which the deadlock check confirms). Each block moves in every
tick; no block is given fairness of its own.

## 2. Inventory

| component | source | state | operations | talks to | hard behaviour |
|---|---|---|---|---|---|
| Memory | `gpu/blocks/memory.h` | the dwords, the completion signal | read, write | memory controller | a request it sees twice is performed twice |
| MemoryController | `gpu/blocks/memory_controller.h` | a latch per client, round robin position, requests in flight | listen, select, wait, complete | memory; up to four clients; another controller | two threads, one shared data output, pulses one tick long, starvation |
| Transfer | `gpu/util/transfer.h` | two control signals, data ports | send, receive, with several arrays and packages, timeout | every two neighbours of the pipeline | both sides infer a meeting from signals one tick old, then stream with no further synchronisation |
| CommandStreamer | `gpu/blocks/command_streamer.cpp` | command queue | enqueue, run, `waitForIdle` | blitter, primitive assembler, all busy signals | a stall decided by a busy value which is several ticks old |
| Gpu | `gpu/gpu.cpp` | busy value | wiring, `setBusyValue` | all blocks | the list of busy signals |
| Blitter | `gpu/blocks/blitter.cpp` | current command | copy to memory, from memory, fill | memory, command streamer | size 0 |
| PrimitiveAssembler, VertexShader | same names | triangle in work | fetch vertices, shade, stream | memory, shader frontend | lengths of messages differ between neighbours |
| Rasterizer, FragmentShader | same names | triangle, batch of fragments | rasterize, collect 32 fragments or until a timeout, shade | shader frontend, output merger | a timeout that races a late fragment, two threads sharing the batch, attributes of the next triangle |
| OutputMerger | `gpu/blocks/output_merger.cpp` | none | depth test, two writes | memory | the two writes are not atomic |
| ShaderFrontend | `gpu/blocks/shader_array/shader_frontend.cpp` | unit states, ISA cache | take requests, send ISA and request to a unit, return results | its clients, the units, memory | two threads over shared unit states, stale ISA, everyone waits on everyone |
| ShaderUnit | `gpu/blocks/shader_array/shader_unit.cpp` | ISA, registers of 32 lanes | load ISA, execute | shader frontend | masked lanes |
| EntryCache | `gpu/util/entry_cache.h` | entries and the order of their use | get, put | shader frontend | eviction order |
| Assembler, PicoGpuBinary | `gpu/isa/assembler/*` | program, input and output declarations, uniforms | directives, instructions, their finalisation, reset | the program that uses the GPU; pins and header, for frontend and unit | state kept between assemblies; generated code that shares 16 registers with the user's inputs |
| ISA | `gpu/isa/isa.h` | none | layouts, opcodes, encoded counts | assembler, shader unit, frontend | a count of 4 is encoded as 0 |
| Register allocator | `gpu/definitions/register_allocator.*` | free registers | allocate | assembler and shader unit, each with its own | both must get the same registers |
| Tracing, logging, timing, OS | `gpu/util/*` | none that matters | I/O | | not a subject of this project |

What makes each correct, in a sentence: the memory subsystem behaves as an
atomic memory for every client and starves none; a transfer delivers each
message once, intact and in order; a command starts when the ones before it are
over; the rasterizer finds every pixel inside a triangle, and every fragment the fragment
shader takes reaches the output merger with the attributes of its own triangle (it can lose
the first of a triangle, a finding); the final depth of a pixel is the least of its
taken fragments'; the shader frontend returns to each client the result of its own
request, computed with the shader it named; whatever was assembled before, a
shader begins with its inputs interpolated in the registers its text names, and
each of its lines does what the documents say.

`PROJECT.json` lists the hazards of the code, each at its line, and the
properties that cover them.

## 3. The memory subsystem

### Modules

| module | models |
|---|---|
| `Memory` | `memory.h`: `Work` is one tick of `work()` |
| `MemoryController` | `memory_controller.h`: `Listen`/`Latch` are `listenClients()`, the other actions are what `main()` does between two waits: `ScanNothing`, `Select` (a request found and passed to the memory), `Release` (outEnable lowered), `KeepWaiting` (memory not ready), `Complete` (result passed on) |
| `MemoryClients` | the protocol of the blocks that use the memory: raise `outEnable` for one tick, wait for `inpCompleted`, take the data. Which accesses they make, and when, is left open |
| `MemorySystem` | the three wired together as in `Gpu::connectInternalPorts`; its properties |
| `AtomicMemory` | abstract: a memory on which each client has at most one call, performed atomically between call and return |
| `MemoryRefinement` | the refinement mapping from `MemorySystem` to `AtomicMemory` |
| `MemoryLatency` | `MemorySystem` with the age of each client's request |
| `MemoryChain` | two controllers, the inner one the memory of the outer one, as docs/Memory.md:22 promises they can be connected; the GPU has one controller and does not use it (`MemoryController` instantiated twice) |
| `MemoryControllerProofs` | lemmas about one controller, whatever is connected to it on either side |
| `MemorySystemProofs` | the theorems about `MemorySystem`, `MemoryLatency` and `MemoryRefinement` |
| `MemoryChainProofs` | the theorem that two controllers in a chain implement `AtomicMemory` too |

### Abstractions

- Dwords come from a small set `Data`; addresses are byte addresses, of which
  the memory drops the low two bits as the code does (`DwordIndex`).
- A block clears its other ports after an access. The output merger leaves
  `outWrite` at 1, which nobody samples while `outEnable` is low.
- The profiling counters wrap at `CounterMod` (2^32 in the code).
- An address outside the memory is undefined behaviour (docs/Memory.md leaves the
  range to the clients): `ClientsAssumption` excludes it.

### Properties

- `CompletionReachesRequester`: a pulse on `outCompleted` reaches one client, and
  that client waits for it. All clients read one data output; a pulse too many
  would hand somebody another client's data.
- `LatchHasOneWriter`: `listenClients` and `main` never write one latch's `enable`
  in the same tick, so the unspecified order of the threads does not matter.
- `RequestIsHeld`: a raised request is on the ports, in the latch, or being
  answered, with the address and data it was raised with.
- `IdleMeansQuiet`: `profiling.outBusy` low means nothing is in the memory. A
  request that was latched in the tick before may exist: `outBusy` is that late.
- `Linearizable` (`MemoryRefinement`) and `ChainLinearizable` (`MemoryChain`): the
  subsystem implements `AtomicMemory`. A call is performed when the memory
  performs it; it is "performed" from that tick to the return.
- `ChainAnswered`: every request is answered, from the clock alone. With a single
  controller `AnsweredInTime` says more.
- `AnsweredInTime`: an uncontended request is answered 4 ticks after it is raised;
  each other client delays it by at most 3 ticks. The bound is met exactly
  (with one tick less TLC finds a violation).

### Runs

| run | instance | shows |
|---|---|---|
| `memory_safety` | 3 clients, all but one read-only as the template allows; 2 dwords, accessed at an unaligned address of the second; 2 values | the type invariant, the four safety properties, `AnsweredInTime` and `Linearizable`, of `MemorySystem` with the ages of `MemoryLatency` |
| `memory_chain` | 2 clients outside, 1 direct client and the outer controller inside | `ChainLinearizable`, `ChainAnswered`; the memory of the outer controller takes a varying time, so this run is the one that needs `waitForMemory` to loop |

Why the bounds are enough: two clients give every overlap of one request being
served with another being raised or latched, three are the fewest for which the
round robin can favour two over one (the GPU has four). One address makes every two
accesses conflict; that requests of different clients keep their own addresses is
proved (`RequestSafe`). Two values tell an old value from a new one, and
`CounterMod` 2 lets the counters wrap. The safety properties are proved for all values in any case.

### Theorems (`MemoryControllerProofs`, `MemorySystemProofs`, `MemoryChainProofs`)

For every number of clients, memory size, set of addresses and set of values,
from `CountsAssumption`, `ClientsAssumption` and `DataAssumption` alone:
`TypeCorrect`, `CompletionSafe`, `LatchSafe`, `RequestSafe`, `IdleSafe`,
`LatencyBound` and `Refinement`; for two controllers in a chain, with any number of blocks on
either (`ChainAssumption`), `ChainRefinement`.

None of the safety properties is inductive. What makes them so is a property of one
controller, proved once in `MemoryControllerProofs` for any neighbours that keep two promises: a client
holds back while it waits and asks for what it waits for (`ClientStep`), the memory
answers one request at a time (`MemoryStep`). `ServiceInv` says where a request can be: on the ports of its block, then in its
latch and equal to what the block still waits for, then answered by a pulse, nowhere twice and
never nowhere while the block waits (`ClientInv`); a pulse is remembered by `main` in
`clientForOutputClear` (`PulseInv`); `main` drives the latched request for one tick and waits for its
answer (`PhaseInv`). `ServiceStep` is its induction step, `AnswerStep` that a completion hands the
client the answer of the memory.

`MemorySystemProofs` applies this to one controller between blocks and memory. Its `IInv` adds
that the memory has answered exactly while `main` is at its "wait" (`LockStepInv`), and what `outBusy` covers (`BusyInv`).
`Refinement` (`Spec => Linearizable`) maps each tick to a step or a stutter of `AtomicMemory`,
which in one step performs, calls and returns for any number of clients: with `IInv`, a tick
in which the memory works performs the call of `currentClient`, and only that one.

`MemoryChainProofs` applies it twice. In `ChainInv` each controller satisfies `ServiceInv`, the outer one as client 0
of the inner one: it waits while its `main` is not at "scan", and keeps the promise of
a client because its `PhaseInv` says so; the inner one keeps the promise of a memory because its `ClientInv` does.
`ChainRefinement` (`Spec => ChainLinearizable`) then places the effect of a call in the tick in which the inner
controller's memory works, for a block of the outer one as well.

`LatencyBound` (`LatencySpec => []AnsweredInTime`) rests on `LatencyInv`: the age
of a request and the ticks it can still have to wait (`Remaining`: the rest of the request in service,
3 ticks for each client whose turn comes before its own, and its own 3) are together at
most `WorstLatency`.

## 4. The handshake between blocks

`Transfer` models `sendArrayImpl` and `receiveArrayImpl`, one thread calling each.
Between calls a thread spends any number of ticks elsewhere ("idle") or calls
again at once. The waits of the sender are "offer" (handshake loop) and "stream"
(further package); those of the receiver "ask" (first wait of the handshake),
"stall" (its loop) and "stream". A message is a sequence of arrays of which only
the first performs the handshake, since shader requests are sent like that.
The constant `Calls` holds the kinds of calls the blocks make, each with its number
of ports, the lengths on either side (they are separate, because callers
disagree) and the timeout; a behaviour is about one of them (`call`).

Elements are tokens `<<message, array, index>>`, messages being numbered modulo
`Messages`; `delivered` is a history variable with the number last received. As
at most one message is under way, any modulus above 2 tells a lost, repeated
or reordered message from a good one.

Properties: `HandshakeAgrees` (both sides conclude in the same tick that they
met), `DeliveredIntact` (each message arrives once, in order, each element at
its index, for the elements both sides count), `BusyWhileHolding`
(the receiver's busy signal), `MeetingDelivers` (liveness), `ReceiverTrustsSender`
(the half of the agreement that survives a timeout). The first two and
`MeetingDelivers` are stated for calls without a timeout.

| run | instance | shows |
|---|---|---|
| `transfer` | the seven kinds of calls in `MCTransfer`, among them 13 dwords sent and 12 read (vertex shader to rasterizer) and a response shorter than what the fragment shader reads | all of the above; the two disagreements about lengths are harmless for what both sides count |
| `transfer_timeout` | the call with a timeout of 5 | **violation** of `TimeoutIsHonoured` |

### Theorems (`TransferProofs`)

For all calls that `TransferAssumption` admits (any ports, arrays, lengths and timeout) and any
number of messages. `HandshakeSafe`, `TrustSafe` and `BusySafe` follow from `ControlIInv`: the sender offers
exactly while `sending` is up, the receiver asks or stalls exactly while `receiving` is up, and
the tick in which both are up is the tick in which both leave the handshake.
`DeliverySafe` (`DeliveredIntact`) needs `InStepAlways`: after the handshake nothing synchronises the
threads any more, yet in every tick the package on the ports is the one the receiver takes next
(`InStep`), or the receiver has all that was sent and reads on beyond it (`Beyond`); what it has is the
message up to there. `LayoutAssumption` is its premise: all arrays but the last have the same length on
either side, as in every call of the code; the last one may differ.

**Finding.** `receiveArrayImpl` compares `*timeout >= (++clocksWaiting)`
(transfer.h:103), so a timeout of 5 cancels in the second tick, while the comment
at transfer.h:68 promises the number of ticks.

## 5. From the triangle to the picture

`Rasterization` is the loop over the pixels and `isPointInTriangle`, in integers
(for which the code's floats are exact as long as products stay below 2^24).
`FragmentStage` is the three threads of rasterizer and fragment shader, tick by
tick, over both channels: `RasterizerTick`, `PerTriangleTick`, `PerFragmentTick`, each a
disjunction of the thread's waits. A fragment is a triangle's number and its rank
among the pixels the triangle hits; the exchanges with shader frontend and output
merger take 1 to `MaxDelay` ticks. `custom` and `timeout` are fixed in a behaviour:
timeout 5 is the code, timeout 0 a receive without one.

`OutputMerger` is what the output merger does with a fragment, one memory access a
step (an access is atomic, as section 3 shows, but the steps of others come between
two of them). `Picture` composes it with `Rasterization`: a draw of triangles, its
fragments on their way in a queue, in order, as `FragmentStage` keeps them, and a depth
and a colour buffer in one memory. The fragment shader between them loses what
`FragmentStage` shows it can lose: the rasterizer's first hit of a triangle arrives or
not, as the timing has it (`Missed`, justified by `OnlyFirstIsLost`), the others arrive (`Taken`). Its triangles are parallel to the screen; what
depth a fragment has otherwise is a result of section 8. `AtomicPicture` is the
abstract specification: the depth and the colour of a pixel change as one, and with
a depth test only to something nearer. The refinement mapping gives a pixel its new
colour from the step that writes its depth.

| run | instance | shows |
|---|---|---|
| `picture` | 3 by 2 pixels; every single triangle with vertices on and around them; pairs of five triangles at any of three depths, with and without a depth test; two fragments under way | `HitsAreInside`: for a proper triangle of either winding the hits are the pixels inside, against a definition by weighted means of the vertices; `NearestTakenIsSeen`: at the end each pixel shows the nearest of the triangles whose fragment there was taken, of equally near ones the first, without a depth test the last; `MergesAtomically`: the refinement |
| `fragment_stage` | batches of 2, triangles of 0 to 4 fragments, numbered modulo 3, timeout 0 or 5, with and without custom attributes | a fragment is lost only to a timeout while no batch is open (`LostBetweenBatches`), and only the first of its triangle (`OnlyFirstIsLost`), batches hold one triangle's consecutive fragments and are shaded with its attributes (`BatchOfOneTriangle`, `OwnAttributes`), the rasterizer gets through (`TriangleCompletes`) |
| `fragment_lost` | batches of 2, triangles of 0 to 2 fragments, timeout 5 | **violation** of `EveryFragmentIsTaken` |

Bounds: batches of two show a full batch, an open one and one that spans the end of
a triangle, four fragments make two full batches; no custom attributes is the
fastest the rasterizer can be, hence the worst case for `OwnAttributes`. Three
triangle numbers tell the triangle in work from its neighbours. In `picture` two
triangles give every order of two fragments at a pixel, and the depth of the cleared
buffer is among the depths of triangles. `picture` does not check for deadlock: a
draw ends.

### Theorems (`PictureProofs`)

- `InsideIsHit`: for any triangle with integer vertices that are not on one line, `isPointInTriangle`
  is true of exactly the points that are weighted means of the vertices. `HitsExact`: the loop
  passes on exactly the pixels of any framebuffer that are (`RasterIInv`: the hits so far are those
  before `x`, `y` in the order of the loop). `WindingFree` and `RotationFree`: neither winding nor first vertex
  matter; from `SignSwap`, that exchanging two vertices negates the sign.
- `DrawHitsExact`: the same for each triangle of a draw, with the output merger running along.
  `MergeRefinement`: `Picture` implements `AtomicPicture`; between the output merger's two writes `fragment` is
  still nearer than the depth it found (`PictureIInv`). `DrawIsRight`: when a draw of any number of triangles is over, each
  pixel has depth and colour of the nearest triangle it is inside of, of those whose fragment there the fragment shader has taken. Its invariant `SeenIInv` assigns the
  waiting fragments to triangles: each pixel is at every step what merging those of its hits that wait no longer
  makes of it, and those that wait come later in the order of the triangles.
  Assumed are buffers that do not overlap (`BuffersAssumption`) and a draw of at least one triangle.
- `BetweenBatches`, `FirstIsLost`, `OneTriangle`, `OwnAttributesSent`: the four safety properties of `FragmentStage`, for any
  size of batches, of triangles and of the vertex format and any delays. `StageIInv` has what the signals tell (`SignalsInv`), that rasterizer and
  `perTriangleThread` stream in step (`AttribsInv`), that the fragment shader does not stall within a triangle
  (`PromptInv`), and that the rasterizer has not come to its next triangle while an open batch waits (`BatchInv`).
  With the comparison of section 4 every timeout from 2 on fires in the second tick, the code's 5
  (fragment_shader.cpp:50) among them, and one of 1 never; `StageAssumption` excludes that one.

**Finding.** A receive that times out lowers its request in the tick in which the
rasterizer may see it, and the fragment is gone; with the comparison of section 4
this happens to the first fragment of a triangle whenever it is offered one tick
after the fragment shader began to ask.

**A remark on degenerate triangles.** Triangles whose vertices are on one line hit
every pixel on that line, and with three equal vertices the whole framebuffer, as
all signs are then 0. `HitsAreInside` and `NearestTakenIsSeen` leave them out.

**A remark on repairing the timeout.** No signal protects `perTriangleAttribs` while a
batch is open: `OwnAttributes` and `BatchOfOneTriangle` hold because the rasterizer takes
longer for its next triangle than the fragment shader waits. With the comparison
repaired, so that five ticks are honoured, they still hold with no tick to spare; a
timeout one tick longer breaks `OwnAttributes`.

## 6. Commands and busy signals

`CommandStreamer` (the queue, `main()`), `Blitter` (`main()`, dword by dword over the
memory `AtomicMemory` specifies) and `Gpu`, which instantiates both with the host, the
pipeline as far as its busy signals show it, and `setBusyValue`. Of the pipeline, the
*front* (primitive assembler, vertex shader, rasterizer) keeps a listed signal up
until all fragments have been passed on; the *back* is the fragment shader's last
batch: collected, shaded (the shader frontend is busy), received, passed to the
output merger. The fragment shader's own signal is not in the list, so what
matters is how long it is at work alone: one tick while it holds an unfinished
batch (`CollectTicks`), and 5 for each thread a batch lacks to 32, in which it reads
on after the shader frontend is done (`ResponseTicks`).

| run | instance | shows |
|---|---|---|
| `gpu_commands` | two commands of three blits and a draw, scheduled at any time, last batches of 31 or 32 fragments | with full batches: a command starts on a quiet GPU (`StallBeforeCommand`), `waitForIdle` returns on a quiet GPU with an empty queue (`WaitForIdleWaits`), memory and buffers are then as if commands ran one by one (`FullCommandsInOrder`); with any batch no command is lost (`NoCommandIsLost`) and the wait ends (`WaitReturns`) |
| `gpu_partial_batch` | the same | **violation** of `CommandsInOrder` |

Bounds: two commands are the fewest that can overlap or be reordered; a batch of 31
is the one with the shortest time unseen, so smaller ones are worse. A stage takes
one or two ticks and a memory access four, the least there is: short work is the
worst case for signals that are late. The smoothing over three ticks is exactly
enough for `waitForIdle` with full batches (with two, `WaitForIdleWaits` fails); its first
wait of five ticks has three to spare.

### Theorems (`GpuProofs`)

For any blits, queue, batch size, and blocks and a memory of any speed: `NothingIsLost`
(`NoCommandIsLost`), `FullStall` (`StallBeforeCommand`), `WaitIsLongEnough` (`WaitForIdleWaits`), `FullInOrder` (`FullCommandsInOrder`). The
invariant `IInv` says what a busy value tells that is a tick old: if it is low and the command streamer at the
top of its loop, no port is up and no block at work (`SeenInv`), since a port is up in a tick in
which `outBusy` of the command streamer is (`IssueInv`); and a command still in the queue while `waitForIdle`
waits has been held up by a value that is among the last three (`WaitInv`). `FullInv`: without partial batches one block works at a time.
For the order, `OrderInv` says that `expected` is what the queue leads to from `Outcome`, memory and buffers once
the block at work is done (`Rest`: the dwords a blit still has to copy); a tick keeps `Outcome` or takes
the next command to it (`TickOutcome`). `OrderInv` quantifies over the results of the commands in the queue, which is more than TLC can enumerate.
`FullInOrder` assumes blits that fit the 16 bits of their port (`SizesAssumption`); a longer one is shortened
(a hazard), and then the property does not hold.

**Finding.** With fewer than 32 fragments in the last batch `waitForIdle` returns, or
the next command is issued, before they are written. Since no other block's work is
overlooked, adding the fragment shader to the list (with a busy signal it does not
drive today) is what is missing.

## 7. The shader array

`ShaderArray` has `requestThread` and `responseThread` of the shader frontend, the command
loop of each unit, and the clients; `EntryCache` the operators of the ISA cache. A phase is
a wait of a thread, a step a tick. What section 4 established is used here: when
sender and receiver wait for one another in one tick, the message passes as one
record and both count the same ticks for the rest of it (`RequestTicks`, `FeedTicks`,
`ReplyTicks`). `shaderUnitStates` are plain variables: in a tick in which `responseThread`
frees a unit, `requestThread` sees the old or the new value (`Released`).

Clients are the vertex and the fragment shader, which wait for each response
(`limit` 1), or one client that sends up to three ahead, as the test of the frontend
does. The fragment shader receives the dwords of a full batch whatever its batch was
(fragment_shader.cpp:33), so after a response it may read on for some ticks before its next
request (`DrainTicks`). A host may upload another shader to an address in use, between draws (`Upload`).

| run | instance | shows |
|---|---|---|
| `shader_array` | limits 1, 1 or 3, 0; two units; three shaders, a cache of two as in the code; shaders run 1 or 2 ticks, so results overtake one another | a unit is marked with its request from the tick it runs until its result is read (`UnitsAreMarked`); results reach the client, token and shader of their request (`OwnResponse`); the cache holds the addresses used last (`CacheIsLru`); every client is served (`Answered`) |

`ShaderIsCurrent` says exactly when a unit is given an outdated shader: when another was
uploaded to an address among the two last used, and the address has been among
them since. The code has no way to invalidate the cache, and no document says that
an address must not be used again.

Bounds: a cache of two is the code's (`isaCacheSize`), three shaders are one more than
it holds, and two units are the least that lets results overtake one another.

### Theorems (`ShaderArrayProofs`)

`UnitsMarked`, `ResponsesAreOwn`, `CacheKeepsLatest`, `CurrentUnlessCached` and `ArrayTypes`, for any number of
clients, units and shaders, any size of the cache and any times. They follow from one invariant,
`ArrayInvariant` (`ArrayIInv`):

- `FlightInv`: a request is held at one place at a time, by the client that offers it, by `requestThread`,
  by a unit, or with its result by `responseThread`, and from its offer on its client waits for it
  (`HeldOnce`); a result at the wrong client, or twice, would need a second place;
- `ClientInv`, `RequestInv`, `UnitInv`, `ResponseInv`: the partners of a transfer are at the same tick of it, the
  unit `requestThread` has chosen is idle, and a unit is marked with its request from the tick in which it has its inputs to the
  one in which `responseThread` has its result, whichever of the two threads runs first in a tick;
- `CacheInv`, `MissInv`: the order of use is a permutation of the cache's places, the addresses used last come
  first in it, and a shader being fetched is not in the cache;
- `CurrentInv`: which of the cached shaders are outdated.

`ArrayAssumption` says of the constants what the code's types do, and that `None` is no request and no client.

`Answered` depends on the clients: two clients that both send a second request before they take
the first result can block `responseThread` for ever, and with three clients the fixed
order could starve the last. The GPU has two clients, which wait for each response.

## 8. Shader programs

The shader array above passes shaders and requests as tokens; this section is about
what is in them. Assembler, host pins, shading block, frontend and unit count dwords
and choose registers each by rules of its own, and no message carries a length.

| module | models |
|---|---|
| `Fractions` | arithmetic on exact fractions, in place of floats (external) |
| `Isa` | the layouts and opcodes of instructions, counts in two bits (`Encoded`, where 4 is 0), and which words the grammar makes of a line (`Assembled`) |
| `RegisterAllocator` | the n-th register that is free |
| `PicoGpuBinary` | the binary: the directives with their checks, their finalisation with the header and the generated code (`Interpolation`, `Preamble`), instructions, the end of a program (`Epilogue`), `reset`, the values the host copies to the pins |
| `ShaderRequest` | the headers of the two shading blocks, the frontend's counts and `validateRequest` |
| `ShaderUnit` | storing a shader, laying out inputs in the registers of the lanes, every instruction, the output |
| `ShaderProgram` | all of them in a row: a text is assembled line by line, perhaps into a binary used before (`Reset`); a triangle of the vertex buffer or a batch of fragments is shaded with it (`RequestVertices`, `RequestFragments`, `FeedUnit`, `StartUnit`, `RunUnit`, `Answer`) |

Actions of `ShaderProgram` are calls of the grammar, then messages and ticks of the
unit. The program is sequential here: how the messages are handed over, and what
other blocks do meanwhile, is in sections 4 and 7. The inputs are different numbers at every
place, so that a component read from anywhere else shows.

### Abstractions

Numbers are fractions in lowest terms in place of 32-bit floats and integers: there
is no rounding and no overflow, infinities and NaN are one value `NotANumber`, a
square root is exact or `NotANumber`. Fields of the layouts wide enough for what they hold
have no width. A text comes as its lines (scanner and error messages are left out). A
lane that does not run has no registers.

### Properties

- `AcceptedIsServed`: what the assembler accepts, the frontend accepts with pins
  set from the binary, if header and program are no longer than `MaxIsaSize`. `validateRequest`
  compares the header with the pins, which come from one binary
  by different functions, and stops the program if they differ. Without the condition it is false of the code (see below).
- `CountsAgree`: block, frontend and unit count the same dwords of a request; one
  too few would block the unit, one too many shift the next request. Unit, frontend and
  vertex shader count the same dwords of an answer. The fragment shader counts those of a full
  batch, whatever it asked for: there the answer is what its fragments need, and no more than it
  has room for; what it reads beyond is not used.
- `AtInstruction`: the unit's program counter is always at the first word of an instruction.
- `FragmentInputs`: when the user's code begins, the depth and the inputs are the
  perspective-correct interpolation at the fragment, against a definition by
  areas, for whatever registers the directives name. The generated code juggles edges, areas
  and weights in registers of inputs not computed yet; three inputs take all 16.
- `VertexInputs`: a vertex shader's thread has the components of its own vertex, for the second triangle too.
- `UniformsAndZeroes`: uniforms have their values, and every other register is 0 unless the
  text says `#undefinedRegs`: nothing of an earlier shader or the interpolation is left.
- `FragmentAnswer`: colour and depth of each fragment in the answer.
- `OtherLinesDoAsDocumented`: a step through a line of the user's code changes what
  docs/ShaderProgramming.md says of its mnemonic, in the masked components of its destination only, in
  every lane that runs. It makes the exceptions of `Unexceptional`: `fmad`, `fnorm` and `fcross` under a mask, and a swizzle onto its own
  source that reads a component it has changed. `LinesDoAsDocumented` is the same without exceptions, as
  the documents have it.

### Runs

| run | instance | shows |
|---|---|---|
| `shader_program` | texts of up to six directives in any order, out of twelve (among them a mask that is refused and a register that is input and uniform), with four pieces of code; used binaries of up to four words; two triangles of a vertex buffer, two triangles and two fragments at once | the eight properties; that nothing blocks is the deadlock check: each request is answered, or a text refused |
| `shader_fmad` | a shader of one `fmad` | **violation** of `LinesDoAsDocumented` |

Bounds: six directives are a type, three inputs or two and a uniform, an output and one that is
wrong. Inputs come in sizes 4, 3, 2 and 1, in order of registers or not. The second
vertex triangle is the first with an address other than 0, two fragments the fewest for
which a lane may get another's dwords. The pieces of code have every layout but that
of `fmad`, masks with gaps and fewer immediate values than components. `MaxIsaSize` is
51 in `shader_program`, in place of the code's 512, and lies among the lengths of its texts (up to 51 words): most
fit with their header, some of 49 and 50 words are assembled and refused by the frontend, and at one of 51 the
assembler stops.

**Finding.** The grammar gives `fmad` (parser.y:134) the opcode of `fcross2`: the shader
unit computes the 2D cross product of the first two sources, under a mask that is the
number of the third. The generated interpolation has the right opcode, so pictures
look right as long as no program uses the mnemonic.

**Remarks.** Places where the code and its documents differ without a run of their own:

- A register that is input and uniform should be refused; the check (pico_gpu_binary.cpp:41)
  looks at the registers of the directive's own kind and accepts it. The uniform wins
  (`UniformsAndZeroes`); properties of inputs leave such registers out (`OwnInputs`).
- `reset()` clears the state of the error stream but not its text: after an error a
  binary refuses everything. It keeps the length of the old program, whose words become zeros in
  front of the new one: each is an instruction without effect, so results stay right.
- The frontend (shader_frontend.cpp:129) refuses to load more than 512 dwords, header included,
  though its cache has room for a header and 512 (shader_frontend.h:93). The assembler
  (pico_gpu_binary.h:102) allows 511 without the header: programs of 510 and 511 words are
  assembled and stop the GPU, and `AcceptedIsServed` leaves these two lengths out.
- `fnorm` and `fcross` ignore their mask, which the documents offer. Binary
  instructions take one immediate value, where the documents promise up to four.
- A swizzle with equal source and destination reads what it has written. isa.h:227 allows it;
  the code that is generated does it with one component for all, which is harmless.
- A user's code that overwrites its position corrupts the depth that goes out; the
  documents call overwriting inputs undefined.
- `areShadersCompatible` (pico_gpu_binary.cpp:227) compares the vertex shader's outputs with its own inputs.

### Theorems (`ShaderProgramProofs`)

For any texts, directives, reuse, triangles, fragments and `MaxIsaSize`. `ProgramAssumption` says what
the grammar can produce (`IsLine`): registers, one to four immediate values or none, the
components of a swizzle, which always writes all four (parser.y has no mask for it).

- `AtInstructionAlways`: the invariant `WordsInv` says that the words of a binary and of the unit can be cut into
  instructions (`Cut`: a set of places from each of which an instruction leads to the next, up to the end), for the
  text so far, the generated code and the zeros of a used binary alike.
- `AcceptedIsServedAlways`: what the assembler accepts, the frontend accepts with pins set from it, if
  program and header fit into `MaxIsaSize` (the assembler counts without the header).
- `CountsAgreeAlways`: from `RequestInv` (the request is the one of the binary that was built) and `StreamInv` (what is
  under way has the length that each of the three counts); `AnswerOfBlock` is what the two blocks count for an answer. A batch has at
  most `SimdSize` fragments (`ProgramAssumption`; the loop at fragment_shader.cpp:54 ends there).
- `UniformsAndZeroesAlways`: `StartInv` says that the code before `start` is what the directives generate, `LoadInv` what the
  registers hold from the first word on: the interpolation writes no uniform's register, and `Preamble` clears what is neither input nor uniform.
- `VertexInputsAlways`: `VertexInv`, from where in the dwords of a request each input of each thread lies.
- `OtherLinesDoAsDocumentedAlways`: `TextInv` says that the words from `start` on are those of the lines, one after another,
  and `LanesInv` that lanes are arrays of four numbers. So at the first word of a line the unit fetches the words
  the grammar made of this line; what `ExecuteInstruction` does with them is compared with the documents, layout by layout.
- `FragmentAnswerFollows`: `Spec /\ []FragmentInputs => []FragmentAnswer`. `EndInv` says that after the user's lines there is one word, which
  moves z into all components; `DepthInv` that the position register keeps the depth through every line, since a line writes
  nothing but its destination (`OnlyDestination`); `AnswerParts` finds colour and depth in the stream that goes out.

Counts, places and generated code are sums, concatenations and folds over the directives. As induction rules are out of the prover's
reach, these lemmas take a least counterexample in place of it, since the order of
the natural numbers is well-founded, and unfold a fold by one element.

`FragmentInputs`, the premise of the last theorem, is checked and not proved: it rests on the fractions being exact, and
`Fractions` brings them to lowest terms by a recursion whose result is not available to the provers.

## 9. Theorems

All are for every value of the constants; sections 3 to 8 give their invariants.

| module | theorems | assumptions, and why the code justifies them |
|---|---|---|
| `MemorySystemProofs` (on `MemoryControllerProofs`) | `TypeCorrect`, `CompletionSafe`, `LatchSafe`, `RequestSafe`, `IdleSafe`, `LatencyBound`, `Refinement` | at least one client and one dword; clients keep to the range of addresses, which docs/Memory.md leaves to them |
| `MemoryChainProofs` (on `MemoryControllerProofs`) | `ChainRefinement` | the same, and at least one block on the outer controller |
| `TransferProofs` | `TypeCorrect`, `HandshakeSafe`, `TrustSafe`, `BusySafe`, `InStepAlways`, `DeliverySafe` | ports and lengths are positive; arrays before the last have one length on both sides (`LayoutAssumption`), true of all calls; `Nothing` is no element |
| `PictureProofs` | `InsideIsHit`, `HitsExact`, `LoopIsExact`, `WindingFree`, `RotationFree` | the framebuffer's sizes fit the coordinates' type |
| | `StageInvariant`, `BetweenBatches`, `FirstIsLost`, `OneTriangle`, `OwnAttributesSent`, `StageTypes` | the timeout is not 1; it is 5 |
| | `PictureInvariant`, `MergeRefinement`, `DrawHitsExact`, `AlwaysRight`, `DrawIsRight` | the two buffers do not overlap, which is the host's to see to |
| `GpuProofs` | `GpuInvariant`, `NothingIsLost`, `FullStall`, `WaitIsLongEnough`, `FullInOrder` | blits fit their port (only for `FullInOrder`); memory and buffers are arrays |
| `ShaderArrayProofs` | `ArrayInvariant`, `UnitsMarked`, `ResponsesAreOwn`, `CacheKeepsLatest`, `CurrentUnlessCached`, `ArrayTypes` | `None` is no request; times are positive |
| `ShaderProgramProofs` | `AtInstructionAlways`, `AcceptedIsServedAlways`, `CountsAgreeAlways`, `UniformsAndZeroesAlways`, `VertexInputsAlways`, `OtherLinesDoAsDocumentedAlways`, `FragmentAnswerFollows` | directives and lines are such as the grammar produces, and a batch has at most 32 fragments; the last one also takes `[]FragmentInputs`, which the run `shader_program` checks |

Invariants were checked by TLC on the instances of the runs before they were proved.

Only checked by TLC:

- liveness (`ChainAnswered`, `MeetingDelivers`, `TriangleCompletes`, `WaitReturns`, `Answered`), out of the prover's reach;
- `FragmentInputs`, the interpolated inputs of a fragment, which need the arithmetic of fractions in lowest
  terms; what goes out for a fragment (`FragmentAnswer`) is proved from it;
- what is false, by its counterexamples: the properties of the four runs that expect a violation.

`TypeOK` is a property of a run for the memory subsystem alone, and a theorem for the memory subsystem,
`Transfer`, `FragmentStage`, `ShaderArray` and, as part of its invariant, `Gpu`; in the other
modules it says what the variables hold.

## 10. What is not modelled

- The scanner, the texts of errors, tracing, logging, timing, files (input and output);
  host programs and the elaboration of ports; the measurement of a command's time.
- `PrimitiveAssembler` and `VertexShader` tick by tick. Which dwords they read and send is in
  section 8, how in sections 3 and 4, their busy signals in section 6; the loop over the
  triangles of a draw is not a thread of its own. The vertex shader sends one dword more
  than the rasterizer reads, a call of the run `transfer`.
- Blits of size 0 and draws of fewer than three vertices, for which a block leaves its loop in the
  tick it entered and its `RaiiBooleanSetter` stops the program (listed as a hazard).
- Rounding and overflow of numbers.

## 11. Plan

Done: memory subsystem, transfers, the rasterizer and the fragment shader, commands and busy
signals, the shader frontend with units and cache, the output merger and the picture of a draw,
shader programs from text to answer.

Every safety invariant and every refinement a passing run checks is proved, save `FragmentInputs`, and
`FragmentAnswer` only relative to it. A proof would begin with fractions as pairs that are equal crosswise, for
which no lowest terms are needed.

Models that could follow: the loops of `PrimitiveAssembler` and `VertexShader` as threads in front of
`FragmentStage`.
