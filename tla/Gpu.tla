---------------------------------- MODULE Gpu ----------------------------------
(***************************************************************************)
(* How the GPU is used (gpu/gpu.cpp, gpu/blocks/command_streamer.cpp): the *)
(* host schedules commands and calls waitForIdle(), the command streamer   *)
(* issues them one after the other.  Both decide by busy signals alone,    *)
(* which setBusyValue() collects and delays.                               *)
(*                                                                         *)
(* Of the pipeline the model has what the busy signals show of it: the     *)
(* front (primitive assembler, vertex shader, rasterizer) keeps one of its *)
(* signals up until it has passed on all fragments, and the rest of the    *)
(* draw is the last batch of the fragment shader, a block whose signal is  *)
(* not in the list.  The picture a draw leaves is one dword.               *)
(***************************************************************************)
EXTENDS Naturals, Sequences

CONSTANTS
    Blits, Draw, None, SizeMod, MaxCommands, AccessTicks,
    MemoryDwords,   \* the memory
    Framebuffer,    \* the dword a draw writes,
    Picture,        \* and what it writes there
    InitialMemory, InitialBuffers,
    LastBatches,    \* the sizes the last batch of a draw may have
    BatchSize,      \* maxThreadsCount, 32
    WorkTicks       \* the ticks a stage of the pipeline may take

\* A blit as CommandStreamer::blit() takes it; ptr counts dwords.
BlitCommands == [type : {"CopyToMem", "FillMem", "CopyFromMem"}, ptr : Nat,
                 buffer : DOMAIN InitialBuffers, size : Nat]

ASSUME GpuAssumption ==
    /\ Blits \subseteq BlitCommands /\ Draw \notin Blits
    /\ None \notin BlitCommands /\ None \notin Nat
    /\ SizeMod \in Nat \ {0} /\ MaxCommands \in Nat \ {0}
    /\ AccessTicks # {} /\ AccessTicks \subseteq Nat \ {0}
    /\ Framebuffer \in 0 .. MemoryDwords - 1
    /\ BatchSize \in Nat /\ LastBatches \subseteq 1 .. BatchSize
    /\ WorkTicks # {} /\ WorkTicks \subseteq Nat \ {0}

\* The memory and the user's buffers are arrays of dwords.
ASSUME ArraysAssumption ==
    /\ MemoryDwords \in Nat
    /\ InitialMemory = [a \in 0 .. MemoryDwords - 1 |-> InitialMemory[a]]
    /\ InitialBuffers = [b \in DOMAIN InitialBuffers |-> InitialBuffers[b]]
    /\ \A b \in DOMAIN InitialBuffers :
        /\ DOMAIN InitialBuffers[b] \subseteq Nat
        /\ InitialBuffers[b] = [i \in DOMAIN InitialBuffers[b] |-> InitialBuffers[b][i]]

\* A blit that does not fit its 16 bits is shortened on its way to the blitter.
ASSUME SizesAssumption == \A b \in Blits : b.size < SizeMod

VARIABLES
    commands, csPhase, csBusy, paEnable, bltCommand,
    memory, buffers, command, dwordIndex, accessDelay,
    front,          \* 0, or the ticks the front still works
    back,           \* what the fragment shader's last batch is at
    backDelay,      \* the ticks it still is
    lastBatch,      \* its size, in every draw of the run
    busyNoCs,       \* the last three values collected, the newest first
    waited,         \* ticks since waitForIdle() was called, or None
    expected        \* [memory, buffers] after the commands scheduled so far, in order

Cs == INSTANCE CommandStreamer
Blt == INSTANCE Blitter WITH inpCommand <- bltCommand, Nothing <- None

csVars == <<commands, csPhase, csBusy, paEnable, bltCommand>>
bltVars == <<memory, buffers, command, dwordIndex, accessDelay>>
pipelineVars == <<front, back, backDelay>>
vars == <<csVars, bltVars, pipelineVars, lastBatch, busyNoCs, waited, expected>>

-----------------------------------------------------------------------------
(* The pipeline.                                                           *)

\* perFragmentThread holds an unfinished batch for a tick in which the rasterizer
\* is idle already and the shader frontend has not seen the request.
CollectTicks == IF lastBatch < BatchSize THEN 1 ELSE 0

\* It then receives a response for a full batch, of which the shader frontend has
\* sent the part of the fragments there are: 5 dwords for each.
ResponseTicks == 5 * (BatchSize - lastBatch)

FrontIdle == front = 0 /\ ~paEnable /\ UNCHANGED front

FrontStart == front = 0 /\ paEnable /\ front' \in WorkTicks

FrontWork == front > 1 /\ front' = front - 1

\* The rasterizer keeps its fragments while the fragment shader is at work.
FrontHolds == front = 1 /\ back # "idle" /\ UNCHANGED front

FrontDone == front = 1 /\ back = "idle" /\ front' = 0

FrontTick == FrontIdle \/ FrontStart \/ FrontWork \/ FrontHolds \/ FrontDone

\* "collect": in receiveWithTimeout; "shade": request, shader units, response;
\* "receive": reading the response after its end; "output": the output merger.
BackFor(phase, ticks) == back' = phase /\ backDelay' \in ticks

BackIdle == back = "idle" /\ front # 1 /\ UNCHANGED <<back, backDelay>>

BackStart ==
    /\ back = "idle" /\ front = 1
    /\ IF CollectTicks > 0 THEN BackFor("collect", {CollectTicks}) ELSE BackFor("shade", WorkTicks)

BackWork == back # "idle" /\ backDelay > 1 /\ BackFor(back, {backDelay - 1})

BackNext ==
    /\ backDelay = 1
    /\ \/ back = "collect" /\ BackFor("shade", WorkTicks)
       \/ /\ back = "shade"
          /\ IF ResponseTicks > 0 THEN BackFor("receive", {ResponseTicks})
             ELSE BackFor("output", WorkTicks)
       \/ back = "receive" /\ BackFor("output", WorkTicks)
       \/ back = "output" /\ BackFor("idle", {1})

BackTick == BackIdle \/ BackStart \/ BackWork \/ BackNext

PictureDone == back = "output" /\ backDelay = 1

-----------------------------------------------------------------------------
(* Gpu::setBusyValue.                                                      *)

\* Mutant: the command streamer's own signal is left out.
MutBusy == Blt!BltBusy \/ front > 0 \/ back \in {"shade", "output"}

\* getBlocksBusySignals() and the command streamer's signal.  The list has the
\* shader frontend twice and the fragment shader not at all, whose outBusy nobody
\* writes either.
Busy == Blt!BltBusy \/ front > 0 \/ back \in {"shade", "output"} \/ csBusy

SetBusyValue == busyNoCs' = <<Busy, busyNoCs[1], busyNoCs[2]>>

\* Mutant: smoothed over two ticks.
MutOutBusy(history) == history[1] \/ history[2]

\* The two outputs, of the values collected up to the last tick.
OutBusy(history) == history[1] \/ history[2] \/ history[3]
OutBusyNoCs == busyNoCs[1]

-----------------------------------------------------------------------------
(* The host, which runs between the ticks.                                 *)

Dwords(blit) == blit.ptr .. blit.ptr + blit.size - 1

\* What a command is to do with the memory and the host's buffers.
Effect(cmd, state) ==
    IF cmd = Draw
    THEN [state EXCEPT !.memory[Framebuffer] = Picture]
    ELSE IF cmd.type = "CopyFromMem"
    THEN [state EXCEPT !.buffers[cmd.buffer] =
             [i \in DOMAIN @ |-> IF i < cmd.size THEN state.memory[cmd.ptr + i] ELSE @[i]]]
    ELSE [state EXCEPT !.memory =
             [a \in DOMAIN @ |->
                 IF a \notin Dwords(cmd) THEN @[a]
                 ELSE state.buffers[cmd.buffer][IF cmd.type = "FillMem" THEN 0 ELSE a - cmd.ptr]]]

gpuVars == <<bltVars, pipelineVars, lastBatch, busyNoCs>>

HostSchedules ==
    /\ waited = None
    /\ \E cmd \in Blits \cup {Draw} : Cs!Enqueue(cmd) /\ expected' = Effect(cmd, expected)
    /\ UNCHANGED <<gpuVars, waited>>

HostCallsWait ==
    /\ waited = None
    /\ waited' = 0
    /\ UNCHANGED <<gpuVars, csVars, expected>>

TicksBeforeSample == 4 + 1

\* waitForIdle() looks at outBusy after the tick.
HostTick ==
    \/ waited = None /\ UNCHANGED waited
    \/ /\ waited # None
       /\ waited' = IF waited + 1 < TicksBeforeSample THEN waited + 1
                    ELSE IF OutBusy(busyNoCs') THEN TicksBeforeSample - 1
                    ELSE None

-----------------------------------------------------------------------------

Init ==
    /\ Cs!CsInit /\ Blt!BltInit
    /\ memory = InitialMemory /\ buffers = InitialBuffers
    /\ front = 0 /\ back = "idle" /\ backDelay = 1 /\ lastBatch \in LastBatches
    /\ busyNoCs = <<FALSE, FALSE, FALSE>>
    /\ waited = None
    /\ expected = [memory |-> InitialMemory, buffers |-> InitialBuffers]

Tick ==
    /\ Cs!CsTick(OutBusyNoCs)
    /\ Blt!BltTick
    /\ memory' = IF PictureDone THEN [Blt!BltMemory EXCEPT ![Framebuffer] = Picture]
                 ELSE Blt!BltMemory
    /\ FrontTick /\ BackTick
    /\ SetBusyValue
    /\ HostTick
    /\ UNCHANGED <<lastBatch, expected>>

Next == HostSchedules \/ HostCallsWait \/ Tick

Spec == Init /\ [][Next]_vars

FairSpec == Spec /\ WF_vars(Tick)

-----------------------------------------------------------------------------
(* Properties.                                                             *)

TypeOK ==
    /\ Cs!CsTypeOK
    /\ DOMAIN memory = 0 .. MemoryDwords - 1 /\ DOMAIN buffers = DOMAIN InitialBuffers
    /\ command \in {Cs!OnPort(b) : b \in Blits} \cup {None}
    /\ dwordIndex \in Nat /\ (command # None => dwordIndex < command.size)
    /\ accessDelay \in Nat /\ front \in Nat /\ backDelay \in Nat \ {0}
    /\ back \in {"idle", "collect", "shade", "receive", "output"}
    /\ lastBatch \in LastBatches
    /\ busyNoCs \in [1 .. 3 -> BOOLEAN]
    /\ waited \in 0 .. TicksBeforeSample - 1 \cup {None}

\* No block works, and no command is on its way to one.
OnlyFragmentsAreLeft == command = None /\ bltCommand = None /\ ~paEnable /\ front = 0
GpuQuiet == OnlyFragmentsAreLeft /\ back = "idle"

Issues == csPhase = "top" /\ csPhase' = "issued"
Returns == waited # None /\ waited' = None

\* A run whose last batches are full, which the busy signals describe rightly.
Full == lastBatch = BatchSize

\* "CommandStreamer ... performs a full stall before all requests"
\* (docs/TaskLaunching.md:5): a command is issued to a GPU that has nothing to
\* do.  Blocks look at their command ports only when idle, so a command issued
\* too early would be lost or run beside another.
StallBeforeCommand == [][Full /\ Issues => GpuQuiet]_vars

\* waitForIdle() stalls the host "until the GPU is done with all scheduled
\* computations" (docs/TaskLaunching.md:7).
WaitForIdleWaits == [][Full /\ Returns => commands' = <<>> /\ GpuQuiet']_vars

\* Whatever the batches are, the fragment shader's work is the only work that
\* can be left when a command is issued or waitForIdle() returns: no command is
\* ever lost or overlooked.
NoCommandIsLost ==
    [][/\ Issues => OnlyFragmentsAreLeft
       /\ Returns => commands' = <<>> /\ OnlyFragmentsAreLeft']_vars

\* "the order of operations is guaranteed" (docs/TaskLaunching.md:5): when
\* waitForIdle() returns, memory and buffers are as the commands leave them that
\* are executed one by one in the order of their calls.
CommandsInOrder == [][Returns => memory' = expected.memory /\ buffers' = expected.buffers]_vars

\* It does so in a run with full batches.
FullCommandsInOrder ==
    [][Full /\ Returns => memory' = expected.memory /\ buffers' = expected.buffers]_vars

\* waitForIdle() returns.
WaitReturns == waited # None ~> waited = None
=============================================================================
