---------------------------- MODULE CommandStreamer ----------------------------
(***************************************************************************)
(* The command streamer (gpu/blocks/command_streamer.cpp): a queue filled  *)
(* by the host, and one thread that issues its commands, each by raising   *)
(* the ports of the block that executes it for one tick.                   *)
(*                                                                         *)
(* A command is Draw or a blit [type, ptr, buffer, size], ptr counting     *)
(* dwords.                                                                 *)
(***************************************************************************)
EXTENDS Naturals, Sequences

CONSTANTS
    Blits,          \* the blits the host may schedule
    Draw,           \* the command of a draw
    None,           \* no command on the blitter's ports
    SizeMod,        \* values of outSizeInDwords, 2^16 in the code
    MaxCommands     \* bound: commands in the queue

VARIABLES
    commands,       \* the queue
    csPhase,        \* "top": at the wait() of the loop; "issued": at the one after the ports
    csBusy,         \* profiling.outBusy
    paEnable,       \* paBlock.outEnable
    bltCommand      \* the ports of bltBlock

csVars == <<commands, csPhase, csBusy, paEnable, bltCommand>>

\* What the blitter can be given: the size loses its upper bits on the port.
OnPort(blit) == [blit EXCEPT !.size = @ % SizeMod]

CsInit ==
    /\ commands = <<>> /\ csPhase = "top" /\ csBusy = FALSE
    /\ paEnable = FALSE /\ bltCommand = None

\* draw() and blit(), called by the host between two ticks.
Enqueue(command) ==
    /\ Len(commands) < MaxCommands
    /\ commands' = Append(commands, command)
    /\ UNCHANGED <<csPhase, csBusy, paEnable, bltCommand>>

CsIdle(gpuBusyNoCs) ==
    /\ csPhase = "top"
    /\ commands = <<>> \/ gpuBusyNoCs
    /\ csBusy' = FALSE
    /\ UNCHANGED <<commands, csPhase, paEnable, bltCommand>>

\* Mutant: the command is issued whether the GPU is busy or not.
MutIssue(gpuBusyNoCs) ==
    /\ csPhase = "top"
    /\ commands # <<>>
    /\ csPhase' = "issued"
    /\ csBusy' = TRUE
    /\ \/ Head(commands) = Draw /\ paEnable' = TRUE /\ UNCHANGED bltCommand
       \/ Head(commands) # Draw /\ bltCommand' = OnPort(Head(commands)) /\ UNCHANGED paEnable
    /\ UNCHANGED commands

CsIssue(gpuBusyNoCs) ==
    /\ csPhase = "top"
    /\ commands # <<>> /\ ~gpuBusyNoCs
    /\ csPhase' = "issued"
    /\ csBusy' = TRUE
    /\ \/ Head(commands) = Draw /\ paEnable' = TRUE /\ UNCHANGED bltCommand
       \/ Head(commands) # Draw /\ bltCommand' = OnPort(Head(commands)) /\ UNCHANGED paEnable
    /\ UNCHANGED commands

\* Mutant: the command stays in the queue.
MutFinish ==
    /\ csPhase = "issued"
    /\ csPhase' = "top"
    /\ paEnable' = FALSE /\ bltCommand' = None
    /\ UNCHANGED <<commands, csBusy>>

\* The ports have been up for a tick.
CsFinish ==
    /\ csPhase = "issued"
    /\ csPhase' = "top"
    /\ paEnable' = FALSE /\ bltCommand' = None
    /\ commands' = Tail(commands)
    /\ UNCHANGED csBusy

CsTick(gpuBusyNoCs) == CsIdle(gpuBusyNoCs) \/ CsIssue(gpuBusyNoCs) \/ CsFinish

CsTypeOK ==
    /\ commands \in Seq(Blits \cup {Draw}) /\ Len(commands) <= MaxCommands
    /\ csPhase \in {"top", "issued"} /\ csBusy \in BOOLEAN /\ paEnable \in BOOLEAN
    /\ bltCommand \in {OnPort(b) : b \in Blits} \cup {None}
=============================================================================
