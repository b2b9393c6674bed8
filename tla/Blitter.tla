-------------------------------- MODULE Blitter --------------------------------
(***************************************************************************)
(* The blitter (gpu/blocks/blitter.cpp) with the memory it accesses dword  *)
(* by dword.  The memory is the one AtomicMemory specifies: an access is   *)
(* performed at some moment between the request and the answer, here with  *)
(* the answer.                                                             *)
(***************************************************************************)
EXTENDS Naturals

CONSTANTS
    Nothing,        \* the command type None on the ports
    AccessTicks     \* the ticks an access may take, from the request to the answer

VARIABLES
    inpCommand,     \* the command ports
    memory,         \* [dword -> value]
    buffers,        \* what the user pointers point to, [buffer -> [dword -> value]]
    command,        \* the command in work, or Nothing; outBusy is up meanwhile
    dwordIndex,
    accessDelay     \* ticks until the access in work is answered

bltVars == <<buffers, command, dwordIndex, accessDelay>>

BltInit == command = Nothing /\ dwordIndex = 0 /\ accessDelay = 1

BltBusy == command # Nothing

BltIdle ==
    /\ command = Nothing /\ inpCommand = Nothing
    /\ UNCHANGED bltVars

\* A command of size 0 stops the program here: RaiiBooleanSetter finds its port
\* low when the loop is over in the tick in which it began.
BltStart ==
    /\ command = Nothing /\ inpCommand # Nothing
    /\ inpCommand.size > 0
    /\ command' = inpCommand
    /\ dwordIndex' = 0
    /\ accessDelay' \in AccessTicks
    /\ UNCHANGED buffers

BltAccess ==
    /\ command # Nothing /\ accessDelay > 1
    /\ accessDelay' = accessDelay - 1
    /\ UNCHANGED <<buffers, command, dwordIndex>>

Answered == command # Nothing /\ accessDelay = 1
IsWrite == command.type \in {"CopyToMem", "FillMem"}

\* Mutant: a fill reads on in the user's buffer.
MutUserPtrIndex == dwordIndex

UserPtrIndex == IF command.type = "FillMem" THEN 0 ELSE dwordIndex

IsLast == dwordIndex + 1 = command.size

\* The memory as the blitter leaves it in this tick.
BltMemory ==
    IF Answered /\ IsWrite
    THEN [memory EXCEPT ![command.ptr + dwordIndex] = buffers[command.buffer][UserPtrIndex]]
    ELSE memory

\* The next access is requested in the tick in which the last one is answered.
BltAnswered ==
    /\ Answered
    /\ buffers' = IF IsWrite THEN buffers
                  ELSE [buffers EXCEPT ![command.buffer][dwordIndex] =
                                           memory[command.ptr + dwordIndex]]
    /\ \/ /\ ~IsLast
          /\ dwordIndex' = dwordIndex + 1
          /\ accessDelay' \in AccessTicks
          /\ UNCHANGED command
       \/ /\ IsLast
          /\ command' = Nothing
          /\ dwordIndex' = 0
          /\ UNCHANGED accessDelay

BltTick == BltIdle \/ BltStart \/ BltAccess \/ BltAnswered
=============================================================================
