------------------------------- MODULE GpuProofs -------------------------------
(***************************************************************************)
(* Theorems about Gpu for any blits, any number of commands, any size of   *)
(* batches, and pipeline and memory of any speed.                          *)
(***************************************************************************)
EXTENDS Gpu, TLAPS

-----------------------------------------------------------------------------
(* The inductive invariant behind the action properties.                   *)

\* Ports are up at "issued" alone, with outBusy, and to blocks that are idle.
IssueInv ==
    /\ csPhase = "top" => bltCommand = None /\ ~paEnable
    /\ csPhase = "issued" =>
        /\ csBusy /\ commands # <<>>
        /\ command = None /\ front = 0
        /\ Full => back = "idle"
        /\ paEnable = (Head(commands) = Draw)
        /\ bltCommand = IF paEnable THEN None ELSE Cs!OnPort(Head(commands))

\* If nothing was busy a tick ago, nothing but fragments is left now, unless the
\* command streamer has just issued a command.
SeenInv ==
    csPhase = "top" /\ ~OutBusyNoCs => OnlyFragmentsAreLeft /\ (Full => back = "idle")

\* A command that waitForIdle() found in the queue has been held up by a busy
\* value that is still in the history.
WaitInv ==
    waited \notin {None, 0} /\ csPhase = "top" /\ ~csBusy /\ commands # <<>> => busyNoCs[2]

\* Full batches are in stages with a busy signal, and work alone.
FullInv ==
    Full => /\ back \in {"idle", "shade", "output"}
            /\ back # "idle" => front = 0
            /\ command # None => front = 0 /\ back = "idle"

IInv == TypeOK /\ IssueInv /\ SeenInv /\ WaitInv /\ FullInv

-----------------------------------------------------------------------------
\* What the blitter finds on its ports is a blit, and so never None.
PortCommands == {Cs!OnPort(b) : b \in Blits}

LEMMA PortCommand ==
    ASSUME NEW b \in Blits
    PROVE  /\ Cs!OnPort(b) \in PortCommands
           /\ Cs!OnPort(b) \in BlitCommands
           /\ Cs!OnPort(b) # None
<1>1. b.size % SizeMod \in Nat
    BY GpuAssumption DEF BlitCommands
<1>2. Cs!OnPort(b) \in BlitCommands
    BY <1>1, GpuAssumption DEF BlitCommands, Cs!OnPort
<1>. QED
    BY <1>2, GpuAssumption DEF PortCommands

LEMMA PortCommandsAreBlits == PortCommands \subseteq BlitCommands /\ None \notin PortCommands
BY PortCommand DEF PortCommands

-----------------------------------------------------------------------------
(* Types.                                                                  *)

LEMMA Triple ==
    ASSUME NEW a \in BOOLEAN, NEW b \in BOOLEAN, NEW c \in BOOLEAN
    PROVE  <<a, b, c>> \in [1 .. 3 -> BOOLEAN]
OBVIOUS

LEMMA InitType == Init => TypeOK
<1>. SUFFICES ASSUME Init
              PROVE  TypeOK
    OBVIOUS
<1>1. Cs!CsTypeOK
    <2>1. commands \in Seq(Blits \cup {Draw}) /\ Len(commands) = 0
        BY DEF Init, Cs!CsInit
    <2>2. Len(commands) <= MaxCommands
        BY <2>1, GpuAssumption
    <2>. QED
        BY <2>1, <2>2 DEF Init, Cs!CsInit, Cs!CsTypeOK
<1>2. busyNoCs \in [1 .. 3 -> BOOLEAN]
    BY Triple DEF Init
<1>3. DOMAIN memory = 0 .. MemoryDwords - 1
    BY ArraysAssumption DEF Init
<1>. QED
    BY <1>1, <1>2, <1>3 DEF Init, TypeOK, Blt!BltInit

LEMMA CsType == ASSUME TypeOK, IssueInv, Cs!CsTick(OutBusyNoCs) PROVE Cs!CsTypeOK'
<1>1. CASE Cs!CsIdle(OutBusyNoCs)
    BY <1>1 DEF TypeOK, Cs!CsIdle, Cs!CsTypeOK
<1>2. CASE Cs!CsIssue(OutBusyNoCs)
    <2>1. commands \in Seq(Blits \cup {Draw}) /\ commands # <<>>
        BY <1>2 DEF TypeOK, Cs!CsTypeOK, Cs!CsIssue
    <2>2. Head(commands) \in Blits \cup {Draw}
        BY <2>1
    <2>. QED
        BY <1>2, <2>2 DEF TypeOK, Cs!CsIssue, Cs!CsTypeOK
<1>3. CASE Cs!CsFinish
    <2>1. commands \in Seq(Blits \cup {Draw}) /\ commands # <<>>
        BY <1>3 DEF Cs!CsFinish, TypeOK, Cs!CsTypeOK, IssueInv
    <2>2. commands' \in Seq(Blits \cup {Draw}) /\ Len(commands') <= Len(commands)
        BY <1>3, <2>1 DEF Cs!CsFinish
    <2>3. Len(commands') <= MaxCommands
        BY <2>1, <2>2, GpuAssumption DEF TypeOK, Cs!CsTypeOK
    <2>. QED
        BY <1>3, <2>2, <2>3 DEF Cs!CsFinish, TypeOK, Cs!CsTypeOK
<1>. QED
    BY <1>1, <1>2, <1>3 DEF Cs!CsTick

LEMMA BltType ==
    ASSUME TypeOK, Blt!BltTick
    PROVE  /\ (command \in PortCommands \cup {None})'
           /\ (dwordIndex \in Nat /\ (command # None => dwordIndex < command.size))'
           /\ (accessDelay \in Nat)'
           /\ DOMAIN Blt!BltMemory = DOMAIN memory
           /\ DOMAIN buffers' = DOMAIN buffers
<1>1. command \in PortCommands \cup {None} /\ bltCommand \in PortCommands \cup {None}
    BY DEF TypeOK, Cs!CsTypeOK, PortCommands
<1>2. AccessTicks \subseteq Nat
    BY GpuAssumption
<1>3. DOMAIN Blt!BltMemory = DOMAIN memory
    BY DEF Blt!BltMemory
<1>4. CASE Blt!BltIdle
    BY <1>1, <1>3, <1>4 DEF TypeOK, Blt!BltIdle, Blt!bltVars
<1>5. CASE Blt!BltStart
    BY <1>1, <1>2, <1>3, <1>5 DEF TypeOK, Blt!BltStart
<1>6. CASE Blt!BltAccess
    BY <1>1, <1>3, <1>6 DEF TypeOK, Blt!BltAccess
<1>7. CASE Blt!BltAnswered
    <2>1. command # None => command.size \in Nat
        BY <1>1, PortCommandsAreBlits DEF BlitCommands
    <2>2. DOMAIN buffers' = DOMAIN buffers
        BY <1>7 DEF Blt!BltAnswered
    <2>. QED
        BY <1>1, <1>2, <1>3, <1>7, <2>1, <2>2 DEF TypeOK, Blt!BltAnswered, Blt!Answered, Blt!IsLast
<1>. QED
    BY <1>4, <1>5, <1>6, <1>7 DEF Blt!BltTick

LEMMA PipelineType ==
    ASSUME TypeOK, FrontTick, BackTick, UNCHANGED lastBatch
    PROVE  /\ front' \in Nat /\ backDelay' \in Nat \ {0} /\ lastBatch' \in LastBatches
           /\ back' \in {"idle", "collect", "shade", "receive", "output"}
<1>1. WorkTicks \subseteq Nat \ {0}
    BY GpuAssumption
<1>2. front' \in Nat
    <2>1. front \in Nat
        BY DEF TypeOK
    <2>2. CASE FrontStart
        BY <1>1, <2>2 DEF FrontStart
    <2>3. CASE FrontWork
        BY <2>1, <2>3 DEF FrontWork
    <2>4. CASE FrontIdle \/ FrontHolds \/ FrontDone
        BY <2>1, <2>4 DEF FrontIdle, FrontHolds, FrontDone
    <2>. QED
        BY <2>2, <2>3, <2>4 DEF FrontTick
<1>3. lastBatch \in Nat /\ BatchSize \in Nat /\ lastBatch <= BatchSize
    BY GpuAssumption DEF TypeOK
<1>4. CollectTicks \in Nat /\ ResponseTicks \in Nat
    BY <1>3 DEF CollectTicks, ResponseTicks
<1>5. /\ backDelay' \in Nat \ {0}
      /\ back' \in {"idle", "collect", "shade", "receive", "output"}
    <2>1. CASE BackIdle
        BY <2>1 DEF TypeOK, BackIdle
    <2>2. CASE BackStart
        <3>1. CASE CollectTicks > 0
            BY <1>4, <2>2, <3>1 DEF BackStart, BackFor
        <3>2. CASE ~(CollectTicks > 0)
            BY <1>1, <2>2, <3>2 DEF BackStart, BackFor
        <3>. QED
            BY <3>1, <3>2
    <2>3. CASE BackWork
        BY <2>3 DEF TypeOK, BackWork, BackFor
    <2>4. CASE BackNext
        <3>1. CASE back = "shade" /\ ResponseTicks > 0
            BY <1>4, <2>4, <3>1 DEF BackNext, BackFor
        <3>2. CASE back = "shade" /\ ~(ResponseTicks > 0)
            <4>1. BackFor("output", WorkTicks)
                BY <2>4, <3>2 DEF BackNext
            <4>2. backDelay' \in WorkTicks /\ back' = "output"
                BY <4>1 DEF BackFor
            <4>. QED
                BY <1>1, <4>2
        <3>3. CASE back # "shade"
            <4>1. /\ backDelay' \in WorkTicks \/ backDelay' = 1
                  /\ back' \in {"shade", "output", "idle"}
                BY <2>4, <3>3 DEF BackNext, BackFor
            <4>2. backDelay' \in Nat \ {0}
                <5>1. CASE backDelay' \in WorkTicks
                    BY <1>1, <5>1
                <5>2. CASE backDelay' = 1
                    BY <5>2
                <5>. QED
                    BY <4>1, <5>1, <5>2
            <4>. QED
                BY <4>1, <4>2
        <3>. QED
            BY <3>1, <3>2, <3>3
    <2>. QED
        BY <2>1, <2>2, <2>3, <2>4 DEF BackTick
<1>. QED
    BY <1>2, <1>5 DEF TypeOK

LEMMA BusyType ==
    ASSUME TypeOK, SetBusyValue
    PROVE  /\ busyNoCs' \in [1 .. 3 -> BOOLEAN]
           /\ busyNoCs'[1] = Busy /\ busyNoCs'[2] = busyNoCs[1] /\ busyNoCs'[3] = busyNoCs[2]
           /\ Busy \in BOOLEAN
<1>1. Busy \in BOOLEAN
    BY DEF Busy, TypeOK, Cs!CsTypeOK, Blt!BltBusy
<1>2. busyNoCs[1] \in BOOLEAN /\ busyNoCs[2] \in BOOLEAN
    BY DEF TypeOK
<1>. QED
    BY <1>1, <1>2 DEF SetBusyValue

LEMMA TypeNext == TypeOK /\ IssueInv /\ [Next]_vars => TypeOK'
<1>. SUFFICES ASSUME TypeOK, IssueInv, [Next]_vars
              PROVE  TypeOK'
    OBVIOUS
<1>1. CASE HostSchedules
    <2>1. PICK cmd \in Blits \cup {Draw} : Cs!Enqueue(cmd)
        BY <1>1 DEF HostSchedules
    <2>2. Cs!CsTypeOK'
        BY <2>1, GpuAssumption DEF TypeOK, Cs!CsTypeOK, Cs!Enqueue
    <2>. QED
        BY <1>1, <2>2 DEF TypeOK, HostSchedules, gpuVars, bltVars, pipelineVars
<1>2. CASE HostCallsWait
    BY <1>2 DEF TypeOK, HostCallsWait, gpuVars, bltVars, pipelineVars, csVars, Cs!CsTypeOK, TicksBeforeSample
<1>3. CASE Tick
    <2>1. Cs!CsTypeOK'
        BY <1>3, CsType DEF Tick
    <2>2. busyNoCs' \in [1 .. 3 -> BOOLEAN]
        BY <1>3, BusyType DEF Tick
    <2>3. DOMAIN memory' = 0 .. MemoryDwords - 1
        BY <1>3, BltType DEF Tick, TypeOK
    <2>4. waited' \in 0 .. TicksBeforeSample - 1 \cup {None}
        BY <1>3, GpuAssumption DEF Tick, HostTick, TicksBeforeSample, TypeOK
    <2>5. UNCHANGED lastBatch
        BY <1>3 DEF Tick
    <2>. QED
        BY <1>3, <2>1, <2>2, <2>3, <2>4, <2>5, BltType, PipelineType
        DEF Tick, TypeOK, PortCommands
<1>4. CASE UNCHANGED vars
    BY <1>4 DEF TypeOK, vars, csVars, bltVars, pipelineVars, Cs!CsTypeOK
<1>. QED
    BY <1>1, <1>2, <1>3, <1>4 DEF Next

-----------------------------------------------------------------------------
(* Control: what busy signals tell of the blocks.                          *)

LEMMA InitControl == Init => IInv
<1>. SUFFICES ASSUME Init
              PROVE  IInv
    OBVIOUS
<1>1. TypeOK
    BY InitType
<1>2. IssueInv /\ SeenInv /\ FullInv
    BY DEF Init, IssueInv, SeenInv, FullInv, Cs!CsInit, Blt!BltInit, OnlyFragmentsAreLeft
<1>3. WaitInv
    BY DEF Init, WaitInv
<1>. QED
    BY <1>1, <1>2, <1>3 DEF IInv

LEMMA BltStays ==
    ASSUME Blt!BltTick
    PROVE  /\ command = None /\ bltCommand = None => command' = None
           /\ command' # None => command # None \/ bltCommand # None
BY DEF Blt!BltTick, Blt!BltIdle, Blt!BltStart, Blt!BltAccess, Blt!BltAnswered, Blt!Answered, Blt!bltVars

LEMMA FrontStays ==
    ASSUME FrontTick, BackTick
    PROVE  /\ front = 0 /\ ~paEnable => front' = 0
           /\ front # 1 /\ back = "idle" => back' = "idle"
<1>1. front = 0 /\ ~paEnable => front' = 0
    BY DEF FrontTick, FrontIdle, FrontStart, FrontWork, FrontHolds, FrontDone
<1>2. front # 1 /\ back = "idle" => back' = "idle"
    BY DEF BackTick, BackIdle, BackStart, BackWork, BackNext
<1>. QED
    BY <1>1, <1>2

\* A command reaches its port only when no block is at work.
LEMMA IssueNext ==
    ASSUME IInv, Tick
    PROVE  IssueInv'
<1>. USE DEF IssueInv
<1>1. CASE Cs!CsIdle(OutBusyNoCs)
    BY <1>1 DEF IInv, Cs!CsIdle
<1>2. CASE Cs!CsFinish
    BY <1>2 DEF Cs!CsFinish
<1>3. CASE Cs!CsIssue(OutBusyNoCs)
    <2>1. /\ csPhase = "top" /\ ~OutBusyNoCs /\ commands # <<>>
          /\ csPhase' = "issued" /\ csBusy' /\ commands' = commands
        BY <1>3 DEF Cs!CsIssue
    <2>2. OnlyFragmentsAreLeft /\ (Full => back = "idle")
        BY <2>1 DEF IInv, SeenInv
    <2>3. command' = None
        BY <2>2, BltStays DEF Tick, OnlyFragmentsAreLeft
    <2>4. front' = 0 /\ (back = "idle" => back' = "idle")
        BY <2>2, FrontStays DEF Tick, OnlyFragmentsAreLeft
    <2>5. Full' <=> Full
        BY DEF Tick, Full
    <2>6. ~paEnable /\ bltCommand = None
        BY <2>2 DEF OnlyFragmentsAreLeft
    <2>7. paEnable' = (Head(commands) = Draw)
        <3>1. CASE Head(commands) = Draw
            BY <1>3, <3>1 DEF Cs!CsIssue
        <3>2. CASE Head(commands) # Draw
            BY <1>3, <2>6, <3>2 DEF Cs!CsIssue, IInv, TypeOK, Cs!CsTypeOK
        <3>. QED
            BY <3>1, <3>2
    <2>8. bltCommand' = IF paEnable' THEN None ELSE Cs!OnPort(Head(commands))
        BY <1>3, <2>6, <2>7 DEF Cs!CsIssue
    <2>9. Head(commands)' = Head(commands) /\ Cs!OnPort(Head(commands))' = Cs!OnPort(Head(commands))
        BY <2>1 DEF Cs!OnPort
    <2>. QED
        BY <2>1, <2>2, <2>3, <2>4, <2>5, <2>7, <2>8, <2>9
<1>. QED
    BY <1>1, <1>2, <1>3 DEF Tick, Cs!CsTick

\* What was collected a tick ago is what the blocks did then.
LEMMA SeenNext ==
    ASSUME IInv, Tick
    PROVE  SeenInv'
<1>. SUFFICES ASSUME csPhase' = "top", ~busyNoCs'[1]
              PROVE  (OnlyFragmentsAreLeft /\ (Full => back = "idle"))'
    BY DEF SeenInv, OutBusyNoCs
<1>1. ~Busy
    BY BusyType DEF IInv, Tick
<1>2. csPhase = "top" /\ command = None /\ front = 0 /\ back \notin {"shade", "output"}
    BY <1>1 DEF Busy, Blt!BltBusy, IInv, IssueInv, TypeOK, Cs!CsTypeOK
<1>3. bltCommand = None /\ ~paEnable
    BY <1>2 DEF IInv, IssueInv
<1>4. command' = None
    BY <1>2, <1>3, BltStays DEF Tick
<1>5. front' = 0 /\ (back = "idle" => back' = "idle")
    BY <1>2, <1>3, FrontStays DEF Tick
<1>6. bltCommand' = None /\ ~paEnable'
    BY <1>2, <1>3 DEF Tick, Cs!CsTick, Cs!CsIdle, Cs!CsIssue, Cs!CsFinish
<1>7. Full => back = "idle"
    BY <1>2 DEF IInv, FullInv
<1>. QED
    BY <1>4, <1>5, <1>6, <1>7 DEF OnlyFragmentsAreLeft, Full, Tick

LEMMA WaitNext ==
    ASSUME IInv, Tick
    PROVE  WaitInv'
<1>. SUFFICES ASSUME waited' \notin {None, 0}, csPhase' = "top", ~csBusy', commands' # <<>>
              PROVE  busyNoCs'[2]
    BY DEF WaitInv
<1>1. Cs!CsIdle(OutBusyNoCs)
    BY DEF Tick, Cs!CsTick, Cs!CsIssue, Cs!CsFinish, IInv, IssueInv
<1>2. OutBusyNoCs
    BY <1>1 DEF Cs!CsIdle
<1>. QED
    BY <1>2, BusyType DEF IInv, Tick, OutBusyNoCs

LEMMA FullNext ==
    ASSUME IInv, Tick
    PROVE  FullInv'
<1>. SUFFICES ASSUME Full
              PROVE  /\ back' \in {"idle", "shade", "output"}
                     /\ back' # "idle" => front' = 0
                     /\ command' # None => front' = 0 /\ back' = "idle"
    BY DEF Tick, FullInv, Full
<1>1. CollectTicks = 0 /\ ResponseTicks = 0
    BY GpuAssumption DEF Full, CollectTicks, ResponseTicks
<1>2. /\ back \in {"idle", "shade", "output"}
      /\ back # "idle" => front = 0
      /\ command # None => front = 0 /\ back = "idle"
    BY DEF IInv, FullInv
<1>3. back' \in {"idle", "shade", "output"}
    BY <1>1, <1>2 DEF Tick, BackTick, BackIdle, BackStart, BackWork, BackNext, BackFor
<1>4. CASE csPhase = "issued"
    <2>1. back = "idle" /\ front = 0 /\ command = None
        BY <1>4 DEF IInv, IssueInv
    <2>2. back' = "idle"
        BY <2>1, FrontStays DEF Tick
    <2>3. ~paEnable => front' = 0
        BY <2>1, FrontStays DEF Tick
    <2>4. paEnable => command' = None
        BY <1>4, <2>1, BltStays DEF Tick, IInv, IssueInv
    <2>. QED
        BY <2>2, <2>3, <2>4
<1>5. CASE csPhase = "top"
    <2>1. ~paEnable /\ bltCommand = None
        BY <1>5 DEF IInv, IssueInv
    <2>2. command' # None => command # None
        BY <2>1, BltStays DEF Tick
    <2>3. command # None => front' = 0 /\ back' = "idle"
        BY <1>2, <2>1, FrontStays DEF Tick
    <2>4. back' # "idle" => front' = 0
        <3>1. CASE back # "idle"
            BY <1>2, <2>1, <3>1, FrontStays DEF Tick
        <3>2. CASE back = "idle" /\ back' # "idle"
            <4>1. front = 1
                BY <3>2, FrontStays DEF Tick, BackTick, BackIdle, BackStart, BackWork, BackNext, IInv, TypeOK
            <4>. QED
                BY <3>2, <4>1 DEF Tick, FrontTick, FrontIdle, FrontStart, FrontWork, FrontHolds, FrontDone
        <3>. QED
            BY <3>1, <3>2
    <2>. QED
        BY <1>3, <2>2, <2>3, <2>4
<1>. QED
    BY <1>3, <1>4, <1>5 DEF IInv, TypeOK, Cs!CsTypeOK

LEMMA HostKeeps ==
    ASSUME IInv, HostSchedules \/ HostCallsWait \/ UNCHANGED vars
    PROVE  IssueInv' /\ SeenInv' /\ WaitInv' /\ FullInv'
<1>1. CASE HostSchedules
    <2>1. PICK cmd \in Blits \cup {Draw} : Cs!Enqueue(cmd)
        BY <1>1 DEF HostSchedules
    <2>2. commands \in Seq(Blits \cup {Draw}) /\ commands' = Append(commands, cmd)
        BY <2>1 DEF IInv, TypeOK, Cs!CsTypeOK, Cs!Enqueue
    <2>3. commands # <<>> => commands' # <<>> /\ Head(commands') = Head(commands)
        BY <2>2
    <2>4. /\ UNCHANGED <<csPhase, csBusy, paEnable, bltCommand, command, front, back, lastBatch, busyNoCs, waited>>
          /\ waited = None
        BY <1>1, <2>1 DEF HostSchedules, Cs!Enqueue, gpuVars, bltVars, pipelineVars
    <2>5. IssueInv'
        BY <2>3, <2>4 DEF IInv, IssueInv, Cs!OnPort, Full
    <2>. QED
        BY <2>4, <2>5 DEF IInv, SeenInv, WaitInv, FullInv, OutBusyNoCs, OnlyFragmentsAreLeft, Full
<1>2. CASE HostCallsWait
    BY <1>2 DEF HostCallsWait, csVars, gpuVars, bltVars, pipelineVars,
       IInv, IssueInv, SeenInv, WaitInv, FullInv, OutBusyNoCs, OnlyFragmentsAreLeft, Full, Cs!OnPort
<1>3. CASE UNCHANGED vars
    BY <1>3 DEF vars, csVars, gpuVars, bltVars, pipelineVars,
       IInv, IssueInv, SeenInv, WaitInv, FullInv, OutBusyNoCs, OnlyFragmentsAreLeft, Full, Cs!OnPort
<1>. QED
    BY <1>1, <1>2, <1>3

\* The invariant of the busy signals.
THEOREM GpuInvariant == Spec => []IInv
<1>1. IInv /\ [Next]_vars => IInv'
    <2>. SUFFICES ASSUME IInv, [Next]_vars
                  PROVE  IInv'
        OBVIOUS
    <2>1. TypeOK'
        BY TypeNext DEF IInv
    <2>2. CASE Tick
        BY <2>1, <2>2, IssueNext, SeenNext, WaitNext, FullNext DEF IInv
    <2>3. CASE ~Tick
        BY <2>1, <2>3, HostKeeps DEF IInv, Next
    <2>. QED
        BY <2>2, <2>3
<1>. QED
    BY <1>1, InitControl, PTL DEF Spec

-----------------------------------------------------------------------------
(* What the invariant says of issuing and returning.                       *)

\* The ticks in which waitForIdle() returns.
LEMMA QuietWhenReturning ==
    ASSUME IInv, SeenInv', [Next]_vars, Returns
    PROVE  commands' = <<>> /\ OnlyFragmentsAreLeft' /\ (Full => back' = "idle")
<1>1. Tick
    BY DEF Returns, Next, HostSchedules, HostCallsWait, vars
<1>2. waited + 1 >= TicksBeforeSample /\ ~OutBusy(busyNoCs')
    BY <1>1, GpuAssumption DEF Tick, HostTick, Returns, TicksBeforeSample, IInv, TypeOK
<1>3. ~Busy /\ ~busyNoCs[1] /\ ~busyNoCs[2] /\ ~busyNoCs'[1]
    BY <1>1, <1>2, BusyType DEF Tick, IInv, OutBusy
<1>4. ~csBusy /\ csPhase = "top"
    BY <1>3 DEF Busy, IInv, IssueInv, TypeOK, Cs!CsTypeOK
<1>5. commands = <<>>
    BY <1>2, <1>3, <1>4 DEF IInv, WaitInv, Returns, TicksBeforeSample
<1>6. commands' = <<>> /\ csPhase' = "top"
    BY <1>1, <1>4, <1>5 DEF Tick, Cs!CsTick, Cs!CsIdle, Cs!CsIssue, Cs!CsFinish
<1>. QED
    BY <1>1, <1>3, <1>6 DEF SeenInv, OutBusyNoCs, Full, Tick

LEMMA QuietWhenIssuing ==
    ASSUME IInv, [Next]_vars, Issues
    PROVE  OnlyFragmentsAreLeft /\ (Full => back = "idle")
<1>1. Cs!CsIssue(OutBusyNoCs)
    BY DEF Issues, Next, HostSchedules, HostCallsWait, Tick, vars, csVars, Cs!Enqueue,
           Cs!CsTick, Cs!CsIdle, Cs!CsFinish
<1>. QED
    BY <1>1 DEF Cs!CsIssue, IInv, SeenInv

\* Whatever the batches are, no command is lost and none is overlooked.
THEOREM NothingIsLost == Spec => NoCommandIsLost
<1>1. IInv /\ IInv' /\ [Next]_vars =>
        [/\ Issues => OnlyFragmentsAreLeft
         /\ Returns => commands' = <<>> /\ OnlyFragmentsAreLeft']_vars
    BY QuietWhenReturning, QuietWhenIssuing DEF IInv
<1>. QED
    BY <1>1, GpuInvariant, PTL DEF Spec, NoCommandIsLost

\* With full batches a command is issued to a GPU that has nothing to do.
THEOREM FullStall == Spec => StallBeforeCommand
<1>1. IInv /\ [Next]_vars => [Full /\ Issues => GpuQuiet]_vars
    BY QuietWhenIssuing DEF GpuQuiet
<1>. QED
    BY <1>1, GpuInvariant, PTL DEF Spec, StallBeforeCommand

\* With full batches waitForIdle() returns to a GPU that has nothing to do.
THEOREM WaitIsLongEnough == Spec => WaitForIdleWaits
<1>1. IInv /\ IInv' /\ [Next]_vars => [Full /\ Returns => commands' = <<>> /\ GpuQuiet']_vars
    BY QuietWhenReturning DEF GpuQuiet, IInv
<1>. QED
    BY <1>1, GpuInvariant, PTL DEF Spec, WaitForIdleWaits

-----------------------------------------------------------------------------
(* Data: memory and buffers are on their way to what the host expects.     *)

\* The memory is an array, and so are the buffers.
ShapeInv ==
    /\ memory = [a \in 0 .. MemoryDwords - 1 |-> memory[a]]
    /\ buffers = [b \in DOMAIN InitialBuffers |-> buffers[b]]
    /\ \A b \in DOMAIN InitialBuffers :
        buffers[b] = [i \in DOMAIN InitialBuffers[b] |-> buffers[b][i]]

Now == [memory |-> memory, buffers |-> buffers]

\* What a blit has still to do when its dwords below first are done.
RestOfMemory(cmd, first) ==
    IF cmd.type = "CopyFromMem" THEN memory
    ELSE [a \in DOMAIN memory |->
             IF a - cmd.ptr \in first .. cmd.size - 1
             THEN buffers[cmd.buffer][IF cmd.type = "FillMem" THEN 0 ELSE a - cmd.ptr]
             ELSE memory[a]]

RestOfBuffers(cmd, first) ==
    IF cmd.type # "CopyFromMem" THEN buffers
    ELSE [buffers EXCEPT ![cmd.buffer] =
             [i \in DOMAIN buffers[cmd.buffer] |->
                 IF i \in first .. cmd.size - 1 THEN memory[cmd.ptr + i] ELSE buffers[cmd.buffer][i]]]

Rest(cmd, first) ==
    [memory |-> RestOfMemory(cmd, first), buffers |-> RestOfBuffers(cmd, first)]

\* Memory and buffers once the block at work is done.
Outcome ==
    IF command # None THEN Rest(command, dwordIndex)
    ELSE IF front > 0 \/ back # "idle" THEN Effect(Draw, Now)
    ELSE Now

\* One command after the other leads from there to what the host expects.
OrderInv ==
    Full => \E outcome :
        /\ outcome[0] = Outcome
        /\ \A n \in 1 .. Len(commands) : outcome[n] = Effect(commands[n], outcome[n - 1])
        /\ outcome[Len(commands)] = expected

LEMMA DrawEffect ==
    Effect(Draw, Now) = [memory |-> [memory EXCEPT ![Framebuffer] = Picture], buffers |-> buffers]
BY DEF Effect, Now

LEMMA BlitEffect ==
    ASSUME ShapeInv, NEW b \in Blits
    PROVE  Effect(b, Now) = Rest(b, 0)
<1>1. b # Draw /\ b \in BlitCommands
    BY GpuAssumption
<1>2. CASE b.type = "CopyFromMem"
    <2>1. Effect(b, Now) =
            [memory |-> memory,
             buffers |-> [buffers EXCEPT ![b.buffer] =
                 [i \in DOMAIN buffers[b.buffer] |->
                     IF i < b.size THEN memory[b.ptr + i] ELSE buffers[b.buffer][i]]]]
        BY <1>1, <1>2 DEF Effect, Now
    <2>2. DOMAIN buffers[b.buffer] \subseteq Nat
        BY <1>1, ArraysAssumption DEF ShapeInv, BlitCommands
    <2>3. \A i \in DOMAIN buffers[b.buffer] : i < b.size <=> i \in 0 .. b.size - 1
        BY <1>1, <2>2 DEF BlitCommands
    <2>4. [i \in DOMAIN buffers[b.buffer] |->
              IF i < b.size THEN memory[b.ptr + i] ELSE buffers[b.buffer][i]]
          = [i \in DOMAIN buffers[b.buffer] |->
              IF i \in 0 .. b.size - 1 THEN memory[b.ptr + i] ELSE buffers[b.buffer][i]]
        BY <2>3
    <2>. QED
        BY <1>2, <2>1, <2>4 DEF Rest, RestOfMemory, RestOfBuffers
<1>3. CASE b.type # "CopyFromMem"
    <2>1. Effect(b, Now) =
            [memory |-> [a \in DOMAIN memory |->
                 IF a \notin Dwords(b) THEN memory[a]
                 ELSE buffers[b.buffer][IF b.type = "FillMem" THEN 0 ELSE a - b.ptr]],
             buffers |-> buffers]
        BY <1>1, <1>3 DEF Effect, Now
    <2>2. DOMAIN memory = 0 .. MemoryDwords - 1
        BY DEF ShapeInv
    <2>3. \A a \in DOMAIN memory : a \in Dwords(b) <=> a - b.ptr \in 0 .. b.size - 1
        BY <1>1, <2>2, ArraysAssumption DEF BlitCommands, Dwords
    <2>4. [a \in DOMAIN memory |->
                 IF a \notin Dwords(b) THEN memory[a]
                 ELSE buffers[b.buffer][IF b.type = "FillMem" THEN 0 ELSE a - b.ptr]]
          = [a \in DOMAIN memory |->
                 IF a - b.ptr \in 0 .. b.size - 1
                 THEN buffers[b.buffer][IF b.type = "FillMem" THEN 0 ELSE a - b.ptr]
                 ELSE memory[a]]
        BY <2>3
    <2>. QED
        BY <1>3, <2>1, <2>4 DEF Rest, RestOfMemory, RestOfBuffers
<1>. QED
    BY <1>2, <1>3

\* An access that is answered does one dword of the rest.
LEMMA AccessDoesOne ==
    ASSUME IInv, ShapeInv, Blt!BltAnswered, memory' = Blt!BltMemory,
           NEW c \in BlitCommands, c = command, NEW k \in Nat, k = dwordIndex
    PROVE  Rest(c, k + 1)' = Rest(c, k)
<1>1. k < c.size /\ c.size \in Nat /\ c.ptr \in Nat /\ c.buffer \in DOMAIN InitialBuffers
    BY GpuAssumption DEF IInv, TypeOK, BlitCommands
<1>2. Blt!Answered
    BY DEF Blt!BltAnswered
<1>3. CASE c.type = "CopyFromMem"
    <2>. DEFINE b == c.buffer
    <2>1. memory' = memory
        BY <1>2, <1>3 DEF Blt!BltMemory, Blt!IsWrite
    <2>2. buffers' = [buffers EXCEPT ![b][k] = memory[c.ptr + k]]
        BY <1>2, <1>3 DEF Blt!BltAnswered, Blt!IsWrite
    <2>3. /\ b \in DOMAIN buffers
          /\ DOMAIN buffers[b] \subseteq Nat
        BY <1>1, ArraysAssumption DEF ShapeInv
    <2>4. buffers' = [buffers EXCEPT ![b] = [buffers[b] EXCEPT ![k] = memory[c.ptr + k]]]
        BY <2>2
    <2>5. buffers'[b] = [buffers[b] EXCEPT ![k] = memory[c.ptr + k]]
        BY <2>3, <2>4
    <2>6. [i \in DOMAIN buffers'[b] |->
              IF i \in k + 1 .. c.size - 1 THEN memory[c.ptr + i] ELSE buffers'[b][i]]
          = [i \in DOMAIN buffers[b] |->
              IF i \in k .. c.size - 1 THEN memory[c.ptr + i] ELSE buffers[b][i]]
        <3>1. DOMAIN buffers'[b] = DOMAIN buffers[b]
            BY <2>5
        <3>2. ASSUME NEW i \in DOMAIN buffers[b]
              PROVE  (IF i \in k + 1 .. c.size - 1 THEN memory[c.ptr + i] ELSE buffers'[b][i])
                     = (IF i \in k .. c.size - 1 THEN memory[c.ptr + i] ELSE buffers[b][i])
            <4>1. i \in Nat
                BY <2>3
            <4>2. CASE i = k
                BY <1>1, <2>5, <4>2
            <4>3. CASE i # k
                BY <1>1, <2>5, <4>1, <4>3
            <4>. QED
                BY <4>2, <4>3
        <3>. QED
            BY <3>1, <3>2
    <2>7. ASSUME NEW rest
          PROVE  [buffers' EXCEPT ![b] = rest] = [buffers EXCEPT ![b] = rest]
        BY <2>4
    <2>8. RestOfBuffers(c, k + 1)' = RestOfBuffers(c, k)
        <3>. DEFINE rest == [i \in DOMAIN buffers[b] |->
                               IF i \in k .. c.size - 1 THEN memory[c.ptr + i] ELSE buffers[b][i]]
        <3>1. RestOfBuffers(c, k + 1)' = [buffers' EXCEPT ![b] = rest]
            BY <1>3, <2>1, <2>6 DEF RestOfBuffers
        <3>2. RestOfBuffers(c, k) = [buffers EXCEPT ![b] = rest]
            BY <1>3 DEF RestOfBuffers
        <3>. QED
            BY <2>7, <3>1, <3>2
    <2>9. RestOfMemory(c, k + 1)' = RestOfMemory(c, k)
        BY <1>3, <2>1 DEF RestOfMemory
    <2>. QED
        BY <2>8, <2>9 DEF Rest
<1>4. CASE c.type # "CopyFromMem"
    <2>. DEFINE from(a) == buffers[c.buffer][IF c.type = "FillMem" THEN 0 ELSE a - c.ptr]
    <2>1. c.type \in {"CopyToMem", "FillMem"}
        BY <1>4 DEF BlitCommands
    <2>2. buffers' = buffers
        BY <2>1 DEF Blt!BltAnswered, Blt!IsWrite
    <2>3. memory' = [memory EXCEPT ![c.ptr + k] = from(c.ptr + k)]
        <3>1. memory' = [memory EXCEPT ![c.ptr + k] = buffers[c.buffer][Blt!UserPtrIndex]]
            BY <1>2, <2>1 DEF Blt!BltMemory, Blt!IsWrite
        <3>2. (c.ptr + k) - c.ptr = k
            BY <1>1
        <3>3. Blt!UserPtrIndex = IF c.type = "FillMem" THEN 0 ELSE (c.ptr + k) - c.ptr
            BY <3>2 DEF Blt!UserPtrIndex
        <3>. QED
            BY <3>1, <3>3
    <2>4. DOMAIN memory \subseteq Nat /\ DOMAIN memory' = DOMAIN memory
        BY <2>3, ArraysAssumption DEF ShapeInv
    <2>5. ASSUME NEW a \in DOMAIN memory
          PROVE  (IF a - c.ptr \in k + 1 .. c.size - 1 THEN from(a) ELSE memory'[a])
                 = (IF a - c.ptr \in k .. c.size - 1 THEN from(a) ELSE memory[a])
        <3>1. a \in Nat
            BY <2>4
        <3>2. CASE a = c.ptr + k
            BY <1>1, <2>3, <3>1, <3>2
        <3>3. CASE a # c.ptr + k
            <4>1. memory'[a] = memory[a]
                BY <2>3, <3>3
            <4>2. a - c.ptr # k
                BY <1>1, <3>1, <3>3
            <4>3. a - c.ptr \in k + 1 .. c.size - 1 <=> a - c.ptr \in k .. c.size - 1
                BY <1>1, <3>1, <4>2
            <4>. QED
                BY <4>1, <4>3
        <3>. QED
            BY <3>2, <3>3
    <2>6. RestOfMemory(c, k + 1)' = RestOfMemory(c, k)
        BY <1>4, <2>2, <2>4, <2>5 DEF RestOfMemory
    <2>7. RestOfBuffers(c, k + 1)' = RestOfBuffers(c, k)
        BY <1>4, <2>2 DEF RestOfBuffers
    <2>. QED
        BY <2>6, <2>7 DEF Rest
<1>. QED
    BY <1>3, <1>4

LEMMA ShapeNext == IInv /\ ShapeInv /\ [Next]_vars => ShapeInv'
<1>. SUFFICES ASSUME IInv, ShapeInv, [Next]_vars
              PROVE  ShapeInv'
    OBVIOUS
<1>1. CASE Tick
    <2>1. Blt!BltMemory = [a \in 0 .. MemoryDwords - 1 |-> Blt!BltMemory[a]]
        BY DEF ShapeInv, Blt!BltMemory
    <2>2. memory' = [a \in 0 .. MemoryDwords - 1 |-> memory'[a]]
        BY <1>1, <2>1 DEF Tick
    <2>3. CASE buffers' = buffers
        BY <2>2, <2>3 DEF ShapeInv
    <2>4. CASE buffers' # buffers
        <3>1. buffers' = [buffers EXCEPT ![command.buffer][dwordIndex] = memory[command.ptr + dwordIndex]]
            BY <1>1, <2>4 DEF Tick, Blt!BltTick, Blt!BltIdle, Blt!BltStart, Blt!BltAccess, Blt!BltAnswered, Blt!bltVars
        <3>. DEFINE b == command.buffer
                    f == [buffers[b] EXCEPT ![dwordIndex] = memory[command.ptr + dwordIndex]]
        <3>2. buffers' = [buffers EXCEPT ![b] = f]
            BY <3>1
        <3>3. DOMAIN buffers = DOMAIN InitialBuffers
            BY DEF ShapeInv
        <3>4. buffers' = [q \in DOMAIN InitialBuffers |-> buffers'[q]]
            BY <3>2, <3>3
        <3>5. ASSUME NEW q \in DOMAIN InitialBuffers
              PROVE  buffers'[q] = [i \in DOMAIN InitialBuffers[q] |-> buffers'[q][i]]
            <4>1. CASE q = b
                <5>1. buffers'[q] = f /\ DOMAIN buffers[b] = DOMAIN InitialBuffers[q]
                    BY <3>2, <3>3, <4>1 DEF ShapeInv
                <5>. QED
                    BY <5>1
            <4>2. CASE q # b
                <5>1. buffers'[q] = buffers[q]
                    BY <3>2, <3>3, <4>2
                <5>. QED
                    BY <5>1 DEF ShapeInv
            <4>. QED
                BY <4>1, <4>2
        <3>. QED
            BY <2>2, <3>4, <3>5 DEF ShapeInv
    <2>. QED
        BY <2>3, <2>4
<1>2. CASE ~Tick
    <2>1. UNCHANGED <<memory, buffers>>
        BY <1>2 DEF Next, HostSchedules, HostCallsWait, vars, gpuVars, bltVars
    <2>. QED
        BY <2>1 DEF ShapeInv
<1>. QED
    BY <1>1, <1>2

\* A port passes a blit on as it is: its size fits.
LEMMA PortIsWide == ASSUME NEW b \in Blits PROVE Cs!OnPort(b) = b
<1>1. b \in BlitCommands /\ b.size % SizeMod = b.size
    BY GpuAssumption, SizesAssumption DEF BlitCommands
<1>2. [b EXCEPT !.size = b.size] = b
    BY <1>1 DEF BlitCommands
<1>. QED
    BY <1>1, <1>2 DEF Cs!OnPort

\* While the blitter works nobody else does.
LEMMA BlitOutcome ==
    ASSUME IInv, ShapeInv, Full, Tick, command # None
    PROVE  Outcome' = Outcome
<1>1. back = "idle" /\ front = 0 /\ back' = "idle" /\ front' = 0
    <2>1. back = "idle" /\ front = 0 /\ csPhase = "top"
        BY DEF IInv, FullInv, IssueInv, TypeOK, Cs!CsTypeOK
    <2>2. ~paEnable
        BY <2>1 DEF IInv, IssueInv
    <2>. QED
        BY <2>1, <2>2, FrontStays DEF Tick
<1>2. memory' = Blt!BltMemory
    BY <1>1 DEF Tick, PictureDone
<1>3. command \in BlitCommands /\ command \in PortCommands
    BY PortCommandsAreBlits DEF IInv, TypeOK, PortCommands
<1>4. Outcome = Rest(command, dwordIndex)
    BY DEF Outcome
<1>5. CASE Blt!BltAccess
    <2>1. UNCHANGED <<memory, buffers, command, dwordIndex>>
        BY <1>2, <1>5 DEF Blt!BltAccess, Blt!BltMemory, Blt!Answered
    <2>. QED
        BY <1>4, <2>1 DEF Outcome, Rest, RestOfMemory, RestOfBuffers
<1>6. CASE Blt!BltAnswered
    <2>1. PICK c \in BlitCommands, k \in Nat : c = command /\ k = dwordIndex
        BY <1>3 DEF IInv, TypeOK
    <2>2. Rest(c, k + 1)' = Rest(c, k)
        BY <1>2, <1>6, <2>1, AccessDoesOne
    <2>3. CASE Blt!IsLast
        <3>1. command' = None /\ k + 1 = c.size
            BY <1>6, <2>1, <2>3 DEF Blt!BltAnswered, Blt!IsLast
        <3>2. ShapeInv'
            BY ShapeNext DEF Next
        <3>3. Rest(c, c.size)' = Now'
            <4>1. c.size .. c.size - 1 = {}
                BY DEF BlitCommands
            <4>2. RestOfMemory(c, c.size)' = memory'
                BY <3>2, <4>1 DEF RestOfMemory, ShapeInv
            <4>3. RestOfBuffers(c, c.size)' = buffers'
                BY <3>2, <4>1 DEF RestOfBuffers, ShapeInv, BlitCommands
            <4>. QED
                BY <4>2, <4>3 DEF Rest, Now
        <3>4. Outcome' = Now'
            BY <1>1, <3>1 DEF Outcome
        <3>. QED
            BY <1>4, <2>1, <2>2, <3>1, <3>3, <3>4
    <2>4. CASE ~Blt!IsLast
        <3>1. command' = c /\ dwordIndex' = k + 1 /\ c # None
            BY <1>6, <2>1, <2>4 DEF Blt!BltAnswered
        <3>2. Outcome' = Rest(c, k + 1)'
            BY <3>1 DEF Outcome, Rest, RestOfMemory, RestOfBuffers
        <3>. QED
            BY <1>4, <2>1, <2>2, <3>2
    <2>. QED
        BY <2>3, <2>4
<1>. QED
    BY <1>5, <1>6 DEF Tick, Blt!BltTick, Blt!BltIdle, Blt!BltStart

\* A draw changes the memory with its last step.
LEMMA DrawOutcome ==
    ASSUME IInv, ShapeInv, Full, Tick, front > 0 \/ back # "idle"
    PROVE  Outcome' = Outcome
<1>1. command = None /\ csPhase = "top"
    BY DEF IInv, FullInv, IssueInv, TypeOK, Cs!CsTypeOK
<1>2. command' = None
    BY <1>1, BltStays DEF Tick, IInv, IssueInv
<1>3. buffers' = buffers /\ Blt!BltMemory = memory
    BY <1>1 DEF Tick, Blt!BltTick, Blt!BltIdle, Blt!BltStart, Blt!BltAccess, Blt!BltAnswered,
       Blt!Answered, Blt!bltVars, Blt!BltMemory
<1>4. Outcome = Effect(Draw, Now)
    BY <1>1 DEF Outcome, IInv, TypeOK
<1>5. CASE PictureDone
    <2>1. memory' = [memory EXCEPT ![Framebuffer] = Picture]
        BY <1>3, <1>5 DEF Tick
    <2>2. back' = "idle" /\ front' = 0
        <3>1. back = "output" /\ backDelay = 1
            BY <1>5 DEF PictureDone
        <3>2. back' = "idle"
            BY <3>1 DEF Tick, BackTick, BackIdle, BackStart, BackWork, BackNext, BackFor
        <3>3. front = 0 /\ ~paEnable
            BY <1>1, <3>1 DEF IInv, FullInv, IssueInv
        <3>. QED
            BY <3>2, <3>3, FrontStays DEF Tick
    <2>3. Outcome' = Now'
        BY <1>2, <2>2 DEF Outcome
    <2>. QED
        BY <1>3, <1>4, <2>1, <2>3, DrawEffect DEF Now
<1>6. CASE ~PictureDone
    <2>1. memory' = memory
        BY <1>3, <1>6 DEF Tick
    <2>2. front' > 0 \/ back' # "idle"
        <3>1. CASE back = "idle" /\ front = 1
            <4>1. BackStart
                BY <3>1 DEF Tick, BackTick, BackIdle, BackWork, BackNext
            <4>. QED
                BY <4>1 DEF BackStart, BackFor
        <3>2. CASE back = "idle" /\ front # 1
            <4>1. front \in Nat /\ front > 1
                BY <3>2 DEF IInv, TypeOK
            <4>. QED
                BY <4>1 DEF Tick, FrontTick, FrontIdle, FrontStart, FrontWork, FrontHolds, FrontDone
        <3>3. CASE back # "idle"
            BY <1>6, <3>3 DEF Tick, BackTick, BackIdle, BackStart, BackWork, BackNext, BackFor, PictureDone
        <3>. QED
            BY <3>1, <3>2, <3>3
    <2>3. Outcome' = Effect(Draw, Now)'
        BY <1>2, <2>2 DEF Outcome
    <2>. QED
        BY <1>3, <1>4, <2>1, <2>3 DEF Effect, Now
<1>. QED
    BY <1>5, <1>6

\* With nothing at work the memory stays, and a command begins.
LEMMA StartOutcome ==
    ASSUME IInv, ShapeInv, Full, Tick, command = None, front = 0, back = "idle"
    PROVE  /\ csPhase = "top" => Outcome' = Outcome
           /\ csPhase = "issued" => Outcome' = Effect(Head(commands), Outcome)
<1>1. memory' = memory /\ buffers' = buffers /\ Now' = Now
    BY DEF Tick, PictureDone, Blt!BltTick, Blt!BltIdle, Blt!BltStart, Blt!BltAccess, Blt!BltAnswered,
       Blt!Answered, Blt!bltVars, Blt!BltMemory, Now
<1>2. Outcome = Now
    BY DEF Outcome
<1>3. back' = "idle"
    BY FrontStays DEF Tick
<1>4. CASE csPhase = "top"
    <2>1. front' = 0 /\ command' = None
        BY <1>4, FrontStays, BltStays DEF Tick, IInv, IssueInv
    <2>. QED
        BY <1>1, <1>2, <1>3, <1>4, <2>1 DEF Outcome
<1>5. CASE csPhase = "issued" /\ Head(commands) = Draw
    <2>1. paEnable /\ bltCommand = None
        BY <1>5 DEF IInv, IssueInv
    <2>2. command' = None
        BY <2>1, BltStays DEF Tick
    <2>3. front' > 0
        <3>1. front' \in WorkTicks
            BY <2>1 DEF Tick, FrontTick, FrontIdle, FrontStart, FrontWork, FrontHolds, FrontDone
        <3>. QED
            BY <3>1, GpuAssumption
    <2>4. Outcome' = Effect(Draw, Now)'
        BY <2>2, <2>3 DEF Outcome
    <2>. QED
        BY <1>1, <1>2, <1>5, <2>4 DEF Effect, Now
<1>6. CASE csPhase = "issued" /\ Head(commands) # Draw
    <2>1. PICK b \in Blits : b = Head(commands)
        <3>1. commands \in Seq(Blits \cup {Draw}) /\ commands # <<>>
            BY <1>6 DEF IInv, IssueInv, TypeOK, Cs!CsTypeOK
        <3>. QED
            BY <1>6, <3>1
    <2>2. bltCommand = b
        BY <1>6, <2>1, PortIsWide DEF IInv, IssueInv
    <2>3. b # None
        BY GpuAssumption
    <2>4. command' = b /\ dwordIndex' = 0
        BY <2>2, <2>3 DEF Tick, Blt!BltTick, Blt!BltIdle, Blt!BltStart, Blt!BltAccess, Blt!BltAnswered, Blt!Answered
    <2>5. Outcome' = Rest(b, 0)
        BY <1>1, <2>3, <2>4 DEF Outcome, Rest, RestOfMemory, RestOfBuffers
    <2>. QED
        BY <1>2, <1>6, <2>1, <2>5, BlitEffect
<1>. QED
    BY <1>4, <1>5, <1>6

\* A tick takes a command from the queue to the block at work, or leaves what
\* is to come as it is.
LEMMA TickOutcome ==
    ASSUME IInv, ShapeInv, Full, Tick
    PROVE  /\ csPhase = "top" => Outcome' = Outcome /\ commands' = commands
           /\ csPhase = "issued" =>
                /\ commands # <<>> /\ commands' = Tail(commands)
                /\ Outcome' = Effect(Head(commands), Outcome)
<1>1. /\ csPhase = "top" => commands' = commands
      /\ csPhase = "issued" => commands # <<>> /\ commands' = Tail(commands)
    BY DEF Tick, Cs!CsTick, Cs!CsIdle, Cs!CsIssue, Cs!CsFinish, IInv, IssueInv
<1>2. CASE command # None \/ front > 0 \/ back # "idle"
    <2>1. csPhase # "issued"
        BY <1>2 DEF IInv, IssueInv
    <2>. QED
        BY <1>1, <1>2, <2>1, BlitOutcome, DrawOutcome
<1>3. CASE command = None /\ front = 0 /\ back = "idle"
    BY <1>1, <1>3, StartOutcome
<1>. QED
    BY <1>2, <1>3 DEF IInv, TypeOK

LEMMA OrderInit == Init => ShapeInv /\ OrderInv
<1>. SUFFICES ASSUME Init
              PROVE  ShapeInv /\ OrderInv
    OBVIOUS
<1>1. ShapeInv
    BY ArraysAssumption DEF Init, ShapeInv
<1>2. commands = <<>> /\ Len(commands) = 0 /\ Outcome = expected
    BY DEF Init, Cs!CsInit, Blt!BltInit, Outcome, Now
<1>. DEFINE outcome == [n \in {0} |-> Outcome]
<1>3. outcome[0] = Outcome /\ 1 .. Len(commands) = {}
    BY <1>2
<1>. QED
    BY <1>1, <1>2, <1>3 DEF OrderInv

LEMMA OrderNext == IInv /\ ShapeInv /\ OrderInv /\ [Next]_vars => OrderInv'
<1>. SUFFICES ASSUME IInv, ShapeInv, OrderInv, [Next]_vars
              PROVE  OrderInv'
    OBVIOUS
<1>0. Full' <=> Full
    BY DEF Next, HostSchedules, HostCallsWait, Tick, vars, gpuVars, Full
<1>. SUFFICES ASSUME Full
              PROVE  \E outcome :
                        /\ outcome[0] = Outcome'
                        /\ \A n \in 1 .. Len(commands') :
                              outcome[n] = Effect(commands'[n], outcome[n - 1])
                        /\ outcome[Len(commands')] = expected'
    BY <1>0 DEF OrderInv, Effect, Dwords
<1>1. PICK outcome :
        /\ outcome[0] = Outcome
        /\ \A n \in 1 .. Len(commands) : outcome[n] = Effect(commands[n], outcome[n - 1])
        /\ outcome[Len(commands)] = expected
    BY DEF OrderInv
<1>2. commands \in Seq(Blits \cup {Draw}) /\ Len(commands) \in Nat
    BY DEF IInv, TypeOK, Cs!CsTypeOK
<1>3. CASE HostSchedules
    <2>1. PICK cmd \in Blits \cup {Draw} : Cs!Enqueue(cmd) /\ expected' = Effect(cmd, expected)
        BY <1>3 DEF HostSchedules
    <2>2. commands' = Append(commands, cmd)
        BY <2>1 DEF Cs!Enqueue
    <2>3. Outcome' = Outcome
        BY <1>3 DEF HostSchedules, gpuVars, bltVars, pipelineVars, Outcome, Rest, RestOfMemory,
                    RestOfBuffers, Effect, Now
    <2>. DEFINE last == Len(commands) + 1
                longer == [n \in 0 .. last |-> IF n = last THEN expected' ELSE outcome[n]]
    <2>4. Len(commands') = last /\ commands'[last] = cmd
          /\ \A n \in 1 .. Len(commands) : commands'[n] = commands[n]
        BY <1>2, <2>2
    <2>5. longer[0] = Outcome' /\ longer[last] = expected'
        BY <1>1, <1>2, <2>3
    <2>6. ASSUME NEW n \in 1 .. last
          PROVE  longer[n] = Effect(commands'[n], longer[n - 1])
        <3>1. longer[n - 1] = outcome[n - 1]
            BY <1>2
        <3>2. CASE n = last
            <4>1. longer[n - 1] = expected
                BY <1>1, <1>2, <3>1, <3>2
            <4>. QED
                BY <2>1, <2>4, <2>5, <3>2, <4>1
        <3>3. CASE n # last
            <4>1. n \in 1 .. Len(commands) /\ longer[n] = outcome[n]
                BY <1>2, <3>3
            <4>. QED
                BY <1>1, <2>4, <3>1, <4>1
        <3>. QED
            BY <3>2, <3>3
    <2>. HIDE DEF longer
    <2>. QED
        BY <2>4, <2>5, <2>6
<1>4. CASE HostCallsWait \/ UNCHANGED vars
    <2>1. Outcome' = Outcome
        BY <1>4 DEF HostCallsWait, vars, gpuVars, bltVars, pipelineVars, Outcome, Rest, RestOfMemory,
                    RestOfBuffers, Effect, Now
    <2>2. UNCHANGED <<commands, expected>>
        BY <1>4 DEF HostCallsWait, vars, csVars
    <2>. QED
        BY <1>1, <2>1, <2>2
<1>5. CASE Tick
    <2>1. expected' = expected
        BY <1>5 DEF Tick
    <2>2. CASE csPhase = "top"
        BY <1>1, <1>5, <2>1, <2>2, TickOutcome
    <2>3. CASE csPhase = "issued"
        <3>1. /\ commands # <<>> /\ commands' = Tail(commands)
              /\ Outcome' = Effect(Head(commands), Outcome)
            BY <1>5, <2>3, TickOutcome
        <3>2. /\ Len(commands) >= 1 /\ Len(commands') = Len(commands) - 1
              /\ \A n \in 1 .. Len(commands') : commands'[n] = commands[n + 1]
              /\ Head(commands) = commands[1]
            BY <1>2, <3>1
        <3>. DEFINE rest == [n \in 0 .. Len(commands') |-> outcome[n + 1]]
        <3>3. rest[0] = Outcome' /\ rest[Len(commands')] = expected'
            <4>1. outcome[1] = Effect(commands[1], outcome[0])
                BY <1>1, <1>2, <3>2
            <4>. QED
                BY <1>1, <1>2, <2>1, <3>1, <3>2, <4>1
        <3>4. ASSUME NEW n \in 1 .. Len(commands')
              PROVE  rest[n] = Effect(commands'[n], rest[n - 1])
            <4>1. n + 1 \in 1 .. Len(commands) /\ (n + 1) - 1 = (n - 1) + 1
                BY <1>2, <3>2
            <4>2. outcome[n + 1] = Effect(commands[n + 1], outcome[(n - 1) + 1])
                BY <1>1, <4>1
            <4>3. rest[n] = outcome[n + 1] /\ rest[n - 1] = outcome[(n - 1) + 1]
                BY <1>2, <3>2
            <4>. QED
                BY <3>2, <4>2, <4>3
        <3>. HIDE DEF rest
        <3>. QED
            BY <3>3, <3>4
    <2>. QED
        BY <2>2, <2>3 DEF IInv, TypeOK, Cs!CsTypeOK
<1>. QED
    BY <1>3, <1>4, <1>5 DEF Next

\* With full batches the commands are executed one by one, in the order of
\* their calls: when waitForIdle() returns, memory and buffers are as it says.
THEOREM FullInOrder == Spec => FullCommandsInOrder
<1>1. IInv /\ IInv' /\ OrderInv' /\ [Next]_vars =>
        [Full /\ Returns => memory' = expected.memory /\ buffers' = expected.buffers]_vars
    <2>. SUFFICES ASSUME IInv, IInv', OrderInv', [Next]_vars, Full, Returns
                  PROVE  memory' = expected.memory /\ buffers' = expected.buffers
        OBVIOUS
    <2>1. Tick
        BY DEF Returns, Next, HostSchedules, HostCallsWait, vars
    <2>2. commands' = <<>> /\ OnlyFragmentsAreLeft' /\ back' = "idle"
        BY QuietWhenReturning DEF IInv
    <2>3. Outcome' = Now'
        BY <2>2 DEF OnlyFragmentsAreLeft, Outcome
    <2>4. Full' /\ Len(commands') = 0 /\ expected' = expected
        BY <2>1, <2>2 DEF Tick, Full
    <2>5. Outcome' = expected'
        BY <2>4 DEF OrderInv
    <2>. QED
        BY <2>3, <2>4, <2>5 DEF Now
<1>2. Init => ShapeInv /\ OrderInv
    BY OrderInit
<1>3. IInv /\ ShapeInv /\ OrderInv /\ [Next]_vars => ShapeInv' /\ OrderInv'
    BY OrderNext, ShapeNext
<1>. QED
    BY <1>1, <1>2, <1>3, GpuInvariant, PTL DEF Spec, FullCommandsInOrder
=============================================================================
