----------------------------- MODULE FragmentStage -----------------------------
(***************************************************************************)
(* The rasterizer and the fragment shader (gpu/blocks/rasterizer.cpp and   *)
(* fragment_shader.cpp), which exchange triangles over one channel and     *)
(* fragments over another.  The rasterizer is one thread; the fragment     *)
(* shader is two, one per channel, which share perTriangleAttribs.         *)
(*                                                                         *)
(* A triangle is its number, a fragment a triangle and the rank of the     *)
(* pixel among those the triangle hits.  Which pixels are hit is a         *)
(* matter of module Rasterization.  The vertex shader offers triangles     *)
(* when it likes; the shader frontend and the output merger take their     *)
(* time, up to MaxDelay ticks.                                             *)
(***************************************************************************)
EXTENDS Integers, Sequences

CONSTANTS
    BatchSize,      \* maxThreadsCount
    CustomComponents,   \* values of customComponentsPerVertex
    Timeouts,       \* values of the timeout of perFragmentThread, 0 for none
    MaxPixels,      \* bound: fragments of a triangle
    Triangles,      \* bound: triangles are numbered modulo this
    MaxDelay,       \* bound: ticks the neighbours take for an exchange
    Nothing         \* the value of a cleared data port

ASSUME StageAssumption ==
    /\ BatchSize \in Nat \ {0}
    /\ CustomComponents \subseteq Nat /\ Timeouts \subseteq Nat
    /\ 1 \notin Timeouts   \* which never times out; the code's timeout is 5
    /\ MaxPixels \in Nat /\ Triangles \in Nat \ {0} /\ MaxDelay \in Nat \ {0}

VARIABLES
    custom, timeout,        \* the configuration of the run
    rsPhase,                \* where Rasterizer::main waits
    current, pixels,        \* the triangle in work, and how many pixels it hits
    package,                \* packages received or sent
    attribsSending, attribsData,    \* the per-triangle channel
    fragmentSending, fragmentData,  \* the per-fragment channel
    attribsReceiving,
    perTriangleReceived,    \* data of perTriangleThread, [packages -> triangle]
    perTrianglePhase,       \* where perTriangleThread waits
    perTrianglePackages,    \* packages it has received
    perTriangleAttribs,
    fragmentReceiving,
    fsPhase,                \* where perFragmentThread waits
    clocksWaiting,
    batch,                  \* shadedFragments, those of this pass
    request,                \* perTriangleAttribs as sent with the request
    delay,                  \* ticks the neighbour still takes
    outFragments            \* fragments passed on to the output merger

rsVars == <<rsPhase, current, pixels, package, attribsSending, attribsData,
            fragmentSending, fragmentData>>
perTriangleVars == <<attribsReceiving, perTriangleReceived, perTrianglePhase,
                     perTrianglePackages, perTriangleAttribs>>
perFragmentVars == <<fragmentReceiving, fsPhase, clocksWaiting, batch, request, delay,
                     outFragments>>
stageVars == <<custom, timeout, rsVars, perTriangleVars, perFragmentVars>>

\* A triangle comes from the vertex shader through 12 ports, with x, y, z, w and
\* the custom components of each vertex; its attributes (x, y, z and the custom
\* components) go to the fragment shader through 3.
VertexPackages == (3 * (4 + custom) + 11) \div 12
AttribPackages == 3 + custom

Packages == 1 .. AttribPackages

MaxPackages == IF VertexPackages > AttribPackages THEN VertexPackages ELSE AttribPackages

Fragments == [triangle : 0 .. Triangles - 1, rank : 1 .. MaxPixels]

-----------------------------------------------------------------------------
(* Rasterizer::main.  "top": at the wait() of its loop; "receive": asking  *)
(* the vertex shader; "vertices": between two packages from it;            *)
(* "offer": offering the attributes; "stream": between two packages of     *)
(* them; "fragment": offering a fragment.                                  *)

\* rasterize() has seen every pixel.
Done ==
    /\ rsPhase' = "top"
    /\ fragmentSending' = FALSE
    /\ fragmentData' = Nothing

\* rasterize() comes to its next hit, which takes it no time.
RasterizeFrom(rank) ==
    /\ \/ /\ rank <= pixels
          /\ rsPhase' = "fragment"
          /\ fragmentSending' = TRUE
          /\ fragmentData' = [triangle |-> current, rank |-> rank]
       \/ rank > pixels /\ Done
    /\ attribsSending' = FALSE
    /\ attribsData' = Nothing
    /\ package' = 0
    /\ UNCHANGED <<current, pixels>>

\* setupPerTriangleFsState() raises outSending with the first package.
OfferAttribs ==
    /\ rsPhase' = "offer"
    /\ attribsSending' = TRUE
    /\ attribsData' = current'
    /\ package' = 1

RasterizerTop ==
    /\ rsPhase = "top"
    /\ rsPhase' = "receive"
    /\ UNCHANGED <<current, pixels, package, attribsSending, attribsData, fragmentSending,
                   fragmentData>>

\* The vertex shader may keep the rasterizer waiting for ever.
RasterizerWaits == rsPhase = "receive" /\ UNCHANGED rsVars

RasterizerReceives ==
    /\ rsPhase = "receive"
    /\ current' = (current + 1) % Triangles
    /\ pixels' \in 0 .. MaxPixels
    /\ \/ /\ VertexPackages > 1
          /\ rsPhase' = "vertices"
          /\ package' = 1
          /\ UNCHANGED <<attribsSending, attribsData>>
       \/ VertexPackages = 1 /\ OfferAttribs
    /\ UNCHANGED <<fragmentSending, fragmentData>>

RasterizerReceivesMore ==
    /\ rsPhase = "vertices"
    /\ UNCHANGED <<current, pixels, fragmentSending, fragmentData>>
    /\ \/ /\ package + 1 < VertexPackages
          /\ package' = package + 1
          /\ UNCHANGED <<rsPhase, attribsSending, attribsData>>
       \/ package + 1 = VertexPackages /\ OfferAttribs

RasterizerOffers == rsPhase = "offer" /\ ~attribsReceiving /\ UNCHANGED rsVars

\* The handshake has taken place, or a package has been on the ports for a tick.
RasterizerStreams ==
    /\ (rsPhase = "offer" /\ attribsReceiving) \/ rsPhase = "stream"
    /\ \/ /\ package < AttribPackages
          /\ rsPhase' = "stream"
          /\ package' = package + 1
          /\ attribsSending' = FALSE
          /\ UNCHANGED <<attribsData, current, pixels, fragmentSending, fragmentData>>
       \/ package = AttribPackages /\ RasterizeFrom(1)

RasterizerHolds == rsPhase = "fragment" /\ ~fragmentReceiving /\ UNCHANGED rsVars

\* The next fragment is offered at once, with outSending still high.
RasterizerPasses ==
    /\ rsPhase = "fragment"
    /\ fragmentReceiving
    /\ RasterizeFrom(fragmentData.rank + 1)

RasterizerTick ==
    \/ RasterizerTop \/ RasterizerWaits \/ RasterizerReceives \/ RasterizerReceivesMore
    \/ RasterizerOffers \/ RasterizerStreams \/ RasterizerHolds \/ RasterizerPasses

-----------------------------------------------------------------------------
(* FragmentShader::perTriangleThread.  "top", "ask" and "stream" as in     *)
(* the rasterizer; this receive has no timeout.                            *)

\* A package arrives; with the last one perTriangleAttribs is written.
TakeAttribs ==
    /\ perTrianglePackages' = perTrianglePackages + 1
    /\ perTriangleReceived' = [perTriangleReceived EXCEPT ![perTrianglePackages'] = attribsData]
    /\ attribsReceiving' = FALSE
    /\ \/ /\ perTrianglePackages' < AttribPackages
          /\ perTrianglePhase' = "stream"
          /\ UNCHANGED perTriangleAttribs
       \/ /\ perTrianglePackages' = AttribPackages
          /\ perTrianglePhase' = "top"
          /\ perTriangleAttribs' = perTriangleReceived'

\* Mutant: the receive begins without raising outReceiving.
MutPerTriangleTop ==
    /\ perTrianglePhase = "top"
    /\ perTrianglePhase' = "ask"
    /\ perTrianglePackages' = 0
    /\ UNCHANGED <<attribsReceiving, perTriangleReceived, perTriangleAttribs>>

PerTriangleTop ==
    /\ perTrianglePhase = "top"
    /\ perTrianglePhase' = "ask"
    /\ perTrianglePackages' = 0
    /\ attribsReceiving' = TRUE
    /\ UNCHANGED <<perTriangleReceived, perTriangleAttribs>>

PerTriangleWaits ==
    perTrianglePhase = "ask" /\ ~attribsSending /\ UNCHANGED perTriangleVars

PerTriangleReceives ==
    /\ (perTrianglePhase = "ask" /\ attribsSending) \/ perTrianglePhase = "stream"
    /\ TakeAttribs

PerTriangleTick == PerTriangleTop \/ PerTriangleWaits \/ PerTriangleReceives

-----------------------------------------------------------------------------
(* FragmentShader::perFragmentThread.  "top": at the wait() of its loop;   *)
(* "ask" and "stall": in receiveWithTimeout; "shade": exchanging request   *)
(* and response with the shader frontend; "output": offering a shaded      *)
(* fragment to the output merger.                                          *)

\* Mutant: the timeout is tested before the first look at inpSending.
MutAsk ==
    /\ fragmentReceiving' = TRUE
    /\ fsPhase' = "stall"
    /\ clocksWaiting' = 1

Ask ==
    /\ fragmentReceiving' = TRUE
    /\ fsPhase' = "ask"
    /\ clocksWaiting' = 1

\* The batch is sent to the shader frontend with the attributes as they are.
Shade ==
    /\ fragmentReceiving' = FALSE
    /\ fsPhase' = "shade"
    /\ request' = perTriangleAttribs
    /\ delay' \in 1 .. MaxDelay
    /\ clocksWaiting' = 1
    /\ UNCHANGED outFragments

\* Mutant: fragmentsCount is not reset.
MutFirstBatch == batch

FirstBatch == <<>>

FragmentTop ==
    /\ fsPhase = "top"
    /\ batch' = FirstBatch
    /\ Ask
    /\ UNCHANGED <<request, delay, outFragments>>

FragmentTaken ==
    /\ fragmentSending
    /\ batch' = Append(batch, fragmentData)
    /\ \/ Len(batch') < BatchSize /\ Ask /\ UNCHANGED <<request, delay, outFragments>>
       \/ Len(batch') >= BatchSize /\ Shade

FragmentStalls ==
    /\ ~fragmentSending
    /\ fsPhase' = "stall"
    /\ UNCHANGED <<fragmentReceiving, batch, request, delay, outFragments>>

\* Mutant: the comparison the right way round, with the counter as it was.
MutTimesOutLate == clocksWaiting > timeout

\* The comparison of receiveArrayImpl, which is tested before inpSending.
TimesOut == timeout >= clocksWaiting + 1

FragmentAsks ==
    /\ fsPhase = "ask"
    /\ \/ FragmentTaken
       \/ FragmentStalls /\ UNCHANGED clocksWaiting

FragmentWaits ==
    /\ fsPhase = "stall"
    /\ ~TimesOut
    /\ \/ FragmentTaken
       \/ /\ FragmentStalls
          /\ clocksWaiting' = IF clocksWaiting > timeout THEN clocksWaiting
                              ELSE clocksWaiting + 1

\* The receive is cancelled: shade what there is, or begin anew.
FragmentCancels ==
    /\ fsPhase = "stall"
    /\ TimesOut
    /\ UNCHANGED batch
    /\ \/ batch # <<>> /\ Shade
       \/ /\ batch = <<>>
          /\ fsPhase' = "top"
          /\ fragmentReceiving' = FALSE
          /\ clocksWaiting' = 1
          /\ UNCHANGED <<request, delay, outFragments>>

FragmentDelayed ==
    /\ fsPhase \in {"shade", "output"}
    /\ delay > 1
    /\ delay' = delay - 1
    /\ UNCHANGED <<fragmentReceiving, fsPhase, clocksWaiting, batch, request, outFragments>>

\* The response is complete; the first fragment is offered in the same tick.
FragmentShaded ==
    /\ fsPhase = "shade"
    /\ delay = 1
    /\ fsPhase' = "output"
    /\ outFragments' = 0
    /\ delay' \in 1 .. MaxDelay
    /\ UNCHANGED <<fragmentReceiving, clocksWaiting, batch, request>>

\* The output merger takes a fragment.
FragmentOutput ==
    /\ fsPhase = "output"
    /\ delay = 1
    /\ outFragments' = outFragments + 1
    /\ \/ outFragments' < Len(batch) /\ delay' \in 1 .. MaxDelay /\ UNCHANGED fsPhase
       \/ outFragments' = Len(batch) /\ fsPhase' = "top" /\ UNCHANGED delay
    /\ UNCHANGED <<fragmentReceiving, clocksWaiting, batch, request>>

PerFragmentTick ==
    \/ FragmentTop \/ FragmentAsks \/ FragmentWaits \/ FragmentCancels
    \/ FragmentDelayed \/ FragmentShaded \/ FragmentOutput

-----------------------------------------------------------------------------

StageInit ==
    /\ custom \in CustomComponents /\ timeout \in Timeouts
    /\ rsPhase = "top" /\ current = 0 /\ pixels = 0 /\ package = 0
    /\ attribsSending = FALSE /\ attribsData = Nothing
    /\ fragmentSending = FALSE /\ fragmentData = Nothing
    /\ attribsReceiving = FALSE
    /\ perTrianglePhase = "top" /\ perTrianglePackages = 0
    /\ perTriangleReceived = [k \in Packages |-> Nothing]
    /\ perTriangleAttribs = [k \in Packages |-> Nothing]
    /\ fragmentReceiving = FALSE /\ fsPhase = "top" /\ clocksWaiting = 1
    /\ batch = <<>>
    /\ request = [k \in Packages |-> Nothing]
    /\ delay = 1 /\ outFragments = 0

\* The three threads run in every tick of the clock.
Tick == RasterizerTick /\ PerTriangleTick /\ PerFragmentTick /\ UNCHANGED <<custom, timeout>>

StageSpec == StageInit /\ [][Tick]_stageVars

FairStageSpec == StageSpec /\ WF_stageVars(Tick)

-----------------------------------------------------------------------------
(* Properties.                                                             *)

Numbers == 0 .. Triangles - 1
Attribs == [Packages -> Numbers \cup {Nothing}]

TypeOK ==
    /\ custom \in CustomComponents /\ timeout \in Timeouts
    /\ rsPhase \in {"top", "receive", "vertices", "offer", "stream", "fragment"}
    /\ current \in Numbers
    /\ pixels \in 0 .. MaxPixels
    /\ package \in 0 .. MaxPackages
    /\ attribsSending \in BOOLEAN /\ attribsData \in Numbers \cup {Nothing}
    /\ fragmentSending \in BOOLEAN /\ fragmentData \in Fragments \cup {Nothing}
    /\ attribsReceiving \in BOOLEAN
    /\ perTriangleReceived \in Attribs /\ perTriangleAttribs \in Attribs /\ request \in Attribs
    /\ perTrianglePhase \in {"top", "ask", "stream"}
    /\ perTrianglePackages \in 0 .. AttribPackages
    /\ fragmentReceiving \in BOOLEAN
    /\ fsPhase \in {"top", "ask", "stall", "shade", "output"}
    /\ clocksWaiting \in 1 .. timeout + 1
    /\ Len(batch) <= BatchSize /\ \A i \in 1 .. Len(batch) : batch[i] \in Fragments
    /\ delay \in 1 .. MaxDelay
    /\ outFragments \in 0 .. BatchSize

\* The rasterizer believes its fragment to be received in this tick, and the
\* fragment shader does take it.
Passes == rsPhase = "fragment" /\ fragmentReceiving
Takes == fragmentSending /\ (fsPhase = "ask" \/ (fsPhase = "stall" /\ ~TimesOut))

\* "Pixels that are inside, are then sent for fragment shading" (README.md:19):
\* a fragment the rasterizer is done with has been taken.
EveryFragmentIsTaken == Passes => Takes

\* None is lost but to the timeout, and then none that would have joined a batch: the
\* receive is cancelled in the tick in which the rasterizer is answered only while
\* the fragment shader waits for a batch to begin.
LostBetweenBatches == Passes /\ ~Takes => timeout > 0 /\ batch = <<>>

\* Only the first fragment of a triangle can be lost.  Once the fragment shader has a fragment of a triangle, it asks for
\* the next in the tick in which the rasterizer offers it, or not at all until
\* it has shaded the batch.
OnlyFirstIsLost == Passes /\ ~Takes => fragmentData.rank = 1

\* With the timeout, a batch holds consecutive fragments of one triangle, although the threads
\* never tell one another where a triangle ends: the rasterizer needs longer
\* for the next triangle than the fragment shader waits.  (Without a timeout it
\* does not hold: an unfinished batch waits for the next triangle.)
BatchOfOneTriangle ==
    timeout > 0 => \A i \in 2 .. Len(batch) : batch[i] = [batch[i - 1] EXCEPT !.rank = @ + 1]

\* A batch is shaded with the attributes of its own triangle, all of them,
\* though perTriangleThread may overwrite them as soon as the rasterizer has the
\* next triangle and no signal tells it that the old ones are in use.
OwnAttributes ==
    timeout > 0 /\ fsPhase \in {"shade", "output"} =>
        \A i \in 1 .. Len(batch) : \A k \in Packages : request[k] = batch[i].triangle

\* The rasterizer gets through with every triangle, whatever the timeouts do.
TriangleCompletes == rsPhase = "offer" ~> rsPhase = "top"
=============================================================================
