----------------------------- MODULE Transcode -----------------------------
(***************************************************************************)
(* The threads of the multi-transcode sample.  A sink session decodes, a    *)
(* source session processes and encodes, and SafetySurfaceBuffers connect   *)
(* them: one per source that one sink fills (1 to N), or one per sink that  *)
(* one source composes (N to 1, Comp).  A buffer is named by the session    *)
(* it was created for, and Chain is the list along m_pNext from the head.   *)
(* The launcher starts one thread per session, polls them, stops all of     *)
(* them when one failed, and in robust mode resets the pipelines after a    *)
(* GPU hang and starts them again.                                         *)
(*                                                                         *)
(* An action is what one thread does between two accesses to shared state.  *)
(* The codec runtime is external: it locks the surfaces it works on and     *)
(* unlocks them at some later time.  Fail is the set of failures that can   *)
(* happen, at most MaxFaults of them.                                      *)
(***************************************************************************)
EXTENDS SurfaceBuffer, FiniteSets

CONSTANTS
    Sinks, Sources, Overlay, Comp, Chain,
    Pool,          \* [Sinks -> SUBSET Nat]: m_pSurfaceDecPool
    Input,         \* [Sinks -> Nat]: frames in the input of a sink
    MaxFrames,     \* m_MaxFramesForTranscode
    Looping,       \* m_nTimeout # 0: the input is repeated until it is over
    AsyncDepth,
    Vpp,           \* "off", "plain", or "double" (two outputs per input)
    DecDelay, EncDelay,   \* frames the runtime keeps before the first output
    MaxSlices,     \* waits for an insertion before a source gives up
    Robust, Fail, MaxFaults, MaxRounds

\* One sink fills the buffers of all sources, or one source composes all sinks;
\* every session has a finite pool of its own, and overlay sessions are composed.
ASSUME ShapeAssumption ==
    /\ Sinks \cap Sources = {} /\ Overlay \subseteq Sinks /\ None \notin Nat
    /\ IF Comp THEN \E e \in Sources : Sources = {e} ELSE (\E d \in Sinks : Sinks = {d}) /\ Overlay = {}
    /\ \A d, c \in Sinks : d # c => Pool[d] \cap Pool[c] = {}
    /\ \A d \in Sinks : IsFiniteSet(Pool[d])
    /\ \A d \in Overlay : Pool[d] # {}
    /\ Comp \in BOOLEAN /\ Looping \in BOOLEAN /\ Robust \in BOOLEAN
    /\ Vpp \in {"off", "plain", "double"} /\ (Comp => Vpp # "off")
    /\ Pool \in [Sinks -> SUBSET Nat] /\ Input \in [Sinks -> Nat]
    /\ Chain \in Seq(IF Comp THEN Sinks ELSE Sources) /\ Chain # <<>>
    /\ \A i, j \in 1..Len(Chain) : Chain[i] = Chain[j] => i = j
    /\ \A b \in IF Comp THEN Sinks ELSE Sources : \E i \in 1..Len(Chain) : Chain[i] = b
    /\ DecDelay \in Nat /\ EncDelay \in Nat
    /\ AsyncDepth \in Nat \ {0} /\ MaxFrames \in Nat \ {0} /\ MaxSlices \in Nat \ {0}

Sessions == Sinks \cup Sources
Buffers == IF Comp THEN Sinks ELSE Sources
Surfaces == UNION {Pool[d] : d \in Sinks}

\* InitSafetyBuffers: the buffers a sink adds to, the ones a source reads.
Out(d) == IF Comp THEN <<d>> ELSE Chain
Path(e) == IF Comp THEN Chain ELSE <<e>>

EndMark == Descriptor(None, 0)

VARIABLES
    buf,     \* the SafetySurfaceBuffers
    surf,    \* Data.Locked of each surface, and the frame it contains
    sink,    \* locals of the decoding threads
    src,     \* locals of the encoding threads
    dec,     \* external: per sink, surfaces decoded and not yet output (pend),
             \* and the ones the decoder has locked (refs)
    enc,     \* external: per source, frames kept (delay) and inputs locked (hold)
    stop,    \* m_bForceStop
    sts,     \* transcodingSts, "run" until the thread has ended
    lau,     \* the launcher
    used,    \* frames that were processed from each buffer, in order
    faults

vars == <<buf, surf, sink, src, dec, enc, stop, sts, lau, used, faults>>

InitSink(pos, n, num) ==
    [pc |-> "start", x |-> EndMark, todo |-> <<>>, after |-> "loop", res |-> "ok",
     pos |-> pos, n |-> n, num |-> num, eof |-> FALSE, last |-> FALSE,
     timeout |-> Looping]

InitSrc(num) ==
    [pc |-> "get", cur |-> 1, x |-> EndMark, quit |-> FALSE, read |-> TRUE,
     poll |-> FALSE, vs |-> FALSE, r |-> "none", bs |-> 0, num |-> num, slices |-> 0]

InitDec == [pend |-> <<>>, refs |-> {}]
InitEnc == [delay |-> 0, hold |-> {}]

Init ==
    /\ buf = [b \in Buffers |-> Empty]
    /\ surf = [s \in Surfaces |-> [locked |-> 0, frame |-> 0]]
    /\ sink = [d \in Sinks |-> InitSink(0, 0, 0)]
    /\ src = [e \in Sources |-> InitSrc(0)]
    /\ dec = [d \in Sinks |-> InitDec]
    /\ enc = [e \in Sources |-> InitEnc]
    /\ stop = [x \in Sessions |-> FALSE]
    /\ sts = [x \in Sessions |-> "run"]
    /\ lau = [pc |-> "poll", seen |-> {}, todo |-> {}, round |-> 0]
    /\ used = [b \in Buffers |-> <<>>]
    /\ faults = 0

Fault(kind) == kind \in Fail /\ faults < MaxFaults /\ faults' = faults + 1

Lock(S, s) == [S EXCEPT ![s].locked = @ + 1]
Unlock(S, s) == [S EXCEPT ![s].locked = @ - 1]

\* Mutant: a surface that only one user has locked counts as free.
FreeOffByOne(d) == {s \in Pool[d] : surf[s].locked <= 1}

\* GetFreeSurface: the first surface of the pool that nobody has locked.
Free(d) == {s \in Pool[d] : surf[s].locked = 0}

(***************************************************************************)
(* The decoding thread, CTranscodingPipeline::Decode                       *)
(***************************************************************************)

\* Mutant: the end mark is added to the first buffer of the chain only.
MarksFirst(d, p, r) ==
    [sink[d] EXCEPT !.pc = "add", !.x = EndMark, !.todo = <<Out(d)[1]>>, !.after = p, !.res = r]

\* NoMoreFramesSignal, and then go on at pc p; "done" ends with status r.
Marks(d, p, r) ==
    [sink[d] EXCEPT !.pc = "add", !.x = EndMark, !.todo = Out(d), !.after = p, !.res = r]

\* The call for Decode checks the stop flag first.  An overlay session adds
\* its only surface whenever the buffer is empty, and is called again.
StartDecode(d) ==
    /\ sink[d].pc = "start"
    /\ sink' = [sink EXCEPT ![d] =
           IF stop[d] THEN Marks(d, "done", "ok")
           ELSE IF d \notin Overlay THEN [@ EXCEPT !.pc = "loop"]
           ELSE [@ EXCEPT !.pc = "add", !.todo = Out(d), !.after = "start",
                          !.x = Descriptor(First(Pool[d]), 0)]]
    /\ d \in Overlay /\ ~stop[d] => NoSurface(buf[d])
    /\ UNCHANGED <<buf, surf, src, dec, enc, stop, sts, lau, used, faults>>

\* The top of the loop: the last cycle begins when m_nTimeout is over, which
\* is at once if it is 0, the default, or was set to 0 by a stop.
LoopDecode(d) ==
    /\ sink[d].pc = "loop"
    /\ \E last \in BOOLEAN :
          /\ last \/ (sink[d].timeout /\ ~sink[d].last)
          /\ sink' = [sink EXCEPT ![d].last = last,
                                  ![d].pc = IF sink[d].eof THEN "lastFrame" ELSE "oneFrame"]
    /\ UNCHANGED <<buf, surf, src, dec, enc, stop, sts, lau, used, faults>>

\* Mutant: an error ends the thread like the end of the input.
NoFrameForgetsStatus(d, r) ==
    IF sink[d].last THEN Marks(d, "done", "ok")
    ELSE [sink[d] EXCEPT !.pc = "loop", !.pos = 0]

\* What Decode does when DecodeOneFrame returned without a surface: before
\* the last cycle it rewinds the input, whatever the status was, and goes on.
NoFrame(d, r) ==
    IF sink[d].last THEN Marks(d, "done", r)
    ELSE [sink[d] EXCEPT !.pc = "loop", !.pos = 0]

\* A frame s came out of the decoder: it is added to all buffers.
Frame(d, K, s, f) ==
    [K EXCEPT !.pc = "add", !.x = Descriptor(s, f), !.todo = Out(d), !.after = "count"]

\* DecodeFrameAsync with data: the frame is decoded into s, which the decoder
\* locks; the oldest frame comes out once DecDelay frames are kept.
DecodeOneFrame(d) ==
    /\ sink[d].pc = "oneFrame" /\ ~stop[d] /\ Free(d) # {}
    /\ sink[d].pos < Input[d]
    /\ \E s \in {First(Free(d))} : \E f \in {sink[d].n + 1} :
       \E q \in {Append(dec[d].pend, s)} :
          /\ surf' = [Lock(surf, s) EXCEPT ![s].frame = f]
          /\ IF Len(q) > DecDelay
             THEN /\ dec' = [dec EXCEPT ![d] = [pend |-> Tail(q), refs |-> @.refs \cup {s}]]
                  /\ sink' = [sink EXCEPT ![d] =
                        Frame(d, [sink[d] EXCEPT !.pos = @ + 1, !.n = f], Head(q), f - DecDelay)]
             ELSE /\ dec' = [dec EXCEPT ![d] = [pend |-> q, refs |-> @.refs \cup {s}]]
                  /\ sink' = [sink EXCEPT ![d].pos = @ + 1, ![d].n = f]
    /\ UNCHANGED <<buf, src, enc, stop, sts, lau, used, faults>>

\* The input is at its end: MFX_ERR_MORE_DATA, also found with a work surface.
EndOfInput(d) ==
    /\ sink[d].pc = "oneFrame" /\ ~stop[d] /\ Free(d) # {}
    /\ sink[d].pos = Input[d]
    /\ sink' = [sink EXCEPT ![d] =
           IF @.last THEN [@ EXCEPT !.eof = TRUE, !.pc = "lastFrame"] ELSE NoFrame(d, "ok")]
    /\ UNCHANGED <<buf, surf, src, dec, enc, stop, sts, lau, used, faults>>

\* DecodeOneFrame finds the session stopped: an end mark now, and another
\* when the loop is left.
StoppedDecode(d) ==
    /\ sink[d].pc = "oneFrame" /\ stop[d]
    /\ sink' = [sink EXCEPT ![d] =
           [Marks(d, IF @.last THEN "leave" ELSE "loop", "ok") EXCEPT !.timeout = FALSE]]
    /\ UNCHANGED <<buf, surf, src, dec, enc, stop, sts, lau, used, faults>>

\* DecodeLastFrame: the frames kept in the decoder; then MFX_ERR_MORE_DATA.
\* It needs a work surface, and a stop is an error here.
DecodeLastFrame(d) ==
    /\ sink[d].pc = "lastFrame"
    /\ \/ /\ stop[d]
          /\ sink' = [sink EXCEPT ![d] = Marks(d, "done", "error")]
          /\ UNCHANGED dec
       \/ /\ ~stop[d] /\ Free(d) # {} /\ dec[d].pend # <<>>
          /\ dec' = [dec EXCEPT ![d].pend = Tail(@)]
          /\ \E s \in {Head(dec[d].pend)} :
                sink' = [sink EXCEPT ![d] = Frame(d, @, s, surf[s].frame)]
       \/ /\ ~stop[d] /\ Free(d) # {} /\ dec[d].pend = <<>>
          /\ sink' = [sink EXCEPT ![d] = Marks(d, "done", "ok")]
          /\ UNCHANGED dec
    /\ UNCHANGED <<buf, surf, src, enc, stop, sts, lau, used, faults>>

\* The runtime reports an error or a hang.
DecodeFails(d) ==
    /\ sink[d].pc = "oneFrame" /\ ~stop[d] /\ Free(d) # {}
    /\ \E kind \in {"error", "hang"} :
          /\ Fault(kind)
          /\ sink' = [sink EXCEPT ![d] = NoFrame(d, kind)]
    /\ UNCHANGED <<buf, surf, src, dec, enc, stop, sts, lau, used>>

\* All buffers have got sink[d].x, so go on; the thread ends at "done".
AddedAll(d) ==
    /\ sink' = [sink EXCEPT ![d] =
          IF @.after = "leave" THEN Marks(d, "done", @.res)
          ELSE [@ EXCEPT !.todo = <<>>, !.pc = sink[d].after]]
    /\ sts' = [sts EXCEPT ![d] = IF sink[d].after = "done" THEN sink[d].res ELSE @]

\* AddSurface on the next buffer; the event is signalled outside the lock.
AddStep(d) ==
    /\ sink[d].pc = "add"
    /\ \E b \in {Head(sink[d].todo)} :
          /\ buf' = [buf EXCEPT ![b] = AddSurface(@, sink[d].x)]
          /\ surf' = IF buf[b].allowed /\ sink[d].x.surf # None
                     THEN Lock(surf, sink[d].x.surf) ELSE surf
          /\ IF buf[b].allowed
             THEN sink' = [sink EXCEPT ![d].pc = "signal"] /\ UNCHANGED sts
             ELSE IF Tail(sink[d].todo) # <<>>
             THEN sink' = [sink EXCEPT ![d].todo = Tail(@)] /\ UNCHANGED sts
             ELSE AddedAll(d)
    /\ UNCHANGED <<src, dec, enc, stop, lau, used, faults>>

SignalStep(d) ==
    /\ sink[d].pc = "signal"
    /\ buf' = [buf EXCEPT ![Head(sink[d].todo)] = Signal(@)]
    /\ IF Tail(sink[d].todo) # <<>>
       THEN sink' = [sink EXCEPT ![d].todo = Tail(@), ![d].pc = "add"] /\ UNCHANGED sts
       ELSE AddedAll(d)
    /\ UNCHANGED <<surf, src, dec, enc, stop, lau, used, faults>>

\* The buffer that was filled last.
LastOf(d) == Out(d)[Len(Out(d))]

\* The end of the loop body.  Waiting for the oldest surface of a full buffer
\* only matters when it fails: Decode then returns without an end mark.
CountFrame(d) ==
    /\ sink[d].pc = "count"
    /\ \/ /\ sink' = [sink EXCEPT ![d] =
                IF (@.eof /\ @.timeout) \/ @.num + 1 >= MaxFrames
                THEN [Marks(d, "done", "ok") EXCEPT !.num = sink[d].num + 1]
                ELSE [@ EXCEPT !.pc = "loop", !.num = sink[d].num + 1]]
          /\ UNCHANGED <<sts, faults>>
       \/ /\ Len(buf[LastOf(d)].list) >= AsyncDepth
          /\ Fault("sync")
          /\ sink' = [sink EXCEPT ![d].pc = "done"]
          /\ sts' = [sts EXCEPT ![d] = "error"]
    /\ UNCHANGED <<buf, surf, src, dec, enc, stop, lau, used>>

\* External: the decoder no longer needs a surface that it has output.
DecoderUnlocks(d) ==
    /\ \E s \in dec[d].refs :
          /\ \A i \in 1..Len(dec[d].pend) : dec[d].pend[i] # s
          /\ dec' = [dec EXCEPT ![d].refs = @ \ {s}]
          /\ surf' = Unlock(surf, s)
    /\ UNCHANGED <<buf, sink, src, enc, stop, sts, lau, used, faults>>

SinkThread(d) ==
    \/ StartDecode(d) \/ LoopDecode(d) \/ DecodeOneFrame(d) \/ EndOfInput(d)
    \/ StoppedDecode(d) \/ DecodeLastFrame(d) \/ AddStep(d) \/ SignalStep(d)
    \/ CountFrame(d)

(***************************************************************************)
(* The encoding thread, CTranscodingPipeline::Encode                       *)
(***************************************************************************)

Cur(e) == Path(e)[src[e].cur]

\* Where the loop goes on: the next frame, or the same one for VPP again.
Again(K) == IF K.read THEN "get" ELSE "vpp"

\* GetSurface, unless an end mark was seen: then null frames drain the runtime.
GetFrame(e) ==
    /\ src[e].pc = "get"
    /\ IF src[e].quit \/ ~NoSurface(buf[Cur(e)])
       THEN \E x \in {IF src[e].quit THEN EndMark ELSE Front(buf[Cur(e)])} :
              src' = [src EXCEPT ![e].x = x, ![e].quit = (x.surf = None),
                                 ![e].vs = (x.surf # None),
                                 ![e].pc = IF Vpp = "off" THEN "enc" ELSE "vpp"]
       ELSE src' = [src EXCEPT ![e].pc = "wait", ![e].slices = 0]
    /\ UNCHANGED <<buf, surf, sink, dec, enc, stop, sts, lau, used, faults>>

\* SyncOperation on the decoded surface fails: Encode returns.
SyncFrameFails(e) ==
    /\ src[e].pc = "get" /\ ~src[e].quit /\ ~NoSurface(buf[Cur(e)])
    /\ Front(buf[Cur(e)]).surf # None
    /\ Fault("sync")
    /\ src' = [src EXCEPT ![e].pc = "done"]
    /\ sts' = [sts EXCEPT ![e] = "error"]
    /\ UNCHANGED <<buf, surf, sink, dec, enc, stop, lau, used>>

\* MSDKEvent::TimedWait returns at once if the event is set, or blocks.
WaitForSurfaceInsertion(e) ==
    /\ src[e].pc \in {"wait", "blocked"}
    /\ src[e].pc = "blocked" => buf[Cur(e)].ins
    /\ buf' = [buf EXCEPT ![Cur(e)] = ResetEvent(@)]
    /\ src' = [src EXCEPT ![e].pc = IF buf[Cur(e)].ins THEN "get" ELSE "blocked"]
    /\ UNCHANGED <<surf, sink, dec, enc, stop, sts, lau, used, faults>>

\* Mutant: the slices are not counted.
SliceReturnsForever(e) ==
    /\ src[e].pc = "expired"
    /\ buf' = [buf EXCEPT ![Cur(e)] = ResetEvent(@)]
    /\ src' = [src EXCEPT ![e].pc = "wait"]
    /\ UNCHANGED <<surf, sink, dec, enc, stop, sts, lau, used, faults>>

\* The waiting thread has the mutex again and clears the event, also when it
\* was signalled in the meantime; the last slice ends the thread.
SliceReturns(e) ==
    /\ src[e].pc = "expired"
    /\ buf' = [buf EXCEPT ![Cur(e)] = ResetEvent(@)]
    /\ IF src[e].slices + 1 = MaxSlices
       THEN src' = [src EXCEPT ![e].pc = "done"] /\ sts' = [sts EXCEPT ![e] = "error"]
       ELSE src' = [src EXCEPT ![e].pc = "wait", ![e].slices = @ + 1] /\ UNCHANGED sts
    /\ UNCHANGED <<surf, sink, dec, enc, stop, lau, used, faults>>

\* ReleaseSurface of x on buffer b, which unlocks a surface it finds there.
Released(b, x) ==
    /\ buf' = [buf EXCEPT ![b] = ReleaseSurface(@, x.surf)]
    /\ surf' = IF x.surf # None /\ Releases(buf[b], x.surf) THEN Unlock(surf, x.surf) ELSE surf

\* External: the runtime locks a surface that it reads.
Hold(e, x) == [enc EXCEPT ![e].hold = @ \cup {x}]

\* VPPOneFrame on a null frame: nothing is left in VPP, so the frame for the
\* encoder is null too.
VppDrained(e) ==
    /\ src[e].pc = "vpp" /\ ~stop[e] /\ src[e].x.surf = None
    /\ src' = [src EXCEPT ![e].vs = FALSE, ![e].pc = IF Comp THEN "composed" ELSE "enc"]
    /\ UNCHANGED <<buf, surf, sink, dec, enc, stop, sts, lau, used, faults>>

\* The runtime reads the frame: it is processed, and locked once per frame.
VppReads(e) ==
    /\ enc' = Hold(e, [surf |-> src[e].x.surf, frame |-> surf[src[e].x.surf].frame])
    /\ used' = IF src[e].read THEN [used EXCEPT ![Cur(e)] = Append(@, surf[src[e].x.surf].frame)]
               ELSE used

HoldLock(e) ==
    IF enc'[e].hold = enc[e].hold THEN surf ELSE Lock(surf, src[e].x.surf)

\* VPPOneFrame takes a frame of a composition and wants the next input
\* (MFX_ERR_MORE_DATA): the surface is released, the next buffer is read.
VppWantsMore(e) ==
    /\ src[e].pc = "vpp" /\ ~stop[e] /\ src[e].x.surf # None
    /\ src[e].read /\ src[e].cur < Len(Path(e))
    /\ VppReads(e)
    /\ src' = [src EXCEPT ![e].pc = "more"]
    /\ surf' = HoldLock(e)
    /\ UNCHANGED <<buf, sink, dec, stop, sts, lau, faults>>

\* VPPOneFrame fails: Encode returns with the surface still on the buffer.
VppFails(e) ==
    /\ src[e].pc = "vpp" /\ ~stop[e]
    /\ \E kind \in {"error", "hang"} :
          /\ Fault(kind)
          /\ src' = [src EXCEPT ![e].pc = "done"]
          /\ sts' = [sts EXCEPT ![e] = kind]
    /\ UNCHANGED <<buf, surf, sink, dec, enc, stop, lau, used>>

\* GetFreeSurface for the output of VPP returns null in a stopped session.
VppStopped(e) ==
    /\ src[e].pc = "vpp" /\ stop[e]
    /\ src' = [src EXCEPT ![e].pc = "done"]
    /\ sts' = [sts EXCEPT ![e] = "error"]
    /\ UNCHANGED <<buf, surf, sink, dec, enc, stop, lau, used, faults>>

\* Mutant: the input of a composition stays on its buffer.
ReleaseInputForgets(e) ==
    /\ src[e].pc = "more"
    /\ src' = [src EXCEPT ![e].pc = "get", ![e].cur = @ + 1]
    /\ UNCHANGED <<buf, surf, sink, dec, enc, stop, sts, lau, used, faults>>

ReleaseInput(e) ==
    /\ src[e].pc = "more"
    /\ Released(Cur(e), src[e].x)
    /\ src' = [src EXCEPT ![e].pc = "get", ![e].cur = @ + 1]
    /\ UNCHANGED <<sink, dec, enc, stop, sts, lau, used, faults>>

\* VPPOneFrame has an output; with "double" the first call for a frame returns
\* MFX_ERR_MORE_SURFACE and the same frame is passed again.
VppOutput(e) ==
    /\ src[e].pc = "vpp" /\ ~stop[e] /\ src[e].x.surf # None
    /\ ~src[e].read \/ src[e].cur = Len(Path(e))
    /\ VppReads(e)
    /\ surf' = HoldLock(e)
    /\ src' = [src EXCEPT ![e].pc = IF Comp THEN "composed" ELSE "enc",
                          ![e].vs = TRUE,
                          ![e].read = ~(Vpp = "double" /\ src[e].read)]
    /\ UNCHANGED <<buf, sink, dec, stop, sts, lau, faults>>

\* A composition releases the last input here, and reads the first buffer next.
ReleaseComposed(e) ==
    /\ src[e].pc = "composed"
    /\ Released(Cur(e), src[e].x)
    /\ src' = [src EXCEPT ![e].pc = "enc", ![e].cur = 1]
    /\ UNCHANGED <<sink, dec, enc, stop, sts, lau, used, faults>>

\* External, EncodeFrameAsync: frames are kept until EncDelay of them are; a
\* null frame brings out one of them.
EncodeResult(e, real) ==
    IF real THEN IF enc[e].delay < EncDelay THEN "more" ELSE "none"
    ELSE IF enc[e].delay > 0 THEN "none" ELSE "more"

Kept(e, real) ==
    IF real THEN IF enc[e].delay < EncDelay THEN enc[e].delay + 1 ELSE enc[e].delay
    ELSE IF enc[e].delay > 0 THEN enc[e].delay - 1 ELSE 0

\* EncodeOneFrame, and the limit on frames: from then on the encoder gets null
\* frames only.
EncodeOneFrame(e, real, n) ==
    /\ src' = [src EXCEPT ![e].pc = "rel", ![e].vs = real, ![e].num = n,
                          ![e].poll = (n >= MaxFrames), ![e].bs = @ + 1,
                          ![e].r = EncodeResult(e, real)]
    /\ IF real /\ Vpp = "off"
       THEN /\ enc' = [Hold(e, [surf |-> src[e].x.surf, frame |-> surf[src[e].x.surf].frame])
                        EXCEPT ![e].delay = Kept(e, real)]
            /\ used' = [used EXCEPT ![Cur(e)] = Append(@, surf[src[e].x.surf].frame)]
            /\ surf' = HoldLock(e)
       ELSE /\ enc' = [enc EXCEPT ![e].delay = Kept(e, real)]
            /\ UNCHANGED <<used, surf>>

\* GetNext of the bitstream store, which returns MFX_ERR_NOT_FOUND when no
\* bitstream is free, and the encoder.
EncodeFrame(e) ==
    /\ src[e].pc = "enc"
    /\ IF src[e].bs < AsyncDepth
       THEN /\ \E real \in {src[e].vs /\ ~src[e].poll} :
                  EncodeOneFrame(e, real, src[e].num + IF real THEN 1 ELSE 0)
            /\ UNCHANGED sts
       ELSE /\ src' = [src EXCEPT ![e].pc = "done"]
            /\ sts' = [sts EXCEPT ![e] = "error"]
            /\ UNCHANGED <<enc, used, surf>>
    /\ UNCHANGED <<buf, sink, dec, stop, lau, faults>>

\* The encoder reports an error or a hang; the surface is still released.
EncodeFails(e) ==
    /\ src[e].pc = "enc" /\ src[e].bs < AsyncDepth
    /\ \E kind \in {"error", "hang"} :
          /\ Fault(kind)
          /\ src' = [src EXCEPT ![e].pc = "rel", ![e].r = kind, ![e].bs = @ + 1]
    /\ UNCHANGED <<buf, surf, sink, dec, enc, stop, sts, lau, used>>

\* Mutants: the surface is released although VPP gets it again, and PutBS is
\* called one bitstream too late.
ReleaseFrameEarly(e) ==
    /\ src[e].pc = "rel" /\ src[e].r \in {"more", "none"}
    /\ Released(Path(e)[1], src[e].x)
    /\ src' = [src EXCEPT ![e].bs = IF src[e].r = "more" \/ @ = AsyncDepth THEN @ - 1 ELSE @,
                          ![e].pc = IF src[e].r = "more" /\ ~src[e].vs THEN "flush"
                                    ELSE Again(src[e])]
    /\ UNCHANGED <<sink, dec, enc, stop, sts, lau, used, faults>>

ReleaseFrameLatePut(e) ==
    /\ src[e].pc = "rel" /\ src[e].r \in {"more", "none"}
    /\ IF src[e].read THEN Released(Path(e)[1], src[e].x) ELSE UNCHANGED <<buf, surf>>
    /\ src' = [src EXCEPT ![e].bs = IF src[e].r = "more" \/ @ > AsyncDepth THEN @ - 1 ELSE @,
                          ![e].pc = IF src[e].r = "more" /\ ~src[e].vs THEN "flush"
                                    ELSE Again(src[e])]
    /\ UNCHANGED <<sink, dec, enc, stop, sts, lau, used, faults>>

\* ReleaseSurface on the first buffer, if the next iteration reads a new
\* frame, and what follows from the result: drop the bitstream and go on or
\* leave the loop; fail; or keep it, and PutBS when AsyncDepth are kept.
ReleaseFrame(e) ==
    /\ src[e].pc = "rel"
    /\ IF src[e].read THEN Released(Path(e)[1], src[e].x) ELSE UNCHANGED <<buf, surf>>
    /\ CASE src[e].r = "more" ->
               /\ src' = [src EXCEPT ![e].bs = @ - 1,
                                     ![e].pc = IF src[e].vs THEN Again(src[e]) ELSE "flush"]
               /\ UNCHANGED <<sts, faults>>
         [] src[e].r = "none" ->
               \/ /\ src' = [src EXCEPT ![e].pc = Again(src[e]),
                                        ![e].bs = IF @ = AsyncDepth THEN @ - 1 ELSE @]
                  /\ UNCHANGED <<sts, faults>>
               \/ /\ src[e].bs = AsyncDepth /\ Fault("sync")
                  /\ src' = [src EXCEPT ![e].pc = "done"]
                  /\ sts' = [sts EXCEPT ![e] = "error"]
         [] OTHER ->
               /\ src' = [src EXCEPT ![e].pc = "done"]
               /\ sts' = [sts EXCEPT ![e] = src[e].r]
               /\ UNCHANGED faults
    /\ UNCHANGED <<sink, dec, enc, stop, lau, used>>

\* Mutant: the buffer is not cancelled before it is drained.
FlushNoCancel(e) ==
    /\ src[e].pc = "flush"
    /\ src' = [src EXCEPT ![e].bs = 0, ![e].cur = 1, ![e].pc = "drain"]
    /\ UNCHANGED <<buf, surf, sink, dec, enc, stop, sts, lau, used, faults>>

\* The bitstreams that are left are written, the buffers are cleaned up: a
\* composition visits every buffer and cancels the ones it finds filled.
Flush(e) ==
    /\ src[e].pc = "flush"
    /\ \/ /\ src' = [src EXCEPT ![e].bs = 0, ![e].cur = 1,
                                 ![e].pc = IF Comp THEN "drain" ELSE "cancel"]
          /\ UNCHANGED <<sts, faults>>
       \/ /\ src[e].bs > 0 /\ Fault("sync")
          /\ src' = [src EXCEPT ![e].pc = "done"]
          /\ sts' = [sts EXCEPT ![e] = "error"]
    /\ UNCHANGED <<buf, surf, sink, dec, enc, stop, lau, used>>

\* Mutant: what is left on the buffer is not released.
CancelNoDrain(e) ==
    /\ src[e].pc = "cancel"
    /\ buf' = [buf EXCEPT ![Cur(e)] = CancelBuffering(@)]
    /\ src' = [src EXCEPT ![e].pc = "done"]
    /\ sts' = [sts EXCEPT ![e] = "ok"]
    /\ UNCHANGED <<surf, sink, dec, enc, stop, lau, used, faults>>

Cancel(e) ==
    /\ src[e].pc = "cancel"
    /\ buf' = [buf EXCEPT ![Cur(e)] = CancelBuffering(@)]
    /\ src' = [src EXCEPT ![e].pc = "drain"]
    /\ UNCHANGED <<surf, sink, dec, enc, stop, sts, lau, used, faults>>

Drain(e) ==
    /\ src[e].pc = "drain"
    /\ IF ~NoSurface(buf[Cur(e)])
       THEN /\ Released(Cur(e), Front(buf[Cur(e)]))
            /\ src' = [src EXCEPT ![e].pc = IF Comp THEN "cancel" ELSE "drain"]
            /\ UNCHANGED sts
       ELSE /\ UNCHANGED <<buf, surf>>
            /\ IF src[e].cur < Len(Path(e))
               THEN src' = [src EXCEPT ![e].cur = @ + 1] /\ UNCHANGED sts
               ELSE /\ src' = [src EXCEPT ![e].pc = "done"]
                    /\ sts' = [sts EXCEPT ![e] = "ok"]
    /\ UNCHANGED <<sink, dec, enc, stop, lau, used, faults>>

\* External: VPP or the encoder has finished with an input surface.
RuntimeUnlocks(e) ==
    /\ \E h \in enc[e].hold :
          /\ enc' = [enc EXCEPT ![e].hold = @ \ {h}]
          /\ surf' = Unlock(surf, h.surf)
    /\ UNCHANGED <<buf, sink, src, dec, stop, sts, lau, used, faults>>

SourceThread(e) ==
    \/ GetFrame(e) \/ WaitForSurfaceInsertion(e) \/ SliceReturns(e) \/ VppDrained(e) \/ VppWantsMore(e)
    \/ VppStopped(e) \/ ReleaseInput(e) \/ VppOutput(e) \/ ReleaseComposed(e) \/ EncodeFrame(e)
    \/ ReleaseFrame(e) \/ Flush(e) \/ Cancel(e) \/ Drain(e)

(***************************************************************************)
(* The launcher                                                            *)
(***************************************************************************)

Fatal(x) == sts[x] = "error" \/ (sts[x] = "hang" /\ ~Robust)

\* DoTranscoding finds that a thread has ended with an error, and stops all
\* sessions, except after a hang in robust mode.  Nothing depends on when it
\* finds the other threads ended.
Poll(x) ==
    /\ lau.pc = "poll" /\ lau.todo = {}
    /\ x \notin lau.seen /\ Fatal(x)
    /\ lau' = [lau EXCEPT !.seen = @ \cup {x}, !.todo = Sessions]
    /\ UNCHANGED <<buf, surf, sink, src, dec, enc, stop, sts, used, faults>>

\* StopSession, one session after the other.
StopSession(x) ==
    /\ x \in lau.todo
    /\ stop' = [stop EXCEPT ![x] = TRUE]
    /\ lau' = [lau EXCEPT !.todo = @ \ {x}]
    /\ UNCHANGED <<buf, surf, sink, src, dec, enc, sts, used, faults>>

\* Mutant: the overlay sessions are waited for and not stopped.
StopOverlayWaits ==
    /\ lau.pc = "poll" /\ lau.todo = {}
    /\ \A x \in Sessions \ Overlay : sts[x] # "run" /\ (Fatal(x) => x \in lau.seen)
    /\ lau' = [lau EXCEPT !.pc = "wait"]
    /\ UNCHANGED <<buf, surf, sink, src, dec, enc, stop, sts, used, faults>>

\* Overlay sessions never end by themselves: they are stopped when all others
\* have ended, and waited for.
StopOverlay ==
    /\ lau.pc = "poll" /\ lau.todo = {}
    /\ \A x \in Sessions \ Overlay : sts[x] # "run" /\ (Fatal(x) => x \in lau.seen)
    /\ lau' = [lau EXCEPT !.pc = "wait", !.todo = Overlay]
    /\ UNCHANGED <<buf, surf, sink, src, dec, enc, stop, sts, used, faults>>

Joined == lau.pc = "wait" /\ lau.todo = {} /\ \A x \in Sessions : sts[x] # "run"

Recovers == Robust /\ lau.round < MaxRounds /\ \E x \in Sessions : sts[x] = "hang"

Finish ==
    /\ Joined /\ ~Recovers
    /\ lau' = [lau EXCEPT !.pc = "finished"]
    /\ UNCHANGED <<buf, surf, sink, src, dec, enc, stop, sts, used, faults>>

\* Mutants: Reset leaves the locks of the pool, or the statuses of the threads.
RecoverKeepsLocks ==
    /\ Joined /\ Recovers
    /\ buf' = [b \in Buffers |-> ReleaseSurfaceAll(buf[b])]
    /\ sink' = [d \in Sinks |-> InitSink(sink[d].pos, sink[d].n, sink[d].num)]
    /\ src' = [e \in Sources |-> InitSrc(src[e].num)]
    /\ dec' = [d \in Sinks |-> InitDec]
    /\ enc' = [e \in Sources |-> InitEnc]
    /\ sts' = [x \in Sessions |-> "run"]
    /\ lau' = [pc |-> "poll", seen |-> {}, todo |-> {}, round |-> lau.round + 1]
    /\ UNCHANGED <<surf, stop, used, faults>>

RecoverKeepsStatus ==
    /\ Joined /\ Recovers
    /\ surf' = [s \in Surfaces |-> [surf[s] EXCEPT !.locked = 0]]
    /\ buf' = [b \in Buffers |-> ReleaseSurfaceAll(buf[b])]
    /\ sink' = [d \in Sinks |-> InitSink(sink[d].pos, sink[d].n, sink[d].num)]
    /\ src' = [e \in Sources |-> InitSrc(src[e].num)]
    /\ dec' = [d \in Sinks |-> InitDec]
    /\ enc' = [e \in Sources |-> InitEnc]
    /\ lau' = [pc |-> "poll", seen |-> {}, todo |-> {}, round |-> lau.round + 1]
    /\ UNCHANGED <<sts, stop, used, faults>>

\* DoRobustTranscoding after a hang: Reset of every pipeline clears the locks
\* of its pool, its buffers, its bitstreams and its codecs; the position in
\* the input, the number of frames and the stop flag stay.
Recover ==
    /\ Joined /\ Recovers
    /\ surf' = [s \in Surfaces |-> [surf[s] EXCEPT !.locked = 0]]
    /\ buf' = [b \in Buffers |-> ReleaseSurfaceAll(buf[b])]
    /\ sink' = [d \in Sinks |-> InitSink(sink[d].pos, sink[d].n, sink[d].num)]
    /\ src' = [e \in Sources |-> InitSrc(src[e].num)]
    /\ dec' = [d \in Sinks |-> InitDec]
    /\ enc' = [e \in Sources |-> InitEnc]
    /\ sts' = [x \in Sessions |-> "run"]
    /\ lau' = [pc |-> "poll", seen |-> {}, todo |-> {}, round |-> lau.round + 1]
    /\ UNCHANGED <<stop, used, faults>>

Launcher == (\E x \in Sessions : Poll(x) \/ StopSession(x)) \/ StopOverlay \/ Finish \/ Recover

Finished == lau.pc = "finished" /\ UNCHANGED vars

(***************************************************************************)
(* Timeouts                                                                *)
(***************************************************************************)

\* Everything that happens without a failure and without the end of a wait.
Progress ==
    \/ \E d \in Sinks : SinkThread(d) \/ DecoderUnlocks(d)
    \/ \E e \in Sources : SourceThread(e) \/ RuntimeUnlocks(e)
    \/ Launcher

\* A wait takes minutes: it ends when nothing else can happen, or, if threads
\* and hardware can be that slow, at any time.
TimeGoesBy == (~ENABLED Progress /\ UNCHANGED faults) \/ Fault("slow")

\* No surface became free during MSDK_SURFACE_WAIT_INTERVAL.
GetFreeSurfaceTimeout(d) ==
    /\ sink[d].pc \in {"oneFrame", "lastFrame"} /\ ~stop[d] /\ Free(d) = {}
    /\ sink' = [sink EXCEPT ![d] =
           IF @.pc = "oneFrame" THEN NoFrame(d, "error") ELSE Marks(d, "done", "error")]
    /\ TimeGoesBy
    /\ UNCHANGED <<buf, surf, src, dec, enc, stop, sts, lau, used>>

\* The time of one slice is over before the event was signalled.
SliceExpires(e) ==
    /\ src[e].pc = "blocked" /\ ~buf[Cur(e)].ins
    /\ src' = [src EXCEPT ![e].pc = "expired"]
    /\ TimeGoesBy
    /\ UNCHANGED <<buf, surf, sink, dec, enc, stop, sts, lau, used>>

Timeout ==
    \/ \E d \in Sinks : GetFreeSurfaceTimeout(d)
    \/ \E e \in Sources : SliceExpires(e)

Failure ==
    \/ \E d \in Sinks : DecodeFails(d)
    \/ \E e \in Sources : SyncFrameFails(e) \/ VppFails(e) \/ EncodeFails(e)

Next == Progress \/ Timeout \/ Failure \/ Finished

Spec == Init /\ [][Next]_vars

\* Threads are scheduled, timers expire, the hardware finishes its work, and
\* the time of a repeated input (m_nTimeout) is over some day.
Fairness ==
    /\ \A d \in Sinks : /\ WF_vars(SinkThread(d) \/ GetFreeSurfaceTimeout(d))
                        /\ WF_vars(DecoderUnlocks(d))
                        /\ SF_vars(LoopDecode(d) /\ sink'[d].last)
    /\ \A e \in Sources : /\ WF_vars(SourceThread(e) \/ SliceExpires(e))
                          /\ WF_vars(RuntimeUnlocks(e))
    /\ WF_vars(Launcher)

FairSpec == Spec /\ Fairness

(***************************************************************************)
(* Properties                                                              *)
(***************************************************************************)

SinkPC == {"start", "loop", "oneFrame", "lastFrame", "add", "signal", "count", "done"}
SrcPC == {"get", "wait", "blocked", "expired", "vpp", "more", "composed", "enc", "rel",
          "flush", "cancel", "drain", "done"}

\* Threads are at a place of the code, have a status when they have ended, and
\* locks are never released more often than they were taken.
TypeOK ==
    /\ \A d \in Sinks : sink[d].pc \in SinkPC /\ (sink[d].pc = "done" <=> sts[d] # "run")
    /\ \A e \in Sources : src[e].pc \in SrcPC /\ (src[e].pc = "done" <=> sts[e] # "run")
    /\ \A e \in Sources : src[e].cur \in 1..Len(Path(e))
    /\ \A s \in Surfaces : surf[s].locked \in Nat
    /\ stop \in [Sessions -> BOOLEAN]

\* The users of a surface: the places where it is queued, the decoders that
\* have locked it, and the inputs that the codecs of the sources have locked.
Queued(s) == UNION {{b} \X Positions(buf[b], s) : b \in Buffers}
Decoding(s) == {d \in Sinks : s \in dec[d].refs}
Held(s) == UNION {{e} \X {h \in enc[e].hold : h.surf = s} : e \in Sources}

\* Data.Locked of a surface counts the buffers it is queued in and the codecs
\* that work on it, so that the surface becomes free exactly when the last of
\* them is done with it, whatever threads add, release, stop or fail.
LockBalance ==
    \A s \in Surfaces :
       surf[s].locked = Cardinality(Queued(s)) + Cardinality(Decoding(s)) + Cardinality(Held(s))

\* The decoder never writes into a surface that is queued, or that a codec of
\* an encoding session reads: the frame is the one that was queued.
FrameIntact ==
    /\ \A b \in Buffers : \A i \in 1..Len(buf[b].list) :
          buf[b].list[i].surf # None => surf[buf[b].list[i].surf].frame = buf[b].list[i].frame
    /\ \A e \in Sources : \A h \in enc[e].hold : surf[h.surf].frame = h.frame

\* A source never passes a surface on after the frame in it was replaced: what
\* GetSurface returned is still there when VPP or the encoder gets it.
ReadsWhatItGot ==
    \A e \in Sources :
       src[e].pc \in {"vpp", "enc"} /\ src[e].x.surf # None /\ (src[e].pc = "enc" => Vpp = "off")
          => surf[src[e].x.surf].frame = src[e].x.frame

\* Every buffer delivers the frames of its sink in decoding order, each once
\* and without a gap, to the source; after a recovery there may be a gap.
InOrder ==
    \A b \in Buffers \ Overlay : \A i \in 1..Len(used[b]) :
       /\ i > 1 => used[b][i] > used[b][i - 1]
       /\ lau.round = 0 => used[b][i] = i

\* The last frame that was processed from a buffer.
Latest(b) == IF used[b] = <<>> THEN 0 ELSE used[b][Len(used[b])]

Stream == INSTANCE FrameStream WITH
    Consumers <- Sources,
    Capacity <- Cardinality(Surfaces),
    made <- sink[CHOOSE d \in Sinks : TRUE].n,
    got <- [e \in Sources |-> Latest(e)],
    open <- [e \in Sources |-> src[e].pc \notin {"flush", "cancel", "drain", "done"}]

\* A 1 to N transcoding implements a stream of frames: every source gets every
\* frame in order, and the sink is never further ahead of the slowest source
\* that is running than its pool is large.
IsStream == Stream!Spec

\* The number of frames a sink delivers if nothing stops it.
Total(d) == IF Input[d] > MaxFrames THEN MaxFrames ELSE Input[d]

\* If nothing fails, no wait of a 1 to N transcoding ever times out: all sessions
\* end without an error.
NoFalseTimeout ==
    ~Comp /\ ~Looping /\ lau.pc = "finished" /\ faults = 0 => \A x \in Sessions : sts[x] = "ok"

\* When all sessions of a 1 to N transcoding have ended without an error, each
\* source has processed every frame of the input, up to the limit on frames.
AllFrames ==
    ~Comp /\ ~Looping /\ lau.pc = "finished" /\ lau.round = 0 /\ (\A x \in Sessions : sts[x] = "ok")
       => \A e \in Sources, d \in Sinks : Len(used[e]) = Total(d)

\* A source that has ended without an error leaves nothing in its buffers, and
\* nothing is put there afterwards: no surface stays locked for it.
CleanedUp ==
    \A e \in Sources : sts[e] = "ok" =>
       \A i \in 1..Len(Path(e)) : NoSurface(buf[Path(e)[i]])

\* No sink waits for a free surface while its surfaces are queued for sources
\* that have ended: their cleaning up is there to prevent it.
NotStarved ==
    \A d \in Sinks :
       ~ /\ sink[d].pc \in {"oneFrame", "lastFrame"} /\ Free(d) = {}
         /\ dec[d].refs \subseteq {dec[d].pend[i] : i \in 1..Len(dec[d].pend)}
         /\ \A e \in Sources : sts[e] = "ok" /\ enc[e].hold = {}

\* The bitstream store, of AsyncDepth entries, never runs out.
BitstreamLeft == \A e \in Sources : src[e].pc = "enc" => src[e].bs < AsyncDepth

\* An insertion whose signal was cleared by an expiring wait.
LostSignal(e) ==
    /\ src[e].pc \in {"wait", "blocked", "expired"} /\ ~NoSurface(buf[Cur(e)])
    /\ ~buf[Cur(e)].ins
    /\ \A d \in Sinks : ~(sink[d].pc = "signal" /\ Head(sink[d].todo) = Cur(e))

\* A thread that has ended without telling the threads that depend on it.
Silent ==
    \/ \E d \in Sinks : sts[d] = "error"
    \/ Robust /\ \E e \in Sources : sts[e] = "hang"

\* Nobody waits for everybody: some thread can go on without a timeout, unless
\* the signal of an insertion was lost, or a thread ended silently, a sink by
\* an early return or a source by a hang that stops nobody in robust mode.
NoStall ==
    lau.pc # "finished" /\ ~Silent /\ (\A e \in Sources : ~LostSignal(e)) => ENABLED Progress

\* All sessions end and the launcher returns, whatever fails.
Termination == <>(lau.pc = "finished")

\* After a recovery that ends without an error, the input was read to its end.
RecoveryContinues ==
    lau.pc = "finished" /\ lau.round > 0 /\ (\A x \in Sessions : sts[x] = "ok")
       => \A d \in Sinks : sink[d].pos = Input[d]
=============================================================================
