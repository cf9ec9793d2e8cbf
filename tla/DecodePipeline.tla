--------------------------- MODULE DecodePipeline ---------------------------
(***************************************************************************)
(* The decode sample: RunDecoding and its delivering thread over the        *)
(* surface pools of CBuffering.  The main thread decodes into a free        *)
(* surface, keeps up to AsyncDepth outputs in flight, and synchronises the  *)
(* oldest when no surface is free or AsyncDepth is reached.  When it        *)
(* renders, a delivering thread shows the frames and returns the surfaces.  *)
(* main() resets the decoder and runs again when the parameters of the      *)
(* stream change or the device is lost.                                    *)
(*                                                                         *)
(* The runtime is external: it locks a surface it decodes into and unlocks  *)
(* it some time after the frame came out.  Surfaces 1..NumSurfaces are the  *)
(* decoder's, the next NumVpp are VPP's.                                   *)
(***************************************************************************)
EXTENDS Integers, Sequences, FiniteSets

CONSTANTS
    None,
    Modes,        \* a subset of {"performance", "file", "render"}
    WithVpp,      \* a subset of BOOLEAN: m_bVppIsUsed
    NumSurfaces, NumVpp,
    AsyncDepth,
    NFrames,      \* m_nFrames, the limit on output frames
    Input,        \* frames in the input
    DecDelay,     \* frames the decoder keeps before the first output
    Fail, MaxFaults, MaxRestarts

ASSUME PoolAssumption ==
    /\ NumSurfaces \in Nat \ {0} /\ NumVpp \in Nat \ {0} /\ AsyncDepth \in Nat \ {0}
    /\ None \notin Nat /\ None \notin [surf : Nat, frame : Nat] /\ Modes # {} /\ WithVpp \subseteq BOOLEAN

Frames == 1..NumSurfaces
VppFrames == NumSurfaces + 1 .. NumSurfaces + NumVpp

VARIABLES
    mode,    \* m_eWorkMode and m_bVppIsUsed
    pool,    \* the lists of CBuffering
    surf,    \* per surface: Data.Locked, render_lock, and the frame it contains
    main,    \* locals of RunDecoding and the m_pCurrent... members
    dlv,     \* the delivering thread and the surface it has
    comm,    \* m_pDeliveredEvent, the semaphore, m_error, m_bStopDeliverLoop
    cnt,     \* m_synced_count, m_output_count
    dec,     \* external: surfaces decoded and not yet output
    shown,   \* the frames written or rendered, in order
    faults, restarts

vars == <<mode, pool, surf, main, dlv, comm, cnt, dec, shown, faults, restarts>>

\* AllocBuffers and AllocVppBuffers: everything is free, in the order of the
\* array.  m_SurfacesCount of the output pool is set by its constructor only,
\* and FreeBuffers forgets the tail of the list of delivered surfaces, which
\* dangles (wild) if there were any.
AllocBuffers(count, wild) ==
    [free |-> [i \in 1..NumSurfaces |-> i], used |-> <<>>,
     vfree |-> IF mode.vpp THEN [i \in 1..NumVpp |-> NumSurfaces + i] ELSE <<>>, vused |-> <<>>,
     out |-> <<>>, count |-> count, deliv |-> <<>>, wild |-> wild]

NewSurfaces == [s \in Frames \cup VppFrames |-> [locked |-> FALSE, render |-> 0, frame |-> 0]]

\* The start of RunDecoding; the rest are members that outlive the call.
RunStart(pos, has, prev, curOut, n) ==
    [pc |-> "top", sts |-> "ok", bs |-> TRUE, has |-> has, pos |-> pos, n |-> n,
     cur |-> None, vcur |-> None, curOut |-> curOut, stale |-> curOut # None,
     ret |-> "stuck", incompat |-> FALSE, prev |-> prev, res |-> "ok"]

Init ==
    /\ mode \in [work : Modes, vpp : WithVpp]
    /\ pool = AllocBuffers(0, FALSE)
    /\ surf = NewSurfaces
    /\ main = RunStart(1, TRUE, None, None, 0)
    /\ dlv = [pc |-> IF mode.work = "render" THEN "loop" ELSE "off", x |-> None]
    /\ comm = [ev |-> FALSE, sem |-> 0, err |-> FALSE, stop |-> FALSE]
    /\ cnt = [synced |-> 0, output |-> 0]
    /\ dec = <<>>
    /\ shown = <<>>
    /\ faults = 0
    /\ restarts = 0

Fault(kind) == kind \in Fail /\ faults < MaxFaults /\ faults' = faults + 1

(***************************************************************************)
(* CBuffering                                                              *)
(***************************************************************************)

First(S) == CHOOSE i \in S : \A j \in S : i <= j

Without(list, i) == SubSeq(list, 1, i - 1) \o SubSeq(list, i + 1, Len(list))

\* Mutant: a surface that waits to be rendered counts as free.
UnlockedByDecoder(list) == {i \in 1..Len(list) : ~surf[list[i]].locked}

Unlocked(list) == {i \in 1..Len(list) : ~surf[list[i]].locked /\ surf[list[i]].render = 0}

\* SyncFrameSurfaces: the first surface of the used list that nobody needs
\* goes to the head of the free list.  The loop ends there, because its
\* variable next is never set.
Freed(used) == IF Unlocked(used) = {} THEN <<>> ELSE <<used[First(Unlocked(used))]>>

StillUsed(used) ==
    IF Unlocked(used) = {} THEN used ELSE Without(used, First(Unlocked(used)))

SyncFrameSurfaces(P) ==
    [P EXCEPT !.free = Freed(P.used) \o @, !.used = StillUsed(P.used),
              !.vfree = Freed(P.vused) \o @, !.vused = StillUsed(P.vused)]

\* Mutant: render_lock is not decreased.
ReturnSurfaceKeepsLock(S, x) == S

\* ReturnSurfaceToBuffers.
ReturnSurface(S, x) == [S EXCEPT ![x.surf].render = @ - 1]

(***************************************************************************)
(* RunDecoding                                                             *)
(***************************************************************************)

GoesOn(sts) == sts \in {"ok", "more", "moresurf"}

\* The top of the loop: its condition, the error of the delivering thread, and
\* the next data from the input, whose end makes the bitstream null.
LoopTop ==
    /\ main.pc = "top"
    /\ IF ~GoesOn(main.sts) \/ NFrames <= cnt.output \/ comm.err
       THEN main' = [main EXCEPT !.pc = "end"]
       ELSE IF main.bs /\ main.sts = "more"
       THEN IF main.pos < Input
            THEN main' = [main EXCEPT !.pc = "surf", !.sts = "ok", !.pos = @ + 1, !.has = TRUE]
            ELSE main' = [main EXCEPT !.pc = "surf", !.sts = "ok", !.bs = FALSE]
       ELSE main' = [main EXCEPT !.pc = "surf"]
    /\ UNCHANGED <<mode, pool, surf, dlv, comm, cnt, dec, shown, faults, restarts>>

\* Surfaces for the decoder and for VPP; without them, or with AsyncDepth
\* outputs in flight, the oldest output is synchronised.
Take(list, cur) == IF cur = None /\ list # <<>> THEN Head(list) ELSE cur
Left(list, cur) == IF cur = None /\ list # <<>> THEN Tail(list) ELSE list

GetSurfaces ==
    /\ main.pc = "surf"
    /\ \E P \in {SyncFrameSurfaces(pool)} :
       \E c \in {Take(P.free, main.cur)} : \E v \in {Take(P.vfree, main.vcur)} :
          /\ pool' = [P EXCEPT !.free = Left(@, main.cur), !.vfree = Left(@, main.vcur)]
          /\ main' = [main EXCEPT !.cur = c, !.vcur = v, !.ret = "stuck",
                !.pc = IF c = None \/ (mode.vpp /\ v = None) \/ P.count = AsyncDepth
                       THEN "sync" ELSE "decode"]
    /\ UNCHANGED <<mode, surf, dlv, comm, cnt, dec, shown, faults, restarts>>

\* What RunDecoding does with the result r of SyncOutputSurface, K being its
\* locals by then: no free surface ("stuck"), device busy, or end of stream.
\* MFX_ERR_MORE_DATA when stuck waits for the delivering thread, if frames are
\* on their way to it; otherwise the code calls it a bug and gives up.
Returned(K, r) ==
    CASE K.ret = "stuck" /\ r = "more" ->
            IF mode.work = "render" /\ cnt.synced # cnt.output
            THEN [K EXCEPT !.pc = "wait"] ELSE [K EXCEPT !.pc = "end", !.sts = "notfound"]
      [] K.ret = "busy" /\ r \in {"ok", "more"} -> [K EXCEPT !.pc = "decode"]
      [] K.ret = "drain" /\ r = "ok" -> [K EXCEPT !.pc = "sync"]
      [] K.ret = "drain" -> [K EXCEPT !.pc = "final", !.sts = IF r = "more" THEN "ok" ELSE r]
      [] OTHER -> [K EXCEPT !.pc = "top", !.sts = r]

\* m_pCurrentOutputSurface, or the oldest output.
Oldest == IF main.curOut = None /\ pool.out # <<>> THEN Head(pool.out) ELSE main.curOut

Popped ==
    IF main.curOut = None /\ pool.out # <<>>
    THEN [pool EXCEPT !.out = Tail(@), !.count = @ - 1] ELSE pool

\* An output that was kept over a reset of the decoder, or the list that it is
\* to be appended to, refers to memory that was freed.
DanglingOutput == main.stale \/ (mode.work = "render" /\ pool.wild)

NoOutput ==
    /\ main.pc = "sync" /\ Oldest = None
    /\ main' = Returned(main, "more")
    /\ UNCHANGED <<mode, pool, surf, dlv, comm, cnt, dec, shown, faults, restarts>>

\* SyncOutputSurface, the frame is complete: it is counted and returned
\* ("performance"), written and returned ("file"), or passed to the delivering
\* thread.
SyncOutputSurface ==
    /\ main.pc = "sync" /\ Oldest # None /\ ~DanglingOutput
    /\ \E x \in {Oldest} : \E n \in {cnt.synced + 1} :
          /\ IF mode.work = "render"
             THEN /\ pool' = [Popped EXCEPT !.deliv = Append(@, x)]
                  /\ cnt' = [cnt EXCEPT !.synced = n]
                  /\ main' = [main EXCEPT !.pc = "post", !.curOut = None]
                  /\ UNCHANGED <<surf, shown>>
             ELSE /\ pool' = Popped
                  /\ cnt' = [synced |-> n, output |-> n]
                  /\ main' = Returned([main EXCEPT !.curOut = None], "ok")
                  /\ surf' = ReturnSurface(surf, x)
                  /\ shown' = Append(shown, surf[x.surf].frame)
    /\ UNCHANGED <<mode, dlv, comm, dec, faults, restarts>>

\* The frame cannot be written: the surface is returned and not counted.
WriteFails ==
    /\ main.pc = "sync" /\ Oldest # None /\ ~DanglingOutput /\ mode.work = "file"
    /\ Fault("write")
    /\ pool' = Popped
    /\ cnt' = [cnt EXCEPT !.synced = @ + 1]
    /\ surf' = ReturnSurface(surf, Oldest)
    /\ main' = Returned([main EXCEPT !.curOut = None], "unknown")
    /\ UNCHANGED <<mode, dlv, comm, dec, shown, restarts>>

\* SyncOperation fails: the output stays the current one.
SyncFails ==
    /\ main.pc = "sync" /\ Oldest # None /\ ~DanglingOutput
    /\ \E r \in {"error", "lost"} :
          /\ Fault(r)
          /\ main' = Returned([main EXCEPT !.curOut = Oldest], r)
    /\ pool' = Popped
    /\ UNCHANGED <<mode, surf, dlv, comm, cnt, dec, shown, restarts>>

UsesFreedMemory ==
    /\ main.pc = "sync" /\ Oldest # None /\ DanglingOutput
    /\ main' = [main EXCEPT !.pc = "crash"]
    /\ UNCHANGED <<mode, pool, surf, dlv, comm, cnt, dec, shown, faults, restarts>>

\* The event is reset and the semaphore posted.
Post ==
    /\ main.pc = "post"
    /\ comm' = [comm EXCEPT !.ev = FALSE, !.sem = @ + 1]
    /\ main' = Returned(main, "ok")
    /\ UNCHANGED <<mode, pool, surf, dlv, cnt, dec, shown, faults, restarts>>

\* TimedWait on m_pDeliveredEvent, which resets itself.
AwaitDelivery ==
    /\ main.pc = "wait" /\ comm.ev
    /\ comm' = [comm EXCEPT !.ev = FALSE]
    /\ main' = [main EXCEPT !.pc = "top", !.sts = "ok"]
    /\ UNCHANGED <<mode, pool, surf, dlv, cnt, dec, shown, faults, restarts>>

\* The end of the stream: wait, without a timeout, until everything that was
\* synchronised is delivered.  Only the rendering mode has an event.
FinalCheck ==
    /\ main.pc = "final"
    /\ main' = [main EXCEPT !.pc = IF cnt.synced = cnt.output THEN "end"
                                   ELSE IF mode.work = "render" THEN "asleep" ELSE "crash"]
    /\ UNCHANGED <<mode, pool, surf, dlv, comm, cnt, dec, shown, faults, restarts>>

FinalWait ==
    /\ main.pc = "asleep" /\ comm.ev
    /\ comm' = [comm EXCEPT !.ev = FALSE]
    /\ main' = [main EXCEPT !.pc = "final"]
    /\ UNCHANGED <<mode, pool, surf, dlv, cnt, dec, shown, faults, restarts>>

(***************************************************************************)
(* DecodeFrameAsync and what follows it                                    *)
(***************************************************************************)

\* Mutant: the work surface is moved only if the decoder has locked it.
UsedNowIfLocked(P) ==
    IF surf[main.cur].locked THEN [P EXCEPT !.used = Append(@, main.cur)] ELSE P

\* The work surface goes to the used list, locked or not.
UsedNow(P) == [P EXCEPT !.used = Append(@, main.cur)]

\* Frame s came out of the decoder.  Without VPP its surface is the output;
\* with VPP the output is the VPP surface, which goes to its own used list.
\* The output has a render lock until it is delivered.
Output(P, S, s) ==
    \E o \in {IF mode.vpp THEN main.vcur ELSE s} : \E f \in {S[s].frame} :
       /\ surf' = [S EXCEPT ![o].render = @ + 1, ![o].frame = f]
       /\ pool' = [P EXCEPT !.vused = IF mode.vpp THEN Append(@, o) ELSE @,
                            !.out = Append(@, [surf |-> o, frame |-> f]),
                            !.count = @ + 1]

Decoded(K) == [K EXCEPT !.pc = "top", !.cur = None]

\* A frame is decoded into the work surface; the oldest one comes out once
\* DecDelay frames are kept (external), or else MFX_ERR_MORE_SURFACE.
DecodeFrame ==
    /\ main.pc = "decode" /\ main.bs /\ main.has
    /\ \E q \in {Append(dec, main.cur)} : \E f \in {main.n + 1} :
       \E S \in {[surf EXCEPT ![main.cur].locked = TRUE, ![main.cur].frame = f]} :
       \E K \in {[Decoded(main) EXCEPT !.n = f, !.has = FALSE]} :
          IF Len(q) > DecDelay
          THEN /\ Output(UsedNow(pool), S, Head(q))
               /\ dec' = Tail(q)
               /\ main' = [K EXCEPT !.sts = "ok", !.vcur = IF mode.vpp THEN None ELSE @]
          ELSE /\ surf' = S /\ pool' = UsedNow(pool) /\ dec' = q
               /\ main' = [K EXCEPT !.sts = "moresurf"]
    /\ UNCHANGED <<mode, dlv, comm, cnt, shown, faults, restarts>>

\* All data is consumed: MFX_ERR_MORE_DATA.
NeedsData ==
    /\ main.pc = "decode" /\ main.bs /\ ~main.has
    /\ pool' = UsedNow(pool)
    /\ main' = [Decoded(main) EXCEPT !.sts = "more"]
    /\ UNCHANGED <<mode, surf, dlv, comm, cnt, dec, shown, faults, restarts>>

\* With a null bitstream the frames kept in the decoder come out.
FlushFrame ==
    /\ main.pc = "decode" /\ ~main.bs /\ dec # <<>>
    /\ Output(UsedNow(pool), surf, Head(dec))
    /\ dec' = Tail(dec)
    /\ main' = [Decoded(main) EXCEPT !.sts = "ok", !.vcur = IF mode.vpp THEN None ELSE @]
    /\ UNCHANGED <<mode, dlv, comm, cnt, shown, faults, restarts>>

EndOfStream ==
    /\ main.pc = "decode" /\ ~main.bs /\ dec = <<>>
    /\ main' = [main EXCEPT !.pc = "sync", !.ret = "drain"]
    /\ UNCHANGED <<mode, pool, surf, dlv, comm, cnt, dec, shown, faults, restarts>>

\* MFX_WRN_DEVICE_BUSY: an output is synchronised and the call repeated.
DeviceBusy ==
    /\ main.pc = "decode" /\ Fault("busy")
    /\ main' = [main EXCEPT !.pc = "sync", !.ret = "busy"]
    /\ UNCHANGED <<mode, pool, surf, dlv, comm, cnt, dec, shown, restarts>>

\* DecodeFrameAsync fails, or VPP does, in which case the work surface has
\* already been moved.
DecodeFails ==
    /\ main.pc = "decode"
    /\ \E r \in {"error", "lost"} : Fault(r) /\ main' = [main EXCEPT !.pc = "top", !.sts = r]
    /\ UNCHANGED <<mode, pool, surf, dlv, comm, cnt, dec, shown, restarts>>

VppFails ==
    /\ main.pc = "decode" /\ mode.vpp /\ ~main.bs /\ dec # <<>>
    /\ Fault("error")
    /\ pool' = UsedNow(pool)
    /\ dec' = Tail(dec)
    /\ main' = [Decoded(main) EXCEPT !.pc = "end", !.sts = "error"]
    /\ UNCHANGED <<mode, surf, dlv, comm, cnt, shown, restarts>>

\* MFX_ERR_INCOMPATIBLE_VIDEO_PARAM: the decoder is flushed first.
NewParameters ==
    /\ main.pc = "decode" /\ main.bs /\ main.has
    /\ Fault("params")
    /\ main' = [main EXCEPT !.pc = "top", !.bs = FALSE, !.incompat = TRUE, !.sts = "ok"]
    /\ UNCHANGED <<mode, pool, surf, dlv, comm, cnt, dec, shown, restarts>>

\* External: the decoder no longer needs a surface that it has output.
RuntimeUnlocks ==
    /\ \E s \in Frames :
          /\ surf[s].locked /\ \A i \in 1..Len(dec) : dec[i] # s
          /\ surf' = [surf EXCEPT ![s].locked = FALSE]
    /\ UNCHANGED <<mode, pool, main, dlv, comm, cnt, dec, shown, faults, restarts>>

(***************************************************************************)
(* The end of RunDecoding, and main()                                      *)
(***************************************************************************)

\* The status is ignored if all frames asked for were output; the delivering
\* thread is stopped and joined.
LeaveLoop ==
    /\ main.pc = "end"
    /\ \E sts \in {IF cnt.output = NFrames THEN "ok" ELSE main.sts} :
          main' = [main EXCEPT !.pc = "join",
             !.res = IF main.incompat /\ sts \in {"ok", "working"} THEN "incompat" ELSE sts]
    /\ comm' = IF mode.work = "render" THEN [comm EXCEPT !.stop = TRUE, !.sem = @ + 1] ELSE comm
    /\ UNCHANGED <<mode, pool, surf, dlv, cnt, dec, shown, faults, restarts>>

\* main() tries again after new parameters and lost devices, unless no input
\* was consumed since the last time.
Retries == main.res \in {"incompat", "lost"} /\ main.prev # main.pos /\ restarts < MaxRestarts

\* ResetDecoder: DeleteFrames empties the pools and AllocFrames fills them
\* again.  The count of the output pool, the current output, the error and the
\* stop flag keep their values.
ResetDecoder ==
    /\ main.pc = "join" /\ dlv.pc = "off" /\ Retries
    /\ pool' = AllocBuffers(pool.count, pool.wild \/ pool.deliv # <<>>)
    /\ surf' = NewSurfaces
    /\ main' = RunStart(main.pos, main.has, main.pos, main.curOut, main.n)
    /\ dlv' = [dlv EXCEPT !.pc = IF mode.work = "render" THEN "loop" ELSE "off"]
    /\ comm' = [comm EXCEPT !.ev = FALSE, !.sem = 0]
    /\ dec' = <<>>
    /\ restarts' = restarts + 1
    /\ UNCHANGED <<mode, cnt, shown, faults>>

Return ==
    /\ main.pc = "join" /\ dlv.pc = "off" /\ ~Retries
    /\ main' = [main EXCEPT !.pc = "done"]
    /\ UNCHANGED <<mode, pool, surf, dlv, comm, cnt, dec, shown, faults, restarts>>

MainThread ==
    \/ LoopTop \/ GetSurfaces \/ NoOutput \/ SyncOutputSurface \/ UsesFreedMemory \/ Post
    \/ AwaitDelivery \/ FinalCheck \/ FinalWait \/ DecodeFrame \/ NeedsData \/ FlushFrame \/ EndOfStream
    \/ LeaveLoop \/ ResetDecoder \/ Return

(***************************************************************************)
(* The delivering thread, DeliverLoop                                      *)
(***************************************************************************)

\* Mutant: the newest surface is delivered first.
DeliverNextNewest ==
    /\ dlv.pc = "loop" /\ ~comm.stop /\ comm.sem > 0
    /\ dlv' = [pc |-> "show", x |-> pool.deliv[Len(pool.deliv)]]
    /\ pool' = [pool EXCEPT !.deliv = Without(@, Len(@))]
    /\ comm' = [comm EXCEPT !.sem = @ - 1]
    /\ UNCHANGED <<mode, surf, main, cnt, dec, shown, faults, restarts>>

\* A token of the semaphore, the checks that follow, and the oldest surface.
DeliverNext ==
    /\ dlv.pc = "loop"
    /\ \/ comm.stop /\ dlv' = [dlv EXCEPT !.pc = "off"] /\ UNCHANGED <<comm, pool>>
       \/ /\ ~comm.stop /\ comm.sem > 0
          /\ IF comm.err
             THEN comm' = [comm EXCEPT !.sem = @ - 1] /\ UNCHANGED <<dlv, pool>>
             ELSE /\ dlv' = [pc |-> "show", x |-> Head(pool.deliv)]
                  /\ pool' = [pool EXCEPT !.deliv = Tail(@)]
                  /\ comm' = [comm EXCEPT !.sem = @ - 1]
    /\ UNCHANGED <<mode, surf, main, cnt, dec, shown, faults, restarts>>

\* DeliverOutput, which may fail, and ReturnSurfaceToBuffers.
DeliverOutput ==
    /\ dlv.pc = "show"
    /\ \/ shown' = Append(shown, surf[dlv.x.surf].frame) /\ UNCHANGED <<comm, faults>>
       \/ Fault("render") /\ comm' = [comm EXCEPT !.err = TRUE] /\ UNCHANGED shown
    /\ surf' = ReturnSurface(surf, dlv.x)
    /\ dlv' = [pc |-> "count", x |-> None]
    /\ UNCHANGED <<mode, pool, main, cnt, dec, restarts>>

CountOutput ==
    /\ dlv.pc = "count"
    /\ cnt' = [cnt EXCEPT !.output = @ + 1]
    /\ dlv' = [dlv EXCEPT !.pc = "signal"]
    /\ UNCHANGED <<mode, pool, surf, main, comm, dec, shown, faults, restarts>>

SignalDelivered ==
    /\ dlv.pc = "signal"
    /\ comm' = [comm EXCEPT !.ev = TRUE]
    /\ dlv' = [dlv EXCEPT !.pc = "loop"]
    /\ UNCHANGED <<mode, pool, surf, main, cnt, dec, shown, faults, restarts>>

\* Mutant: the event is signalled before the frame is counted.
SignalFirst ==
    \/ /\ dlv.pc = "count" /\ dlv' = [dlv EXCEPT !.pc = "signal"]
       /\ comm' = [comm EXCEPT !.ev = TRUE]
       /\ UNCHANGED <<mode, pool, surf, main, cnt, dec, shown, faults, restarts>>
    \/ /\ dlv.pc = "signal" /\ dlv' = [dlv EXCEPT !.pc = "loop"]
       /\ cnt' = [cnt EXCEPT !.output = @ + 1]
       /\ UNCHANGED <<mode, pool, surf, main, comm, dec, shown, faults, restarts>>

DeliverThreadSignalsFirst == DeliverNext \/ DeliverOutput \/ SignalFirst

DeliverThread == DeliverNext \/ DeliverOutput \/ CountOutput \/ SignalDelivered

Progress == MainThread \/ DeliverThread \/ RuntimeUnlocks

\* MSDK_DEC_WAIT_INTERVAL is five minutes: the wait for a delivery ends with
\* MFX_TASK_WORKING when nothing else can happen.
WaitExpires ==
    /\ main.pc = "wait" /\ ~ENABLED Progress
    /\ main' = [main EXCEPT !.pc = "top", !.sts = "working"]
    /\ UNCHANGED <<mode, pool, surf, dlv, comm, cnt, dec, shown, faults, restarts>>

Failure ==
    WriteFails \/ SyncFails \/ DeviceBusy \/ DecodeFails \/ VppFails \/ NewParameters

\* The main thread waits at the end of the stream, without a timeout, for
\* deliveries that will not be made: rendering failed in the meantime, or the
\* stop flag of an earlier run ended the thread at once.
Abandoned ==
    main.pc = "asleep" /\ cnt.synced # cnt.output /\ (comm.err \/ (restarts > 0 /\ dlv.pc = "off"))

\* The process has ended, or hangs.
Finished == (main.pc \in {"done", "crash"} \/ (Abandoned /\ ~ENABLED Progress)) /\ UNCHANGED vars

Next == Progress \/ WaitExpires \/ Failure \/ Finished

Spec == Init /\ [][Next]_vars

\* Both threads are scheduled and the hardware finishes its work.
FairSpec ==
    /\ Spec
    /\ WF_vars(MainThread \/ WaitExpires) /\ WF_vars(DeliverThread) /\ WF_vars(RuntimeUnlocks)

(***************************************************************************)
(* Properties                                                              *)
(***************************************************************************)

Elems(list) == {list[i] : i \in 1..Len(list)}
Times(list, s) == Cardinality({i \in 1..Len(list) : list[i].surf = s})
Holds(x, s) == IF x # None /\ x.surf = s THEN 1 ELSE 0

\* The outputs between the decoder and their delivery, oldest last.
InFlight ==
    Elems(pool.out) \cup Elems(pool.deliv) \cup ({dlv.x} \ {None})
    \cup (IF main.stale THEN {} ELSE {main.curOut} \ {None})

\* Where a surface is on the lists of CBuffering.
Lists == <<pool.free, pool.used, pool.vfree, pool.vused>>
Places(s) ==
    {r \in UNION {{k} \X (1..Len(Lists[k])) : k \in 1..4} : Lists[r[1]][r[2]] = s}

\* Every surface is on one list once, or is the current one, also after passes
\* of SyncFrameSurfaces that stop at the first surface, errors and resets: no
\* surface is lost to the decoder and none is given out twice.
SurfaceAccounting ==
    /\ \A s \in IF mode.vpp THEN Frames \cup VppFrames ELSE Frames :
          Cardinality(Places(s)) + (IF s \in {main.cur, main.vcur} THEN 1 ELSE 0) = 1
    /\ \A s \in (Elems(pool.free) \cup {main.cur}) \ {None} :
          ~surf[s].locked /\ surf[s].render = 0

\* render_lock counts the outputs of a surface that are still to be delivered,
\* whichever thread has them.
RenderLocks ==
    \A s \in Frames \cup VppFrames :
       surf[s].render = Times(pool.out, s) + Times(pool.deliv, s) + Holds(dlv.x, s)
                        + (IF main.stale THEN 0 ELSE Holds(main.curOut, s))

\* No surface is decoded into before its frame was delivered.
FrameIntact == \A x \in InFlight : surf[x.surf].frame = x.frame

\* Frames are delivered in order, each once; only a failure to deliver one, or
\* a reset, leaves a gap.
InOrder ==
    \A i \in 1..Len(shown) :
       /\ i > 1 => shown[i] > shown[i - 1]
       /\ restarts = 0 => shown[i] = i

\* RunDecoding ends, whatever fails, except where it is abandoned; no signal
\* of the delivering thread is lost although the event is reset for each frame.
Ends == <>(main.pc \in {"done", "crash"} \/ Abandoned)

=============================================================================
