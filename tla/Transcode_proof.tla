--------------------------- MODULE Transcode_proof ---------------------------
(***************************************************************************)
(* Theorems about the threads and the surfaces of the multi-transcode       *)
(* sample, for any number of sessions, surfaces, frames, failures and       *)
(* recoveries: the bitstream store never runs out, the launcher joins and   *)
(* recovers only threads that have ended, Locked of a surface counts its    *)
(* users, no frame is overwritten while a buffer or a codec has it, a       *)
(* source is given what GetSurface returned, and a source that ended        *)
(* without an error leaves its buffer empty.                               *)
(*                                                                         *)
(* BitstreamLeft is not inductive.  An entry is taken in EncodeFrame and    *)
(* given back in ReleaseFrame, so the invariant says how many are taken     *)
(* wherever the thread is, and what the result of the encoder can be when   *)
(* ReleaseFrame decides on it.  A status is written where a thread ends,    *)
(* from a value that was stored earlier (res, r): the invariant also says   *)
(* that these are never "run".                                             *)
(*                                                                         *)
(* A frame is safe because its surface is locked, and the lock is right     *)
(* because it is counted; but between the decoder and the first buffer, and *)
(* between one buffer and the next, a surface may have no user at all, and  *)
(* then only the thread that has it in its hands keeps it from being        *)
(* decoded into.  So the invariant follows every surface through the        *)
(* decoder (DecData), the thread (SinkData), the buffers and the codecs.    *)
(***************************************************************************)
EXTENDS Transcode, TLAPS, FiniteSetTheorems, SequenceTheorems, WellFoundedInduction


\* The fields of the records, which EXCEPT never changes.
SinkFields == {"pc", "x", "todo", "after", "res", "pos", "n", "num", "eof", "last", "timeout"}
SrcFields == {"pc", "cur", "x", "quit", "read", "poll", "vs", "r", "bs", "num", "slices"}

\* A decoding thread; K is its record and st its status.
SinkOK(K, st) ==
    /\ DOMAIN K = SinkFields
    /\ K.after \in {"start", "loop", "count", "leave", "done"}
    /\ K.res # "run"
    /\ K.pc = "done" <=> st # "run"

\* An encoding thread.
SrcOK(K, st) ==
    /\ DOMAIN K = SrcFields
    /\ K.bs \in 0 .. AsyncDepth
    /\ K.pc = "rel" => K.bs > 0
    /\ K.pc \notin {"rel", "done"} => K.bs < AsyncDepth
    /\ K.r \in {"none", "more", "error", "hang"}
    /\ K.pc = "done" <=> st # "run"

\* Each thread is all right, and the variables are functions on the sessions.
ThreadInv ==
    /\ DOMAIN sink = Sinks /\ DOMAIN src = Sources /\ DOMAIN sts = Sessions
    /\ \A d \in Sinks : SinkOK(sink[d], sts[d])
    /\ \A e \in Sources : SrcOK(src[e], sts[e])

\* A step of sink d touches its own record and status only, and so on.
SinkOnly(d) ==
    /\ DOMAIN sink' = Sinks /\ \A c \in Sinks \ {d} : sink'[c] = sink[c]
    /\ src' = src
    /\ DOMAIN sts' = Sessions /\ \A x \in Sessions \ {d} : sts'[x] = sts[x]

SourceOnly(e) ==
    /\ DOMAIN src' = Sources /\ \A c \in Sources \ {e} : src'[c] = src[c]
    /\ sink' = sink
    /\ DOMAIN sts' = Sessions /\ \A x \in Sessions \ {e} : sts'[x] = sts[x]

LEMMA SinkSuffices ==
    ASSUME ThreadInv, NEW d \in Sinks, SinkOnly(d), SinkOK(sink'[d], sts'[d])
    PROVE  ThreadInv'
  BY ShapeAssumption DEF ThreadInv, SinkOnly, Sessions

LEMMA SourceSuffices ==
    ASSUME ThreadInv, NEW e \in Sources, SourceOnly(e), SrcOK(src'[e], sts'[e])
    PROVE  ThreadInv'
  BY ShapeAssumption DEF ThreadInv, SourceOnly, Sessions

\* The end marks leave the record in shape; r is the status to end with.
LEMMA MarksShape ==
    ASSUME NEW d \in Sinks, DOMAIN sink[d] = SinkFields, NEW p, NEW r
    PROVE  /\ DOMAIN Marks(d, p, r) = SinkFields
           /\ Marks(d, p, r).pc = "add"
           /\ Marks(d, p, r).after = p /\ Marks(d, p, r).res = r
           /\ Marks(d, p, r).num = sink[d].num
  BY DEF Marks, SinkFields

\* No surface: the input is rewound, or the end marks are added.
LEMMA NoFrameOK ==
    ASSUME NEW d \in Sinks, NEW r, r # "run", SinkOK(sink[d], "run")
    PROVE  SinkOK(NoFrame(d, r), "run")
  BY MarksShape DEF NoFrame, SinkOK, SinkFields

\* The steps of a decoding thread that do not end it.
LEMMA SinkGoesOn ==
    ASSUME ThreadInv, NEW d \in Sinks,
           \/ StartDecode(d) \/ LoopDecode(d) \/ DecodeOneFrame(d) \/ EndOfInput(d)
           \/ StoppedDecode(d) \/ DecodeLastFrame(d) \/ DecodeFails(d) \/ GetFreeSurfaceTimeout(d)
    PROVE  ThreadInv'
  <1>1. SinkOK(sink[d], sts[d]) /\ DOMAIN sink = Sinks /\ DOMAIN sts = Sessions
    BY DEF ThreadInv
  <1>2. sts' = sts /\ src' = src
    BY DEF StartDecode, LoopDecode, DecodeOneFrame, EndOfInput, StoppedDecode, DecodeLastFrame,
           DecodeFails, GetFreeSurfaceTimeout
  <1>3. ASSUME NEW K, sink' = [sink EXCEPT ![d] = K], SinkOK(K, "run"), sink[d].pc # "done"
        PROVE  ThreadInv'
    <2>1. sts[d] = "run" BY <1>1, <1>3 DEF SinkOK
    <2>2. SinkOnly(d) BY <1>1, <1>2, <1>3 DEF SinkOnly
    <2> QED BY <2>1, <2>2, <1>1, <1>2, <1>3, SinkSuffices
  <1>4. CASE StartDecode(d)
    <2> DEFINE K == IF stop[d] THEN Marks(d, "done", "ok")
                    ELSE IF d \notin Overlay THEN [sink[d] EXCEPT !.pc = "loop"]
                    ELSE [sink[d] EXCEPT !.pc = "add", !.todo = Out(d), !.after = "start",
                                         !.x = Descriptor(First(Pool[d]), 0)]
    <2>1. sink' = [sink EXCEPT ![d] = K] BY <1>4 DEF StartDecode
    <2>2. SinkOK(K, "run") BY <1>1, MarksShape DEF SinkOK, SinkFields
    <2> QED BY <2>1, <2>2, <1>3, <1>4 DEF StartDecode
  <1>5. CASE LoopDecode(d)
    <2>1. PICK last \in BOOLEAN :
             sink' = [sink EXCEPT ![d].last = last,
                                  ![d].pc = IF sink[d].eof THEN "lastFrame" ELSE "oneFrame"]
      BY <1>5 DEF LoopDecode
    <2> DEFINE K == [sink[d] EXCEPT !.last = last,
                                    !.pc = IF sink[d].eof THEN "lastFrame" ELSE "oneFrame"]
    <2>2. sink' = [sink EXCEPT ![d] = K] BY <2>1, <1>1
    <2>3. SinkOK(K, "run") BY <1>1 DEF SinkOK, SinkFields
    <2> QED BY <2>2, <2>3, <1>3, <1>5 DEF LoopDecode
  <1>6. CASE DecodeOneFrame(d)
    <2>1. PICK s, f, q :
             \/ sink' = [sink EXCEPT ![d] =
                           Frame(d, [sink[d] EXCEPT !.pos = @ + 1, !.n = f], Head(q), f - DecDelay)]
             \/ sink' = [sink EXCEPT ![d].pos = @ + 1, ![d].n = f]
      BY <1>6 DEF DecodeOneFrame
    <2>2. CASE sink' = [sink EXCEPT ![d].pos = @ + 1, ![d].n = f]
      <3> DEFINE K == [sink[d] EXCEPT !.pos = @ + 1, !.n = f]
      <3>1. sink' = [sink EXCEPT ![d] = K] BY <2>2, <1>1
      <3>2. SinkOK(K, "run") BY <1>1, <1>6 DEF SinkOK, SinkFields, DecodeOneFrame
      <3> QED BY <3>1, <3>2, <1>3, <1>6 DEF DecodeOneFrame
    <2>3. CASE sink' = [sink EXCEPT ![d] =
                          Frame(d, [sink[d] EXCEPT !.pos = @ + 1, !.n = f], Head(q), f - DecDelay)]
      <3> DEFINE K == Frame(d, [sink[d] EXCEPT !.pos = @ + 1, !.n = f], Head(q), f - DecDelay)
      <3>1. sink' = [sink EXCEPT ![d] = K] BY <2>3
      <3>2. SinkOK(K, "run") BY <1>1 DEF SinkOK, SinkFields, Frame
      <3> QED BY <3>1, <3>2, <1>3, <1>6 DEF DecodeOneFrame
    <2> QED BY <2>1, <2>2, <2>3
  <1>7. CASE EndOfInput(d)
    <2> DEFINE K == IF sink[d].last THEN [sink[d] EXCEPT !.eof = TRUE, !.pc = "lastFrame"]
                    ELSE NoFrame(d, "ok")
    <2>1. sink' = [sink EXCEPT ![d] = K] BY <1>7, <1>1 DEF EndOfInput
    <2>2. SinkOK(sink[d], "run") BY <1>1, <1>7 DEF SinkOK, EndOfInput
    <2>3. SinkOK(NoFrame(d, "ok"), "run") BY <2>2, NoFrameOK
    <2>4. SinkOK([sink[d] EXCEPT !.eof = TRUE, !.pc = "lastFrame"], "run")
      BY <1>1 DEF SinkOK, SinkFields
    <2> QED BY <2>1, <2>3, <2>4, <1>3, <1>7 DEF EndOfInput
  <1>8. CASE StoppedDecode(d)
    <2> DEFINE M == Marks(d, IF sink[d].last THEN "leave" ELSE "loop", "ok")
               K == [M EXCEPT !.timeout = FALSE]
    <2>1. sink' = [sink EXCEPT ![d] = K] BY <1>8, <1>1 DEF StoppedDecode
    <2>2. /\ DOMAIN M = SinkFields /\ M.pc = "add" /\ M.res = "ok"
          /\ M.after = IF sink[d].last THEN "leave" ELSE "loop"
      BY <1>1, MarksShape DEF SinkOK
    <2> HIDE DEF M
    <2>3. SinkOK(K, "run") BY <2>2 DEF SinkOK, SinkFields
    <2> QED BY <2>1, <2>3, <1>3, <1>8 DEF StoppedDecode
  <1>9. CASE DecodeLastFrame(d)
    <2>1. CASE \E r \in {"ok", "error"} : sink' = [sink EXCEPT ![d] = Marks(d, "done", r)]
      <3>1. PICK r \in {"ok", "error"} : sink' = [sink EXCEPT ![d] = Marks(d, "done", r)]
        BY <2>1
      <3>2. SinkOK(Marks(d, "done", r), "run") BY <1>1, MarksShape DEF SinkOK
      <3> QED BY <3>1, <3>2, <1>3, <1>9 DEF DecodeLastFrame
    <2>2. CASE \E s \in {Head(dec[d].pend)} :
                  sink' = [sink EXCEPT ![d] = Frame(d, @, s, surf[s].frame)]
      <3>1. PICK s : sink' = [sink EXCEPT ![d] = Frame(d, @, s, surf[s].frame)]
        BY <2>2
      <3> DEFINE K == Frame(d, sink[d], s, surf[s].frame)
      <3>2. sink' = [sink EXCEPT ![d] = K] BY <3>1, <1>1
      <3>3. SinkOK(K, "run") BY <1>1 DEF SinkOK, SinkFields, Frame
      <3> QED BY <3>2, <3>3, <1>3, <1>9 DEF DecodeLastFrame
    <2> QED BY <2>1, <2>2, <1>9 DEF DecodeLastFrame
  <1>10. CASE DecodeFails(d) \/ GetFreeSurfaceTimeout(d)
    <2>1. SinkOK(sink[d], "run") /\ sink[d].pc # "done"
      BY <1>1, <1>10 DEF SinkOK, DecodeFails, GetFreeSurfaceTimeout
    <2>2. PICK r \in {"error", "hang"} :
             \/ sink' = [sink EXCEPT ![d] = NoFrame(d, r)]
             \/ sink' = [sink EXCEPT ![d] = Marks(d, "done", r)]
      BY <1>1, <1>10 DEF DecodeFails, GetFreeSurfaceTimeout
    <2>3. SinkOK(NoFrame(d, r), "run") BY <2>1, NoFrameOK
    <2>4. SinkOK(Marks(d, "done", r), "run") BY <1>1, MarksShape DEF SinkOK
    <2> QED BY <2>1, <2>2, <2>3, <2>4, <1>3
  <1> QED BY <1>4, <1>5, <1>6, <1>7, <1>8, <1>9, <1>10

\* When all buffers have what the thread adds, it goes on or ends.
LEMMA AddedAllOK ==
    ASSUME ThreadInv, NEW d \in Sinks, AddedAll(d), sink[d].pc # "done", src' = src
    PROVE  ThreadInv'
  <1>1. SinkOK(sink[d], "run") /\ DOMAIN sink = Sinks /\ DOMAIN sts = Sessions /\ d \in Sessions
    BY DEF ThreadInv, SinkOK, Sessions
  <1>2. SinkOnly(d) BY <1>1 DEF SinkOnly, AddedAll
  <1>3. sts'[d] = IF sink[d].after = "done" THEN sink[d].res ELSE "run"
    BY <1>1 DEF AddedAll, ThreadInv, SinkOK
  <1>4. CASE sink[d].after = "leave"
    <2>1. sink'[d] = Marks(d, "done", sink[d].res) BY <1>1, <1>4 DEF AddedAll
    <2> QED BY <1>1, <1>2, <1>3, <1>4, <2>1, MarksShape, SinkSuffices DEF SinkOK
  <1>5. CASE sink[d].after # "leave"
    <2>1. sink'[d] = [sink[d] EXCEPT !.todo = <<>>, !.pc = sink[d].after]
      BY <1>1, <1>5 DEF AddedAll
    <2>2. SinkOK(sink'[d], sts'[d]) BY <1>1, <1>3, <1>5, <2>1 DEF SinkOK, SinkFields
    <2> QED BY <1>2, <2>2, SinkSuffices
  <1> QED BY <1>4, <1>5

LEMMA SinkAdds ==
    ASSUME ThreadInv, NEW d \in Sinks, AddStep(d) \/ SignalStep(d)
    PROVE  ThreadInv'
  <1>1. SinkOK(sink[d], sts[d]) /\ DOMAIN sink = Sinks /\ DOMAIN sts = Sessions
    BY DEF ThreadInv
  <1>2. src' = src /\ sink[d].pc # "done"
    BY DEF AddStep, SignalStep
  <1>3. CASE AddedAll(d) BY <1>2, <1>3, AddedAllOK
  <1>4. CASE UNCHANGED sts /\ \E K \in {[sink[d] EXCEPT !.pc = "signal"],
                                       [sink[d] EXCEPT !.todo = Tail(@)],
                                       [sink[d] EXCEPT !.todo = Tail(@), !.pc = "add"]} :
                                 sink' = [sink EXCEPT ![d] = K]
    <2>1. SinkOnly(d) BY <1>1, <1>2, <1>4 DEF SinkOnly
    <2>2. sts'[d] = "run" BY <1>1, <1>2, <1>4 DEF SinkOK
    <2>3. PICK K \in {[sink[d] EXCEPT !.pc = "signal"], [sink[d] EXCEPT !.todo = Tail(@)],
                      [sink[d] EXCEPT !.todo = Tail(@), !.pc = "add"]} : sink'[d] = K
      BY <1>1, <1>4
    <2>4. SinkOK(K, "run")
      <3>1. CASE K = [sink[d] EXCEPT !.pc = "signal"]
        BY <1>1, <3>1 DEF SinkOK, SinkFields
      <3>2. CASE K = [sink[d] EXCEPT !.todo = Tail(@)]
        BY <1>1, <1>2, <3>2 DEF SinkOK, SinkFields
      <3>3. CASE K = [sink[d] EXCEPT !.todo = Tail(@), !.pc = "add"]
        BY <1>1, <3>3 DEF SinkOK, SinkFields
      <3> QED BY <2>3, <3>1, <3>2, <3>3
    <2> QED BY <2>1, <2>2, <2>3, <2>4, SinkSuffices
  <1>5. CASE AddStep(d)
    BY <1>1, <1>3, <1>4, <1>5 DEF AddStep
  <1>6. CASE SignalStep(d)
    BY <1>1, <1>3, <1>4, <1>6 DEF SignalStep
  <1> QED BY <1>5, <1>6

LEMMA SinkCounts ==
    ASSUME ThreadInv, NEW d \in Sinks, CountFrame(d)
    PROVE  ThreadInv'
  <1>1. /\ SinkOK(sink[d], sts[d]) /\ DOMAIN sink = Sinks /\ DOMAIN sts = Sessions
        /\ d \in Sessions
    BY DEF ThreadInv, Sessions
  <1>2. SinkOnly(d) BY <1>1 DEF SinkOnly, CountFrame
  <1>3. CASE UNCHANGED sts
    <2> DEFINE M == Marks(d, "done", "ok")
    <2>1. /\ DOMAIN M = SinkFields /\ M.pc = "add" /\ M.after = "done" /\ M.res = "ok"
      BY <1>1, MarksShape DEF SinkOK
    <2> HIDE DEF M
    <2>2. PICK n : \/ sink'[d] = [M EXCEPT !.num = n]
                   \/ sink'[d] = [sink[d] EXCEPT !.pc = "loop", !.num = n]
                   \/ sink'[d] = [sink[d] EXCEPT !.pc = "done"] /\ sts'[d] = "error"
      BY <1>1 DEF CountFrame, M
    <2>3. sts[d] = "run" BY <1>1 DEF CountFrame, SinkOK
    <2>4. SinkOK(sink'[d], sts'[d]) BY <1>1, <1>3, <2>1, <2>2, <2>3 DEF SinkOK, SinkFields
    <2> QED BY <1>2, <2>4, SinkSuffices
  <1>4. CASE ~UNCHANGED sts
    <2>1. sink'[d] = [sink[d] EXCEPT !.pc = "done"] /\ sts'[d] = "error"
      BY <1>1, <1>4 DEF CountFrame
    <2>2. SinkOK(sink'[d], sts'[d]) BY <1>1, <2>1 DEF SinkOK, SinkFields
    <2> QED BY <1>2, <2>2, SinkSuffices
  <1> QED BY <1>3, <1>4

-----------------------------------------------------------------------------
(***************************************************************************)
(* Encoding threads                                                        *)
(***************************************************************************)

\* The steps that leave the bitstream store alone and stay in the loop, or end.
LEMMA SourceGoesOn ==
    ASSUME ThreadInv, NEW e \in Sources,
           \/ GetFrame(e) \/ WaitForSurfaceInsertion(e) \/ VppDrained(e) \/ VppWantsMore(e)
           \/ ReleaseInput(e) \/ VppOutput(e) \/ ReleaseComposed(e) \/ Cancel(e) \/ SliceExpires(e)
    PROVE  ThreadInv'
  <1>1. /\ SrcOK(src[e], sts[e]) /\ DOMAIN src = Sources /\ DOMAIN sts = Sessions
        /\ AsyncDepth \in Nat \ {0}
    BY ShapeAssumption DEF ThreadInv
  <1>2. sts' = sts /\ sink' = sink /\ src[e].pc \notin {"rel", "done"}
    BY DEF GetFrame, WaitForSurfaceInsertion, VppDrained, VppWantsMore, ReleaseInput, VppOutput,
           ReleaseComposed, Cancel, SliceExpires
  <1>3. ASSUME NEW K, src' = [src EXCEPT ![e] = K], DOMAIN K = SrcFields,
               K.pc \notin {"rel", "done"}, K.bs = src[e].bs, K.r = src[e].r
        PROVE  ThreadInv'
    <2>1. SourceOnly(e) BY <1>1, <1>2, <1>3 DEF SourceOnly
    <2>2. src'[e] = K BY <1>1, <1>3
    <2>3. SrcOK(K, sts'[e]) BY <1>1, <1>2, <1>3 DEF SrcOK
    <2> QED BY <2>1, <2>2, <2>3, SourceSuffices
  <1>4. DOMAIN src[e] = SrcFields BY <1>1 DEF SrcOK
  <1>5. CASE GetFrame(e)
    <2>1. CASE \E x : src' = [src EXCEPT ![e].x = x, ![e].quit = (x.surf = None),
                                         ![e].vs = (x.surf # None),
                                         ![e].pc = IF Vpp = "off" THEN "enc" ELSE "vpp"]
      <3>1. PICK x : src' = [src EXCEPT ![e].x = x, ![e].quit = (x.surf = None),
                                        ![e].vs = (x.surf # None),
                                        ![e].pc = IF Vpp = "off" THEN "enc" ELSE "vpp"]
        BY <2>1
      <3> DEFINE K == [src[e] EXCEPT !.x = x, !.quit = (x.surf = None), !.vs = (x.surf # None),
                                     !.pc = IF Vpp = "off" THEN "enc" ELSE "vpp"]
      <3>2. src' = [src EXCEPT ![e] = K] BY <3>1, <1>1
      <3>3. DOMAIN K = SrcFields /\ K.bs = src[e].bs /\ K.r = src[e].r BY <1>4 DEF SrcFields
      <3>4. K.pc = IF Vpp = "off" THEN "enc" ELSE "vpp" BY <1>4 DEF SrcFields
      <3> HIDE DEF K
      <3> QED BY <3>2, <3>3, <3>4, <1>3
    <2>2. CASE src' = [src EXCEPT ![e].pc = "wait", ![e].slices = 0]
      <3> DEFINE K == [src[e] EXCEPT !.pc = "wait", !.slices = 0]
      <3>1. src' = [src EXCEPT ![e] = K] BY <2>2, <1>1
      <3> QED BY <3>1, <1>3, <1>4 DEF SrcFields
    <2> QED BY <1>5, <2>1, <2>2 DEF GetFrame
  <1>6. CASE \E p \in {"get", "blocked", "expired", "more", "drain"} :
                src' = [src EXCEPT ![e].pc = p]
    <2>1. PICK p \in {"get", "blocked", "expired", "more", "drain"} :
             src' = [src EXCEPT ![e].pc = p]
      BY <1>6
    <2> DEFINE K == [src[e] EXCEPT !.pc = p]
    <2>2. src' = [src EXCEPT ![e] = K] BY <2>1, <1>1
    <2> QED BY <2>2, <1>3, <1>4 DEF SrcFields
  <1>7. CASE WaitForSurfaceInsertion(e) \/ VppWantsMore(e) \/ Cancel(e) \/ SliceExpires(e)
    BY <1>6, <1>7 DEF WaitForSurfaceInsertion, VppWantsMore, Cancel, SliceExpires
  <1>8. CASE VppDrained(e)
    <2> DEFINE K == [src[e] EXCEPT !.vs = FALSE, !.pc = IF Comp THEN "composed" ELSE "enc"]
    <2>1. src' = [src EXCEPT ![e] = K] BY <1>1, <1>8 DEF VppDrained
    <2>2. DOMAIN K = SrcFields /\ K.bs = src[e].bs /\ K.r = src[e].r BY <1>4 DEF SrcFields
    <2>3. K.pc = IF Comp THEN "composed" ELSE "enc" BY <1>4 DEF SrcFields
    <2> HIDE DEF K
    <2> QED BY <2>1, <2>2, <2>3, <1>3
  <1>9. CASE VppOutput(e)
    <2> DEFINE K == [src[e] EXCEPT !.pc = IF Comp THEN "composed" ELSE "enc", !.vs = TRUE,
                                   !.read = ~(Vpp = "double" /\ src[e].read)]
    <2>1. src' = [src EXCEPT ![e] = K] BY <1>1, <1>9 DEF VppOutput
    <2>2. DOMAIN K = SrcFields /\ K.bs = src[e].bs /\ K.r = src[e].r BY <1>4 DEF SrcFields
    <2>3. K.pc = IF Comp THEN "composed" ELSE "enc" BY <1>4 DEF SrcFields
    <2> HIDE DEF K
    <2> QED BY <2>1, <2>2, <2>3, <1>3
  <1>10. CASE ReleaseInput(e)
    <2> DEFINE K == [src[e] EXCEPT !.pc = "get", !.cur = @ + 1]
    <2>1. src' = [src EXCEPT ![e] = K] BY <1>1, <1>10 DEF ReleaseInput
    <2> QED BY <2>1, <1>3, <1>4 DEF SrcFields
  <1>11. CASE ReleaseComposed(e)
    <2> DEFINE K == [src[e] EXCEPT !.pc = "enc", !.cur = 1]
    <2>1. src' = [src EXCEPT ![e] = K] BY <1>1, <1>11 DEF ReleaseComposed
    <2> QED BY <2>1, <1>3, <1>4 DEF SrcFields
  <1> QED BY <1>5, <1>7, <1>8, <1>9, <1>10, <1>11

\* A thread ends with a status other than "run", wherever it was.
LEMMA SourceEnds ==
    ASSUME ThreadInv, NEW e \in Sources, NEW st, st # "run",
           src' = [src EXCEPT ![e].pc = "done"], sts' = [sts EXCEPT ![e] = st], sink' = sink
    PROVE  ThreadInv'
  <1>1. SrcOK(src[e], sts[e]) /\ DOMAIN src = Sources /\ DOMAIN sts = Sessions /\ e \in Sessions
    BY DEF ThreadInv, Sessions
  <1>2. SourceOnly(e) BY <1>1 DEF SourceOnly
  <1>3. src'[e] = [src[e] EXCEPT !.pc = "done"] /\ sts'[e] = st BY <1>1
  <1>4. SrcOK(src'[e], sts'[e]) BY <1>1, <1>3 DEF SrcOK, SrcFields
  <1> QED BY <1>2, <1>4, SourceSuffices

\* A step within the loop; the store stays in its bounds.
LEMMA SourceMoves ==
    ASSUME ThreadInv, NEW e \in Sources, NEW K, src' = [src EXCEPT ![e] = K],
           sts' = sts, sink' = sink, src[e].pc # "done", SrcOK(K, "run")
    PROVE  ThreadInv'
  <1>1. SrcOK(src[e], sts[e]) /\ DOMAIN src = Sources /\ DOMAIN sts = Sessions
    BY DEF ThreadInv
  <1>2. SourceOnly(e) BY <1>1 DEF SourceOnly
  <1>3. src'[e] = K /\ sts'[e] = "run" BY <1>1 DEF SrcOK
  <1> QED BY <1>2, <1>3, SourceSuffices

\* The steps that end the thread, or leave the store alone: a wait that is
\* over, a failure before the encoder, and the end of the cleaning up.
LEMMA SourceLeaves ==
    ASSUME ThreadInv, NEW e \in Sources,
           SliceReturns(e) \/ SyncFrameFails(e) \/ VppFails(e) \/ VppStopped(e) \/ Drain(e)
    PROVE  ThreadInv'
  <1>1. /\ SrcOK(src[e], sts[e]) /\ DOMAIN src = Sources /\ DOMAIN sts = Sessions
        /\ AsyncDepth \in Nat \ {0}
    BY ShapeAssumption DEF ThreadInv
  <1>2. sink' = sink /\ src[e].pc \notin {"rel", "done"}
    BY DEF SliceReturns, SyncFrameFails, VppFails, VppStopped, Drain
  <1>3. CASE /\ src' = [src EXCEPT ![e].pc = "done"]
             /\ \E st \in {"ok", "error", "hang"} : sts' = [sts EXCEPT ![e] = st]
    BY <1>2, <1>3, SourceEnds
  <1>4. ASSUME NEW p \in {"wait", "drain", "cancel"}, NEW c, NEW n, sts' = sts,
               src' = [src EXCEPT ![e] = [src[e] EXCEPT !.pc = p, !.cur = c, !.slices = n]]
        PROVE  ThreadInv'
    <2> DEFINE K == [src[e] EXCEPT !.pc = p, !.cur = c, !.slices = n]
    <2>1. SrcOK(K, "run") BY <1>1, <1>2 DEF SrcOK, SrcFields
    <2> HIDE DEF K
    <2>2. src' = [src EXCEPT ![e] = K] BY <1>4 DEF K
    <2> QED BY <1>2, <1>4, <2>1, <2>2, SourceMoves
  <1>5. CASE SliceReturns(e)
    <2>1. CASE src' = [src EXCEPT ![e].pc = "wait", ![e].slices = @ + 1] /\ UNCHANGED sts
      <3>1. src' = [src EXCEPT ![e] = [src[e] EXCEPT !.pc = "wait", !.cur = src[e].cur,
                                                     !.slices = src[e].slices + 1]]
        BY <1>1, <2>1 DEF SrcOK, SrcFields
      <3> QED BY <2>1, <3>1, <1>4
    <2> QED BY <1>3, <1>5, <2>1 DEF SliceReturns
  <1>6. CASE Drain(e)
    <2>1. CASE src' = [src EXCEPT ![e].cur = @ + 1] /\ UNCHANGED sts
      <3>1. src' = [src EXCEPT ![e] = [src[e] EXCEPT !.pc = "drain", !.cur = src[e].cur + 1,
                                                     !.slices = src[e].slices]]
        BY <1>1, <1>6, <2>1 DEF SrcOK, SrcFields, Drain
      <3> QED BY <2>1, <3>1, <1>4
    <2>2. CASE UNCHANGED sts /\ src' = [src EXCEPT ![e].pc = IF Comp THEN "cancel" ELSE "drain"]
      <3>1. PICK p \in {"cancel", "drain"} : src' = [src EXCEPT ![e].pc = p]
        BY <2>2
      <3>2. src' = [src EXCEPT ![e] = [src[e] EXCEPT !.pc = p, !.cur = src[e].cur,
                                                     !.slices = src[e].slices]]
        BY <1>1, <3>1 DEF SrcOK, SrcFields
      <3> QED BY <2>2, <3>2, <1>4, ZenonT(30)
    <2> QED BY <1>3, <1>6, <2>1, <2>2 DEF Drain
  <1>7. CASE SyncFrameFails(e) \/ VppFails(e) \/ VppStopped(e)
    BY <1>3, <1>7 DEF SyncFrameFails, VppFails, VppStopped
  <1> QED BY <1>5, <1>6, <1>7

\* An entry of the store is taken, if one is left.
LEMMA SourceTakes ==
    ASSUME ThreadInv, NEW e \in Sources, EncodeFrame(e) \/ EncodeFails(e)
    PROVE  ThreadInv'
  <1>1. /\ SrcOK(src[e], sts[e]) /\ DOMAIN src = Sources /\ DOMAIN sts = Sessions
        /\ AsyncDepth \in Nat \ {0}
    BY ShapeAssumption DEF ThreadInv
  <1>2. sink' = sink /\ src[e].pc = "enc"
    BY DEF EncodeFrame, EncodeFails
  <1>3. ASSUME src[e].bs < AsyncDepth, sts' = sts, NEW K, src' = [src EXCEPT ![e] = K],
               DOMAIN K = SrcFields, K.pc = "rel", K.bs = src[e].bs + 1,
               K.r \in {"none", "more", "error", "hang"}
        PROVE  ThreadInv'
    <2>1. SrcOK(K, "run") BY <1>1, <1>3 DEF SrcOK
    <2> QED BY <1>2, <1>3, <2>1, SourceMoves
  <1>4. DOMAIN src[e] = SrcFields BY <1>1 DEF SrcOK
  <1>5. CASE EncodeFrame(e) /\ src[e].bs < AsyncDepth
    <2>1. PICK real \in {src[e].vs /\ ~src[e].poll} :
             EncodeOneFrame(e, real, src[e].num + IF real THEN 1 ELSE 0)
      BY <1>5 DEF EncodeFrame
    <2>2. PICK n, R : /\ R = EncodeResult(e, real)
                      /\ src' = [src EXCEPT ![e].pc = "rel", ![e].vs = real, ![e].num = n,
                                            ![e].poll = (n >= MaxFrames), ![e].bs = @ + 1,
                                            ![e].r = R]
      BY <2>1 DEF EncodeOneFrame
    <2>3. R \in {"none", "more"} BY <2>2 DEF EncodeResult
    <2> DEFINE K == [src[e] EXCEPT !.pc = "rel", !.vs = real, !.num = n,
                                   !.poll = (n >= MaxFrames), !.bs = src[e].bs + 1, !.r = R]
    <2>4. src' = [src EXCEPT ![e] = K] BY <2>2, <1>1
    <2>5. /\ DOMAIN K = SrcFields /\ K.pc = "rel" /\ K.bs = src[e].bs + 1 /\ K.r = R
      BY <1>4 DEF SrcFields
    <2>6. sts' = sts BY <1>5 DEF EncodeFrame
    <2> HIDE DEF K
    <2> QED BY <2>3, <2>4, <2>5, <2>6, <1>3, <1>5
  <1>6. CASE EncodeFrame(e) /\ ~(src[e].bs < AsyncDepth)
    BY <1>2, <1>6, SourceEnds DEF EncodeFrame
  <1>7. CASE EncodeFails(e)
    <2>1. PICK kind \in {"error", "hang"} :
             src' = [src EXCEPT ![e].pc = "rel", ![e].r = kind, ![e].bs = @ + 1]
      BY <1>7 DEF EncodeFails
    <2> DEFINE K == [src[e] EXCEPT !.pc = "rel", !.r = kind, !.bs = src[e].bs + 1]
    <2>2. src' = [src EXCEPT ![e] = K] BY <2>1, <1>1
    <2>3. /\ DOMAIN K = SrcFields /\ K.pc = "rel" /\ K.bs = src[e].bs + 1 /\ K.r = kind
      BY <1>4 DEF SrcFields
    <2> HIDE DEF K
    <2> QED BY <2>2, <2>3, <1>3, <1>7 DEF EncodeFails
  <1> QED BY <1>5, <1>6, <1>7

\* An entry is given back when the encoder wanted more data, or when all are
\* taken; all of them when the thread leaves the loop.
LEMMA SourceGivesBack ==
    ASSUME ThreadInv, NEW e \in Sources, ReleaseFrame(e) \/ Flush(e)
    PROVE  ThreadInv'
  <1>1. /\ SrcOK(src[e], sts[e]) /\ DOMAIN src = Sources /\ DOMAIN sts = Sessions
        /\ AsyncDepth \in Nat \ {0}
    BY ShapeAssumption DEF ThreadInv
  <1>2. sink' = sink /\ src[e].pc \in {"rel", "flush"}
    BY DEF ReleaseFrame, Flush
  <1>3. ASSUME sts' = sts, NEW K, src' = [src EXCEPT ![e] = K], DOMAIN K = SrcFields,
               K.pc \notin {"rel", "done"}, K.bs \in 0 .. AsyncDepth - 1, K.r = src[e].r
        PROVE  ThreadInv'
    <2>1. SrcOK(K, "run") BY <1>1, <1>3 DEF SrcOK
    <2> QED BY <1>2, <1>3, <2>1, SourceMoves
  <1>4. DOMAIN src[e] = SrcFields /\ src[e].bs \in 0 .. AsyncDepth BY <1>1 DEF SrcOK
  <1>5. Again(src[e]) \in {"get", "vpp"} BY DEF Again
  <1>6. CASE Flush(e)
    <2>1. CASE /\ src' = [src EXCEPT ![e].bs = 0, ![e].cur = 1,
                                     ![e].pc = IF Comp THEN "drain" ELSE "cancel"]
               /\ UNCHANGED sts
      <3> DEFINE K == [src[e] EXCEPT !.bs = 0, !.cur = 1,
                                     !.pc = IF Comp THEN "drain" ELSE "cancel"]
      <3>1. src' = [src EXCEPT ![e] = K] BY <2>1, <1>1
      <3>2. DOMAIN K = SrcFields /\ K.bs = 0 /\ K.r = src[e].r BY <1>4 DEF SrcFields
      <3>3. K.pc = IF Comp THEN "drain" ELSE "cancel" BY <1>4 DEF SrcFields
      <3> HIDE DEF K
      <3>4. K.bs \in 0 .. AsyncDepth - 1 BY <3>2, <1>1
      <3>5. K.pc \notin {"rel", "done"} BY <3>3
      <3> QED BY <2>1, <3>1, <3>2, <3>4, <3>5, <1>3
    <2> QED BY <1>2, <1>6, <2>1, SourceEnds DEF Flush
  <1>7. CASE ReleaseFrame(e) /\ src[e].r = "more"
    <2> DEFINE K == [src[e] EXCEPT !.bs = src[e].bs - 1,
                                   !.pc = IF src[e].vs THEN Again(src[e]) ELSE "flush"]
    <2>1. src' = [src EXCEPT ![e] = K] /\ sts' = sts BY <1>1, <1>7 DEF ReleaseFrame
    <2>2. DOMAIN K = SrcFields /\ K.bs = src[e].bs - 1 /\ K.r = src[e].r BY <1>4 DEF SrcFields
    <2>3. K.pc = IF src[e].vs THEN Again(src[e]) ELSE "flush" BY <1>4 DEF SrcFields
    <2>4. src[e].bs > 0 BY <1>1, <1>7 DEF SrcOK, ReleaseFrame
    <2> HIDE DEF K
    <2>5. K.bs \in 0 .. AsyncDepth - 1 BY <2>2, <2>4, <1>1, <1>4
    <2>6. K.pc \notin {"rel", "done"} BY <2>3, <1>5
    <2> QED BY <2>1, <2>2, <2>5, <2>6, <1>3
  <1>8. CASE ReleaseFrame(e) /\ src[e].r = "none"
    <2>1. CASE src' = [src EXCEPT ![e].pc = "done"] /\ sts' = [sts EXCEPT ![e] = "error"]
      BY <1>2, <2>1, SourceEnds
    <2>2. CASE /\ src' = [src EXCEPT ![e].pc = Again(src[e]),
                                     ![e].bs = IF @ = AsyncDepth THEN @ - 1 ELSE @]
               /\ UNCHANGED sts
      <3> DEFINE K == [src[e] EXCEPT !.pc = Again(src[e]),
                              !.bs = IF src[e].bs = AsyncDepth THEN src[e].bs - 1 ELSE src[e].bs]
      <3>1. src' = [src EXCEPT ![e] = K] BY <2>2, <1>1
      <3>2. /\ DOMAIN K = SrcFields /\ K.pc = Again(src[e]) /\ K.r = src[e].r
            /\ K.bs = IF src[e].bs = AsyncDepth THEN src[e].bs - 1 ELSE src[e].bs
        BY <1>4 DEF SrcFields
      <3> HIDE DEF K
      <3>3. K.bs \in 0 .. AsyncDepth - 1 BY <3>2, <1>1, <1>4
      <3>4. K.pc \notin {"rel", "done"} BY <3>2, <1>5
      <3> QED BY <2>2, <3>1, <3>2, <3>3, <3>4, <1>3
    <2> QED BY <1>8, <2>1, <2>2 DEF ReleaseFrame
  <1>9. CASE ReleaseFrame(e) /\ src[e].r \notin {"more", "none"}
    <2>1. src' = [src EXCEPT ![e].pc = "done"] /\ sts' = [sts EXCEPT ![e] = src[e].r]
      BY <1>9 DEF ReleaseFrame
    <2>2. src[e].r # "run" BY <1>1 DEF SrcOK
    <2> QED BY <1>2, <2>1, <2>2, SourceEnds
  <1> QED BY <1>6, <1>7, <1>8, <1>9

LEMMA SourceSteps ==
    ASSUME ThreadInv, NEW e \in Sources,
           SourceThread(e) \/ SyncFrameFails(e) \/ VppFails(e) \/ EncodeFails(e) \/ SliceExpires(e)
    PROVE  ThreadInv'
  BY SourceGoesOn, SourceLeaves, SourceTakes, SourceGivesBack DEF SourceThread

LEMMA SinkSteps ==
    ASSUME ThreadInv, NEW d \in Sinks,
           SinkThread(d) \/ DecodeFails(d) \/ GetFreeSurfaceTimeout(d)
    PROVE  ThreadInv'
  BY SinkGoesOn, SinkAdds, SinkCounts DEF SinkThread

-----------------------------------------------------------------------------
(***************************************************************************)
(* All steps                                                               *)
(***************************************************************************)

\* The runtime and the launcher do not touch the records of the threads,
\* except for a recovery, which starts all of them again.
LEMMA OtherSteps ==
    ASSUME ThreadInv,
           \/ \E d \in Sinks : DecoderUnlocks(d)
           \/ \E e \in Sources : RuntimeUnlocks(e)
           \/ Launcher \/ Finished \/ UNCHANGED vars
    PROVE  ThreadInv'
  <1>1. CASE sink' = sink /\ src' = src /\ sts' = sts
    BY <1>1 DEF ThreadInv
  <1>2. CASE Recover
    <2>1. /\ DOMAIN sink' = Sinks /\ DOMAIN src' = Sources /\ DOMAIN sts' = Sessions
          /\ \A x \in Sessions : sts'[x] = "run"
      BY <1>2 DEF Recover
    <2>2. ASSUME NEW d \in Sinks PROVE SinkOK(sink'[d], sts'[d])
      <3>1. PICK p, n, m : sink'[d] = InitSink(p, n, m) BY <1>2 DEF Recover
      <3> QED BY <2>1, <3>1 DEF InitSink, SinkOK, SinkFields, Sessions
    <2>3. ASSUME NEW e \in Sources PROVE SrcOK(src'[e], sts'[e])
      <3>1. PICK n : src'[e] = InitSrc(n) BY <1>2 DEF Recover
      <3>2. AsyncDepth \in Nat \ {0} BY ShapeAssumption
      <3> QED BY <2>1, <3>1, <3>2 DEF InitSrc, SrcOK, SrcFields, Sessions
    <2> QED BY <2>1, <2>2, <2>3 DEF ThreadInv
  <1>3. CASE \E d \in Sinks : DecoderUnlocks(d) BY <1>1, <1>3 DEF DecoderUnlocks
  <1>4. CASE \E e \in Sources : RuntimeUnlocks(e) BY <1>1, <1>4 DEF RuntimeUnlocks
  <1>5. CASE Launcher BY <1>1, <1>2, <1>5 DEF Launcher, Poll, StopSession, StopOverlay, Finish
  <1>6. CASE Finished \/ UNCHANGED vars BY <1>1, <1>6 DEF Finished, vars
  <1> QED BY <1>3, <1>4, <1>5, <1>6

LEMMA InitThreads == Init => ThreadInv
  <1> SUFFICES ASSUME Init PROVE ThreadInv
    OBVIOUS
  <1>1. /\ DOMAIN sink = Sinks /\ DOMAIN src = Sources /\ DOMAIN sts = Sessions
        /\ \A x \in Sessions : sts[x] = "run"
    BY DEF Init
  <1>2. ASSUME NEW d \in Sinks PROVE SinkOK(sink[d], sts[d])
    <2>1. sink[d] = InitSink(0, 0, 0) BY DEF Init
    <2> QED BY <1>1, <2>1 DEF InitSink, SinkOK, SinkFields, Sessions
  <1>3. ASSUME NEW e \in Sources PROVE SrcOK(src[e], sts[e])
    <2>1. src[e] = InitSrc(0) BY DEF Init
    <2>2. AsyncDepth \in Nat \ {0} BY ShapeAssumption
    <2> QED BY <1>1, <2>1, <2>2 DEF InitSrc, SrcOK, SrcFields, Sessions
  <1> QED BY <1>1, <1>2, <1>3 DEF ThreadInv

LEMMA NextThreads == ThreadInv /\ [Next]_vars => ThreadInv'
  <1> SUFFICES ASSUME ThreadInv, [Next]_vars PROVE ThreadInv'
    OBVIOUS
  <1>1. CASE \E d \in Sinks : SinkThread(d) \/ DecodeFails(d) \/ GetFreeSurfaceTimeout(d)
    BY <1>1, SinkSteps
  <1>2. CASE \E e \in Sources : \/ SourceThread(e) \/ SyncFrameFails(e) \/ VppFails(e)
                                \/ EncodeFails(e) \/ SliceExpires(e)
    BY <1>2, SourceSteps
  <1>3. CASE \/ \E d \in Sinks : DecoderUnlocks(d)
             \/ \E e \in Sources : RuntimeUnlocks(e)
             \/ Launcher \/ Finished \/ UNCHANGED vars
    BY <1>3, OtherSteps
  <1> QED BY <1>1, <1>2, <1>3 DEF Next, Progress, Timeout, Failure

LEMMA ThreadsAlways == Spec => []ThreadInv
  <1> QED BY InitThreads, NextThreads, PTL DEF Spec

\* Whenever an encoding thread calls the encoder, an entry of its bitstream
\* store is free, for any AsyncDepth, any number of sessions, and whatever
\* fails, is stopped or is recovered: MFX_ERR_NOT_FOUND is never returned.
THEOREM BitstreamLeftTheorem == Spec => []BitstreamLeft
  <1>1. ThreadInv => BitstreamLeft BY DEF ThreadInv, SrcOK, BitstreamLeft
  <1> QED BY <1>1, ThreadsAlways, PTL

\* The launcher resets the pipelines after a GPU hang only when every thread is
\* behind the last line of its function: it never takes the surfaces, buffers
\* and bitstreams away from a thread that still works on them.
THEOREM RecoverIsExclusive ==
    Spec => [][Recover => /\ \A d \in Sinks : sink[d].pc = "done"
                          /\ \A e \in Sources : src[e].pc = "done"]_vars
  <1>1. ThreadInv /\ Recover => /\ \A d \in Sinks : sink[d].pc = "done"
                                /\ \A e \in Sources : src[e].pc = "done"
    BY DEF ThreadInv, SinkOK, SrcOK, Recover, Joined, Sessions
  <1> QED BY <1>1, ThreadsAlways, PTL

-----------------------------------------------------------------------------
(***************************************************************************)
(* Surfaces                                                                *)
(***************************************************************************)

Items == [surf : Surfaces \cup {None}, frame : Int]
Inputs == [surf : Surfaces, frame : Int]
BufType == [list : Seq(Items), allowed : BOOLEAN, ins : BOOLEAN]
SurfType == [locked : Int, frame : Int]
DecType == [pend : Seq(Surfaces), refs : SUBSET Surfaces]
EncType == [delay : Nat, hold : SUBSET Inputs]

-----------------------------------------------------------------------------
(***************************************************************************)
(* What the threads share: buffers B, surfaces S, decoders D, encoders E   *)
(***************************************************************************)

SharedTypes(B, S, D, E) ==
    /\ B \in [Buffers -> BufType]
    /\ S \in [Surfaces -> SurfType]
    /\ D \in [Sinks -> DecType]
    /\ E \in [Sources -> EncType]

QueuedIn(B, s) == UNION {{b} \X Positions(B[b], s) : b \in Buffers}
DecodingIn(D, s) == {d \in Sinks : s \in D[d].refs}
HeldIn(E, s) == UNION {{e} \X {h \in E[e].hold : h.surf = s} : e \in Sources}

\* Nobody but the users counted has locked the surface s, n times.
Counted(B, D, E, s, n) ==
    /\ IsFiniteSet(QueuedIn(B, s)) /\ IsFiniteSet(DecodingIn(D, s)) /\ IsFiniteSet(HeldIn(E, s))
    /\ n = Cardinality(QueuedIn(B, s)) + Cardinality(DecodingIn(D, s)) + Cardinality(HeldIn(E, s))

Intact(B, S, E) ==
    /\ \A b \in Buffers : \A i \in 1 .. Len(B[b].list) :
          B[b].list[i].surf # None => S[B[b].list[i].surf].frame = B[b].list[i].frame
    /\ \A e \in Sources : \A h \in E[e].hold : S[h.surf].frame = h.frame

Shared(B, S, D, E) ==
    /\ SharedTypes(B, S, D, E)
    /\ \A s \in Surfaces : Counted(B, D, E, s, S[s].locked)
    /\ Intact(B, S, E)

-----------------------------------------------------------------------------
(***************************************************************************)
(* What each thread may rely on                                            *)
(***************************************************************************)

Distinct(l) == \A i, j \in 1 .. Len(l) : l[i] = l[j] => i = j

Adding(K) == K.pc \in {"add", "signal"}

\* A decoding thread with the record K, when the surfaces are S.
SinkData(d, K, S) ==
    /\ K.pc \in SinkPC /\ K.x \in Items /\ K.todo \in Seq(Buffers) /\ K.n \in Int
    /\ Adding(K) => K.todo # << >>
    /\ Adding(K) /\ K.x.surf # None => K.x.surf \in Pool[d] /\ S[K.x.surf].frame = K.x.frame
    /\ d \in Overlay => /\ K.pc \in {"start", "add", "signal", "done"}
                        /\ Adding(K) => K.after \in {"start", "done"}

\* The decoder of d, of which n frames came in: it keeps the last ones in
\* surfaces that it has locked.  Nothing is decoded in an overlay session.
DecData(d, D, S, n) ==
    /\ D.refs \subseteq Pool[d]
    /\ Distinct(D.pend) /\ Len(D.pend) <= DecDelay
    /\ \A i \in 1 .. Len(D.pend) :
         D.pend[i] \in D.refs /\ S[D.pend[i]].frame = n - Len(D.pend) + i
    /\ d \in Overlay => \A s \in Pool[d] : S[s].frame = 0

\* An encoding thread with the record K.
SrcData(e, K) ==
    /\ K.pc \in SrcPC /\ K.x \in Items
    /\ K.cur \in 1 .. Len(Path(e)) /\ (K.pc = "more" => K.cur < Len(Path(e)))
    /\ K.pc \in {"vpp", "more", "composed"} => Vpp # "off"
    /\ K.pc = "composed" => Comp
    /\ Vpp # "double" => K.read = TRUE
    /\ Vpp = "off" /\ K.pc = "enc" /\ K.vs => K.x.surf # None

\* The thread with the record K still works on what it got.
Reading(K) ==
    K.x.surf # None /\ (K.pc \in {"vpp", "more", "composed"} \/ (~Comp /\ K.pc \in {"enc", "rel"}))

AtFront(B, x) == ~NoSurface(B) /\ Front(B) = x

ReadsInv ==
    (Comp => Vpp # "double") => \A e \in Sources :
       Reading(src[e]) => AtFront(buf[Cur(e)], src[e].x)

\* The buffer B of a source that is not composing, with the record K.
Clean(K, st, B) ==
    /\ K.pc = "drain" => ~B.allowed
    /\ st = "ok" => ~B.allowed /\ NoSurface(B)

CleanInv == ~Comp => \A e \in Sources : Clean(src[e], sts[e], buf[e])

DataInv ==
    /\ ThreadInv /\ stop \in [Sessions -> BOOLEAN]
    /\ Shared(buf, surf, dec, enc)
    /\ \A d \in Sinks : SinkData(d, sink[d], surf) /\ DecData(d, dec[d], surf, sink[d].n)
    /\ \A e \in Sources : SrcData(e, src[e])
    /\ ReadsInv /\ CleanInv

-----------------------------------------------------------------------------
(***************************************************************************)
(* Lists and buffers                                                       *)
(***************************************************************************)

LEMMA SurfacesLemma ==
    /\ None \notin Surfaces /\ Surfaces \subseteq Nat
    /\ \A d \in Sinks : Pool[d] \subseteq Surfaces
    /\ \A d, c \in Sinks : \A s \in Pool[d] : s \in Pool[c] => d = c
    /\ \A e \in Sources : Path(e) \in Seq(Buffers) /\ 1 \in 1 .. Len(Path(e))
    /\ \A d \in Sinks : Out(d) \in Seq(Buffers) /\ Out(d) # << >>
<1>1. Surfaces \subseteq Nat /\ \A d \in Sinks : Pool[d] \subseteq Surfaces
  BY ShapeAssumption DEF Surfaces
<1>2. \A d, c \in Sinks : \A s \in Pool[d] : s \in Pool[c] => d = c
  BY ShapeAssumption
<1>3. Chain \in Seq(Buffers) /\ Chain # << >>
  BY ShapeAssumption DEF Buffers
<1>4. ASSUME NEW b \in Buffers PROVE <<b>> \in Seq(Buffers) /\ Len(<<b>>) = 1 /\ <<b>> # << >>
  OBVIOUS
<1>5. Len(Chain) \in Nat \ {0}
  BY <1>3
<1>6. ASSUME NEW e \in Sources PROVE Path(e) \in Seq(Buffers) /\ 1 \in 1 .. Len(Path(e))
  BY <1>3, <1>4, <1>5 DEF Path, Buffers
<1>7. ASSUME NEW d \in Sinks PROVE Out(d) \in Seq(Buffers) /\ Out(d) # << >>
  BY <1>3, <1>4 DEF Out, Buffers
<1> QED BY <1>1, <1>2, <1>6, <1>7, ShapeAssumption

\* A nonempty set of positions has a first one, which First returns.
LEMMA FirstLemma ==
    ASSUME NEW S, S \subseteq Nat, S # {}
    PROVE  First(S) \in S /\ \A j \in S : First(S) <= j
<1> DEFINE R == {r \in Nat \X Nat : r[1] < r[2]}
<1>1. IsWellFoundedOn(R, Nat)
  <2>1. R = OpToRel(<, Nat)
    BY Zenon DEF OpToRel
  <2> QED BY <2>1, NatLessThanWellFounded
<1>2. PICK t \in S : \A u \in S : ~(<<u, t>> \in R)
  <2> HIDE DEF R
  <2> QED BY <1>1, WFMin
<1>3. \A u \in S : t <= u
  <2>1. ASSUME NEW u \in S PROVE ~(u < t)
    <3>1. u \in Nat /\ t \in Nat
      OBVIOUS
    <3>2. u < t => <<u, t>> \in R
      BY <3>1
    <3> QED BY <1>2, <3>2
  <2> QED BY <2>1
<1> QED BY <1>3 DEF First

LEMMA AppendLemma ==
    ASSUME NEW T, NEW l \in Seq(T), NEW x \in T
    PROVE  /\ Append(l, x) \in Seq(T) /\ Len(Append(l, x)) = Len(l) + 1 /\ Len(l) \in Nat
           /\ \A i \in 1 .. Len(l) : Append(l, x)[i] = l[i]
           /\ Append(l, x)[Len(l) + 1] = x /\ Append(l, x) # << >>
           /\ l # << >> => Head(Append(l, x)) = Head(l)
  OBVIOUS

LEMMA TailLemma ==
    ASSUME NEW T, NEW l \in Seq(T), l # << >>
    PROVE  /\ Head(l) = l[1] /\ Head(l) \in T /\ Tail(l) \in Seq(T)
           /\ Len(Tail(l)) = Len(l) - 1 /\ Len(l) \in Nat \ {0}
           /\ \A i \in 1 .. Len(l) - 1 : Tail(l)[i] = l[i + 1]
  OBVIOUS

LEMMA EraseLemma ==
    ASSUME NEW T, NEW l \in Seq(T), NEW k \in 1 .. Len(l)
    PROVE  /\ EraseAt(l, k) \in Seq(T) /\ Len(EraseAt(l, k)) = Len(l) - 1 /\ Len(l) \in Nat
           /\ \A i \in 1 .. Len(l) - 1 : EraseAt(l, k)[i] = IF i < k THEN l[i] ELSE l[i + 1]
<1> DEFINE a == SubSeq(l, 1, k - 1)
           b == SubSeq(l, k + 1, Len(l))
           w == EraseAt(l, k)
<1>1. /\ Len(l) \in Nat /\ k \in Nat /\ 1 <= k /\ k <= Len(l)
  OBVIOUS
<1>2. a \in Seq(T) /\ Len(a) = k - 1 /\ \A i \in 1 .. k - 1 : a[i] = l[i]
  BY <1>1
<1>3. b \in Seq(T) /\ Len(b) = Len(l) - k /\ \A i \in 1 .. Len(l) - k : b[i] = l[i + k]
  BY <1>1
<1>4. w = a \o b
  BY DEF EraseAt
<1> HIDE DEF a, b
<1>5. w \in Seq(T) /\ Len(w) = Len(l) - 1
  <2>1. a \o b \in Seq(T) /\ Len(a \o b) = Len(a) + Len(b)
    BY <1>2, <1>3, ConcatProperties
  <2> QED BY <1>1, <1>2, <1>3, <1>4, <2>1
<1>6. ASSUME NEW i \in 1 .. Len(l) - 1
      PROVE  w[i] = IF i < k THEN l[i] ELSE l[i + 1]
  <2>1. CASE i < k
    BY <1>1, <1>2, <1>3, <1>4, <2>1
  <2>2. CASE i >= k
    <3>1. w[i] = b[i - (k - 1)]
      BY <1>1, <1>2, <1>3, <1>4, <2>2
    <3>2. i - (k - 1) \in 1 .. Len(l) - k /\ i - (k - 1) + k = i + 1
      BY <1>1, <2>2
    <3> QED BY <1>1, <1>3, <2>2, <3>1, <3>2
  <2> QED BY <1>1, <2>1, <2>2
<1> HIDE DEF w
<1> QED BY <1>1, <1>5, <1>6 DEF w

LEMMA ItemLemma ==
    ASSUME NEW B \in BufType, NEW i \in 1 .. Len(B.list)
    PROVE  /\ B.list[i] \in Items /\ B.list[i].surf \in Surfaces \cup {None}
           /\ B.list[i].frame \in Int
<1>1. B.list \in Seq(Items)
  BY DEF BufType
<1>2. B.list[i] \in Items
  BY <1>1
<1> QED BY <1>2 DEF Items

LEMMA EmptyType == Empty \in BufType /\ Empty.list = << >> /\ Empty.allowed = TRUE
<1>1. << >> \in Seq(Items)
  OBVIOUS
<1> QED BY <1>1, Zenon DEF Empty, BufType

\* A buffer that got x.
LEMMA AddLemma ==
    ASSUME NEW B \in BufType, NEW x \in Items
    PROVE  /\ AddSurface(B, x) \in BufType
           /\ AddSurface(B, x).list = IF B.allowed THEN Append(B.list, x) ELSE B.list
           /\ AddSurface(B, x).allowed = B.allowed
<1>1. B.list \in Seq(Items) /\ B.allowed \in BOOLEAN /\ B.ins \in BOOLEAN
  BY DEF BufType
<1> DEFINE l == Append(B.list, x)
<1>2. l \in Seq(Items)
  BY <1>1, AppendLemma
<1>3. AddSurface(B, x) = IF B.allowed THEN [B EXCEPT !.list = l] ELSE B
  BY Zenon DEF AddSurface
<1> HIDE DEF l
<1>4. [B EXCEPT !.list = l] \in BufType
  BY <1>1, <1>2, Zenon DEF BufType
<1>5. [B EXCEPT !.list = l].list = l /\ [B EXCEPT !.list = l].allowed = B.allowed
  BY DEF BufType
<1> QED BY <1>3, <1>4, <1>5 DEF l

\* Signals and cancellations leave the list alone.
LEMMA EventLemma ==
    ASSUME NEW B \in BufType
    PROVE  /\ Signal(B) \in BufType /\ Signal(B).list = B.list /\ Signal(B).allowed = B.allowed
           /\ ResetEvent(B) \in BufType /\ ResetEvent(B).list = B.list
           /\ ResetEvent(B).allowed = B.allowed
           /\ CancelBuffering(B) \in BufType /\ CancelBuffering(B).list = B.list
           /\ CancelBuffering(B).allowed = FALSE
<1>1. B.list \in Seq(Items) /\ B.allowed \in BOOLEAN /\ B.ins \in BOOLEAN
  BY DEF BufType
<1>2. /\ [B EXCEPT !.ins = TRUE] \in BufType /\ [B EXCEPT !.ins = FALSE] \in BufType
      /\ [B EXCEPT !.allowed = FALSE] \in BufType
  BY <1>1, Zenon DEF BufType
<1> QED BY <1>1, <1>2 DEF BufType, Signal, ResetEvent, CancelBuffering

\* A release erases the first descriptor of the surface, if there is one.
LEMMA ReleaseLemma ==
    ASSUME NEW B \in BufType, NEW s
    PROVE  /\ ReleaseSurface(B, s) \in BufType
           /\ ReleaseSurface(B, s).allowed = B.allowed
           /\ ~Releases(B, s) => ReleaseSurface(B, s) = B
           /\ Releases(B, s) => \E k \in 1 .. Len(B.list) :
                /\ ReleaseSurface(B, s).list = EraseAt(B.list, k)
                /\ B.list[k].surf = s
                /\ \A i \in 1 .. Len(B.list) : B.list[i].surf = s => k <= i
<1>1. B.list \in Seq(Items) /\ B.allowed \in BOOLEAN /\ B.ins \in BOOLEAN
  BY DEF BufType
<1>2. CASE ~Releases(B, s)
  BY <1>2 DEF Releases, ReleaseSurface
<1>3. CASE Releases(B, s)
  <2> DEFINE k == First(Positions(B, s))
             l == EraseAt(B.list, k)
  <2>1. k \in Positions(B, s) /\ \A i \in Positions(B, s) : k <= i
    <3>1. Positions(B, s) \subseteq Nat /\ Positions(B, s) # {}
      BY <1>3 DEF Releases, Positions
    <3> QED BY <3>1, FirstLemma
  <2>2. ReleaseSurface(B, s) = [B EXCEPT !.list = l]
    BY <1>3 DEF Releases, ReleaseSurface
  <2> HIDE DEF k
  <2>3. /\ k \in 1 .. Len(B.list) /\ B.list[k].surf = s
        /\ \A i \in 1 .. Len(B.list) : B.list[i].surf = s => k <= i
    BY <2>1 DEF Positions
  <2>4. l \in Seq(Items)
    BY <1>1, <2>3, EraseLemma
  <2> HIDE DEF l
  <2>5. [B EXCEPT !.list = l] \in BufType
    BY <1>1, <2>4, Zenon DEF BufType
  <2>6. [B EXCEPT !.list = l].list = l /\ [B EXCEPT !.list = l].allowed = B.allowed
    BY DEF BufType
  <2> QED BY <1>3, <2>2, <2>3, <2>5, <2>6 DEF l
<1> QED BY <1>2, <1>3

LEMMA LockLemma ==
    ASSUME NEW S \in [Surfaces -> SurfType], NEW s \in Surfaces
    PROVE  /\ Lock(S, s) \in [Surfaces -> SurfType] /\ Unlock(S, s) \in [Surfaces -> SurfType]
           /\ Lock(S, s)[s].locked = S[s].locked + 1
           /\ Unlock(S, s)[s].locked = S[s].locked - 1
           /\ Lock(S, s)[s].frame = S[s].frame /\ Unlock(S, s)[s].frame = S[s].frame
           /\ \A t \in Surfaces : t # s => Lock(S, s)[t] = S[t] /\ Unlock(S, s)[t] = S[t]
<1> DEFINE n == S[s].locked + 1
           m == S[s].locked - 1
<1>1. S[s] \in SurfType /\ S[s].locked \in Int /\ n \in Int /\ m \in Int
  BY DEF SurfType
<1>2. Lock(S, s) = [S EXCEPT ![s] = [S[s] EXCEPT !.locked = n]]
  BY DEF Lock
<1>3. Unlock(S, s) = [S EXCEPT ![s] = [S[s] EXCEPT !.locked = m]]
  BY DEF Unlock
<1> HIDE DEF n, m
<1>4. [S[s] EXCEPT !.locked = n] \in SurfType /\ [S[s] EXCEPT !.locked = m] \in SurfType
  BY <1>1, Zenon DEF SurfType
<1>5. /\ [S[s] EXCEPT !.locked = n].locked = n /\ [S[s] EXCEPT !.locked = m].locked = m
      /\ [S[s] EXCEPT !.locked = n].frame = S[s].frame
      /\ [S[s] EXCEPT !.locked = m].frame = S[s].frame
  BY <1>1 DEF SurfType
<1> QED BY <1>2, <1>3, <1>4, <1>5 DEF n, m

-----------------------------------------------------------------------------
(***************************************************************************)
(* The users of a surface                                                  *)
(***************************************************************************)

LEMMA QueuedElems ==
    ASSUME NEW B, NEW s
    PROVE  /\ \A q \in QueuedIn(B, s) : \E b \in Buffers : \E i \in 1 .. Len(B[b].list) :
                 q = <<b, i>> /\ B[b].list[i].surf = s
           /\ \A b \in Buffers : \A i \in 1 .. Len(B[b].list) :
                 B[b].list[i].surf = s => <<b, i>> \in QueuedIn(B, s)
<1>1. ASSUME NEW q \in QueuedIn(B, s)
      PROVE  \E b \in Buffers : \E i \in 1 .. Len(B[b].list) : q = <<b, i>> /\ B[b].list[i].surf = s
  <2>1. PICK b \in Buffers : q \in {b} \X Positions(B[b], s)
    BY DEF QueuedIn
  <2>2. PICK i \in Positions(B[b], s) : q = <<b, i>>
    BY <2>1
  <2> QED BY <2>2 DEF Positions
<1>2. ASSUME NEW b \in Buffers, NEW i \in 1 .. Len(B[b].list), B[b].list[i].surf = s
      PROVE  <<b, i>> \in QueuedIn(B, s)
  <2>1. i \in Positions(B[b], s)
    BY <1>2 DEF Positions
  <2>2. <<b, i>> \in {b} \X Positions(B[b], s)
    BY <2>1
  <2> QED BY <2>2 DEF QueuedIn
<1> QED BY <1>1, <1>2

LEMMA HeldElems ==
    ASSUME NEW E, NEW s
    PROVE  /\ \A q \in HeldIn(E, s) : \E e \in Sources : \E h \in E[e].hold :
                 q = <<e, h>> /\ h.surf = s
           /\ \A e \in Sources : \A h \in E[e].hold : h.surf = s => <<e, h>> \in HeldIn(E, s)
<1>1. ASSUME NEW q \in HeldIn(E, s)
      PROVE  \E e \in Sources : \E h \in E[e].hold : q = <<e, h>> /\ h.surf = s
  <2>1. PICK e \in Sources : q \in {e} \X {h \in E[e].hold : h.surf = s}
    BY DEF HeldIn
  <2> QED BY <2>1
<1>2. ASSUME NEW e \in Sources, NEW h \in E[e].hold, h.surf = s
      PROVE  <<e, h>> \in HeldIn(E, s)
  <2>1. <<e, h>> \in {e} \X {g \in E[e].hold : g.surf = s}
    BY <1>2
  <2> QED BY <2>1 DEF HeldIn
<1> QED BY <1>1, <1>2

\* The users depend on the lists, the decoders' surfaces and the inputs held.
LEMMA SameQueued ==
    ASSUME NEW B, NEW B2, NEW s, \A b \in Buffers : B2[b].list = B[b].list
    PROVE  QueuedIn(B2, s) = QueuedIn(B, s)
<1>1. \A b \in Buffers : Positions(B2[b], s) = Positions(B[b], s)
  BY DEF Positions
<1> QED BY <1>1 DEF QueuedIn

LEMMA SameHeld ==
    ASSUME NEW E, NEW E2, NEW s, \A e \in Sources : E2[e].hold = E[e].hold
    PROVE  HeldIn(E2, s) = HeldIn(E, s)
  BY DEF HeldIn

LEMMA SameDecoding ==
    ASSUME NEW D, NEW D2, NEW s, \A d \in Sinks : s \in D2[d].refs <=> s \in D[d].refs
    PROVE  DecodingIn(D2, s) = DecodingIn(D, s)
  BY DEF DecodingIn

\* A surface that nobody has locked has no user.
LEMMA Unused ==
    ASSUME NEW B, NEW S, NEW D, NEW E, Shared(B, S, D, E), NEW s \in Surfaces, S[s].locked = 0
    PROVE  /\ \A b \in Buffers : \A i \in 1 .. Len(B[b].list) : B[b].list[i].surf # s
           /\ \A d \in Sinks : s \notin D[d].refs
           /\ \A e \in Sources : \A h \in E[e].hold : h.surf # s
<1>1. Counted(B, D, E, s, 0)
  BY DEF Shared
<1>2. /\ Cardinality(QueuedIn(B, s)) \in Nat /\ Cardinality(DecodingIn(D, s)) \in Nat
      /\ Cardinality(HeldIn(E, s)) \in Nat
  BY <1>1, FS_CardinalityType DEF Counted
<1>3. /\ Cardinality(QueuedIn(B, s)) = 0 /\ Cardinality(DecodingIn(D, s)) = 0
      /\ Cardinality(HeldIn(E, s)) = 0
  BY <1>1, <1>2 DEF Counted
<1>4. QueuedIn(B, s) = {} /\ DecodingIn(D, s) = {} /\ HeldIn(E, s) = {}
  BY <1>1, <1>3, FS_EmptySet DEF Counted
<1> QED BY <1>4, QueuedElems, HeldElems, ZenonT(30) DEF DecodingIn

\* Locks are counted from 0.
LEMMA LockedNat ==
    ASSUME NEW B, NEW S, NEW D, NEW E, Shared(B, S, D, E), NEW s \in Surfaces
    PROVE  S[s].locked \in Nat
<1>1. Counted(B, D, E, s, S[s].locked)
  BY DEF Shared
<1>2. /\ Cardinality(QueuedIn(B, s)) \in Nat /\ Cardinality(DecodingIn(D, s)) \in Nat
      /\ Cardinality(HeldIn(E, s)) \in Nat
  BY <1>1, FS_CardinalityType DEF Counted
<1> QED BY <1>1, <1>2 DEF Counted

\* Steps that change no list, no surface and no user.
LEMMA SharedQuiet ==
    ASSUME NEW B, NEW S, NEW D, NEW E, Shared(B, S, D, E),
           NEW B2, NEW D2, NEW E2, SharedTypes(B2, S, D2, E2),
           \A b \in Buffers : B2[b].list = B[b].list,
           \A d \in Sinks : D2[d].refs = D[d].refs,
           \A e \in Sources : E2[e].hold = E[e].hold
    PROVE  Shared(B2, S, D2, E2)
<1>1. ASSUME NEW s \in Surfaces PROVE Counted(B2, D2, E2, s, S[s].locked)
  <2>1. Counted(B, D, E, s, S[s].locked)
    BY DEF Shared
  <2> QED BY <2>1, SameQueued, SameHeld, SameDecoding DEF Counted
<1>2. Intact(B2, S, E2)
  BY DEF Shared, Intact
<1> QED BY <1>1, <1>2 DEF Shared

\* x is queued in b.
LEMMA SharedAdd ==
    ASSUME NEW B, NEW S, NEW D, NEW E, Shared(B, S, D, E),
           NEW b \in Buffers, NEW x \in Items, NEW B2 \in [Buffers -> BufType],
           B2[b].list = Append(B[b].list, x),
           \A c \in Buffers \ {b} : B2[c].list = B[c].list,
           x.surf # None => S[x.surf].frame = x.frame
    PROVE  LET S2 == IF x.surf # None THEN Lock(S, x.surf) ELSE S
           IN  /\ Shared(B2, S2, D, E)
               /\ \A s \in Surfaces : S2[s].frame = S[s].frame
<1> DEFINE S2 == IF x.surf # None THEN Lock(S, x.surf) ELSE S
           l == B[b].list
           p == <<b, Len(l) + 1>>
<1>1. SharedTypes(B, S, D, E) /\ l \in Seq(Items) /\ x.surf \in Surfaces \cup {None}
  BY DEF Shared, SharedTypes, BufType, Items
<1>2. /\ Len(B2[b].list) = Len(l) + 1 /\ Len(l) \in Nat
      /\ \A i \in 1 .. Len(l) : B2[b].list[i] = l[i]
      /\ B2[b].list[Len(l) + 1] = x
  BY <1>1, AppendLemma
<1>3. \A i \in 1 .. Len(l) + 1 : i \in 1 .. Len(l) \/ i = Len(l) + 1
  BY <1>2
<1>4. /\ S2 \in [Surfaces -> SurfType]
      /\ \A s \in Surfaces : S2[s].frame = S[s].frame
      /\ \A s \in Surfaces : S2[s].locked = IF s = x.surf THEN S[s].locked + 1 ELSE S[s].locked
  <2>1. CASE x.surf # None
    <3>1. x.surf \in Surfaces /\ S2 = Lock(S, x.surf)
      BY <1>1, <2>1
    <3>2. S \in [Surfaces -> SurfType]
      BY <1>1 DEF SharedTypes
    <3> DEFINE t == x.surf
    <3> HIDE DEF S2, t
    <3>3. t \in Surfaces /\ S2 = Lock(S, t)
      BY <3>1 DEF t
    <3>4. /\ S2 \in [Surfaces -> SurfType]
          /\ S2[t].locked = S[t].locked + 1 /\ S2[t].frame = S[t].frame
          /\ \A s \in Surfaces : s # t => S2[s] = S[s]
      BY <3>2, <3>3, LockLemma
    <3> QED BY <3>3, <3>4 DEF t
  <2>2. CASE x.surf = None
    BY <1>1, <2>2, SurfacesLemma DEF SharedTypes
  <2> QED BY <2>1, <2>2
<1> HIDE DEF S2, l
<1>5. ASSUME NEW s \in Surfaces PROVE Counted(B2, D, E, s, S2[s].locked)
  <2>1. Counted(B, D, E, s, S[s].locked)
    BY DEF Shared
  <2>2. p \notin QueuedIn(B, s)
    <3>1. \A c \in Buffers : \A i \in 1 .. Len(B[c].list) : <<c, i>> # p
      BY <1>2 DEF l
    <3> QED BY <3>1, QueuedElems
  <2>3. ASSUME NEW q \in QueuedIn(B2, s) PROVE q \in QueuedIn(B, s) \/ (q = p /\ s = x.surf)
    <3>0. PICK c \in Buffers : \E i \in 1 .. Len(B2[c].list) : q = <<c, i>> /\ B2[c].list[i].surf = s
      BY <2>3, QueuedElems
    <3>1. PICK i \in 1 .. Len(B2[c].list) : q = <<c, i>> /\ B2[c].list[i].surf = s
      BY <3>0
    <3>2. CASE c # b
      BY <3>1, <3>2, QueuedElems
    <3>3. CASE c = b
      <4>1. CASE i \in 1 .. Len(l)
        BY <1>2, <3>1, <3>3, <4>1, QueuedElems DEF l
      <4>2. CASE i = Len(l) + 1
        BY <1>2, <3>1, <3>3, <4>2
      <4> QED BY <1>2, <1>3, <3>1, <3>3, <4>1, <4>2
    <3> QED BY <3>2, <3>3
  <2>4. ASSUME NEW q \in QueuedIn(B, s) PROVE q \in QueuedIn(B2, s)
    <3>0. PICK c \in Buffers : \E i \in 1 .. Len(B[c].list) : q = <<c, i>> /\ B[c].list[i].surf = s
      BY <2>4, QueuedElems
    <3>1. PICK i \in 1 .. Len(B[c].list) : q = <<c, i>> /\ B[c].list[i].surf = s
      BY <3>0
    <3>2. i \in 1 .. Len(B2[c].list) /\ B2[c].list[i] = B[c].list[i]
      <4>1. CASE c = b
        BY <1>2, <3>1, <4>1 DEF l
      <4>2. CASE c # b
        BY <3>1, <4>2
      <4> QED BY <4>1, <4>2
    <3> QED BY <3>1, <3>2, QueuedElems
  <2>5. s = x.surf => p \in QueuedIn(B2, s)
    <3>1. Len(l) + 1 \in 1 .. Len(B2[b].list)
      BY <1>2
    <3> QED BY <1>2, <3>1, QueuedElems
  <2> HIDE DEF p
  <2>6. CASE s = x.surf
    <3>1. QueuedIn(B2, s) = QueuedIn(B, s) \cup {p}
      BY <2>3, <2>4, <2>5, <2>6
    <3>2. /\ IsFiniteSet(QueuedIn(B2, s))
          /\ Cardinality(QueuedIn(B2, s)) = Cardinality(QueuedIn(B, s)) + 1
      BY <2>1, <2>2, <3>1, FS_AddElement DEF Counted
    <3>3. /\ Cardinality(QueuedIn(B, s)) \in Nat /\ Cardinality(DecodingIn(D, s)) \in Nat
          /\ Cardinality(HeldIn(E, s)) \in Nat
      BY <2>1, FS_CardinalityType DEF Counted
    <3> QED BY <1>4, <2>1, <2>6, <3>2, <3>3 DEF Counted
  <2>7. CASE s # x.surf
    <3>1. QueuedIn(B2, s) = QueuedIn(B, s)
      BY <2>3, <2>4, <2>7
    <3> QED BY <1>4, <2>1, <2>7, <3>1 DEF Counted
  <2> QED BY <2>6, <2>7
<1>6. Intact(B2, S2, E)
  <2>1. Intact(B, S, E)
    BY DEF Shared
  <2>2. ASSUME NEW c \in Buffers, NEW i \in 1 .. Len(B2[c].list), B2[c].list[i].surf # None
        PROVE  S2[B2[c].list[i].surf].frame = B2[c].list[i].frame
    <3>1. CASE c = b /\ i = Len(l) + 1
      BY <1>1, <1>2, <1>4, <2>2, <3>1
    <3>2. CASE ~(c = b /\ i = Len(l) + 1)
      <4>1. i \in 1 .. Len(B[c].list) /\ B2[c].list[i] = B[c].list[i]
        BY <1>2, <1>3, <3>2 DEF l
      <4>2. B2[c].list[i].surf \in Surfaces
        BY <2>2, ItemLemma
      <4> QED BY <1>4, <2>1, <2>2, <4>1, <4>2 DEF Intact
    <3> QED BY <3>1, <3>2
  <2>3. ASSUME NEW e \in Sources, NEW h \in E[e].hold PROVE S2[h.surf].frame = h.frame
    <3>1. h.surf \in Surfaces
      BY <1>1 DEF SharedTypes, EncType, Inputs
    <3> QED BY <1>4, <2>1, <3>1 DEF Intact
  <2> QED BY <2>2, <2>3 DEF Intact
<1> QED BY <1>1, <1>4, <1>5, <1>6 DEF Shared, SharedTypes, S2

LEMMA CountsLemma ==
    ASSUME NEW B, NEW D, NEW E, NEW s, NEW n, Counted(B, D, E, s, n)
    PROVE  /\ Cardinality(QueuedIn(B, s)) \in Nat /\ Cardinality(DecodingIn(D, s)) \in Nat
           /\ Cardinality(HeldIn(E, s)) \in Nat
           /\ n = Cardinality(QueuedIn(B, s)) + Cardinality(DecodingIn(D, s)) + Cardinality(HeldIn(E, s))
  BY FS_CardinalityType DEF Counted

\* The places of s, when place k of the list of b is erased: the places behind
\* it move forward, and none is lost but k itself.
LEMMA PlacesMove ==
    ASSUME NEW B \in [Buffers -> BufType], NEW B2 \in [Buffers -> BufType], NEW b \in Buffers,
           NEW k \in 1 .. Len(B[b].list), B2[b].list = EraseAt(B[b].list, k),
           \A c \in Buffers \ {b} : B2[c].list = B[c].list,
           NEW s, IsFiniteSet(QueuedIn(B, s))
    PROVE  /\ IsFiniteSet(QueuedIn(B2, s))
           /\ Cardinality(QueuedIn(B2, s)) =
                 IF B[b].list[k].surf = s THEN Cardinality(QueuedIn(B, s)) - 1
                 ELSE Cardinality(QueuedIn(B, s))
<1> DEFINE l == B[b].list
           m == B2[b].list
           P == QueuedIn(B, s) \ {<<b, k>>}
           Q == QueuedIn(B2, s)
           g == [p \in P |-> IF p[1] = b /\ p[2] > k THEN <<b, p[2] - 1>> ELSE p]
<1>1. /\ Len(m) = Len(l) - 1 /\ Len(l) \in Nat /\ k \in 1 .. Len(l)
      /\ \A i \in 1 .. Len(l) - 1 : m[i] = IF i < k THEN l[i] ELSE l[i + 1]
  <2>1. l \in Seq(Items)
    BY DEF BufType
  <2> QED BY <2>1, EraseLemma
<1>2. \A c \in Buffers : c # b => B2[c].list = B[c].list
  OBVIOUS
<1> HIDE DEF l, m
<1>3. ASSUME NEW p \in P
      PROVE  \/ p[1] # b /\ p \in Q
             \/ p[1] = b /\ p[2] \in 1 .. k - 1 /\ p \in Q
             \/ p[1] = b /\ p[2] \in k + 1 .. Len(l) /\ <<b, p[2] - 1>> \in Q
  <2>1. PICK c \in Buffers : \E i \in 1 .. Len(B[c].list) : p = <<c, i>> /\ B[c].list[i].surf = s
    BY QueuedElems
  <2>2. PICK i \in 1 .. Len(B[c].list) : p = <<c, i>> /\ B[c].list[i].surf = s
    BY <2>1
  <2>3. p[1] = c /\ p[2] = i
    BY <2>2
  <2>4. CASE c # b
    BY <1>2, <2>2, <2>3, <2>4, QueuedElems
  <2>5. CASE c = b /\ i < k
    <3>1. i \in 1 .. Len(m) /\ m[i].surf = s
      BY <1>1, <2>2, <2>5 DEF l
    <3>2. <<b, i>> \in Q
      BY <3>1, QueuedElems DEF m
    <3> QED BY <1>1, <2>2, <2>3, <2>5, <3>2
  <2>6. CASE c = b /\ i > k
    <3>1. i - 1 \in 1 .. Len(m) /\ m[i - 1] = l[i - 1 + 1] /\ i - 1 + 1 = i /\ i \in k + 1 .. Len(l)
      BY <1>1, <2>2, <2>6 DEF l
    <3>2. m[i - 1].surf = s
      BY <2>2, <2>6, <3>1 DEF l
    <3>3. <<b, i - 1>> \in Q
      BY <3>1, <3>2, QueuedElems DEF m
    <3> QED BY <1>1, <2>2, <2>3, <2>6, <3>1, <3>3
  <2>7. ~(c = b /\ i = k)
    BY <2>2
  <2> QED BY <1>1, <2>4, <2>5, <2>6, <2>7 DEF l
<1>4. ASSUME NEW q \in Q
      PROVE  \E p \in P : q = IF p[1] = b /\ p[2] > k THEN <<b, p[2] - 1>> ELSE p
  <2>1. PICK c \in Buffers : \E i \in 1 .. Len(B2[c].list) : q = <<c, i>> /\ B2[c].list[i].surf = s
    BY QueuedElems
  <2>2. PICK i \in 1 .. Len(B2[c].list) : q = <<c, i>> /\ B2[c].list[i].surf = s
    BY <2>1
  <2>3. q[1] = c /\ q[2] = i
    BY <2>2
  <2>4. CASE c # b
    <3>1. q \in P
      BY <1>2, <2>2, <2>4, QueuedElems
    <3> QED BY <2>3, <2>4, <3>1
  <2>5. CASE c = b /\ i < k
    <3>1. i \in 1 .. Len(l) /\ l[i].surf = s
      BY <1>1, <2>2, <2>5 DEF m
    <3>2. q \in P
      BY <2>2, <2>5, <3>1, <1>1, QueuedElems DEF l
    <3> QED BY <1>1, <2>3, <2>5, <3>1, <3>2
  <2>6. CASE c = b /\ i >= k
    <3>1. i + 1 \in 1 .. Len(l) /\ l[i + 1].surf = s /\ i + 1 > k /\ i + 1 # k /\ i + 1 - 1 = i
      BY <1>1, <2>2, <2>6 DEF m
    <3>2. <<b, i + 1>> \in QueuedIn(B, s)
      BY <3>1, QueuedElems DEF l
    <3> DEFINE p == <<b, i + 1>>
    <3>3. p \in P
      BY <3>1, <3>2
    <3>4. p[1] = b /\ p[2] = i + 1 /\ <<b, p[2] - 1>> = <<b, i>>
      BY <3>1
    <3> HIDE DEF p
    <3>5. p[1] = b /\ p[2] > k /\ q = <<b, p[2] - 1>>
      BY <2>2, <2>6, <3>1, <3>4
    <3> QED BY <3>3, <3>5
  <2> QED BY <1>1, <2>4, <2>5, <2>6 DEF m
<1>5. \A p \in P : p = <<p[1], p[2]>>
  <2>1. ASSUME NEW p \in P PROVE p = <<p[1], p[2]>>
    <3>1. PICK c \in Buffers : \E i \in 1 .. Len(B[c].list) : p = <<c, i>> /\ B[c].list[i].surf = s
      BY QueuedElems
    <3> QED BY <3>1
  <2> QED BY <2>1
<1> HIDE DEF P, Q
<1>6. g \in [P -> Q]
  BY <1>1, <1>3
<1>10. ASSUME NEW p \in P, p[1] = b PROVE p[2] \in 1 .. Len(l) /\ p[2] # k
  <2>1. p[2] \in 1 .. k - 1 \/ p[2] \in k + 1 .. Len(l)
    BY <1>3, <1>10
  <2> QED BY <1>1, <2>1
<1>7. ASSUME NEW p \in P, NEW q \in P, g[p] = g[q] PROVE p = q
  <2>1. g[p] = IF p[1] = b /\ p[2] > k THEN <<b, p[2] - 1>> ELSE p
    OBVIOUS
  <2>2. g[q] = IF q[1] = b /\ q[2] > k THEN <<b, q[2] - 1>> ELSE q
    OBVIOUS
  <2> HIDE DEF g
  <2>3. p = <<p[1], p[2]>> /\ q = <<q[1], q[2]>>
    BY <1>5
  <2>4. p[1] = b => p[2] \in 1 .. Len(l) /\ p[2] # k
    BY <1>10
  <2>5. q[1] = b => q[2] \in 1 .. Len(l) /\ q[2] # k
    BY <1>10
  <2>6. CASE p[1] = b /\ p[2] > k /\ q[1] = b /\ q[2] > k
    <3>0. <<b, p[2] - 1>> = <<b, q[2] - 1>>
      BY <1>7, <2>1, <2>2, <2>6
    <3>1. p[2] - 1 = q[2] - 1
      BY <3>0
    <3>2. p[2] = q[2]
      BY <1>1, <2>4, <2>5, <2>6, <3>1
    <3> QED BY <2>3, <2>6, <3>2
  <2>7. CASE p[1] = b /\ p[2] > k /\ ~(q[1] = b /\ q[2] > k)
    <3>1. q = <<b, p[2] - 1>>
      BY <1>7, <2>1, <2>2, <2>7
    <3>2. q[1] = b /\ q[2] = p[2] - 1
      BY <3>1
    <3> QED BY <1>1, <2>4, <2>5, <2>7, <3>2
  <2>8. CASE q[1] = b /\ q[2] > k /\ ~(p[1] = b /\ p[2] > k)
    <3>1. p = <<b, q[2] - 1>>
      BY <1>7, <2>1, <2>2, <2>8
    <3>2. p[1] = b /\ p[2] = q[2] - 1
      BY <3>1
    <3> QED BY <1>1, <2>4, <2>5, <2>8, <3>2
  <2>9. CASE ~(q[1] = b /\ q[2] > k) /\ ~(p[1] = b /\ p[2] > k)
    BY <1>7, <2>1, <2>2, <2>9
  <2> QED BY <2>6, <2>7, <2>8, <2>9
<1>8. \A q \in Q : \E p \in P : g[p] = q
  <2>1. ASSUME NEW q \in Q PROVE \E p \in P : g[p] = q
    <3>1. PICK p \in P : q = IF p[1] = b /\ p[2] > k THEN <<b, p[2] - 1>> ELSE p
      BY <1>4
    <3>2. g[p] = q
      BY <3>1
    <3> QED BY <3>2
  <2> QED BY <2>1
<1> HIDE DEF g
<1>9. ExistsBijection(P, Q)
  <2>1. g \in Injection(P, Q)
    BY <1>6, <1>7 DEF Injection, IsInjective
  <2>2. g \in Surjection(P, Q)
    BY <1>6, <1>8 DEF Surjection
  <2> QED BY <2>1, <2>2 DEF ExistsBijection, Bijection
<1>11. <<b, k>> \in QueuedIn(B, s) <=> B[b].list[k].surf = s
  <2>1. B[b].list[k].surf = s => <<b, k>> \in QueuedIn(B, s)
    BY QueuedElems
  <2>2. <<b, k>> \in QueuedIn(B, s) => B[b].list[k].surf = s
    BY QueuedElems
  <2> QED BY <2>1, <2>2
<1>12. /\ IsFiniteSet(P)
       /\ Cardinality(P) = IF B[b].list[k].surf = s THEN Cardinality(QueuedIn(B, s)) - 1
                          ELSE Cardinality(QueuedIn(B, s))
  BY <1>11, FS_RemoveElement DEF P
<1> QED BY <1>9, <1>12, FS_Bijection DEF Q

\* Place k of the list of b is erased.
LEMMA SharedErase ==
    ASSUME NEW B, NEW S, NEW D, NEW E, Shared(B, S, D, E),
           NEW b \in Buffers, NEW k \in 1 .. Len(B[b].list), NEW t, t = B[b].list[k].surf,
           NEW B2 \in [Buffers -> BufType], B2[b].list = EraseAt(B[b].list, k),
           \A c \in Buffers \ {b} : B2[c].list = B[c].list
    PROVE  LET S2 == IF t # None THEN Unlock(S, t) ELSE S
           IN  /\ Shared(B2, S2, D, E)
               /\ \A s \in Surfaces : S2[s].frame = S[s].frame
<1> DEFINE S2 == IF t # None THEN Unlock(S, t) ELSE S
<1>1. SharedTypes(B, S, D, E) /\ B[b].list \in Seq(Items) /\ t \in Surfaces \cup {None}
  BY ItemLemma DEF Shared, SharedTypes, BufType
<1>2. /\ S2 \in [Surfaces -> SurfType]
      /\ \A s \in Surfaces : S2[s].frame = S[s].frame
      /\ \A s \in Surfaces : S2[s].locked = IF s = t THEN S[s].locked - 1 ELSE S[s].locked
  <2>1. CASE t # None
    <3>1. t \in Surfaces /\ S2 = Unlock(S, t) /\ S \in [Surfaces -> SurfType]
      BY <1>1, <2>1 DEF SharedTypes
    <3> HIDE DEF S2
    <3>2. /\ S2 \in [Surfaces -> SurfType]
          /\ S2[t].locked = S[t].locked - 1 /\ S2[t].frame = S[t].frame
          /\ \A s \in Surfaces : s # t => S2[s] = S[s]
      BY <3>1, LockLemma
    <3> QED BY <3>1, <3>2
  <2>2. CASE t = None
    BY <1>1, <2>2, SurfacesLemma DEF SharedTypes
  <2> QED BY <2>1, <2>2
<1> HIDE DEF S2
<1>3. B \in [Buffers -> BufType]
  BY <1>1 DEF SharedTypes
<1>4. ASSUME NEW s \in Surfaces PROVE Counted(B2, D, E, s, S2[s].locked)
  <2>1. Counted(B, D, E, s, S[s].locked)
    BY DEF Shared
  <2>2. IsFiniteSet(QueuedIn(B, s))
    BY <2>1 DEF Counted
  <2>3. /\ IsFiniteSet(QueuedIn(B2, s))
        /\ Cardinality(QueuedIn(B2, s)) =
              IF t = s THEN Cardinality(QueuedIn(B, s)) - 1 ELSE Cardinality(QueuedIn(B, s))
    BY <1>3, <2>2, PlacesMove
  <2> QED BY <1>2, <2>1, <2>3, CountsLemma, SMTT(20) DEF Counted
<1>5. Intact(B2, S2, E)
  <2>1. Intact(B, S, E)
    BY DEF Shared
  <2>2. ASSUME NEW c \in Buffers, NEW i \in 1 .. Len(B2[c].list)
        PROVE  \E j \in 1 .. Len(B[c].list) : B2[c].list[i] = B[c].list[j]
    <3>1. CASE c = b
      <4> DEFINE l == B[b].list
      <4>1. l \in Seq(Items) /\ k \in 1 .. Len(l)
        BY <1>1
      <4>2. B2[c].list = EraseAt(l, k) /\ B[c].list = l
        BY <3>1
      <4> HIDE DEF l
      <4>3. /\ Len(EraseAt(l, k)) = Len(l) - 1 /\ Len(l) \in Nat
            /\ \A j \in 1 .. Len(l) - 1 : EraseAt(l, k)[j] = IF j < k THEN l[j] ELSE l[j + 1]
        BY <4>1, EraseLemma
      <4>4. i \in 1 .. Len(l) - 1
        BY <4>2, <4>3
      <4>5. EraseAt(l, k)[i] = IF i < k THEN l[i] ELSE l[i + 1]
        BY <4>3, <4>4
      <4>6. i \in 1 .. Len(l) /\ i + 1 \in 1 .. Len(l)
        BY <4>3, <4>4
      <4> QED BY <4>2, <4>5, <4>6
    <3>2. CASE c # b
      BY <3>2
    <3> QED BY <3>1, <3>2
  <2>3. ASSUME NEW c \in Buffers, NEW i \in 1 .. Len(B2[c].list), B2[c].list[i].surf # None
        PROVE  S2[B2[c].list[i].surf].frame = B2[c].list[i].frame
    <3>1. B2[c].list[i].surf \in Surfaces
      BY <2>3, ItemLemma
    <3>2. PICK j \in 1 .. Len(B[c].list) : B2[c].list[i] = B[c].list[j]
      BY <2>2
    <3>3. S[B[c].list[j].surf].frame = B[c].list[j].frame
      BY <2>1, <2>3, <3>2 DEF Intact
    <3> QED BY <1>2, <3>1, <3>2, <3>3
  <2>4. ASSUME NEW e \in Sources, NEW h \in E[e].hold PROVE S2[h.surf].frame = h.frame
    <3>1. h.surf \in Surfaces
      BY <1>1 DEF SharedTypes, EncType, Inputs
    <3> QED BY <1>2, <2>1, <3>1 DEF Intact
  <2> QED BY <2>3, <2>4 DEF Intact
<1> QED BY <1>1, <1>2, <1>4, <1>5 DEF Shared, SharedTypes, S2

\* The codecs of e lock the input h, which they had not locked.
LEMMA SharedHold ==
    ASSUME NEW B, NEW S, NEW D, NEW E, Shared(B, S, D, E),
           NEW e \in Sources, NEW h \in Inputs, h \notin E[e].hold, h.frame = S[h.surf].frame,
           NEW E2 \in [Sources -> EncType], E2[e].hold = E[e].hold \cup {h},
           \A c \in Sources \ {e} : E2[c].hold = E[c].hold
    PROVE  /\ Shared(B, Lock(S, h.surf), D, E2)
           /\ \A s \in Surfaces : Lock(S, h.surf)[s].frame = S[s].frame
<1> DEFINE t == h.surf
           S2 == Lock(S, t)
<1>1. SharedTypes(B, S, D, E) /\ t \in Surfaces
  BY DEF Shared, Inputs
<1>2. S \in [Surfaces -> SurfType]
  BY <1>1 DEF SharedTypes
<1>0. h.frame = S[t].frame
  OBVIOUS
<1> HIDE DEF t
<1>3. /\ S2 \in [Surfaces -> SurfType]
      /\ \A s \in Surfaces : S2[s].frame = S[s].frame
      /\ \A s \in Surfaces : S2[s].locked = IF s = t THEN S[s].locked + 1 ELSE S[s].locked
  <2>1. S2 = Lock(S, t)
    OBVIOUS
  <2> HIDE DEF S2
  <2>2. /\ S2 \in [Surfaces -> SurfType]
        /\ S2[t].locked = S[t].locked + 1 /\ S2[t].frame = S[t].frame
        /\ \A s \in Surfaces : s # t => S2[s] = S[s]
    BY <1>1, <1>2, <2>1, LockLemma
  <2> QED BY <2>2
<1> HIDE DEF S2
<1>4. ASSUME NEW s \in Surfaces PROVE Counted(B, D, E2, s, S2[s].locked)
  <2>1. Counted(B, D, E, s, S[s].locked)
    BY DEF Shared
  <2>2. ASSUME NEW q \in HeldIn(E2, s) PROVE q \in HeldIn(E, s) \/ (q = <<e, h>> /\ s = t)
    <3>1. PICK c \in Sources : \E g \in E2[c].hold : q = <<c, g>> /\ g.surf = s
      BY <2>2, HeldElems
    <3>2. PICK g \in E2[c].hold : q = <<c, g>> /\ g.surf = s
      BY <3>1
    <3>3. g \in E[c].hold \/ (c = e /\ g = h)
      BY <3>2
    <3> QED BY <3>2, <3>3, HeldElems DEF t
  <2>3. ASSUME NEW q \in HeldIn(E, s) PROVE q \in HeldIn(E2, s)
    <3>1. PICK c \in Sources : \E g \in E[c].hold : q = <<c, g>> /\ g.surf = s
      BY <2>3, HeldElems
    <3>2. PICK g \in E[c].hold : q = <<c, g>> /\ g.surf = s
      BY <3>1
    <3>3. g \in E2[c].hold
      BY <3>2
    <3> QED BY <3>2, <3>3, HeldElems
  <2>4. s = t => <<e, h>> \in HeldIn(E2, s)
    BY HeldElems DEF t
  <2>5. <<e, h>> \notin HeldIn(E, s)
    BY HeldElems
  <2>6. IsFiniteSet(HeldIn(E, s))
    BY <2>1 DEF Counted
  <2>7. CASE s = t
    <3>1. HeldIn(E2, s) = HeldIn(E, s) \cup {<<e, h>>}
      BY <2>2, <2>3, <2>4, <2>7
    <3>2. /\ IsFiniteSet(HeldIn(E2, s))
          /\ Cardinality(HeldIn(E2, s)) = Cardinality(HeldIn(E, s)) + 1
      <4> DEFINE Q == HeldIn(E, s)
                 p == <<e, h>>
      <4>1. HeldIn(E2, s) = Q \cup {p} /\ p \notin Q /\ IsFiniteSet(Q)
        BY <2>5, <2>6, <3>1
      <4> HIDE DEF Q, p
      <4>2. IsFiniteSet(Q \cup {p}) /\ Cardinality(Q \cup {p}) = Cardinality(Q) + 1
        BY <4>1, FS_AddElement
      <4> QED BY <4>1, <4>2 DEF Q
    <3> QED BY <1>3, <2>1, <2>7, <3>2, CountsLemma DEF Counted
  <2>8. CASE s # t
    <3>1. HeldIn(E2, s) = HeldIn(E, s)
      BY <2>2, <2>3, <2>8
    <3> QED BY <1>3, <2>1, <2>8, <3>1 DEF Counted
  <2> QED BY <2>7, <2>8
<1>5. Intact(B, S2, E2)
  <2>1. Intact(B, S, E)
    BY DEF Shared
  <2>2. ASSUME NEW c \in Buffers, NEW i \in 1 .. Len(B[c].list), B[c].list[i].surf # None
        PROVE  S2[B[c].list[i].surf].frame = B[c].list[i].frame
    <3>1. B[c].list[i].surf \in Surfaces
      BY <1>1, <2>2, ItemLemma DEF SharedTypes
    <3> QED BY <1>3, <2>1, <2>2, <3>1 DEF Intact
  <2>3. ASSUME NEW c \in Sources, NEW g \in E2[c].hold PROVE S2[g.surf].frame = g.frame
    <3>1. CASE g \in E[c].hold
      <4>1. g.surf \in Surfaces
        BY <1>1, <3>1 DEF SharedTypes, EncType, Inputs
      <4> QED BY <1>3, <2>1, <3>1, <4>1 DEF Intact
    <3>2. CASE g = h
      BY <1>0, <1>1, <1>3, <3>2 DEF t
    <3>3. g \in E[c].hold \/ g = h
      BY <2>3
    <3> QED BY <3>1, <3>2, <3>3
  <2> QED BY <2>2, <2>3 DEF Intact
<1> QED BY <1>1, <1>3, <1>4, <1>5 DEF Shared, SharedTypes, S2, t

\* The codecs of e unlock the input h.
LEMMA SharedUnhold ==
    ASSUME NEW B, NEW S, NEW D, NEW E, Shared(B, S, D, E),
           NEW e \in Sources, NEW h \in E[e].hold,
           NEW E2 \in [Sources -> EncType], E2[e].hold = E[e].hold \ {h},
           \A c \in Sources \ {e} : E2[c].hold = E[c].hold
    PROVE  /\ Shared(B, Unlock(S, h.surf), D, E2)
           /\ \A s \in Surfaces : Unlock(S, h.surf)[s].frame = S[s].frame
<1> DEFINE t == h.surf
           S2 == Unlock(S, t)
<1>1. SharedTypes(B, S, D, E) /\ t \in Surfaces
  BY DEF Shared, SharedTypes, EncType, Inputs
<1>2. S \in [Surfaces -> SurfType]
  BY <1>1 DEF SharedTypes
<1> HIDE DEF t
<1>3. /\ S2 \in [Surfaces -> SurfType]
      /\ \A s \in Surfaces : S2[s].frame = S[s].frame
      /\ \A s \in Surfaces : S2[s].locked = IF s = t THEN S[s].locked - 1 ELSE S[s].locked
  <2>1. S2 = Unlock(S, t)
    OBVIOUS
  <2> HIDE DEF S2
  <2>2. /\ S2 \in [Surfaces -> SurfType]
        /\ S2[t].locked = S[t].locked - 1 /\ S2[t].frame = S[t].frame
        /\ \A s \in Surfaces : s # t => S2[s] = S[s]
    BY <1>1, <1>2, <2>1, LockLemma
  <2> QED BY <2>2
<1> HIDE DEF S2
<1>4. ASSUME NEW s \in Surfaces PROVE Counted(B, D, E2, s, S2[s].locked)
  <2>1. Counted(B, D, E, s, S[s].locked)
    BY DEF Shared
  <2>2. ASSUME NEW q \in HeldIn(E2, s) PROVE q \in HeldIn(E, s) \ {<<e, h>>}
    <3>1. PICK c \in Sources : \E g \in E2[c].hold : q = <<c, g>> /\ g.surf = s
      BY <2>2, HeldElems
    <3>2. PICK g \in E2[c].hold : q = <<c, g>> /\ g.surf = s
      BY <3>1
    <3>3. g \in E[c].hold /\ ~(c = e /\ g = h)
      BY <3>2
    <3> QED BY <3>2, <3>3, HeldElems
  <2>3. ASSUME NEW q \in HeldIn(E, s), q # <<e, h>> PROVE q \in HeldIn(E2, s)
    <3>1. PICK c \in Sources : \E g \in E[c].hold : q = <<c, g>> /\ g.surf = s
      BY <2>3, HeldElems
    <3>2. PICK g \in E[c].hold : q = <<c, g>> /\ g.surf = s
      BY <3>1
    <3>3. g \in E2[c].hold
      BY <2>3, <3>2
    <3> QED BY <3>2, <3>3, HeldElems
  <2>4. HeldIn(E2, s) = HeldIn(E, s) \ {<<e, h>>}
    BY <2>2, <2>3
  <2>5. <<e, h>> \in HeldIn(E, s) <=> s = t
    <3>1. <<e, h>> \in HeldIn(E, s) => s = t
      BY HeldElems DEF t
    <3>2. s = t => <<e, h>> \in HeldIn(E, s)
      BY HeldElems DEF t
    <3> QED BY <3>1, <3>2
  <2>6. /\ IsFiniteSet(HeldIn(E2, s))
        /\ Cardinality(HeldIn(E2, s)) = IF s = t THEN Cardinality(HeldIn(E, s)) - 1
                                        ELSE Cardinality(HeldIn(E, s))
    BY <2>1, <2>4, <2>5, FS_RemoveElement, ZenonT(30) DEF Counted
  <2> QED BY <1>3, <2>1, <2>6, CountsLemma DEF Counted
<1>5. Intact(B, S2, E2)
  <2>1. Intact(B, S, E)
    BY DEF Shared
  <2>2. ASSUME NEW c \in Buffers, NEW i \in 1 .. Len(B[c].list), B[c].list[i].surf # None
        PROVE  S2[B[c].list[i].surf].frame = B[c].list[i].frame
    <3>1. B[c].list[i].surf \in Surfaces
      BY <1>1, <2>2, ItemLemma DEF SharedTypes
    <3> QED BY <1>3, <2>1, <2>2, <3>1 DEF Intact
  <2>3. ASSUME NEW c \in Sources, NEW g \in E2[c].hold PROVE S2[g.surf].frame = g.frame
    <3>1. g \in E[c].hold
      BY <2>3
    <3>2. g.surf \in Surfaces
      BY <1>1, <3>1 DEF SharedTypes, EncType, Inputs
    <3> QED BY <1>3, <2>1, <3>1, <3>2 DEF Intact
  <2> QED BY <2>2, <2>3 DEF Intact
<1> QED BY <1>1, <1>3, <1>4, <1>5 DEF Shared, SharedTypes, S2, t

\* The decoder of d writes the frame f into a surface that nobody has locked.
LEMMA SharedDecode ==
    ASSUME NEW B, NEW S, NEW D, NEW E, Shared(B, S, D, E),
           NEW d \in Sinks, NEW s \in Surfaces, S[s].locked = 0,
           NEW D2 \in [Sinks -> DecType], D2[d].refs = D[d].refs \cup {s},
           \A c \in Sinks \ {d} : D2[c].refs = D[c].refs,
           NEW S2 \in [Surfaces -> SurfType], S2[s].locked = 1,
           \A t \in Surfaces \ {s} : S2[t] = S[t]
    PROVE  Shared(B, S2, D2, E)
<1>1. SharedTypes(B, S, D, E)
  BY DEF Shared
<1>2. /\ \A b \in Buffers : \A i \in 1 .. Len(B[b].list) : B[b].list[i].surf # s
      /\ \A c \in Sinks : s \notin D[c].refs
      /\ \A e \in Sources : \A h \in E[e].hold : h.surf # s
  BY Unused
<1>3. ASSUME NEW t \in Surfaces PROVE Counted(B, D2, E, t, S2[t].locked)
  <2>1. Counted(B, D, E, t, S[t].locked)
    BY DEF Shared
  <2>2. DecodingIn(D2, t) = IF t = s THEN DecodingIn(D, t) \cup {d} ELSE DecodingIn(D, t)
    <3>1. \A c \in Sinks : t \in D2[c].refs <=> t \in D[c].refs \/ (c = d /\ t = s)
      OBVIOUS
    <3> QED BY <3>1 DEF DecodingIn
  <2>3. d \notin DecodingIn(D, s)
    BY <1>2 DEF DecodingIn
  <2>4. /\ IsFiniteSet(DecodingIn(D2, t))
        /\ Cardinality(DecodingIn(D2, t)) = IF t = s THEN Cardinality(DecodingIn(D, t)) + 1
                                            ELSE Cardinality(DecodingIn(D, t))
    <3>1. IsFiniteSet(DecodingIn(D, t))
      BY <2>1 DEF Counted
    <3>2. CASE t = s
      <4>1. DecodingIn(D2, t) = DecodingIn(D, t) \cup {d} /\ d \notin DecodingIn(D, t)
        BY <2>2, <2>3, <3>2
      <4> QED BY <3>1, <3>2, <4>1, FS_AddElement
    <3>3. CASE t # s
      BY <2>2, <3>1, <3>3
    <3> QED BY <3>2, <3>3
  <2>5. S2[t].locked = IF t = s THEN S[t].locked + 1 ELSE S[t].locked
    OBVIOUS
  <2> QED BY <2>1, <2>4, <2>5, CountsLemma DEF Counted
<1>4. Intact(B, S2, E)
  <2>1. Intact(B, S, E)
    BY DEF Shared
  <2>2. ASSUME NEW c \in Buffers, NEW i \in 1 .. Len(B[c].list), B[c].list[i].surf # None
        PROVE  S2[B[c].list[i].surf].frame = B[c].list[i].frame
    <3>1. B[c].list[i].surf \in Surfaces \ {s}
      BY <1>1, <1>2, <2>2, ItemLemma DEF SharedTypes
    <3> QED BY <2>1, <2>2, <3>1 DEF Intact
  <2>3. ASSUME NEW e \in Sources, NEW h \in E[e].hold PROVE S2[h.surf].frame = h.frame
    <3>1. h.surf \in Surfaces \ {s}
      BY <1>1, <1>2 DEF SharedTypes, EncType, Inputs
    <3> QED BY <2>1, <3>1 DEF Intact
  <2> QED BY <2>2, <2>3 DEF Intact
<1> QED BY <1>1, <1>3, <1>4 DEF Shared, SharedTypes

\* The decoder of d no longer needs the surface s.
LEMMA SharedUnref ==
    ASSUME NEW B, NEW S, NEW D, NEW E, Shared(B, S, D, E),
           NEW d \in Sinks, NEW s \in D[d].refs,
           NEW D2 \in [Sinks -> DecType], D2[d].refs = D[d].refs \ {s},
           \A c \in Sinks \ {d} : D2[c].refs = D[c].refs
    PROVE  /\ Shared(B, Unlock(S, s), D2, E)
           /\ \A t \in Surfaces : Unlock(S, s)[t].frame = S[t].frame
<1> DEFINE S2 == Unlock(S, s)
<1>1. SharedTypes(B, S, D, E) /\ s \in Surfaces /\ S \in [Surfaces -> SurfType]
  BY DEF Shared, SharedTypes, DecType
<1>2. /\ S2 \in [Surfaces -> SurfType]
      /\ \A t \in Surfaces : S2[t].frame = S[t].frame
      /\ \A t \in Surfaces : S2[t].locked = IF t = s THEN S[t].locked - 1 ELSE S[t].locked
  <2>1. S2 = Unlock(S, s)
    OBVIOUS
  <2> HIDE DEF S2
  <2>2. /\ S2 \in [Surfaces -> SurfType]
        /\ S2[s].locked = S[s].locked - 1 /\ S2[s].frame = S[s].frame
        /\ \A t \in Surfaces : t # s => S2[t] = S[t]
    BY <1>1, <2>1, LockLemma
  <2> QED BY <2>2
<1> HIDE DEF S2
<1>3. ASSUME NEW t \in Surfaces PROVE Counted(B, D2, E, t, S2[t].locked)
  <2>1. Counted(B, D, E, t, S[t].locked)
    BY DEF Shared
  <2>2. DecodingIn(D2, t) = IF t = s THEN DecodingIn(D, t) \ {d} ELSE DecodingIn(D, t)
    <3>1. \A c \in Sinks : t \in D2[c].refs <=> t \in D[c].refs /\ ~(c = d /\ t = s)
      OBVIOUS
    <3> QED BY <3>1 DEF DecodingIn
  <2>3. d \in DecodingIn(D, s)
    BY DEF DecodingIn
  <2>4. /\ IsFiniteSet(DecodingIn(D2, t))
        /\ Cardinality(DecodingIn(D2, t)) = IF t = s THEN Cardinality(DecodingIn(D, t)) - 1
                                            ELSE Cardinality(DecodingIn(D, t))
    <3>1. IsFiniteSet(DecodingIn(D, t))
      BY <2>1 DEF Counted
    <3>2. CASE t = s
      <4>1. DecodingIn(D2, t) = DecodingIn(D, t) \ {d} /\ d \in DecodingIn(D, t)
        BY <2>2, <2>3, <3>2
      <4> QED BY <3>1, <3>2, <4>1, FS_RemoveElement
    <3>3. CASE t # s
      BY <2>2, <3>1, <3>3
    <3> QED BY <3>2, <3>3
  <2> QED BY <1>2, <2>1, <2>4, CountsLemma DEF Counted
<1>4. Intact(B, S2, E)
  <2>1. Intact(B, S, E)
    BY DEF Shared
  <2>2. ASSUME NEW c \in Buffers, NEW i \in 1 .. Len(B[c].list), B[c].list[i].surf # None
        PROVE  S2[B[c].list[i].surf].frame = B[c].list[i].frame
    <3>1. B[c].list[i].surf \in Surfaces
      BY <1>1, <2>2, ItemLemma DEF SharedTypes
    <3> QED BY <1>2, <2>1, <2>2, <3>1 DEF Intact
  <2>3. ASSUME NEW e \in Sources, NEW h \in E[e].hold PROVE S2[h.surf].frame = h.frame
    <3>1. h.surf \in Surfaces
      BY <1>1 DEF SharedTypes, EncType, Inputs
    <3> QED BY <1>2, <2>1, <3>1 DEF Intact
  <2> QED BY <2>2, <2>3 DEF Intact
<1> QED BY <1>1, <1>2, <1>3, <1>4 DEF Shared, SharedTypes, S2

\* Nothing is queued, locked or held.
LEMMA SharedReset ==
    ASSUME NEW B, NEW S, NEW D, NEW E, SharedTypes(B, S, D, E),
           \A b \in Buffers : B[b].list = << >>,
           \A s \in Surfaces : S[s].locked = 0,
           \A d \in Sinks : D[d].refs = {},
           \A e \in Sources : E[e].hold = {}
    PROVE  Shared(B, S, D, E)
<1>1. ASSUME NEW s \in Surfaces PROVE Counted(B, D, E, s, S[s].locked)
  <2>1. QueuedIn(B, s) = {}
    <3>1. \A b \in Buffers : 1 .. Len(B[b].list) = {}
      OBVIOUS
    <3> QED BY <3>1, QueuedElems
  <2>2. DecodingIn(D, s) = {}
    BY DEF DecodingIn
  <2>3. HeldIn(E, s) = {}
    BY HeldElems
  <2> QED BY <2>1, <2>2, <2>3, FS_EmptySet DEF Counted
<1>2. Intact(B, S, E)
  BY DEF Intact
<1> QED BY <1>1, <1>2 DEF Shared

-----------------------------------------------------------------------------
(***************************************************************************)
(* What a step of one thread leaves alone                                  *)
(***************************************************************************)

\* Only the frames in the surfaces of d matter to its thread and its decoder.
LEMMA SinkDataFrames ==
    ASSUME NEW d \in Sinks, NEW K, NEW D, NEW S, NEW S2, NEW n,
           \A s \in Pool[d] : S2[s].frame = S[s].frame
    PROVE  /\ SinkData(d, K, S) => SinkData(d, K, S2)
           /\ DecData(d, D, S, n) => DecData(d, D, S2, n)
<1>1. SinkData(d, K, S) => SinkData(d, K, S2)
  BY DEF SinkData
<1>2. ASSUME DecData(d, D, S, n) PROVE DecData(d, D, S2, n)
  <2>1. \A i \in 1 .. Len(D.pend) : D.pend[i] \in Pool[d]
    BY <1>2 DEF DecData
  <2> QED BY <1>2, <2>1 DEF DecData
<1> QED BY <1>1, <1>2

LEMMA DataFacts ==
    ASSUME DataInv
    PROVE  /\ buf \in [Buffers -> BufType] /\ surf \in [Surfaces -> SurfType]
           /\ dec \in [Sinks -> DecType] /\ enc \in [Sources -> EncType]
           /\ \A d \in Sinks : DOMAIN sink[d] = SinkFields
           /\ \A e \in Sources : DOMAIN src[e] = SrcFields
           /\ DOMAIN sink = Sinks /\ DOMAIN src = Sources /\ DOMAIN sts = Sessions
  BY DEF DataInv, Shared, SharedTypes, ThreadInv, SinkOK, SrcOK

\* A step of the thread of d, or of its decoder: it appends to buffers.
LEMMA SinkStep ==
    ASSUME DataInv, ThreadInv', NEW d \in Sinks,
           src' = src, stop' = stop,
           \A x \in Sessions \ {d} : sts'[x] = sts[x],
           \A c \in Sinks \ {d} : sink'[c] = sink[c] /\ dec'[c] = dec[c],
           Shared(buf', surf', dec', enc'),
           \A s \in Surfaces \ Pool[d] : surf'[s].frame = surf[s].frame,
           SinkData(d, sink'[d], surf'), DecData(d, dec'[d], surf', sink'[d].n),
           \A b \in Buffers : /\ ~NoSurface(buf[b]) => AtFront(buf'[b], Front(buf[b]))
                              /\ buf'[b].allowed = buf[b].allowed
                              /\ ~buf[b].allowed => buf'[b].list = buf[b].list
    PROVE  DataInv'
<1>1. ASSUME NEW c \in Sinks
      PROVE  SinkData(c, sink'[c], surf') /\ DecData(c, dec'[c], surf', sink'[c].n)
  <2>1. CASE c # d
    <3>1. \A s \in Pool[c] : surf'[s].frame = surf[s].frame
      BY <2>1, SurfacesLemma
    <3>2. SinkData(c, sink[c], surf) /\ DecData(c, dec[c], surf, sink[c].n)
      BY DEF DataInv
    <3>3. sink'[c] = sink[c] /\ dec'[c] = dec[c]
      BY <2>1
    <3> QED BY <3>1, <3>2, <3>3, SinkDataFrames
  <2> QED BY <2>1
<1>2. \A e \in Sources : Cur(e) \in Buffers /\ Cur(e)' = Cur(e) /\ sts'[e] = sts[e] /\ e \in Sessions
  <2>1. ASSUME NEW e \in Sources PROVE Cur(e) \in Buffers
    <3>1. src[e].cur \in 1 .. Len(Path(e)) /\ Path(e) \in Seq(Buffers)
      BY SurfacesLemma DEF DataInv, SrcData
    <3> QED BY <3>1 DEF Cur
  <2>2. \A e \in Sources : sts'[e] = sts[e] /\ e \in Sessions
    BY ShapeAssumption DEF Sessions
  <2> QED BY <2>1, <2>2 DEF Cur
<1>3. \A e \in Sources : SrcData(e, src'[e])
  BY DEF DataInv
<1>4. ReadsInv'
  BY <1>2 DEF DataInv, ReadsInv, AtFront
<1>5. CleanInv'
  <2> SUFFICES ASSUME ~Comp, NEW e \in Sources PROVE Clean(src'[e], sts'[e], buf'[e])
    BY DEF CleanInv
  <2>1. Clean(src[e], sts[e], buf[e]) /\ e \in Buffers
    BY DEF DataInv, CleanInv, Buffers
  <2> QED BY <1>2, <2>1 DEF Clean, NoSurface
<1>6. stop' \in [Sessions -> BOOLEAN]
  BY DEF DataInv
<1> QED BY <1>1, <1>3, <1>4, <1>5, <1>6 DEF DataInv

\* A step of the thread of e, or of its codecs: it touches its own buffers.
LEMMA SourceStep ==
    ASSUME DataInv, ThreadInv', NEW e \in Sources,
           sink' = sink, dec' = dec, stop' = stop,
           \A c \in Sources \ {e} : src'[c] = src[c] /\ sts'[c] = sts[c],
           Shared(buf', surf', dec', enc'),
           \A s \in Surfaces : surf'[s].frame = surf[s].frame,
           SrcData(e, src'[e]),
           ~Comp => Clean(src'[e], sts'[e], buf'[e]) /\ \A c \in Sources \ {e} : buf'[c] = buf[c],
           (Comp => Vpp # "double") /\ Reading(src'[e])
              => AtFront(buf'[Path(e)[src'[e].cur]], src'[e].x)
    PROVE  DataInv'
<1>1. \A d \in Sinks : SinkData(d, sink'[d], surf') /\ DecData(d, dec'[d], surf', sink'[d].n)
  <2>1. ASSUME NEW d \in Sinks
        PROVE  SinkData(d, sink[d], surf') /\ DecData(d, dec[d], surf', sink[d].n)
    <3>1. \A s \in Pool[d] : surf'[s].frame = surf[s].frame
      BY SurfacesLemma
    <3>2. SinkData(d, sink[d], surf) /\ DecData(d, dec[d], surf, sink[d].n)
      BY DEF DataInv
    <3> QED BY <3>1, <3>2, SinkDataFrames
  <2> QED BY <2>1
<1>2. \A c \in Sources : SrcData(c, src'[c])
  BY DEF DataInv
<1>3. Comp => \A c \in Sources : c = e
  BY ShapeAssumption
<1>4. ReadsInv'
  <2> SUFFICES ASSUME Comp => Vpp # "double", NEW c \in Sources, Reading(src'[c])
               PROVE  AtFront(buf'[Path(c)[src'[c].cur]], src'[c].x)
    BY DEF ReadsInv, Cur
  <2>1. CASE c = e
    BY <2>1
  <2>2. CASE c # e
    <3>1. ~Comp
      BY <1>3, <2>2
    <3>2. src'[c] = src[c] /\ buf'[c] = buf[c]
      BY <2>2, <3>1
    <3>3. Path(c)[src[c].cur] = c
      <4>1. Path(c) = <<c>> /\ src[c].cur \in 1 .. Len(Path(c))
        BY <3>1 DEF Path, DataInv, SrcData
      <4> QED BY <4>1
    <3>4. AtFront(buf[Path(c)[src[c].cur]], src[c].x)
      BY <3>2 DEF DataInv, ReadsInv, Cur
    <3> QED BY <3>2, <3>3, <3>4
  <2> QED BY <2>1, <2>2
<1>5. CleanInv'
  <2> SUFFICES ASSUME ~Comp, NEW c \in Sources PROVE Clean(src'[c], sts'[c], buf'[c])
    BY DEF CleanInv
  <2>1. Clean(src[c], sts[c], buf[c])
    BY DEF DataInv, CleanInv
  <2> QED BY <2>1
<1>6. stop' \in [Sessions -> BOOLEAN]
  BY DEF DataInv
<1> QED BY <1>1, <1>2, <1>4, <1>5, <1>6 DEF DataInv

-----------------------------------------------------------------------------
(***************************************************************************)
(* Decoding threads                                                        *)
(***************************************************************************)

LEMMA EndMarkItem == EndMark \in Items /\ EndMark.surf = None
<1>1. EndMark = [surf |-> None, frame |-> 0]
  BY DEF EndMark, Descriptor
<1> QED BY <1>1 DEF Items

LEMMA MarksData ==
    ASSUME DataInv, NEW d \in Sinks, NEW p, NEW r, NEW S, d \notin Overlay \/ p = "done"
    PROVE  /\ SinkData(d, Marks(d, p, r), S) /\ Marks(d, p, r).n = sink[d].n
           /\ Marks(d, p, r).x = EndMark /\ Marks(d, p, r).todo = Out(d)
<1>1. DOMAIN sink[d] = SinkFields /\ sink[d].n \in Int
  BY DataFacts DEF DataInv, SinkData
<1> DEFINE K == Marks(d, p, r)
<1>2. /\ K.pc = "add" /\ K.x = EndMark /\ K.todo = Out(d) /\ K.n = sink[d].n
      /\ K.after = p
  BY <1>1 DEF Marks, SinkFields
<1> HIDE DEF K
<1>3. SinkData(d, K, S)
  BY <1>1, <1>2, EndMarkItem, SurfacesLemma DEF SinkData, SinkPC, Adding
<1> QED BY <1>2, <1>3 DEF K

\* The record changes in fields that no other thread depends on.
LEMMA SinkDataMoves ==
    ASSUME NEW d \in Sinks, NEW J, NEW K, NEW S, SinkData(d, J, S),
           K.x = J.x, K.todo = J.todo, K.n \in Int,
           \/ K.pc \in {"loop", "oneFrame", "lastFrame", "count"} /\ d \notin Overlay
           \/ K.pc \in {"start", "done"}
    PROVE  SinkData(d, K, S)
  BY DEF SinkData, SinkPC, Adding

LEMMA NoFrameData ==
    ASSUME DataInv, NEW d \in Sinks, NEW r, d \notin Overlay
    PROVE  SinkData(d, NoFrame(d, r), surf) /\ NoFrame(d, r).n = sink[d].n
<1>1. DOMAIN sink[d] = SinkFields /\ sink[d].n \in Int /\ SinkData(d, sink[d], surf)
  BY DataFacts DEF DataInv, SinkData
<1>2. CASE sink[d].last
  BY <1>2, MarksData DEF NoFrame
<1>3. CASE ~sink[d].last
  <2> DEFINE K == [sink[d] EXCEPT !.pc = "loop", !.pos = 0]
  <2>1. /\ K.pc = "loop" /\ K.x = sink[d].x /\ K.todo = sink[d].todo /\ K.n = sink[d].n
    BY <1>1 DEF SinkFields
  <2>2. NoFrame(d, r) = K
    BY <1>3 DEF NoFrame
  <2> HIDE DEF K
  <2> QED BY <1>1, <2>1, <2>2, SinkDataMoves
<1> QED BY <1>2, <1>3

\* A step that only changes the record of the thread.
LEMMA SinkRecordStep ==
    ASSUME DataInv, ThreadInv', NEW d \in Sinks, NEW K,
           sink' = [sink EXCEPT ![d] = K], SinkData(d, K, surf), K.n = sink[d].n,
           src' = src, stop' = stop, \A x \in Sessions \ {d} : sts'[x] = sts[x],
           buf' = buf, surf' = surf, dec' = dec, enc' = enc
    PROVE  DataInv'
<1>1. sink'[d] = K /\ \A c \in Sinks \ {d} : sink'[c] = sink[c]
  BY DataFacts
<1>2. Shared(buf, surf, dec, enc) /\ DecData(d, dec[d], surf, sink[d].n)
  BY DEF DataInv
<1>3. \A b \in Buffers : ~NoSurface(buf[b]) => AtFront(buf[b], Front(buf[b]))
  BY DEF AtFront
<1> QED BY <1>1, <1>2, <1>3, SinkStep

\* Threads of overlay sessions do not decode.
LEMMA NotOverlay ==
    ASSUME DataInv, NEW d \in Sinks, sink[d].pc \in {"loop", "oneFrame", "lastFrame", "count"}
    PROVE  d \notin Overlay
  BY DEF DataInv, SinkData

LEMMA SinkRecords ==
    ASSUME DataInv, ThreadInv', NEW d \in Sinks,
           \/ StartDecode(d) \/ LoopDecode(d) \/ EndOfInput(d) \/ StoppedDecode(d)
           \/ CountFrame(d) \/ DecodeFails(d) \/ GetFreeSurfaceTimeout(d)
    PROVE  DataInv'
<1>1. /\ DOMAIN sink[d] = SinkFields /\ SinkData(d, sink[d], surf) /\ DOMAIN sink = Sinks
      /\ sink[d].n \in Int /\ DOMAIN sts = Sessions
  BY DataFacts DEF DataInv, SinkData
<1>2. /\ src' = src /\ stop' = stop /\ buf' = buf /\ surf' = surf /\ dec' = dec /\ enc' = enc
      /\ \A x \in Sessions \ {d} : sts'[x] = sts[x]
  BY <1>1 DEF StartDecode, LoopDecode, EndOfInput, StoppedDecode, CountFrame, DecodeFails,
         GetFreeSurfaceTimeout
<1>3. ASSUME NEW K, sink' = [sink EXCEPT ![d] = K], SinkData(d, K, surf), K.n = sink[d].n
      PROVE  DataInv'
  BY <1>2, <1>3, SinkRecordStep
<1>4. CASE StartDecode(d)
  <2>1. CASE stop[d]
    <3>1. sink' = [sink EXCEPT ![d] = Marks(d, "done", "ok")]
      BY <1>4, <2>1 DEF StartDecode
    <3> QED BY <3>1, <1>3, MarksData
  <2>2. CASE ~stop[d] /\ d \notin Overlay
    <3> DEFINE K == [sink[d] EXCEPT !.pc = "loop"]
    <3>1. sink' = [sink EXCEPT ![d] = K]
      BY <1>4, <2>2 DEF StartDecode
    <3>2. K.pc = "loop" /\ K.x = sink[d].x /\ K.todo = sink[d].todo /\ K.n = sink[d].n
      BY <1>1 DEF SinkFields
    <3> HIDE DEF K
    <3>3. SinkData(d, K, surf)
      BY <1>1, <2>2, <3>2, SinkDataMoves
    <3> QED BY <3>1, <3>2, <3>3, <1>3
  <2>3. CASE ~stop[d] /\ d \in Overlay
    <3> DEFINE s == First(Pool[d])
               x == Descriptor(s, 0)
               K == [sink[d] EXCEPT !.pc = "add", !.todo = Out(d), !.after = "start", !.x = x]
    <3>1. sink' = [sink EXCEPT ![d] = K]
      BY <1>4, <2>3 DEF StartDecode
    <3>2. s \in Pool[d]
      <4>1. Pool[d] \subseteq Nat /\ Pool[d] # {}
        BY <2>3, ShapeAssumption
      <4> QED BY <4>1, FirstLemma
    <3>3. surf[s].frame = 0 /\ s \in Surfaces
      BY <2>3, <3>2, SurfacesLemma DEF DataInv, DecData
    <3> HIDE DEF s
    <3>4. x.surf = s /\ x.frame = 0 /\ x \in Items
      BY <3>3 DEF Descriptor, Items
    <3> HIDE DEF x
    <3>5. /\ K.pc = "add" /\ K.todo = Out(d) /\ K.after = "start" /\ K.x = x /\ K.n = sink[d].n
      BY <1>1 DEF SinkFields
    <3> HIDE DEF K
    <3>6. SinkData(d, K, surf)
      BY <1>1, <3>2, <3>3, <3>4, <3>5, SurfacesLemma DEF SinkData, SinkPC, Adding
    <3> QED BY <3>1, <3>5, <3>6, <1>3
  <2> QED BY <2>1, <2>2, <2>3
<1>5. CASE LoopDecode(d)
  <2>1. PICK last \in BOOLEAN :
           sink' = [sink EXCEPT ![d].last = last,
                                ![d].pc = IF sink[d].eof THEN "lastFrame" ELSE "oneFrame"]
    BY <1>5 DEF LoopDecode
  <2> DEFINE K == [sink[d] EXCEPT !.last = last,
                                  !.pc = IF sink[d].eof THEN "lastFrame" ELSE "oneFrame"]
  <2>2. sink' = [sink EXCEPT ![d] = K]
    BY <1>1, <2>1
  <2>3. /\ K.pc = IF sink[d].eof THEN "lastFrame" ELSE "oneFrame"
        /\ K.x = sink[d].x /\ K.todo = sink[d].todo /\ K.n = sink[d].n
    BY <1>1 DEF SinkFields
  <2>4. d \notin Overlay
    BY <1>5, NotOverlay DEF LoopDecode
  <2> HIDE DEF K
  <2>5. SinkData(d, K, surf)
    BY <1>1, <2>3, <2>4, SinkDataMoves
  <2> QED BY <2>2, <2>3, <2>5, <1>3
<1>6. CASE EndOfInput(d)
  <2>1. d \notin Overlay
    BY <1>6, NotOverlay DEF EndOfInput
  <2>2. CASE sink[d].last
    <3> DEFINE K == [sink[d] EXCEPT !.eof = TRUE, !.pc = "lastFrame"]
    <3>1. sink' = [sink EXCEPT ![d] = K]
      BY <1>1, <1>6, <2>2 DEF EndOfInput
    <3>2. K.pc = "lastFrame" /\ K.x = sink[d].x /\ K.todo = sink[d].todo /\ K.n = sink[d].n
      BY <1>1 DEF SinkFields
    <3> HIDE DEF K
    <3>3. SinkData(d, K, surf)
      BY <1>1, <2>1, <3>2, SinkDataMoves
    <3> QED BY <3>1, <3>2, <3>3, <1>3
  <2>3. CASE ~sink[d].last
    <3>1. sink' = [sink EXCEPT ![d] = NoFrame(d, "ok")]
      BY <1>1, <1>6, <2>3 DEF EndOfInput
    <3> QED BY <2>1, <3>1, <1>3, NoFrameData
  <2> QED BY <2>2, <2>3
<1>7. CASE StoppedDecode(d)
  <2> DEFINE M == Marks(d, IF sink[d].last THEN "leave" ELSE "loop", "ok")
             K == [M EXCEPT !.timeout = FALSE]
  <2>1. sink' = [sink EXCEPT ![d] = K]
    BY <1>1, <1>7 DEF StoppedDecode
  <2>2. d \notin Overlay
    BY <1>7, NotOverlay DEF StoppedDecode
  <2>3. SinkData(d, M, surf) /\ M.n = sink[d].n /\ DOMAIN M = SinkFields
    BY <1>1, <2>2, MarksData, MarksShape
  <2> HIDE DEF M
  <2>4. K.pc = M.pc /\ K.x = M.x /\ K.todo = M.todo /\ K.n = M.n /\ K.after = M.after
    BY <2>3 DEF SinkFields
  <2> HIDE DEF K
  <2>5. SinkData(d, K, surf)
    BY <2>3, <2>4 DEF SinkData, Adding
  <2> QED BY <2>1, <2>3, <2>4, <2>5, <1>3
<1>8. CASE CountFrame(d)
  <2>1. d \notin Overlay
    BY <1>8, NotOverlay DEF CountFrame
  <2>2. CASE sink' = [sink EXCEPT ![d].pc = "done"]
    <3> DEFINE K == [sink[d] EXCEPT !.pc = "done"]
    <3>1. sink' = [sink EXCEPT ![d] = K]
      BY <1>1, <2>2
    <3>2. K.pc = "done" /\ K.x = sink[d].x /\ K.todo = sink[d].todo /\ K.n = sink[d].n
      BY <1>1 DEF SinkFields
    <3> HIDE DEF K
    <3>3. SinkData(d, K, surf)
      BY <1>1, <3>2, SinkDataMoves
    <3> QED BY <3>1, <3>2, <3>3, <1>3
  <2>3. CASE \E n : sink' = [sink EXCEPT ![d] = [sink[d] EXCEPT !.pc = "loop", !.num = n]]
    <3>0. PICK n : sink' = [sink EXCEPT ![d] = [sink[d] EXCEPT !.pc = "loop", !.num = n]]
      BY <2>3
    <3> DEFINE K == [sink[d] EXCEPT !.pc = "loop", !.num = n]
    <3>1. sink' = [sink EXCEPT ![d] = K]
      BY <3>0
    <3>2. K.pc = "loop" /\ K.x = sink[d].x /\ K.todo = sink[d].todo /\ K.n = sink[d].n
      BY <1>1 DEF SinkFields
    <3> HIDE DEF K
    <3>3. SinkData(d, K, surf)
      BY <1>1, <2>1, <3>2, SinkDataMoves
    <3> QED BY <3>1, <3>2, <3>3, <1>3
  <2>4. CASE \E n : sink' = [sink EXCEPT ![d] = [Marks(d, "done", "ok") EXCEPT !.num = n]]
    <3>0. PICK n : sink' = [sink EXCEPT ![d] = [Marks(d, "done", "ok") EXCEPT !.num = n]]
      BY <2>4
    <3> DEFINE M == Marks(d, "done", "ok")
               K == [M EXCEPT !.num = n]
    <3>1. sink' = [sink EXCEPT ![d] = K]
      BY <3>0
    <3>2. SinkData(d, M, surf) /\ M.n = sink[d].n /\ DOMAIN M = SinkFields
      BY <1>1, MarksData, MarksShape
    <3> HIDE DEF M
    <3>3. K.pc = M.pc /\ K.x = M.x /\ K.todo = M.todo /\ K.n = M.n /\ K.after = M.after
      BY <3>2 DEF SinkFields
    <3> HIDE DEF K
    <3>4. SinkData(d, K, surf)
      BY <3>2, <3>3 DEF SinkData, Adding
    <3> QED BY <3>1, <3>2, <3>3, <3>4, <1>3
  <2> QED BY <1>1, <1>8, <2>2, <2>3, <2>4 DEF CountFrame
<1>9. CASE DecodeFails(d) \/ GetFreeSurfaceTimeout(d)
  <2>1. d \notin Overlay
    BY <1>9, NotOverlay DEF DecodeFails, GetFreeSurfaceTimeout
  <2>2. \/ \E r : sink' = [sink EXCEPT ![d] = NoFrame(d, r)]
        \/ sink' = [sink EXCEPT ![d] = Marks(d, "done", "error")]
    BY <1>1, <1>9 DEF DecodeFails, GetFreeSurfaceTimeout
  <2> QED BY <2>1, <2>2, <1>3, NoFrameData, MarksData
<1> QED BY <1>4, <1>5, <1>6, <1>7, <1>8, <1>9

\* A frame f in the surface s of the pool is handed to the buffers.
LEMMA FrameData ==
    ASSUME NEW d \in Sinks, d \notin Overlay, NEW J, DOMAIN J = SinkFields, J.n \in Int,
           NEW S, NEW s \in Pool[d], NEW f, f \in Int, S[s].frame = f
    PROVE  SinkData(d, Frame(d, J, s, f), S) /\ Frame(d, J, s, f).n = J.n
<1> DEFINE K == Frame(d, J, s, f)
           x == Descriptor(s, f)
<1>1. x.surf = s /\ x.frame = f /\ x \in Items
  BY SurfacesLemma DEF Descriptor, Items
<1>2. K = [J EXCEPT !.pc = "add", !.x = x, !.todo = Out(d), !.after = "count"]
  BY DEF Frame
<1> HIDE DEF x, K
<1>3. K.pc = "add" /\ K.x = x /\ K.todo = Out(d) /\ K.after = "count" /\ K.n = J.n
  BY <1>2 DEF SinkFields
<1>4. SinkData(d, K, S)
  BY <1>1, <1>3, SurfacesLemma DEF SinkData, SinkPC, Adding
<1> QED BY <1>3, <1>4 DEF K

\* The decoder d has decoded the frame n + 1 into s, and keeps one more.
LEMMA KeepsOneMore ==
    ASSUME DataInv, NEW d \in Sinks, d \notin Overlay, NEW s \in Pool[d], s \notin dec[d].refs,
           NEW f, f = sink[d].n + 1, surf'[s].frame = f,
           \A t \in Surfaces \ {s} : surf'[t].frame = surf[t].frame
    PROVE  LET q == Append(dec[d].pend, s)
           IN  /\ q \in Seq(Surfaces) /\ Distinct(q) /\ Len(q) = Len(dec[d].pend) + 1
               /\ \A i \in 1 .. Len(q) : /\ q[i] \in dec[d].refs \cup {s}
                                         /\ surf'[q[i]].frame = f - Len(q) + i
<1> DEFINE D == dec[d]
           n == sink[d].n
           l == D.pend
           q == Append(l, s)
<1>0. D \in DecType /\ n \in Int /\ DecData(d, D, surf, n)
  BY DataFacts DEF DataInv, SinkData
<1>14. f = n + 1
  OBVIOUS
<1>15. s \notin D.refs
  OBVIOUS
<1> HIDE DEF D, n
<1>1. /\ l \in Seq(Surfaces) /\ s \in Surfaces /\ Distinct(l) /\ D.refs \subseteq Surfaces
      /\ \A i \in 1 .. Len(l) : l[i] \in D.refs /\ surf[l[i]].frame = n - Len(l) + i
  BY <1>0, SurfacesLemma DEF DecType, DecData
<1>2. q = Append(l, s)
  OBVIOUS
<1> HIDE DEF l, q
<1>3. /\ q \in Seq(Surfaces) /\ Len(q) = Len(l) + 1 /\ Len(l) \in Nat
      /\ \A i \in 1 .. Len(l) : q[i] = l[i]
      /\ q[Len(l) + 1] = s
  BY <1>1, <1>2, AppendLemma
<1>4. \A i \in 1 .. Len(q) : i \in 1 .. Len(l) \/ i = Len(l) + 1
  BY <1>3
<1>5. ASSUME NEW i \in 1 .. Len(q)
      PROVE  q[i] \in D.refs \cup {s} /\ surf'[q[i]].frame = f - Len(q) + i
  <2>1. CASE i \in 1 .. Len(l)
    <3>1. q[i] = l[i] /\ l[i] \in Surfaces \ {s} /\ l[i] \in D.refs
      BY <1>1, <1>3, <1>15, <2>1
    <3>2. surf'[l[i]].frame = n - Len(l) + i
      BY <1>1, <2>1, <3>1
    <3> QED BY <1>0, <1>3, <1>14, <2>1, <3>1, <3>2
  <2>2. CASE i = Len(l) + 1
    BY <1>0, <1>3, <1>14, <2>2
  <2> QED BY <1>4, <2>1, <2>2
<1>6. Distinct(q)
  <2>1. \A i \in 1 .. Len(l) : q[i] = l[i] /\ q[i] # s
    BY <1>1, <1>3, <1>15
  <2>2. ASSUME NEW i \in 1 .. Len(q), NEW j \in 1 .. Len(q), q[i] = q[j] PROVE i = j
    <3>1. CASE i \in 1 .. Len(l) /\ j \in 1 .. Len(l)
      BY <1>1, <2>1, <2>2, <3>1 DEF Distinct
    <3> QED BY <1>3, <1>4, <2>1, <2>2, <3>1
  <2> QED BY <2>2 DEF Distinct
<1> QED BY <1>3, <1>5, <1>6 DEF l, D, q

\* The oldest frame leaves the decoder.
LEMMA TailDistinct ==
    ASSUME NEW T, NEW q \in Seq(T), q # << >>, Distinct(q)
    PROVE  Distinct(Tail(q))
<1>1. /\ Len(Tail(q)) = Len(q) - 1 /\ Len(q) \in Nat \ {0}
      /\ \A i \in 1 .. Len(q) - 1 : Tail(q)[i] = q[i + 1]
  BY TailLemma
<1> DEFINE t == Tail(q)
<1> HIDE DEF t
<1>2. ASSUME NEW i \in 1 .. Len(t), NEW j \in 1 .. Len(t), t[i] = t[j] PROVE i = j
  <2>1. i + 1 \in 1 .. Len(q) /\ j + 1 \in 1 .. Len(q) /\ q[i + 1] = q[j + 1]
    BY <1>1, <1>2 DEF t
  <2>2. i + 1 = j + 1
    BY <2>1 DEF Distinct
  <2> QED BY <2>2
<1> QED BY <1>2 DEF Distinct, t

LEMMA DecodesOne ==
    ASSUME DataInv, ThreadInv', NEW d \in Sinks, DecodeOneFrame(d)
    PROVE  DataInv'
<1> DEFINE D == dec[d]
           n == sink[d].n
<1>1. /\ DOMAIN sink[d] = SinkFields /\ SinkData(d, sink[d], surf) /\ DOMAIN sink = Sinks
      /\ n \in Int /\ DecData(d, D, surf, n) /\ D \in DecType /\ surf \in [Surfaces -> SurfType]
      /\ dec \in [Sinks -> DecType] /\ Shared(buf, surf, dec, enc)
  BY DataFacts DEF DataInv, SinkData
<1>2. d \notin Overlay
  BY NotOverlay DEF DecodeOneFrame
<1>3. PICK s \in {First(Free(d))}, f \in {n + 1} :
         \E r \in {Append(dec[d].pend, s)} :
            /\ surf' = [Lock(surf, s) EXCEPT ![s].frame = f]
            /\ IF Len(r) > DecDelay
               THEN /\ dec' = [dec EXCEPT ![d] = [pend |-> Tail(r), refs |-> @.refs \cup {s}]]
                    /\ sink' = [sink EXCEPT ![d] =
                          Frame(d, [sink[d] EXCEPT !.pos = @ + 1, !.n = f], Head(r), f - DecDelay)]
               ELSE /\ dec' = [dec EXCEPT ![d] = [pend |-> r, refs |-> @.refs \cup {s}]]
                    /\ sink' = [sink EXCEPT ![d].pos = @ + 1, ![d].n = f]
  BY Zenon DEF DecodeOneFrame
<1> DEFINE q == Append(D.pend, s)
           J == [sink[d] EXCEPT !.pos = @ + 1, !.n = f]
<1>4. /\ surf' = [Lock(surf, s) EXCEPT ![s].frame = f]
      /\ IF Len(q) > DecDelay
         THEN /\ dec' = [dec EXCEPT ![d] = [pend |-> Tail(q), refs |-> D.refs \cup {s}]]
              /\ sink' = [sink EXCEPT ![d] = Frame(d, J, Head(q), f - DecDelay)]
         ELSE /\ dec' = [dec EXCEPT ![d] = [pend |-> q, refs |-> D.refs \cup {s}]]
              /\ sink' = [sink EXCEPT ![d].pos = @ + 1, ![d].n = f]
      /\ buf' = buf /\ src' = src /\ enc' = enc /\ stop' = stop /\ sts' = sts
  <2>1. buf' = buf /\ src' = src /\ enc' = enc /\ stop' = stop /\ sts' = sts
    BY DEF DecodeOneFrame
  <2> QED BY <1>1, <1>3, <2>1
<1>13. s \in Pool[d] /\ surf[s].locked = 0 /\ s \in Surfaces
  <2>1. Free(d) \subseteq Nat /\ Free(d) # {}
    BY ShapeAssumption DEF Free, DecodeOneFrame
  <2>2. s \in Free(d)
    BY <2>1, FirstLemma
  <2> QED BY <2>2, SurfacesLemma DEF Free
<1>14. f = n + 1
  OBVIOUS
<1>5. /\ J.n = f /\ DOMAIN J = SinkFields /\ J.pc = sink[d].pc /\ J.x = sink[d].x
      /\ J.todo = sink[d].todo /\ J.after = sink[d].after
  BY <1>1 DEF SinkFields
<1>6. /\ surf' \in [Surfaces -> SurfType] /\ surf'[s].locked = 1 /\ surf'[s].frame = f
      /\ \A t \in Surfaces \ {s} : surf'[t] = surf[t]
  <2> DEFINE L == Lock(surf, s)
  <2> HIDE DEF n
  <2>1. /\ L \in [Surfaces -> SurfType] /\ L[s].locked = 1
        /\ \A t \in Surfaces \ {s} : L[t] = surf[t]
    <3>1. surf[s].locked = 0
      BY <1>13
    <3> QED BY <1>1, <1>13, <3>1, LockLemma
  <2> HIDE DEF L
  <2>2. surf' = [L EXCEPT ![s] = [L[s] EXCEPT !.frame = f]]
    BY <1>4 DEF L
  <2>3. f \in Int /\ L[s] \in SurfType
    BY <1>1, <1>13, <1>14, <2>1
  <2> DEFINE r == [L[s] EXCEPT !.frame = f]
  <2>4. r \in SurfType
    BY <2>3, Zenon DEF SurfType
  <2>5. r.locked = 1 /\ r.frame = f
    BY <2>1, <2>3 DEF SurfType
  <2>6. surf' = [L EXCEPT ![s] = r]
    BY <2>2
  <2> HIDE DEF r
  <2> QED BY <1>13, <2>1, <2>4, <2>5, <2>6
<1>7. /\ \A b \in Buffers : \A i \in 1 .. Len(buf[b].list) : buf[b].list[i].surf # s
      /\ \A c \in Sinks : s \notin dec[c].refs
  BY <1>1, <1>13, Unused
<1>8. /\ q \in Seq(Surfaces) /\ Distinct(q) /\ Len(q) = Len(D.pend) + 1
      /\ \A i \in 1 .. Len(q) : /\ q[i] \in D.refs \cup {s}
                                /\ surf'[q[i]].frame = f - Len(q) + i
  <2>1. s \notin D.refs
    BY <1>7
  <2>2. surf'[s].frame = f /\ \A t \in Surfaces \ {s} : surf'[t].frame = surf[t].frame
    BY <1>6
  <2>3. f = sink[d].n + 1 /\ s \in Pool[d]
    BY <1>13
  <2> QED BY <1>2, <2>1, <2>2, <2>3, KeepsOneMore DEF q
<1>9. D.refs \subseteq Pool[d] /\ Len(D.pend) \in Nat /\ Len(D.pend) <= DecDelay /\ DecDelay \in Nat
      /\ D.refs \subseteq Surfaces
  <2>1. D.pend \in Seq(Surfaces) /\ D.refs \subseteq Surfaces
    BY <1>1 DEF DecType
  <2>2. D.refs \subseteq Pool[d] /\ Len(D.pend) <= DecDelay
    BY <1>1 DEF DecData
  <2>3. DecDelay \in Nat
    BY ShapeAssumption
  <2> QED BY <2>1, <2>2, <2>3
<1> HIDE DEF q, n, J
<1>10. ASSUME NEW p, p \in Seq(Surfaces), Distinct(p), Len(p) <= DecDelay,
              \A i \in 1 .. Len(p) : /\ p[i] \in D.refs \cup {s}
                                     /\ surf'[p[i]].frame = f - Len(p) + i,
              dec' = [dec EXCEPT ![d] = [pend |-> p, refs |-> D.refs \cup {s}]],
              NEW K, sink' = [sink EXCEPT ![d] = K], SinkData(d, K, surf'), K.n = f
       PROVE  DataInv'
  <2> DEFINE R == [pend |-> p, refs |-> D.refs \cup {s}]
  <2>1. R.pend = p /\ R.refs = D.refs \cup {s} /\ R \in DecType
    BY <1>13, <1>9, <1>10 DEF DecType
  <2>2. dec' = [dec EXCEPT ![d] = R]
    BY <1>10
  <2> HIDE DEF R
  <2>3. dec' \in [Sinks -> DecType] /\ dec'[d] = R /\ \A c \in Sinks \ {d} : dec'[c] = dec[c]
    BY <1>1, <2>1, <2>2
  <2>4. Shared(buf', surf', dec', enc')
    <3>1. dec'[d].refs = dec[d].refs \cup {s} /\ \A c \in Sinks \ {d} : dec'[c].refs = dec[c].refs
      BY <2>1, <2>3
    <3>2. surf[s].locked = 0 /\ s \in Surfaces
      BY <1>13
    <3>3. Shared(buf, surf', dec', enc)
      BY <1>1, <1>6, <2>3, <3>1, <3>2, SharedDecode
    <3> QED BY <1>4, <3>3
  <2>5. DecData(d, R, surf', f)
    <3>1. R.refs \subseteq Pool[d]
      BY <1>13, <1>9, <2>1
    <3>2. /\ Distinct(R.pend) /\ Len(R.pend) <= DecDelay
          /\ \A i \in 1 .. Len(R.pend) :
               R.pend[i] \in R.refs /\ surf'[R.pend[i]].frame = f - Len(R.pend) + i
      BY <1>10, <2>1
    <3> QED BY <1>2, <3>1, <3>2 DEF DecData
  <2>6. sink'[d] = K /\ \A c \in Sinks \ {d} : sink'[c] = sink[c]
    BY <1>1, <1>10
  <2>7. \A t \in Surfaces \ Pool[d] : surf'[t].frame = surf[t].frame
    BY <1>13, <1>6
  <2>8. \A b \in Buffers : ~NoSurface(buf[b]) => AtFront(buf[b], Front(buf[b]))
    BY DEF AtFront
  <2>9. /\ src' = src /\ stop' = stop /\ \A x \in Sessions \ {d} : sts'[x] = sts[x]
        /\ \A c \in Sinks \ {d} : sink'[c] = sink[c] /\ dec'[c] = dec[c]
    BY <1>4, <2>3, <2>6
  <2>10. SinkData(d, sink'[d], surf') /\ DecData(d, dec'[d], surf', sink'[d].n)
    BY <1>10, <2>3, <2>5, <2>6
  <2>11. \A b \in Buffers : /\ ~NoSurface(buf[b]) => AtFront(buf'[b], Front(buf[b]))
                            /\ buf'[b].allowed = buf[b].allowed
                            /\ ~buf[b].allowed => buf'[b].list = buf[b].list
    BY <1>4, <2>8
  <2> QED BY <2>4, <2>7, <2>9, <2>10, <2>11, SinkStep
<1>11. CASE Len(q) > DecDelay
  <2>1. Len(q) = DecDelay + 1 /\ q # << >>
    BY <1>8, <1>9, <1>11
  <2>2. /\ Head(q) = q[1] /\ Tail(q) \in Seq(Surfaces) /\ Len(Tail(q)) = Len(q) - 1
        /\ \A i \in 1 .. Len(q) - 1 : Tail(q)[i] = q[i + 1]
    BY <1>8, <2>1, TailLemma
  <2>3. Head(q) \in Pool[d] /\ surf'[Head(q)].frame = f - DecDelay
    <3>1. 1 \in 1 .. Len(q)
      BY <1>9, <2>1
    <3>2. q[1] \in D.refs \cup {s} /\ surf'[q[1]].frame = f - Len(q) + 1
      BY <1>8, <3>1
    <3>3. f - Len(q) + 1 = f - DecDelay
      BY <1>1, <1>9, <1>14, <2>1
    <3> QED BY <1>13, <1>9, <2>2, <3>2, <3>3
  <2> DEFINE p == Tail(q)
             g == f - DecDelay
             K == Frame(d, J, Head(q), g)
  <2>4. g \in Int /\ J.n \in Int
    BY <1>1, <1>5, <1>9, <1>14
  <2>5. SinkData(d, K, surf') /\ K.n = f
    BY <1>2, <1>5, <2>3, <2>4, FrameData
  <2>6. Distinct(p)
    BY <1>8, <2>1, TailDistinct
  <2>7. ASSUME NEW i \in 1 .. Len(p)
        PROVE  p[i] \in D.refs \cup {s} /\ surf'[p[i]].frame = f - Len(p) + i
    <3>1. i \in 1 .. Len(q) - 1 /\ i + 1 \in 1 .. Len(q)
      BY <1>9, <2>1, <2>2
    <3>2. p[i] = q[i + 1] /\ q[i + 1] \in D.refs \cup {s}
          /\ surf'[q[i + 1]].frame = f - Len(q) + (i + 1)
      BY <1>8, <2>2, <3>1 DEF p
    <3>3. f - Len(q) + (i + 1) = f - Len(p) + i
      BY <1>1, <1>9, <1>14, <2>1, <2>2
    <3> QED BY <3>2, <3>3
  <2>8. p \in Seq(Surfaces) /\ Len(p) <= DecDelay
    BY <1>9, <2>1, <2>2
  <2>9. /\ dec' = [dec EXCEPT ![d] = [pend |-> p, refs |-> D.refs \cup {s}]]
        /\ sink' = [sink EXCEPT ![d] = K]
    BY <1>4, <1>11
  <2> HIDE DEF p, K
  <2> QED BY <1>10, <2>5, <2>6, <2>7, <2>8, <2>9
<1>12. CASE ~(Len(q) > DecDelay)
  <2>1. sink' = [sink EXCEPT ![d] = J]
    BY <1>1, <1>4, <1>12 DEF J
  <2>2. sink[d].pc = "oneFrame"
    BY DEF DecodeOneFrame
  <2>3. SinkData(d, J, surf')
    BY <1>1, <1>2, <1>5, <1>14, <2>2 DEF SinkData, Adding
  <2>4. dec' = [dec EXCEPT ![d] = [pend |-> q, refs |-> D.refs \cup {s}]]
    BY <1>4, <1>12
  <2>5. Len(q) <= DecDelay
    BY <1>8, <1>9, <1>12
  <2> QED BY <1>5, <1>8, <1>10, <2>1, <2>3, <2>4, <2>5
<1> QED BY <1>11, <1>12


\* The oldest frame that the decoder kept is output.
LEMMA LastFrames ==
    ASSUME DataInv, ThreadInv', NEW d \in Sinks, DecodeLastFrame(d)
    PROVE  DataInv'
<1>1. /\ DOMAIN sink[d] = SinkFields /\ SinkData(d, sink[d], surf) /\ DOMAIN sink = Sinks
      /\ sink[d].n \in Int /\ DecData(d, dec[d], surf, sink[d].n) /\ dec[d] \in DecType
      /\ surf \in [Surfaces -> SurfType] /\ dec \in [Sinks -> DecType]
      /\ Shared(buf, surf, dec, enc)
  BY DataFacts DEF DataInv, SinkData
<1>2. d \notin Overlay
  BY NotOverlay DEF DecodeLastFrame
<1>3. buf' = buf /\ surf' = surf /\ src' = src /\ enc' = enc /\ stop' = stop /\ sts' = sts
  BY DEF DecodeLastFrame
<1>4. CASE \E r : sink' = [sink EXCEPT ![d] = Marks(d, "done", r)] /\ dec' = dec
  BY <1>3, <1>4, MarksData, SinkRecordStep
<1>5. CASE ~(\E r : sink' = [sink EXCEPT ![d] = Marks(d, "done", r)] /\ dec' = dec)
  <2> DEFINE l == dec[d].pend
             s == Head(l)
             f == surf[s].frame
             K == Frame(d, sink[d], s, f)
             D == [dec[d] EXCEPT !.pend = Tail(l)]
             n == sink[d].n
  <2>1. l # << >> /\ dec' = [dec EXCEPT ![d] = D] /\ sink' = [sink EXCEPT ![d] = K]
    BY <1>1, <1>5 DEF DecodeLastFrame
  <2> HIDE DEF K
  <2>2. /\ l \in Seq(Surfaces) /\ dec[d].refs \subseteq Surfaces /\ Distinct(l)
        /\ dec[d].refs \subseteq Pool[d] /\ Len(l) <= DecDelay
        /\ \A i \in 1 .. Len(l) : l[i] \in dec[d].refs /\ surf[l[i]].frame = n - Len(l) + i
    BY <1>1 DEF DecType, DecData
  <2> HIDE DEF l
  <2>3. /\ s = l[1] /\ Tail(l) \in Seq(Surfaces) /\ Len(Tail(l)) = Len(l) - 1
        /\ Len(l) \in Nat \ {0} /\ 1 \in 1 .. Len(l)
        /\ \A i \in 1 .. Len(l) - 1 : Tail(l)[i] = l[i + 1]
    BY <2>1, <2>2, TailLemma
  <2>4. s \in Pool[d] /\ s \in Surfaces
    BY <2>2, <2>3
  <2> HIDE DEF s
  <2>5. f \in Int
    BY <1>1, <2>4 DEF SurfType
  <2> HIDE DEF f
  <2>6. SinkData(d, K, surf) /\ K.n = n
    <3>1. surf[s].frame = f
      BY DEF f
    <3> QED BY <1>1, <1>2, <2>4, <2>5, <3>1, FrameData DEF K
  <2> DEFINE p == Tail(l)
  <2>7. D.pend = p /\ D.refs = dec[d].refs
    BY <1>1 DEF DecType
  <2>8. D \in DecType
    BY <1>1, <2>3, Zenon DEF DecType
  <2> HIDE DEF D
  <2>9. dec' \in [Sinks -> DecType] /\ dec'[d] = D /\ \A c \in Sinks \ {d} : dec'[c] = dec[c]
    BY <1>1, <2>1, <2>8
  <2>10. Shared(buf', surf', dec', enc')
    <3>1. \A c \in Sinks : dec'[c].refs = dec[c].refs
      BY <2>7, <2>9
    <3>2. SharedTypes(buf, surf, dec', enc)
      BY <1>1, <2>9 DEF Shared, SharedTypes
    <3> QED BY <1>1, <1>3, <3>1, <3>2, SharedQuiet
  <2>11. Distinct(p)
    BY <2>1, <2>2, TailDistinct
  <2>12. ASSUME NEW i \in 1 .. Len(p)
         PROVE  p[i] \in dec[d].refs /\ surf[p[i]].frame = n - Len(p) + i
    <3>1. i \in 1 .. Len(l) - 1 /\ i + 1 \in 1 .. Len(l)
      BY <2>3
    <3>2. p[i] = l[i + 1] /\ l[i + 1] \in dec[d].refs /\ surf[l[i + 1]].frame = n - Len(l) + (i + 1)
      BY <2>2, <2>3, <3>1
    <3>3. n - Len(l) + (i + 1) = n - Len(p) + i
      <4>1. Len(p) = Len(l) - 1 /\ Len(l) \in Int /\ i \in Int
        BY <2>3 DEF p
      <4>2. n \in Int
        BY <1>1
      <4> HIDE DEF n, p
      <4> QED BY <4>1, <4>2
    <3> QED BY <3>2, <3>3
  <2> HIDE DEF p
  <2>13. DecData(d, D, surf, n)
    <3>1. Len(p) <= DecDelay
      BY <2>2, <2>3, ShapeAssumption DEF p
    <3> QED BY <1>2, <2>2, <2>7, <2>11, <2>12, <3>1 DEF DecData
  <2>14. sink'[d] = K /\ \A c \in Sinks \ {d} : sink'[c] = sink[c]
    BY <1>1, <2>1
  <2>15. \A b \in Buffers : ~NoSurface(buf[b]) => AtFront(buf[b], Front(buf[b]))
    BY DEF AtFront
  <2>16. /\ SinkData(d, sink'[d], surf') /\ DecData(d, dec'[d], surf', sink'[d].n)
         /\ \A c \in Sinks \ {d} : sink'[c] = sink[c] /\ dec'[c] = dec[c]
    BY <1>3, <2>6, <2>9, <2>13, <2>14
  <2> QED BY <1>3, <2>10, <2>15, <2>16, SinkStep
<1> QED BY <1>4, <1>5

\* The thread goes to the next buffer, or has filled all of them.
LEMMA AddedData ==
    ASSUME DataInv, NEW d \in Sinks, Adding(sink[d]), NEW S,
           \A s \in Surfaces : S[s].frame = surf[s].frame,
           \/ Tail(sink[d].todo) # << >> /\ sts' = sts /\ \E p \in {"add", "signal"} :
                 sink' = [sink EXCEPT ![d] = [sink[d] EXCEPT !.todo = Tail(@), !.pc = p]]
           \/ sink' = [sink EXCEPT ![d].pc = "signal"] /\ sts' = sts
           \/ AddedAll(d)
    PROVE  /\ SinkData(d, sink'[d], S) /\ sink'[d].n = sink[d].n
           /\ \A c \in Sinks \ {d} : sink'[c] = sink[c]
           /\ \A x \in Sessions \ {d} : sts'[x] = sts[x]
<1> DEFINE J == sink[d]
<1>1. /\ DOMAIN J = SinkFields /\ SinkData(d, J, surf) /\ DOMAIN sink = Sinks
      /\ DOMAIN sts = Sessions /\ J.n \in Int
      /\ J.after \in {"start", "loop", "count", "leave", "done"}
  BY DataFacts DEF DataInv, SinkData, ThreadInv, SinkOK
<1>2. SinkData(d, J, S)
  BY <1>1, SinkDataFrames, SurfacesLemma
<1>3. \A x \in Sessions \ {d} : sts'[x] = sts[x]
  BY <1>1 DEF AddedAll
<1>4. ASSUME NEW K, sink' = [sink EXCEPT ![d] = K], SinkData(d, K, S), K.n = J.n
      PROVE  /\ SinkData(d, sink'[d], S) /\ sink'[d].n = J.n
             /\ \A c \in Sinks \ {d} : sink'[c] = sink[c]
  BY <1>1, <1>4
<1> HIDE DEF J
<1>5. CASE Tail(J.todo) # << >> /\ \E p \in {"add", "signal"} :
                 sink' = [sink EXCEPT ![d] = [J EXCEPT !.todo = Tail(@), !.pc = p]]
  <2>1. PICK p \in {"add", "signal"} :
           sink' = [sink EXCEPT ![d] = [J EXCEPT !.todo = Tail(@), !.pc = p]]
    BY <1>5
  <2> DEFINE K == [J EXCEPT !.todo = Tail(@), !.pc = p]
  <2>2. sink' = [sink EXCEPT ![d] = K]
    BY <2>1
  <2>3. K.pc = p /\ K.x = J.x /\ K.todo = Tail(J.todo) /\ K.n = J.n /\ K.after = J.after
    BY <1>1 DEF SinkFields
  <2> HIDE DEF K
  <2>4. Tail(J.todo) \in Seq(Buffers)
    <3>1. J.todo \in Seq(Buffers) /\ J.todo # << >>
      BY <1>1 DEF SinkData, J
    <3> QED BY <3>1, TailLemma
  <2>5. SinkData(d, K, S)
    BY <1>2, <1>5, <2>3, <2>4 DEF SinkData, SinkPC, Adding, J
  <2> QED BY <1>3, <1>4, <2>2, <2>3, <2>5 DEF J
<1>6. CASE sink' = [sink EXCEPT ![d].pc = "signal"]
  <2> DEFINE K == [J EXCEPT !.pc = "signal"]
  <2>1. sink' = [sink EXCEPT ![d] = K]
    BY <1>6 DEF J
  <2>2. K.pc = "signal" /\ K.x = J.x /\ K.todo = J.todo /\ K.n = J.n /\ K.after = J.after
    BY <1>1 DEF SinkFields
  <2> HIDE DEF K
  <2>3. SinkData(d, K, S)
    BY <1>2, <2>2 DEF SinkData, SinkPC, Adding, J
  <2> QED BY <1>3, <1>4, <2>1, <2>2, <2>3 DEF J
<1>7. CASE AddedAll(d)
  <2>1. CASE J.after = "leave"
    <3>1. sink' = [sink EXCEPT ![d] = Marks(d, "done", J.res)]
      BY <1>1, <1>7, <2>1 DEF AddedAll, J
    <3>2. SinkData(d, Marks(d, "done", J.res), S) /\ Marks(d, "done", J.res).n = J.n
      BY MarksData DEF J
    <3> QED BY <1>3, <1>4, <2>1, <3>1, <3>2 DEF J
  <2>2. CASE J.after # "leave"
    <3> DEFINE K == [J EXCEPT !.todo = << >>, !.pc = J.after]
    <3>1. sink' = [sink EXCEPT ![d] = K]
      BY <1>1, <1>7, <2>2 DEF AddedAll, J
    <3>2. K.pc = J.after /\ K.x = J.x /\ K.todo = << >> /\ K.n = J.n
      BY <1>1 DEF SinkFields
    <3> HIDE DEF K
    <3>3. d \in Overlay => J.after \in {"start", "done"}
      BY <1>2 DEF SinkData, J
    <3>4. K.pc \in {"start", "loop", "count", "done"} /\ (d \in Overlay => K.pc \in {"start", "done"})
      BY <1>1, <2>2, <3>2, <3>3
    <3>5. SinkData(d, K, S)
      BY <1>1, <1>2, <3>2, <3>4 DEF SinkData, SinkPC, Adding
    <3> QED BY <1>3, <1>4, <3>1, <3>2, <3>5 DEF J
  <2> QED BY <2>1, <2>2
<1> QED BY <1>3, <1>5, <1>6, <1>7 DEF J

\* A surface, or the end mark, is added to the next buffer.
LEMMA Adds ==
    ASSUME DataInv, ThreadInv', NEW d \in Sinks, AddStep(d)
    PROVE  DataInv'
<1> DEFINE K == sink[d]
           b == Head(K.todo)
           x == K.x
<1>1. /\ DOMAIN K = SinkFields /\ SinkData(d, K, surf) /\ Shared(buf, surf, dec, enc)
      /\ DecData(d, dec[d], surf, K.n) /\ buf \in [Buffers -> BufType]
      /\ surf \in [Surfaces -> SurfType]
  BY DataFacts DEF DataInv
<1>2. /\ Adding(K) /\ K.pc = "add" /\ K.todo \in Seq(Buffers) /\ K.todo # << >> /\ x \in Items
      /\ x.surf # None => x.surf \in Pool[d] /\ surf[x.surf].frame = x.frame
  BY <1>1 DEF AddStep, SinkData, Adding
<1>3. b \in Buffers
  BY <1>2, TailLemma
<1> DEFINE B == AddSurface(buf[b], x)
<1>4. /\ buf' = [buf EXCEPT ![b] = B]
      /\ surf' = IF buf[b].allowed /\ x.surf # None THEN Lock(surf, x.surf) ELSE surf
      /\ src' = src /\ dec' = dec /\ enc' = enc /\ stop' = stop
  BY DEF AddStep
<1>5. \/ Tail(K.todo) # << >> /\ sts' = sts /\ \E p \in {"add", "signal"} :
            sink' = [sink EXCEPT ![d] = [K EXCEPT !.todo = Tail(@), !.pc = p]]
      \/ sink' = [sink EXCEPT ![d].pc = "signal"] /\ sts' = sts
      \/ AddedAll(d)
  <2>1. CASE Tail(K.todo) # << >> /\ sink' = [sink EXCEPT ![d].todo = Tail(@)] /\ sts' = sts
    <3> DEFINE L == [K EXCEPT !.todo = Tail(@), !.pc = "add"]
    <3>1. [K EXCEPT !.todo = Tail(@)] = L
      BY <1>1, <1>2 DEF SinkFields
    <3>2. sink' = [sink EXCEPT ![d] = [K EXCEPT !.todo = Tail(@)]]
      BY <2>1
    <3> QED BY <2>1, <3>1, <3>2
  <2> QED BY <2>1 DEF AddStep
<1> HIDE DEF x, b
<1>6. /\ B \in BufType /\ B.list = (IF buf[b].allowed THEN Append(buf[b].list, x) ELSE buf[b].list)
      /\ B.allowed = buf[b].allowed
  BY <1>1, <1>2, <1>3, AddLemma
<1> HIDE DEF B, K
<1>7. buf' \in [Buffers -> BufType] /\ buf'[b] = B /\ \A c \in Buffers \ {b} : buf'[c] = buf[c]
  BY <1>1, <1>3, <1>4, <1>6
<1>8. Shared(buf', surf', dec', enc') /\ \A s \in Surfaces : surf'[s].frame = surf[s].frame
  <2>1. CASE buf[b].allowed
    <3>1. buf'[b].list = Append(buf[b].list, x) /\ \A c \in Buffers \ {b} : buf'[c].list = buf[c].list
      BY <1>6, <1>7, <2>1
    <3>2. surf' = IF x.surf # None THEN Lock(surf, x.surf) ELSE surf
      BY <1>4, <2>1
    <3>3. x \in Items /\ (x.surf # None => surf[x.surf].frame = x.frame)
      BY <1>2
    <3>4. buf' \in [Buffers -> BufType]
      BY <1>7
    <3> HIDE <1>6, <1>7
    <3>5. /\ Shared(buf', IF x.surf # None THEN Lock(surf, x.surf) ELSE surf, dec, enc)
          /\ \A s \in Surfaces : (IF x.surf # None THEN Lock(surf, x.surf) ELSE surf)[s].frame
                                    = surf[s].frame
      BY <1>1, <1>3, <3>1, <3>3, <3>4, SharedAdd
    <3> QED BY <1>4, <3>2, <3>5
  <2>2. CASE ~buf[b].allowed
    <3>1. surf' = surf /\ \A c \in Buffers : buf'[c].list = buf[c].list
      BY <1>4, <1>6, <1>7, <2>2
    <3>2. SharedTypes(buf', surf, dec, enc)
      BY <1>1, <1>7 DEF Shared, SharedTypes
    <3> QED BY <1>1, <1>4, <3>1, <3>2, SharedQuiet
  <2> QED BY <2>1, <2>2
<1>9. /\ SinkData(d, sink'[d], surf') /\ sink'[d].n = K.n
      /\ \A c \in Sinks \ {d} : sink'[c] = sink[c]
      /\ \A y \in Sessions \ {d} : sts'[y] = sts[y]
  BY <1>2, <1>5, <1>8, AddedData DEF K
<1>10. DecData(d, dec'[d], surf', sink'[d].n)
  BY <1>1, <1>4, <1>8, <1>9, SinkDataFrames, SurfacesLemma
<1>11. ASSUME NEW c \in Buffers
       PROVE  /\ ~NoSurface(buf[c]) => AtFront(buf'[c], Front(buf[c]))
              /\ buf'[c].allowed = buf[c].allowed
              /\ ~buf[c].allowed => buf'[c].list = buf[c].list
  <2>1. CASE c = b /\ buf[b].allowed
    <3>1. buf[b].list \in Seq(Items)
      BY <1>1, <1>3 DEF BufType
    <3>2. B.list # << >> /\ (buf[b].list # << >> => Head(B.list) = Head(buf[b].list))
      BY <1>2, <1>6, <2>1, <3>1, AppendLemma
    <3> QED BY <1>6, <1>7, <2>1, <3>2 DEF AtFront, NoSurface, Front
  <2>2. CASE ~(c = b /\ buf[b].allowed)
    <3>1. buf'[c].list = buf[c].list /\ buf'[c].allowed = buf[c].allowed
      BY <1>6, <1>7, <2>2
    <3> QED BY <3>1 DEF AtFront, NoSurface, Front
  <2> QED BY <2>1, <2>2
<1> QED BY <1>4, <1>8, <1>9, <1>10, <1>11, SinkStep

\* The event of the buffer is signalled.
LEMMA Signals ==
    ASSUME DataInv, ThreadInv', NEW d \in Sinks, SignalStep(d)
    PROVE  DataInv'
<1> DEFINE K == sink[d]
           b == Head(K.todo)
<1>1. /\ DOMAIN K = SinkFields /\ SinkData(d, K, surf) /\ Shared(buf, surf, dec, enc)
      /\ DecData(d, dec[d], surf, K.n) /\ buf \in [Buffers -> BufType]
  BY DataFacts DEF DataInv
<1>2. Adding(K) /\ K.pc = "signal" /\ K.todo \in Seq(Buffers) /\ K.todo # << >>
  BY <1>1 DEF SignalStep, SinkData, Adding
<1>3. b \in Buffers
  BY <1>2, TailLemma
<1>4. /\ buf' = [buf EXCEPT ![b] = Signal(buf[b])]
      /\ surf' = surf /\ src' = src /\ dec' = dec /\ enc' = enc /\ stop' = stop
  BY DEF SignalStep
<1>5. \/ Tail(K.todo) # << >> /\ sts' = sts /\ \E p \in {"add", "signal"} :
            sink' = [sink EXCEPT ![d] = [K EXCEPT !.todo = Tail(@), !.pc = p]]
      \/ AddedAll(d)
  <2>1. CASE Tail(K.todo) # << >>
             /\ sink' = [sink EXCEPT ![d].todo = Tail(@), ![d].pc = "add"] /\ sts' = sts
    <3>1. sink' = [sink EXCEPT ![d] = [K EXCEPT !.todo = Tail(@), !.pc = "add"]]
      BY <2>1, DataFacts
    <3> QED BY <2>1, <3>1
  <2> QED BY <2>1 DEF SignalStep
<1> HIDE DEF b
<1>6. /\ Signal(buf[b]) \in BufType /\ Signal(buf[b]).list = buf[b].list
      /\ Signal(buf[b]).allowed = buf[b].allowed
  BY <1>1, <1>3, EventLemma
<1>7. /\ buf' \in [Buffers -> BufType]
      /\ \A c \in Buffers : buf'[c].list = buf[c].list /\ buf'[c].allowed = buf[c].allowed
  BY <1>1, <1>3, <1>4, <1>6
<1>8. Shared(buf', surf', dec', enc')
  <2>1. SharedTypes(buf', surf, dec, enc)
    BY <1>1, <1>7 DEF Shared, SharedTypes
  <2> QED BY <1>1, <1>4, <1>7, <2>1, SharedQuiet
<1>9. /\ SinkData(d, sink'[d], surf') /\ sink'[d].n = K.n
      /\ \A c \in Sinks \ {d} : sink'[c] = sink[c]
      /\ \A y \in Sessions \ {d} : sts'[y] = sts[y]
  BY <1>2, <1>4, <1>5, AddedData
<1>10. \A c \in Buffers : ~NoSurface(buf[c]) => AtFront(buf'[c], Front(buf[c]))
  BY <1>7 DEF AtFront, NoSurface, Front
<1> HIDE DEF K
<1> QED BY <1>1, <1>4, <1>7, <1>8, <1>9, <1>10, SinkStep

\* The decoder no longer needs a surface.
LEMMA Unlocks ==
    ASSUME DataInv, ThreadInv', NEW d \in Sinks, DecoderUnlocks(d)
    PROVE  DataInv'
<1>1. /\ SinkData(d, sink[d], surf) /\ Shared(buf, surf, dec, enc) /\ dec \in [Sinks -> DecType]
      /\ DecData(d, dec[d], surf, sink[d].n)
  BY DataFacts DEF DataInv
<1>2. PICK s \in dec[d].refs :
         /\ \A i \in 1 .. Len(dec[d].pend) : dec[d].pend[i] # s
         /\ dec' = [dec EXCEPT ![d].refs = @ \ {s}]
         /\ surf' = Unlock(surf, s)
  BY DEF DecoderUnlocks
<1>3. buf' = buf /\ sink' = sink /\ src' = src /\ enc' = enc /\ stop' = stop /\ sts' = sts
  BY DEF DecoderUnlocks
<1> DEFINE R == dec[d].refs \ {s}
           D == [dec[d] EXCEPT !.refs = R]
<1>4. dec' = [dec EXCEPT ![d] = D]
  BY <1>2
<1>5. dec[d] \in DecType
  BY <1>1
<1>6. D.refs = R /\ D.pend = dec[d].pend
  BY <1>5 DEF DecType
<1>7. D \in DecType
  <2>1. R \in SUBSET Surfaces
    BY <1>5 DEF DecType
  <2> HIDE DEF R
  <2> QED BY <1>5, <2>1, Zenon DEF DecType
<1> HIDE DEF D
<1>8. dec' \in [Sinks -> DecType] /\ dec'[d] = D /\ \A c \in Sinks \ {d} : dec'[c] = dec[c]
  BY <1>1, <1>4, <1>7
<1>9. Shared(buf', surf', dec', enc') /\ \A t \in Surfaces : surf'[t].frame = surf[t].frame
  <2>1. dec'[d].refs = dec[d].refs \ {s} /\ \A c \in Sinks \ {d} : dec'[c].refs = dec[c].refs
    BY <1>6, <1>8
  <2>2. dec' \in [Sinks -> DecType]
    BY <1>8
  <2>3. /\ Shared(buf, Unlock(surf, s), dec', enc)
        /\ \A t \in Surfaces : Unlock(surf, s)[t].frame = surf[t].frame
    BY <1>1, <2>1, <2>2, SharedUnref
  <2> QED BY <1>2, <1>3, <2>3
<1>10. \A t \in Pool[d] : surf'[t].frame = surf[t].frame
  BY <1>9, SurfacesLemma
<1>11. DecData(d, D, surf, sink[d].n)
  BY <1>1, <1>2, <1>6 DEF DecData
<1>12. SinkData(d, sink'[d], surf') /\ DecData(d, dec'[d], surf', sink'[d].n)
  BY <1>1, <1>3, <1>8, <1>10, <1>11, SinkDataFrames
<1>13. \A b \in Buffers : ~NoSurface(buf[b]) => AtFront(buf[b], Front(buf[b]))
  BY DEF AtFront
<1> QED BY <1>3, <1>8, <1>9, <1>12, <1>13, SinkStep

-----------------------------------------------------------------------------
(***************************************************************************)
(* Encoding threads                                                        *)
(***************************************************************************)

LEMMA SourceFacts ==
    ASSUME DataInv, NEW e \in Sources
    PROVE  /\ DOMAIN src[e] = SrcFields /\ SrcData(e, src[e]) /\ src[e].x \in Items
           /\ src[e].x.surf \in Surfaces \cup {None}
           /\ src[e].cur \in 1 .. Len(Path(e)) /\ Cur(e) \in Buffers /\ Path(e)[1] \in Buffers
           /\ Cur(e) = Path(e)[src[e].cur] /\ Len(Path(e)) \in Nat \ {0}
           /\ ~Comp => Path(e) = <<e>> /\ Len(Path(e)) = 1 /\ src[e].cur = 1 /\ Cur(e) = e /\ Path(e)[1] = e
           /\ DOMAIN sts = Sessions /\ DOMAIN src = Sources /\ e \in Sessions
           /\ src[e].pc = "done" <=> sts[e] # "run"
           /\ Shared(buf, surf, dec, enc) /\ buf \in [Buffers -> BufType]
           /\ (Comp => Vpp # "double") /\ Reading(src[e]) => AtFront(buf[Path(e)[src[e].cur]], src[e].x)
<1>1. /\ DOMAIN src[e] = SrcFields /\ SrcData(e, src[e]) /\ src[e].x \in Items
      /\ src[e].cur \in 1 .. Len(Path(e)) /\ DOMAIN sts = Sessions /\ DOMAIN src = Sources
      /\ src[e].pc = "done" <=> sts[e] # "run"
      /\ Shared(buf, surf, dec, enc) /\ buf \in [Buffers -> BufType]
  BY DataFacts DEF DataInv, SrcData, ThreadInv, SrcOK
<1>2. Path(e) \in Seq(Buffers) /\ 1 \in 1 .. Len(Path(e))
  BY SurfacesLemma
<1>3. Cur(e) \in Buffers /\ Path(e)[1] \in Buffers /\ Cur(e) = Path(e)[src[e].cur]
      /\ Len(Path(e)) \in Nat \ {0}
  BY <1>1, <1>2 DEF Cur
<1>4. ASSUME ~Comp
      PROVE  Path(e) = <<e>> /\ Len(Path(e)) = 1 /\ src[e].cur = 1 /\ Cur(e) = e /\ Path(e)[1] = e
  <2>1. Path(e) = <<e>>
    BY <1>4 DEF Path
  <2>2. Len(<<e>>) = 1 /\ <<e>>[1] = e
    OBVIOUS
  <2>3. src[e].cur = 1
    BY <1>1, <2>1, <2>2
  <2> QED BY <1>3, <2>1, <2>2, <2>3
<1>5. e \in Sessions
  BY DEF Sessions
<1>6. src[e].x.surf \in Surfaces \cup {None}
  BY <1>1 DEF Items
<1>7. (Comp => Vpp # "double") /\ Reading(src[e]) => AtFront(buf[Path(e)[src[e].cur]], src[e].x)
  BY <1>3 DEF DataInv, ReadsInv
<1> QED BY <1>1, <1>3, <1>4, <1>5, <1>6, <1>7

\* The thread is where nothing depends on what it got.
LEMMA SrcDataMoves ==
    ASSUME NEW e \in Sources, NEW J, NEW K, SrcData(e, J),
           K.x = J.x, K.cur = J.cur \/ K.cur \in 1 .. Len(Path(e)), K.read = J.read,
           K.pc \in {"get", "wait", "blocked", "expired", "rel", "flush", "cancel", "drain", "done"}
    PROVE  SrcData(e, K)
  BY DEF SrcData, SrcPC

\* A step of the thread of e within the loop, or out of it with an error.
LEMMA SourceRecordStep ==
    ASSUME DataInv, ThreadInv', NEW e \in Sources,
           sink' = sink, dec' = dec, stop' = stop,
           NEW K, src' = [src EXCEPT ![e] = K], SrcData(e, K),
           \/ sts' = sts /\ src[e].pc # "done" /\ (Comp \/ K.pc # "drain")
           \/ K.pc = "done" /\ \E st : st # "ok" /\ sts' = [sts EXCEPT ![e] = st],
           Shared(buf', surf', dec', enc'),
           \A s \in Surfaces : surf'[s].frame = surf[s].frame,
           ~Comp => \A c \in Sources \ {e} : buf'[c] = buf[c],
           (Comp => Vpp # "double") /\ Reading(K) => AtFront(buf'[Path(e)[K.cur]], K.x)
    PROVE  DataInv'
<1>1. /\ DOMAIN sts = Sessions /\ DOMAIN src = Sources /\ e \in Sessions
      /\ src[e].pc = "done" <=> sts[e] # "run"
  BY SourceFacts
<1>2. src'[e] = K /\ \A c \in Sources \ {e} : src'[c] = src[c] /\ sts'[c] = sts[c]
  <2>1. src'[e] = K /\ \A c \in Sources \ {e} : src'[c] = src[c]
    BY <1>1
  <2>2. \A c \in Sources \ {e} : sts'[c] = sts[c]
    <3>1. \A c \in Sources \ {e} : c \in Sessions
      BY DEF Sessions
    <3> QED BY <1>1, <3>1
  <2> QED BY <2>1, <2>2
<1>3. (Comp \/ K.pc # "drain") /\ sts'[e] # "ok"
  <2>1. CASE sts' = sts /\ src[e].pc # "done" /\ (Comp \/ K.pc # "drain")
    <3>1. sts[e] = "run"
      BY <1>1, <2>1
    <3> QED BY <2>1, <3>1
  <2>2. CASE K.pc = "done" /\ \E st : st # "ok" /\ sts' = [sts EXCEPT ![e] = st]
    BY <1>1, <2>2
  <2> QED BY <2>1, <2>2
<1>4. ~Comp => Clean(K, sts'[e], buf'[e])
  BY <1>3 DEF Clean
<1> QED BY <1>2, <1>4, SourceStep

\* Nothing that the threads share changes.
LEMMA SourceQuietStep ==
    ASSUME DataInv, ThreadInv', NEW e \in Sources,
           sink' = sink, dec' = dec, stop' = stop, buf' = buf, surf' = surf, enc' = enc,
           NEW K, src' = [src EXCEPT ![e] = K], SrcData(e, K),
           \/ sts' = sts /\ src[e].pc # "done" /\ (Comp \/ K.pc # "drain")
           \/ K.pc = "done" /\ \E st : st # "ok" /\ sts' = [sts EXCEPT ![e] = st],
           (Comp => Vpp # "double") /\ Reading(K) => AtFront(buf[Path(e)[K.cur]], K.x)
    PROVE  DataInv'
<1>1. Shared(buf, surf, dec, enc)
  BY SourceFacts
<1> QED BY <1>1, SourceRecordStep

\* The thread ends with an error.
LEMMA SourceStops ==
    ASSUME DataInv, ThreadInv', NEW e \in Sources,
           sink' = sink, dec' = dec, stop' = stop, buf' = buf, surf' = surf, enc' = enc,
           src' = [src EXCEPT ![e].pc = "done"],
           \E st : st # "ok" /\ sts' = [sts EXCEPT ![e] = st]
    PROVE  DataInv'
<1> DEFINE K == [src[e] EXCEPT !.pc = "done"]
<1>1. DOMAIN src[e] = SrcFields /\ SrcData(e, src[e])
  BY SourceFacts
<1>2. K.pc = "done" /\ K.x = src[e].x /\ K.cur = src[e].cur /\ K.read = src[e].read
  BY <1>1 DEF SrcFields
<1>3. src' = [src EXCEPT ![e] = K]
  OBVIOUS
<1> HIDE DEF K
<1>4. SrcData(e, K) /\ ~Reading(K)
  BY <1>1, <1>2, SrcDataMoves DEF Reading
<1> QED BY <1>2, <1>3, <1>4, SourceQuietStep

\* The thread only goes on.
LEMMA SourceJumps ==
    ASSUME DataInv, ThreadInv', NEW e \in Sources,
           sink' = sink, dec' = dec, stop' = stop, buf' = buf, surf' = surf, enc' = enc,
           sts' = sts, src[e].pc # "done", NEW K, src' = [src EXCEPT ![e] = K],
           K.x = src[e].x, K.cur = src[e].cur \/ K.cur \in 1 .. Len(Path(e)), K.read = src[e].read,
           K.pc \in {"get", "wait", "blocked", "expired", "flush", "cancel"}
    PROVE  DataInv'
<1>1. SrcData(e, src[e])
  BY SourceFacts
<1>2. SrcData(e, K) /\ ~Reading(K)
  BY <1>1, SrcDataMoves DEF Reading
<1> QED BY <1>2, SourceQuietStep

\* Steps that only change the record and the status of the thread.
LEMMA SourceRecords ==
    ASSUME DataInv, ThreadInv', NEW e \in Sources,
           \/ GetFrame(e) \/ SyncFrameFails(e) \/ VppDrained(e) \/ VppFails(e) \/ VppStopped(e)
           \/ EncodeFails(e) \/ SliceExpires(e) \/ Flush(e)
    PROVE  DataInv'
<1> DEFINE J == src[e]
<1>1. /\ DOMAIN J = SrcFields /\ SrcData(e, J) /\ J.x \in Items
      /\ J.cur \in 1 .. Len(Path(e)) /\ Cur(e) \in Buffers
      /\ Cur(e) = Path(e)[J.cur] /\ 1 \in 1 .. Len(Path(e))
      /\ DOMAIN sts = Sessions /\ DOMAIN src = Sources /\ e \in Sessions
      /\ buf \in [Buffers -> BufType]
      /\ (Comp => Vpp # "double") /\ Reading(J) => AtFront(buf[Path(e)[J.cur]], J.x)
  BY SourceFacts, SurfacesLemma
<1>2. /\ sink' = sink /\ dec' = dec /\ stop' = stop /\ buf' = buf /\ surf' = surf /\ enc' = enc
      /\ J.pc # "done"
  BY DEF GetFrame, SyncFrameFails, VppDrained, VppFails, VppStopped, EncodeFails, SliceExpires, Flush
<1>3. CASE /\ src' = [src EXCEPT ![e].pc = "done"]
           /\ \E st : st # "ok" /\ sts' = [sts EXCEPT ![e] = st]
  BY <1>2, <1>3, SourceStops
<1>4. ASSUME NEW K, src' = [src EXCEPT ![e] = K], sts' = sts, SrcData(e, K), Comp \/ K.pc # "drain",
             (Comp => Vpp # "double") /\ Reading(K) => AtFront(buf[Path(e)[K.cur]], K.x)
      PROVE  DataInv'
  BY <1>2, <1>4, SourceQuietStep
<1>5. CASE GetFrame(e)
  <2>1. CASE J.quit \/ ~NoSurface(buf[Cur(e)])
    <3> DEFINE x == IF J.quit THEN EndMark ELSE Front(buf[Cur(e)])
               K == [J EXCEPT !.x = x, !.quit = (x.surf = None), !.vs = (x.surf # None),
                              !.pc = IF Vpp = "off" THEN "enc" ELSE "vpp"]
    <3>1. src' = [src EXCEPT ![e] = K] /\ sts' = sts
      <4>1. PICK y \in {x} : src' = [src EXCEPT ![e].x = y, ![e].quit = (y.surf = None),
                                                ![e].vs = (y.surf # None),
                                                ![e].pc = IF Vpp = "off" THEN "enc" ELSE "vpp"]
        BY <1>5, <2>1, Zenon DEF GetFrame
      <4>2. y = x
        OBVIOUS
      <4>3. sts' = sts
        BY <1>5 DEF GetFrame
      <4> HIDE DEF x
      <4> QED BY <1>1, <4>1, <4>2, <4>3
    <3>2. x \in Items /\ (x.surf # None => AtFront(buf[Cur(e)], x))
      <4>1. CASE J.quit
        BY <4>1, EndMarkItem
      <4>2. CASE ~J.quit
        <5>1. buf[Cur(e)].list \in Seq(Items) /\ buf[Cur(e)].list # << >>
          BY <1>1, <2>1, <4>2 DEF BufType, NoSurface
        <5>2. Front(buf[Cur(e)]) \in Items
          BY <5>1, TailLemma DEF Front
        <5> QED BY <2>1, <4>2, <5>2 DEF AtFront
      <4> QED BY <4>1, <4>2
    <3> HIDE DEF x
    <3>3. /\ K.x = x /\ K.cur = J.cur /\ K.read = J.read
          /\ K.pc = (IF Vpp = "off" THEN "enc" ELSE "vpp") /\ (K.vs <=> x.surf # None)
      BY <1>1 DEF SrcFields
    <3> HIDE DEF K, J
    <3>4. SrcData(e, K)
      BY <1>1, <3>2, <3>3 DEF SrcData, SrcPC
    <3>5. Reading(K) => AtFront(buf[Path(e)[K.cur]], K.x)
      BY <1>1, <3>2, <3>3 DEF Reading
    <3> QED BY <1>4, <3>1, <3>3, <3>4, <3>5
  <2>2. CASE ~(J.quit \/ ~NoSurface(buf[Cur(e)]))
    <3> DEFINE K == [J EXCEPT !.pc = "wait", !.slices = 0]
    <3>1. src' = [src EXCEPT ![e] = K] /\ sts' = sts
      BY <1>1, <1>5, <2>2 DEF GetFrame
    <3>2. K.pc = "wait" /\ K.x = J.x /\ K.cur = J.cur /\ K.read = J.read
      BY <1>1 DEF SrcFields
    <3> HIDE DEF K
    <3> QED BY <1>2, <3>1, <3>2, SourceJumps
  <2> QED BY <2>1, <2>2
<1>6. CASE SyncFrameFails(e) \/ VppFails(e) \/ VppStopped(e)
  BY <1>3, <1>6 DEF SyncFrameFails, VppFails, VppStopped
<1>7. CASE VppDrained(e)
  <2> DEFINE K == [J EXCEPT !.vs = FALSE, !.pc = IF Comp THEN "composed" ELSE "enc"]
  <2>1. src' = [src EXCEPT ![e] = K] /\ sts' = sts /\ J.pc = "vpp" /\ J.x.surf = None
    BY <1>1, <1>7 DEF VppDrained
  <2>2. /\ K.x = J.x /\ K.cur = J.cur /\ K.read = J.read /\ K.vs = FALSE
        /\ K.pc = IF Comp THEN "composed" ELSE "enc"
    BY <1>1 DEF SrcFields
  <2> HIDE DEF K, J
  <2>3. SrcData(e, K)
    BY <1>1, <2>1, <2>2 DEF SrcData, SrcPC
  <2>4. ~Reading(K) /\ K.pc # "drain"
    BY <2>1, <2>2 DEF Reading
  <2> QED BY <1>4, <2>1, <2>3, <2>4
<1>8. CASE EncodeFails(e)
  <2>1. PICK kind \in {"error", "hang"} :
           src' = [src EXCEPT ![e].pc = "rel", ![e].r = kind, ![e].bs = @ + 1]
    BY <1>8 DEF EncodeFails
  <2> DEFINE K == [J EXCEPT !.pc = "rel", !.r = kind, !.bs = @ + 1]
  <2>2. src' = [src EXCEPT ![e] = K] /\ sts' = sts /\ J.pc = "enc"
    BY <1>1, <1>8, <2>1 DEF EncodeFails
  <2>3. K.x = J.x /\ K.cur = J.cur /\ K.read = J.read /\ K.pc = "rel"
    BY <1>1 DEF SrcFields
  <2> HIDE DEF K, J
  <2>4. SrcData(e, K)
    BY <1>1, <2>3, SrcDataMoves
  <2>5. Reading(K) => Reading(J)
    BY <2>2, <2>3 DEF Reading
  <2> QED BY <1>1, <1>4, <2>2, <2>3, <2>4, <2>5
<1>9. CASE SliceExpires(e)
  <2> DEFINE K == [J EXCEPT !.pc = "expired"]
  <2>1. src' = [src EXCEPT ![e] = K] /\ sts' = sts
    BY <1>1, <1>9 DEF SliceExpires
  <2>2. K.pc = "expired" /\ K.x = J.x /\ K.cur = J.cur /\ K.read = J.read
    BY <1>1 DEF SrcFields
  <2> HIDE DEF K
  <2> QED BY <1>2, <2>1, <2>2, SourceJumps
<1>10. CASE Flush(e)
  <2>1. CASE src' = [src EXCEPT ![e].bs = 0, ![e].cur = 1, ![e].pc = IF Comp THEN "drain" ELSE "cancel"]
             /\ sts' = sts
    <3> DEFINE K == [J EXCEPT !.bs = 0, !.cur = 1, !.pc = IF Comp THEN "drain" ELSE "cancel"]
    <3>1. src' = [src EXCEPT ![e] = K]
      BY <1>1, <2>1
    <3>2. /\ K.pc = (IF Comp THEN "drain" ELSE "cancel") /\ K.x = J.x /\ K.cur = 1
          /\ K.read = J.read
      BY <1>1 DEF SrcFields
    <3> HIDE DEF K
    <3>3. SrcData(e, K) /\ ~Reading(K)
      BY <1>1, <3>2, SrcDataMoves DEF Reading
    <3> HIDE DEF J
    <3> QED BY <1>4, <2>1, <3>1, <3>2, <3>3
  <2> QED BY <1>3, <1>10, <2>1 DEF Flush
<1> QED BY <1>5, <1>6, <1>7, <1>8, <1>9, <1>10

\* An event of a buffer of e changes, or buffering is cancelled.
LEMMA EventShared ==
    ASSUME DataInv, NEW b \in Buffers, NEW B \in BufType, B.list = buf[b].list,
           buf' = [buf EXCEPT ![b] = B], surf' = surf, dec' = dec, enc' = enc
    PROVE  /\ Shared(buf', surf', dec', enc') /\ buf'[b] = B
           /\ \A c \in Buffers \ {b} : buf'[c] = buf[c]
           /\ \A c \in Buffers : buf'[c].list = buf[c].list
<1>1. buf \in [Buffers -> BufType] /\ Shared(buf, surf, dec, enc)
  BY DataFacts DEF DataInv
<1>2. /\ buf' \in [Buffers -> BufType] /\ buf'[b] = B
      /\ \A c \in Buffers \ {b} : buf'[c] = buf[c]
      /\ \A c \in Buffers : buf'[c].list = buf[c].list
  BY <1>1
<1>3. SharedTypes(buf', surf, dec, enc)
  BY <1>1, <1>2 DEF Shared, SharedTypes
<1>4. Shared(buf', surf, dec, enc)
  BY <1>1, <1>2, <1>3, SharedQuiet
<1> QED BY <1>2, <1>4

\* A wait returns, with or without an insertion.
LEMMA Waits ==
    ASSUME DataInv, ThreadInv', NEW e \in Sources, WaitForSurfaceInsertion(e) \/ SliceReturns(e)
    PROVE  DataInv'
<1> DEFINE J == src[e]
           b == Cur(e)
           B == ResetEvent(buf[b])
<1>1. /\ DOMAIN J = SrcFields /\ SrcData(e, J) /\ b \in Buffers /\ DOMAIN src = Sources
      /\ buf \in [Buffers -> BufType] /\ (~Comp => b = e)
  BY SourceFacts
<1>2. /\ sink' = sink /\ dec' = dec /\ stop' = stop /\ surf' = surf /\ enc' = enc
      /\ buf' = [buf EXCEPT ![b] = B] /\ J.pc # "done"
  BY DEF WaitForSurfaceInsertion, SliceReturns
<1> HIDE DEF b
<1>3. B \in BufType /\ B.list = buf[b].list
  BY <1>1, EventLemma
<1> HIDE DEF B
<1>4. Shared(buf', surf', dec', enc') /\ \A c \in Buffers \ {b} : buf'[c] = buf[c]
  BY <1>1, <1>2, <1>3, EventShared
<1>5. ~Comp => \A c \in Sources \ {e} : buf'[c] = buf[c]
  BY <1>1, <1>4 DEF Buffers
<1>6. ASSUME NEW K, src' = [src EXCEPT ![e] = K], K.x = J.x, K.cur = J.cur, K.read = J.read,
             K.pc \in {"get", "blocked", "wait", "done"},
             \/ sts' = sts
             \/ K.pc = "done" /\ \E st : st # "ok" /\ sts' = [sts EXCEPT ![e] = st]
      PROVE  DataInv'
  <2>1. SrcData(e, K) /\ ~Reading(K)
    BY <1>1, <1>6, SrcDataMoves DEF Reading
  <2>2. \/ sts' = sts /\ J.pc # "done" /\ (Comp \/ K.pc # "drain")
        \/ K.pc = "done" /\ \E st : st # "ok" /\ sts' = [sts EXCEPT ![e] = st]
    BY <1>2, <1>6
  <2> QED BY <1>2, <1>4, <1>5, <1>6, <2>1, <2>2, SourceRecordStep
<1>7. CASE WaitForSurfaceInsertion(e)
  <2> DEFINE p == IF buf[Cur(e)].ins THEN "get" ELSE "blocked"
             K == [J EXCEPT !.pc = p]
  <2>1. src' = [src EXCEPT ![e] = K] /\ sts' = sts
    BY <1>1, <1>7 DEF WaitForSurfaceInsertion
  <2>2. K.pc = p /\ K.x = J.x /\ K.cur = J.cur /\ K.read = J.read
    BY <1>1 DEF SrcFields
  <2>3. p \in {"get", "blocked"}
    OBVIOUS
  <2> HIDE DEF K, p
  <2> QED BY <1>6, <2>1, <2>2, <2>3
<1>8. CASE SliceReturns(e)
  <2>1. CASE src' = [src EXCEPT ![e].pc = "done"] /\ sts' = [sts EXCEPT ![e] = "error"]
    <3> DEFINE K == [J EXCEPT !.pc = "done"]
    <3>1. src' = [src EXCEPT ![e] = K] /\ K.pc = "done" /\ K.x = J.x /\ K.cur = J.cur /\ K.read = J.read
      BY <1>1, <2>1 DEF SrcFields
    <3> HIDE DEF K
    <3> QED BY <1>6, <2>1, <3>1
  <2>2. CASE src' = [src EXCEPT ![e].pc = "wait", ![e].slices = @ + 1] /\ sts' = sts
    <3> DEFINE K == [J EXCEPT !.pc = "wait", !.slices = @ + 1]
    <3>1. src' = [src EXCEPT ![e] = K]
      BY <1>1, <2>2
    <3>2. K.pc = "wait" /\ K.x = J.x /\ K.cur = J.cur /\ K.read = J.read
      BY <1>1 DEF SrcFields
    <3> HIDE DEF K
    <3> QED BY <1>6, <2>2, <3>1, <3>2
  <2> QED BY <1>8, <2>1, <2>2 DEF SliceReturns
<1> QED BY <1>7, <1>8

\* Nothing is added to the buffer from now on.
LEMMA Cancels ==
    ASSUME DataInv, ThreadInv', NEW e \in Sources, Cancel(e)
    PROVE  DataInv'
<1> DEFINE J == src[e]
           b == Cur(e)
           B == CancelBuffering(buf[b])
           K == [J EXCEPT !.pc = "drain"]
<1>1. /\ DOMAIN J = SrcFields /\ SrcData(e, J) /\ b \in Buffers /\ DOMAIN src = Sources
      /\ buf \in [Buffers -> BufType] /\ (~Comp => b = e) /\ (J.pc = "done" <=> sts[e] # "run")
  BY SourceFacts
<1>2. /\ sink' = sink /\ dec' = dec /\ stop' = stop /\ surf' = surf /\ enc' = enc /\ sts' = sts
      /\ buf' = [buf EXCEPT ![b] = B] /\ J.pc = "cancel" /\ src' = [src EXCEPT ![e] = K]
  BY DEF Cancel
<1>3. K.pc = "drain" /\ K.x = J.x /\ K.cur = J.cur /\ K.read = J.read
  BY <1>1 DEF SrcFields
<1> HIDE DEF b, K
<1>4. B \in BufType /\ B.list = buf[b].list /\ B.allowed = FALSE
  BY <1>1, EventLemma
<1> HIDE DEF B
<1>5. /\ Shared(buf', surf', dec', enc') /\ \A c \in Buffers \ {b} : buf'[c] = buf[c]
      /\ buf'[b] = B
  BY <1>1, <1>2, <1>4, EventShared
<1>6. /\ src'[e] = K /\ \A c \in Sources \ {e} : src'[c] = src[c]
      /\ SrcData(e, K) /\ ~Reading(K)
  BY <1>1, <1>2, <1>3, SrcDataMoves DEF Reading
<1>7. ASSUME ~Comp
      PROVE  Clean(K, sts'[e], buf'[e]) /\ \A c \in Sources \ {e} : buf'[c] = buf[c]
  <2>1. buf'[e] = B /\ sts'[e] = "run"
    BY <1>1, <1>2, <1>5, <1>7
  <2>2. \A c \in Sources \ {e} : buf'[c] = buf[c]
    BY <1>1, <1>5, <1>7 DEF Buffers
  <2> QED BY <1>4, <2>1, <2>2 DEF Clean
<1> HIDE DEF J
<1> QED BY <1>2, <1>5, <1>6, <1>7, SourceStep

\* A descriptor leaves a buffer, if it is there.
LEMMA ReleasedShared ==
    ASSUME DataInv, NEW b \in Buffers, NEW x \in Items, Released(b, x), dec' = dec, enc' = enc
    PROVE  /\ Shared(buf', surf', dec', enc')
           /\ \A s \in Surfaces : surf'[s].frame = surf[s].frame
           /\ buf'[b].allowed = buf[b].allowed
           /\ \A c \in Buffers \ {b} : buf'[c] = buf[c]
<1> DEFINE t == x.surf
           B == ReleaseSurface(buf[b], t)
<1>1. buf \in [Buffers -> BufType] /\ Shared(buf, surf, dec, enc) /\ buf[b] \in BufType
  BY DataFacts DEF DataInv
<1>2. /\ buf' = [buf EXCEPT ![b] = B]
      /\ surf' = IF t # None /\ Releases(buf[b], t) THEN Unlock(surf, t) ELSE surf
  BY DEF Released
<1> HIDE DEF t
<1>3. /\ B \in BufType /\ B.allowed = buf[b].allowed
      /\ ~Releases(buf[b], t) => B = buf[b]
      /\ Releases(buf[b], t) => \E k \in 1 .. Len(buf[b].list) :
            B.list = EraseAt(buf[b].list, k) /\ buf[b].list[k].surf = t
  BY <1>1, ReleaseLemma
<1> HIDE DEF B
<1>4. buf' \in [Buffers -> BufType] /\ buf'[b] = B /\ \A c \in Buffers \ {b} : buf'[c] = buf[c]
  BY <1>1, <1>2, <1>3
<1>5. CASE Releases(buf[b], t)
  <2>1. PICK k \in 1 .. Len(buf[b].list) : B.list = EraseAt(buf[b].list, k) /\ buf[b].list[k].surf = t
    BY <1>3, <1>5
  <2>2. surf' = IF t # None THEN Unlock(surf, t) ELSE surf
    BY <1>2, <1>5
  <2>3. buf'[b].list = EraseAt(buf[b].list, k) /\ \A c \in Buffers \ {b} : buf'[c].list = buf[c].list
    BY <1>4, <2>1
  <2>4. buf' \in [Buffers -> BufType] /\ t = buf[b].list[k].surf
    BY <1>4, <2>1
  <2>5. /\ Shared(buf', IF t # None THEN Unlock(surf, t) ELSE surf, dec, enc)
        /\ \A s \in Surfaces : (IF t # None THEN Unlock(surf, t) ELSE surf)[s].frame = surf[s].frame
    BY <1>1, <2>3, <2>4, SharedErase
  <2> QED BY <1>3, <1>4, <2>2, <2>5
<1>6. CASE ~Releases(buf[b], t)
  <2>1. surf' = surf /\ B.list = buf[b].list
    BY <1>2, <1>3, <1>6
  <2>2. Shared(buf', surf', dec', enc')
    BY <1>2, <1>3, <2>1, EventShared
  <2> QED BY <1>3, <1>4, <2>1, <2>2
<1> QED BY <1>5, <1>6

\* The thread releases what it got, at the end of an iteration or of an input.
LEMMA Releases1 ==
    ASSUME DataInv, ThreadInv', NEW e \in Sources,
           ReleaseInput(e) \/ ReleaseComposed(e) \/ ReleaseFrame(e)
    PROVE  DataInv'
<1> DEFINE J == src[e]
<1>1. /\ DOMAIN J = SrcFields /\ SrcData(e, J) /\ J.x \in Items /\ DOMAIN src = Sources
      /\ Cur(e) \in Buffers /\ Path(e)[1] \in Buffers /\ J.cur \in 1 .. Len(Path(e))
      /\ Len(Path(e)) \in Nat \ {0} /\ (~Comp => Cur(e) = e /\ Path(e)[1] = e)
      /\ buf \in [Buffers -> BufType] /\ DOMAIN sts = Sessions /\ e \in Sessions
      /\ Shared(buf, surf, dec, enc)
      /\ (Comp => Vpp # "double") /\ Reading(J) => AtFront(buf[Path(e)[J.cur]], J.x)
  BY SourceFacts
<1>2. /\ sink' = sink /\ dec' = dec /\ stop' = stop /\ enc' = enc /\ J.pc # "done"
  BY DEF ReleaseInput, ReleaseComposed, ReleaseFrame
<1>3. ASSUME NEW b \in Buffers, Released(b, J.x), ~Comp => b = e,
             NEW K, src' = [src EXCEPT ![e] = K], SrcData(e, K), ~Reading(K),
             \/ sts' = sts /\ (Comp \/ K.pc # "drain")
             \/ K.pc = "done" /\ \E st : st # "ok" /\ sts' = [sts EXCEPT ![e] = st]
      PROVE  DataInv'
  <2>1. /\ Shared(buf', surf', dec', enc')
        /\ \A s \in Surfaces : surf'[s].frame = surf[s].frame
        /\ \A c \in Buffers \ {b} : buf'[c] = buf[c]
    BY <1>1, <1>2, <1>3, ReleasedShared
  <2>2. ~Comp => \A c \in Sources \ {e} : buf'[c] = buf[c]
    BY <1>3, <2>1 DEF Buffers
  <2>3. \/ sts' = sts /\ J.pc # "done" /\ (Comp \/ K.pc # "drain")
        \/ K.pc = "done" /\ \E st : st # "ok" /\ sts' = [sts EXCEPT ![e] = st]
    BY <1>2, <1>3
  <2> QED BY <1>2, <1>3, <2>1, <2>2, <2>3, SourceRecordStep
<1>4. CASE ReleaseInput(e)
  <2> DEFINE K == [J EXCEPT !.pc = "get", !.cur = J.cur + 1]
  <2>1. /\ Released(Cur(e), J.x) /\ src' = [src EXCEPT ![e] = K] /\ sts' = sts /\ J.pc = "more"
    BY <1>1, <1>4 DEF ReleaseInput
  <2>2. K.pc = "get" /\ K.x = J.x /\ K.cur = J.cur + 1 /\ K.read = J.read
    BY <1>1 DEF SrcFields
  <2> HIDE DEF K
  <2>3. K.cur \in 1 .. Len(Path(e))
    <3>1. J.cur < Len(Path(e))
      BY <1>1, <2>1 DEF SrcData
    <3> QED BY <1>1, <2>2, <3>1
  <2>4. SrcData(e, K) /\ ~Reading(K)
    BY <1>1, <2>2, <2>3, SrcDataMoves DEF Reading
  <2> QED BY <1>1, <1>3, <2>1, <2>2, <2>4
<1>5. CASE ReleaseComposed(e)
  <2> DEFINE K == [J EXCEPT !.pc = "enc", !.cur = 1]
  <2>1. /\ Released(Cur(e), J.x) /\ src' = [src EXCEPT ![e] = K] /\ sts' = sts /\ J.pc = "composed"
    BY <1>1, <1>5 DEF ReleaseComposed
  <2>2. K.pc = "enc" /\ K.x = J.x /\ K.cur = 1 /\ K.read = J.read
    BY <1>1 DEF SrcFields
  <2> HIDE DEF K
  <2>3. Comp /\ Vpp # "off"
    BY <1>1, <2>1 DEF SrcData
  <2>4. SrcData(e, K)
    BY <1>1, <2>2, <2>3 DEF SrcData, SrcPC
  <2>5. ~Reading(K)
    BY <2>2, <2>3 DEF Reading
  <2> QED BY <1>1, <1>3, <2>1, <2>2, <2>4, <2>5
<1>6. CASE ReleaseFrame(e)
  <2>1. PICK K : /\ src' = [src EXCEPT ![e] = K]
                 /\ K.x = J.x /\ K.cur = J.cur /\ K.read = J.read
                 /\ K.pc \in {Again(J), "flush", "done"}
                 /\ \/ sts' = sts
                    \/ K.pc = "done" /\ \E st : st # "ok" /\ sts' = [sts EXCEPT ![e] = st]
    <3>1. ASSUME NEW p \in {Again(J), "flush", "done"}, NEW n,
                 src' = [src EXCEPT ![e] = [J EXCEPT !.pc = p, !.bs = n]],
                 \/ sts' = sts
                 \/ p = "done" /\ \E st : st # "ok" /\ sts' = [sts EXCEPT ![e] = st]
          PROVE  \E K : /\ src' = [src EXCEPT ![e] = K]
                        /\ K.x = J.x /\ K.cur = J.cur /\ K.read = J.read
                        /\ K.pc \in {Again(J), "flush", "done"}
                        /\ \/ sts' = sts
                           \/ K.pc = "done" /\ \E st : st # "ok" /\ sts' = [sts EXCEPT ![e] = st]
      <4> DEFINE K == [J EXCEPT !.pc = p, !.bs = n]
      <4>1. K.pc = p /\ K.x = J.x /\ K.cur = J.cur /\ K.read = J.read
        BY <1>1 DEF SrcFields
      <4>2. src' = [src EXCEPT ![e] = K]
        BY <3>1
      <4> HIDE DEF K
      <4> QED BY <3>1, <4>1, <4>2
    <3>2. CASE src[e].r = "more"
      <4>1. sts' = sts /\ src' = [src EXCEPT ![e] = [J EXCEPT !.bs = @ - 1,
                                    !.pc = IF J.vs THEN Again(J) ELSE "flush"]]
        BY <1>1, <1>6, <3>2 DEF ReleaseFrame
      <4>2. src' = [src EXCEPT ![e] = [J EXCEPT !.pc = IF J.vs THEN Again(J) ELSE "flush",
                                                !.bs = J.bs - 1]]
        BY <4>1
      <4>3. (IF J.vs THEN Again(J) ELSE "flush") \in {Again(J), "flush", "done"}
        OBVIOUS
      <4> QED BY <3>1, <4>1, <4>2, <4>3
    <3>3. CASE src[e].r # "more" /\ src' = [src EXCEPT ![e].pc = "done"]
      <4>1. \E st : st # "ok" /\ sts' = [sts EXCEPT ![e] = st]
        <5>1. J.r \in {"none", "more", "error", "hang"}
          BY DEF DataInv, ThreadInv, SrcOK
        <5>2. CASE J.r = "none"
          <6>1. J.pc = "rel" /\ Again(J) \in {"get", "vpp"}
            BY <1>6 DEF ReleaseFrame, Again
          <6>2. sts' = [sts EXCEPT ![e] = "error"]
                \/ src' = [src EXCEPT ![e].pc = Again(J), ![e].bs = IF @ = AsyncDepth THEN @ - 1 ELSE @]
            BY <1>6, <5>2 DEF ReleaseFrame
          <6>3. CASE src' = [src EXCEPT ![e].pc = Again(J), ![e].bs = IF @ = AsyncDepth THEN @ - 1 ELSE @]
            <7> DEFINE n == IF J.bs = AsyncDepth THEN J.bs - 1 ELSE J.bs
                       K == [J EXCEPT !.pc = Again(J), !.bs = n]
                       L == [J EXCEPT !.pc = "done"]
            <7>1. src' = [src EXCEPT ![e] = K] /\ src' = [src EXCEPT ![e] = L]
              BY <1>1, <3>3, <6>3
            <7>2. K.pc = Again(J) /\ L.pc = "done"
              BY <1>1 DEF SrcFields
            <7> HIDE DEF K, L
            <7> QED BY <1>1, <6>1, <7>1, <7>2
          <6> QED BY <6>2, <6>3
        <5>3. CASE J.r # "none"
          BY <1>6, <3>3, <5>1, <5>3 DEF ReleaseFrame
        <5> QED BY <5>2, <5>3
      <4>2. src' = [src EXCEPT ![e] = [J EXCEPT !.pc = "done", !.bs = J.bs]]
        <5>1. [J EXCEPT !.pc = "done", !.bs = J.bs] = [J EXCEPT !.pc = "done"]
          BY <1>1 DEF SrcFields
        <5> QED BY <3>3, <5>1
      <4>3. "done" \in {Again(J), "flush", "done"}
        OBVIOUS
      <4> QED BY <3>1, <4>1, <4>2, <4>3
    <3>4. CASE src[e].r # "more" /\ src' # [src EXCEPT ![e].pc = "done"]
      <4>1. sts' = sts /\ src' = [src EXCEPT ![e].pc = Again(J), ![e].bs = IF @ = AsyncDepth THEN @ - 1 ELSE @]
        BY <1>6, <3>4 DEF ReleaseFrame
      <4> DEFINE n == IF J.bs = AsyncDepth THEN J.bs - 1 ELSE J.bs
      <4>2. src' = [src EXCEPT ![e] = [J EXCEPT !.pc = Again(J), !.bs = n]]
        BY <1>1, <4>1
      <4>3. Again(J) \in {Again(J), "flush", "done"}
        OBVIOUS
      <4> QED BY <3>1, <4>1, <4>2, <4>3
    <3> QED BY <3>2, <3>3, <3>4
  <2>2. /\ J.pc = "rel"
        /\ IF J.read THEN Released(Path(e)[1], J.x) ELSE buf' = buf /\ surf' = surf
    BY <1>6 DEF ReleaseFrame
  <2>3. CASE J.read
    <3>1. K.pc \in {"get", "flush", "done"}
      BY <2>1, <2>3 DEF Again
    <3>2. SrcData(e, K) /\ ~Reading(K)
      BY <1>1, <2>1, <3>1, SrcDataMoves DEF Reading
    <3> QED BY <1>1, <1>3, <2>1, <2>2, <2>3, <3>1, <3>2
  <2>4. CASE ~J.read
    <3>1. K.pc \in {"vpp", "flush", "done"} /\ Vpp = "double"
      BY <1>1, <2>1, <2>4 DEF Again, SrcData
    <3>2. SrcData(e, K)
      BY <1>1, <2>1, <3>1 DEF SrcData, SrcPC
    <3>3. (Comp => Vpp # "double") /\ Reading(K) => AtFront(buf[Path(e)[K.cur]], K.x)
      BY <1>1, <2>1, <2>2, <3>1 DEF Reading
    <3>4. \/ sts' = sts /\ J.pc # "done" /\ (Comp \/ K.pc # "drain")
          \/ K.pc = "done" /\ \E st : st # "ok" /\ sts' = [sts EXCEPT ![e] = st]
      BY <1>2, <2>1, <3>1
    <3>5. buf' = buf /\ surf' = surf
      BY <2>2, <2>4
    <3> QED BY <1>2, <2>1, <3>2, <3>3, <3>4, <3>5, SourceQuietStep
  <2> QED BY <2>3, <2>4
<1> QED BY <1>4, <1>5, <1>6

\* What is left in the buffers of the source is released.
LEMMA Drains ==
    ASSUME DataInv, ThreadInv', NEW e \in Sources, Drain(e)
    PROVE  DataInv'
<1> DEFINE J == src[e]
           b == Cur(e)
<1>1. /\ DOMAIN J = SrcFields /\ SrcData(e, J) /\ b \in Buffers /\ DOMAIN src = Sources
      /\ J.cur \in 1 .. Len(Path(e)) /\ Len(Path(e)) \in Nat \ {0}
      /\ buf \in [Buffers -> BufType] /\ DOMAIN sts = Sessions /\ e \in Sessions
      /\ (~Comp => b = e /\ Len(Path(e)) = 1 /\ J.cur = 1)
      /\ (J.pc = "done" <=> sts[e] # "run") /\ Shared(buf, surf, dec, enc)
  BY SourceFacts
<1>2. /\ sink' = sink /\ dec' = dec /\ stop' = stop /\ enc' = enc /\ J.pc = "drain"
  BY DEF Drain
<1>3. ~Comp => ~buf[e].allowed
  BY <1>2 DEF DataInv, CleanInv, Clean
<1>4. ASSUME NEW K, src' = [src EXCEPT ![e] = K], K.x = J.x, K.read = J.read,
             K.cur = J.cur \/ K.cur \in 1 .. Len(Path(e)), K.pc \in {"cancel", "drain", "done"},
             \A c \in Sources \ {e} : sts'[c] = sts[c],
             Shared(buf', surf', dec', enc'),
             \A s \in Surfaces : surf'[s].frame = surf[s].frame,
             \A c \in Buffers \ {b} : buf'[c] = buf[c],
             ~Comp => Clean(K, sts'[e], buf'[e])
      PROVE  DataInv'
  <2>1. SrcData(e, K) /\ ~Reading(K)
    BY <1>1, <1>4, SrcDataMoves DEF Reading
  <2>2. src'[e] = K /\ \A c \in Sources \ {e} : src'[c] = src[c]
    BY <1>1, <1>4
  <2>3. ~Comp => \A c \in Sources \ {e} : buf'[c] = buf[c]
    BY <1>1, <1>4 DEF Buffers
  <2> HIDE DEF J, b
  <2> QED BY <1>2, <1>4, <2>1, <2>2, <2>3, SourceStep
<1>5. CASE ~NoSurface(buf[b])
  <2> DEFINE x == Front(buf[b])
             K == [J EXCEPT !.pc = IF Comp THEN "cancel" ELSE "drain"]
  <2>1. Released(b, x) /\ src' = [src EXCEPT ![e] = K] /\ sts' = sts
    BY <1>5 DEF Drain
  <2>2. x \in Items
    <3>1. buf[b].list \in Seq(Items) /\ buf[b].list # << >>
      BY <1>1, <1>5 DEF BufType, NoSurface
    <3> QED BY <3>1, TailLemma DEF Front
  <2> HIDE DEF b, x
  <2>3. K.pc = (IF Comp THEN "cancel" ELSE "drain") /\ K.x = J.x /\ K.cur = J.cur /\ K.read = J.read
    BY <1>1 DEF SrcFields
  <2> HIDE DEF K
  <2>4. /\ Shared(buf', surf', dec', enc')
        /\ \A s \in Surfaces : surf'[s].frame = surf[s].frame
        /\ buf'[b].allowed = buf[b].allowed
        /\ \A c \in Buffers \ {b} : buf'[c] = buf[c]
    BY <1>1, <1>2, <2>1, <2>2, ReleasedShared
  <2>5. ~Comp => Clean(K, sts'[e], buf'[e])
    <3>1. sts'[e] = "run"
      BY <1>1, <1>2, <2>1
    <3>2. ~Comp => ~buf'[e].allowed
      BY <1>1, <1>3, <2>4
    <3> QED BY <3>1, <3>2 DEF Clean
  <2> QED BY <1>4, <2>1, <2>3, <2>4, <2>5
<1>6. CASE NoSurface(buf[b])
  <2>1. buf' = buf /\ surf' = surf
    BY <1>6 DEF Drain
  <2>2. CASE J.cur < Len(Path(e))
    <3> DEFINE K == [J EXCEPT !.cur = J.cur + 1]
    <3>1. src' = [src EXCEPT ![e] = K] /\ sts' = sts
      BY <1>1, <1>6, <2>2 DEF Drain
    <3>2. K.pc = "drain" /\ K.x = J.x /\ K.cur = J.cur + 1 /\ K.read = J.read
      BY <1>1, <1>2 DEF SrcFields
    <3> HIDE DEF K
    <3>3. K.cur \in 1 .. Len(Path(e)) /\ Comp
      <4>1. Comp
        <5>1. ~Comp => Len(Path(e)) = 1 /\ J.cur = 1
          BY <1>1
        <5> DEFINE L == Len(Path(e))
                   c == J.cur
        <5>2. ~(L = 1 /\ c = 1)
          <6>1. c < L
            BY <2>2
          <6> HIDE DEF L, c
          <6> QED BY <6>1
        <5> QED BY <5>1, <5>2, Zenon
      <4>2. J.cur \in Nat /\ J.cur >= 1
        BY <1>1
      <4> HIDE DEF J
      <4>3. J.cur + 1 \in 1 .. Len(Path(e))
        BY <1>1, <2>2, <4>2
      <4> QED BY <3>2, <4>1, <4>3
    <3> QED BY <1>1, <1>2, <1>4, <2>1, <3>1, <3>2, <3>3
  <2>3. CASE ~(J.cur < Len(Path(e)))
    <3> DEFINE K == [J EXCEPT !.pc = "done"]
    <3>1. src' = [src EXCEPT ![e] = K] /\ sts' = [sts EXCEPT ![e] = "ok"]
      BY <1>1, <1>6, <2>3 DEF Drain
    <3>2. K.pc = "done" /\ K.x = J.x /\ K.cur = J.cur /\ K.read = J.read
      BY <1>1 DEF SrcFields
    <3> HIDE DEF K
    <3>3. ~Comp => Clean(K, sts'[e], buf'[e])
      BY <1>1, <1>3, <1>6, <2>1, <3>2 DEF Clean
    <3>4. \A c \in Sources \ {e} : sts'[c] = sts[c]
      BY <1>1, <3>1 DEF Sessions
    <3> QED BY <1>1, <1>2, <1>4, <2>1, <3>1, <3>2, <3>3, <3>4
  <2> QED BY <2>2, <2>3
<1> QED BY <1>5, <1>6

LEMMA HoldsOneMore ==
    ASSUME DataInv, NEW e \in Sources, NEW h \in Inputs, h \notin enc[e].hold,
           h.frame = surf[h.surf].frame, enc' \in [Sources -> EncType],
           enc'[e].hold = enc[e].hold \cup {h},
           \A c \in Sources \ {e} : enc'[c].hold = enc[c].hold
    PROVE  /\ Shared(buf, Lock(surf, h.surf), dec, enc')
           /\ \A t \in Surfaces : Lock(surf, h.surf)[t].frame = surf[t].frame
<1>1. Shared(buf, surf, dec, enc)
  BY DEF DataInv
<1> QED BY <1>1, SharedHold

\* The codecs of e lock the surface that the thread of e got.
LEMMA HoldShared ==
    ASSUME DataInv, NEW e \in Sources, src[e].x.surf # None, NEW n \in Nat,
           enc' = [Hold(e, [surf |-> src[e].x.surf, frame |-> surf[src[e].x.surf].frame])
                     EXCEPT ![e].delay = n],
           surf' = HoldLock(e), buf' = buf, dec' = dec
    PROVE  /\ Shared(buf', surf', dec', enc')
           /\ \A s \in Surfaces : surf'[s].frame = surf[s].frame
<1> DEFINE s == src[e].x.surf
           h == [surf |-> s, frame |-> surf[s].frame]
           H == enc[e].hold \cup {h}
           F == [enc[e] EXCEPT !.delay = n, !.hold = H]
<1>1. /\ s \in Surfaces /\ Shared(buf, surf, dec, enc) /\ enc \in [Sources -> EncType]
      /\ surf \in [Surfaces -> SurfType] /\ enc[e] \in EncType
  BY SourceFacts, DataFacts
<1>2. enc' = [enc EXCEPT ![e] = F]
  BY <1>1 DEF Hold
<1>3. surf' = IF enc'[e].hold = enc[e].hold THEN surf ELSE Lock(surf, s)
  BY DEF HoldLock
<1>4. h = [surf |-> s, frame |-> surf[s].frame] /\ H = enc[e].hold \cup {h}
  OBVIOUS
<1> HIDE DEF s
<1>5. h \in Inputs
  BY <1>1 DEF Inputs, SurfType
<1> HIDE DEF h
<1>6. H \in SUBSET Inputs
  BY <1>1, <1>5 DEF EncType
<1> HIDE DEF H
<1>7. F \in EncType
  BY <1>1, <1>6, Zenon DEF EncType
<1>8. F.hold = H
  BY <1>1 DEF EncType
<1> HIDE DEF F
<1>9. enc' \in [Sources -> EncType] /\ enc'[e] = F /\ \A c \in Sources \ {e} : enc'[c] = enc[c]
  BY <1>1, <1>2, <1>7
<1>10. /\ enc'[e].hold = enc[e].hold \cup {h} /\ \A c \in Sources \ {e} : enc'[c].hold = enc[c].hold
       /\ enc' \in [Sources -> EncType]
  BY <1>4, <1>8, <1>9
<1>11. h \in Inputs /\ h.surf = s /\ h.frame = surf[h.surf].frame
  BY <1>4, <1>5
<1>12. CASE h \in enc[e].hold
  <2>1. surf' = surf /\ \A c \in Sources : enc'[c].hold = enc[c].hold
    BY <1>3, <1>10, <1>12
  <2>2. SharedTypes(buf, surf, dec, enc')
    BY <1>1, <1>10 DEF Shared, SharedTypes
  <2>3. Shared(buf, surf, dec, enc')
    <3>1. Shared(buf, surf, dec, enc) /\ \A c \in Sources : enc'[c].hold = enc[c].hold
      BY <1>1, <2>1
    <3>2. \A b \in Buffers : buf[b].list = buf[b].list
      OBVIOUS
    <3>3. \A d \in Sinks : dec[d].refs = dec[d].refs
      OBVIOUS
    <3> QED BY ONLY <3>1, <3>2, <3>3, <2>2, SharedQuiet
  <2> QED BY <2>1, <2>3
<1>13. CASE h \notin enc[e].hold
  <2>1. surf' = Lock(surf, h.surf)
    BY <1>3, <1>10, <1>11, <1>13
  <2>2. /\ Shared(buf, Lock(surf, h.surf), dec, enc')
        /\ \A t \in Surfaces : Lock(surf, h.surf)[t].frame = surf[t].frame
    BY <1>1, <1>10, <1>11, <1>13, HoldsOneMore
  <2> QED BY <2>1, <2>2
<1> QED BY <1>12, <1>13

\* VPP reads the surface.
LEMMA Processes ==
    ASSUME DataInv, ThreadInv', NEW e \in Sources, VppWantsMore(e) \/ VppOutput(e)
    PROVE  DataInv'
<1> DEFINE J == src[e]
<1>1. /\ DOMAIN J = SrcFields /\ SrcData(e, J) /\ DOMAIN src = Sources
      /\ J.cur \in 1 .. Len(Path(e)) /\ J.x \in Items
      /\ (Comp => Vpp # "double") /\ Reading(J) => AtFront(buf[Path(e)[J.cur]], J.x)
      /\ enc \in [Sources -> EncType] /\ enc[e] \in EncType
  BY SourceFacts, DataFacts
<1>2. /\ sink' = sink /\ dec' = dec /\ stop' = stop /\ buf' = buf /\ sts' = sts
      /\ J.pc = "vpp" /\ J.x.surf # None /\ surf' = HoldLock(e) /\ VppReads(e)
  BY DEF VppWantsMore, VppOutput
<1>3. /\ Shared(buf', surf', dec', enc')
      /\ \A s \in Surfaces : surf'[s].frame = surf[s].frame
  <2> DEFINE h == [surf |-> J.x.surf, frame |-> surf[J.x.surf].frame]
             n == enc[e].delay
  <2>1. enc' = Hold(e, h)
    BY <1>2 DEF VppReads
  <2> HIDE DEF h
  <2>2. n \in Nat
    BY <1>1 DEF EncType
  <2> DEFINE F == [enc[e] EXCEPT !.hold = @ \cup {h}]
  <2>3. [F EXCEPT !.delay = n] = F
    BY <1>1 DEF EncType
  <2>4. Hold(e, h) = [enc EXCEPT ![e] = F] /\ Hold(e, h)[e] = F
    BY <1>1 DEF Hold
  <2> HIDE DEF F
  <2>5. [Hold(e, h) EXCEPT ![e].delay = n] = [Hold(e, h) EXCEPT ![e] = F]
    BY <2>3, <2>4
  <2>6. [Hold(e, h) EXCEPT ![e] = F] = Hold(e, h)
    BY <1>1, <2>4
  <2>7. enc' = [Hold(e, h) EXCEPT ![e].delay = n]
    BY <2>1, <2>5, <2>6
  <2> HIDE DEF n
  <2> QED BY <1>2, <2>2, <2>7, HoldShared DEF h
<1>4. ASSUME NEW K, src' = [src EXCEPT ![e] = K], SrcData(e, K), K.pc \in {"more", "composed", "enc"},
             K.x = J.x, K.cur = J.cur
      PROVE  DataInv'
  <2>1. Reading(K) => Reading(J)
    BY <1>2, <1>4 DEF Reading
  <2> QED BY <1>1, <1>2, <1>3, <1>4, <2>1, SourceRecordStep
<1>5. CASE VppWantsMore(e)
  <2> DEFINE K == [J EXCEPT !.pc = "more"]
  <2>1. src' = [src EXCEPT ![e] = K] /\ J.cur < Len(Path(e))
    BY <1>5 DEF VppWantsMore
  <2>2. K.pc = "more" /\ K.x = J.x /\ K.cur = J.cur /\ K.read = J.read
    BY <1>1 DEF SrcFields
  <2> HIDE DEF K, J
  <2>3. SrcData(e, K)
    BY <1>1, <1>2, <2>1, <2>2 DEF SrcData, SrcPC
  <2> QED BY <1>4, <2>1, <2>2, <2>3
<1>6. CASE VppOutput(e)
  <2> DEFINE r == ~(Vpp = "double" /\ J.read)
             p == IF Comp THEN "composed" ELSE "enc"
             K == [J EXCEPT !.pc = p, !.vs = TRUE, !.read = r]
  <2>1. src' = [src EXCEPT ![e] = K]
    BY <1>1, <1>6 DEF VppOutput
  <2>2. K.pc = p /\ K.x = J.x /\ K.cur = J.cur /\ K.read = r
    BY <1>1 DEF SrcFields
  <2>3. (Vpp # "double" => r = TRUE) /\ p \in {"composed", "enc"} /\ (p = "composed" => Comp)
    OBVIOUS
  <2> HIDE DEF K, J, r, p
  <2>4. SrcData(e, K)
    BY <1>1, <1>2, <2>2, <2>3 DEF SrcData, SrcPC
  <2> QED BY <1>4, <2>1, <2>2, <2>3, <2>4
<1> QED BY <1>5, <1>6

\* The frame, or a null frame, is passed to the encoder.
LEMMA Encodes ==
    ASSUME DataInv, ThreadInv', NEW e \in Sources, EncodeFrame(e)
    PROVE  DataInv'
<1> DEFINE J == src[e]
<1>1. /\ DOMAIN J = SrcFields /\ SrcData(e, J) /\ DOMAIN src = Sources
      /\ J.cur \in 1 .. Len(Path(e)) /\ J.x \in Items
      /\ (Comp => Vpp # "double") /\ Reading(J) => AtFront(buf[Path(e)[J.cur]], J.x)
      /\ enc \in [Sources -> EncType] /\ enc[e] \in EncType
      /\ Shared(buf, surf, dec, enc)
  BY SourceFacts, DataFacts
<1>2. /\ sink' = sink /\ dec' = dec /\ stop' = stop /\ buf' = buf /\ J.pc = "enc"
  BY DEF EncodeFrame
<1>3. CASE J.bs < AsyncDepth
  <2>1. PICK real \in {J.vs /\ ~J.poll} :
           EncodeOneFrame(e, real, J.num + IF real THEN 1 ELSE 0)
    BY <1>3, Zenon DEF EncodeFrame
  <2>2. sts' = sts
    BY <1>3 DEF EncodeFrame
  <2> DEFINE n == J.num + IF real THEN 1 ELSE 0
             k == Kept(e, real)
             K == [J EXCEPT !.pc = "rel", !.vs = real, !.num = n, !.poll = (n >= MaxFrames),
                            !.bs = @ + 1, !.r = EncodeResult(e, real)]
  <2>3. src' = [src EXCEPT ![e] = K]
    BY <1>1, <2>1 DEF EncodeOneFrame
  <2>4. K.pc = "rel" /\ K.x = J.x /\ K.cur = J.cur /\ K.read = J.read
    BY <1>1 DEF SrcFields
  <2> HIDE DEF K
  <2>5. k \in Nat
    <3>1. enc[e].delay \in Nat
      BY <1>1 DEF EncType
    <3> QED BY <3>1 DEF Kept
  <2> HIDE DEF k
  <2>6. Shared(buf', surf', dec', enc') /\ \A s \in Surfaces : surf'[s].frame = surf[s].frame
    <3>1. CASE real /\ Vpp = "off"
      <4>1. J.x.surf # None
        BY <1>1, <1>2, <2>1, <3>1 DEF SrcData
      <4>2. /\ enc' = [Hold(e, [surf |-> J.x.surf, frame |-> surf[J.x.surf].frame])
                         EXCEPT ![e].delay = k]
            /\ surf' = HoldLock(e)
        BY <2>1, <3>1 DEF EncodeOneFrame, k
      <4> QED BY <1>2, <2>5, <4>1, <4>2, HoldShared
    <3>2. CASE ~(real /\ Vpp = "off")
      <4> DEFINE F == [enc[e] EXCEPT !.delay = k]
      <4>1. enc' = [enc EXCEPT ![e] = F] /\ surf' = surf
        BY <2>1, <3>2 DEF EncodeOneFrame, k
      <4>2. F \in EncType
        BY <1>1, <2>5, Zenon DEF EncType
      <4>3. F.hold = enc[e].hold
        BY <1>1 DEF EncType
      <4> HIDE DEF F
      <4>4. enc' \in [Sources -> EncType] /\ \A c \in Sources : enc'[c].hold = enc[c].hold
        BY <1>1, <4>1, <4>2, <4>3
      <4>5. SharedTypes(buf, surf, dec, enc')
        BY <1>1, <4>4 DEF Shared, SharedTypes
      <4> QED BY <1>1, <1>2, <4>1, <4>4, <4>5, SharedQuiet
    <3> QED BY <3>1, <3>2
  <2>7. SrcData(e, K) /\ (Reading(K) => Reading(J))
    BY <1>1, <1>2, <2>4, SrcDataMoves DEF Reading
  <2> QED BY <1>1, <1>2, <2>2, <2>3, <2>4, <2>6, <2>7, SourceRecordStep
<1>4. CASE ~(J.bs < AsyncDepth)
  BY <1>2, <1>4, SourceStops DEF EncodeFrame
<1> QED BY <1>3, <1>4

\* A codec no longer needs an input.
LEMMA CodecUnlocks ==
    ASSUME DataInv, ThreadInv', NEW e \in Sources, RuntimeUnlocks(e)
    PROVE  DataInv'
<1>1. /\ SrcData(e, src[e]) /\ Shared(buf, surf, dec, enc) /\ enc \in [Sources -> EncType]
      /\ enc[e] \in EncType
      /\ (Comp => Vpp # "double") /\ Reading(src[e]) => AtFront(buf[Path(e)[src[e].cur]], src[e].x)
  BY SourceFacts, DataFacts
<1>2. PICK h \in enc[e].hold : /\ enc' = [enc EXCEPT ![e].hold = @ \ {h}]
                               /\ surf' = Unlock(surf, h.surf)
  BY DEF RuntimeUnlocks
<1>3. buf' = buf /\ sink' = sink /\ src' = src /\ dec' = dec /\ stop' = stop /\ sts' = sts
  BY DEF RuntimeUnlocks
<1> DEFINE H == enc[e].hold \ {h}
           F == [enc[e] EXCEPT !.hold = H]
<1>4. enc' = [enc EXCEPT ![e] = F]
  BY <1>2
<1>5. H \in SUBSET Inputs
  BY <1>1 DEF EncType
<1>6. F.hold = enc[e].hold \ {h}
  BY <1>1 DEF EncType
<1> HIDE DEF H
<1>7. F \in EncType
  BY <1>1, <1>5, Zenon DEF EncType
<1> HIDE DEF F
<1>8. /\ enc' \in [Sources -> EncType] /\ enc'[e].hold = enc[e].hold \ {h}
      /\ \A c \in Sources \ {e} : enc'[c].hold = enc[c].hold
  BY <1>1, <1>4, <1>6, <1>7
<1> HIDE <1>4
<1>9. /\ Shared(buf, Unlock(surf, h.surf), dec, enc')
      /\ \A s \in Surfaces : Unlock(surf, h.surf)[s].frame = surf[s].frame
  BY <1>1, <1>8, SharedUnhold
<1>10. Shared(buf', surf', dec', enc') /\ \A s \in Surfaces : surf'[s].frame = surf[s].frame
  BY <1>2, <1>3, <1>9
<1>11. ~Comp => Clean(src'[e], sts'[e], buf'[e])
  BY <1>3 DEF DataInv, CleanInv
<1> QED BY <1>1, <1>3, <1>10, <1>11, SourceStep

-----------------------------------------------------------------------------
(***************************************************************************)
(* The launcher                                                            *)
(***************************************************************************)

LEMMA EmptyLists == << >> \in Seq(Surfaces) /\ Distinct(<< >>) /\ << >> \in Seq(Buffers)
<1>1. << >> \in Seq(Surfaces) /\ << >> \in Seq(Buffers) /\ Len(<< >>) = 0
  OBVIOUS
<1> QED BY <1>1 DEF Distinct

\* A thread at its beginning, when nothing is decoded or queued.
LEMMA StartSink ==
    ASSUME NEW d \in Sinks, NEW S, NEW p, NEW n \in Int, NEW m,
           d \in Overlay => \A s \in Pool[d] : S[s].frame = 0
    PROVE  /\ SinkData(d, InitSink(p, n, m), S) /\ InitSink(p, n, m).n = n
           /\ DecData(d, InitDec, S, n)
<1> DEFINE K == InitSink(p, n, m)
<1>1. K.pc = "start" /\ K.x = EndMark /\ K.todo = << >> /\ K.n = n
  BY DEF InitSink
<1> HIDE DEF K
<1>2. SinkData(d, K, S)
  BY <1>1, EndMarkItem, EmptyLists DEF SinkData, SinkPC, Adding
<1>3. InitDec.pend = << >> /\ InitDec.refs = {} /\ Len(<< >>) = 0 /\ 0 <= DecDelay
  BY ShapeAssumption DEF InitDec
<1>4. DecData(d, InitDec, S, n)
  BY <1>3, EmptyLists DEF DecData
<1> QED BY <1>1, <1>2, <1>4 DEF K

LEMMA StartSource ==
    ASSUME NEW e \in Sources, NEW m, NEW B
    PROVE  /\ SrcData(e, InitSrc(m)) /\ ~Reading(InitSrc(m))
           /\ Clean(InitSrc(m), "run", B)
<1> DEFINE K == InitSrc(m)
<1>1. K.pc = "get" /\ K.x = EndMark /\ K.cur = 1 /\ K.read = TRUE
  BY DEF InitSrc
<1> HIDE DEF K
<1>2. SrcData(e, K) /\ ~Reading(K) /\ Clean(K, "run", B)
  BY <1>1, EndMarkItem, SurfacesLemma DEF SrcData, SrcPC, Reading, Clean
<1> QED BY <1>2 DEF K

LEMMA StartShared ==
    ASSUME NEW B \in [Buffers -> BufType], NEW S \in [Surfaces -> SurfType],
           \A b \in Buffers : B[b].list = << >>,
           \A s \in Surfaces : S[s].locked = 0
    PROVE  Shared(B, S, [d \in Sinks |-> InitDec], [e \in Sources |-> InitEnc])
<1> DEFINE D == [d \in Sinks |-> InitDec]
           E == [e \in Sources |-> InitEnc]
<1>1. InitDec.refs = {} /\ InitEnc.hold = {} /\ InitDec \in DecType /\ InitEnc \in EncType
  BY EmptyLists DEF InitDec, InitEnc, DecType, EncType
<1>2. /\ \A d \in Sinks : D[d].refs = {}
      /\ \A e \in Sources : E[e].hold = {}
      /\ D \in [Sinks -> DecType] /\ E \in [Sources -> EncType]
  BY <1>1
<1> HIDE DEF D, E
<1>3. Shared(B, S, D, E)
  BY <1>2, SharedReset DEF SharedTypes
<1> QED BY <1>3 DEF D, E

\* A recovery starts all threads again, in surfaces that nobody has locked.
LEMMA Recovers2 ==
    ASSUME DataInv, ThreadInv', Recover
    PROVE  DataInv'
<1>1. /\ buf \in [Buffers -> BufType] /\ surf \in [Surfaces -> SurfType]
      /\ stop' \in [Sessions -> BOOLEAN]
      /\ \A d \in Sinks : sink[d].n \in Int /\ DecData(d, dec[d], surf, sink[d].n)
  BY DataFacts DEF DataInv, SinkData, Recover
<1>2. buf' \in [Buffers -> BufType] /\ \A b \in Buffers : buf'[b].list = << >>
  <2>1. ASSUME NEW b \in Buffers
        PROVE  ReleaseSurfaceAll(buf[b]) \in BufType /\ ReleaseSurfaceAll(buf[b]).list = << >>
    <3>1. buf[b] \in BufType /\ << >> \in Seq(Items) /\ TRUE \in BOOLEAN
      BY <1>1
    <3>2. [buf[b] EXCEPT !.list = << >>, !.allowed = TRUE] \in BufType
      BY <3>1, Zenon DEF BufType
    <3>3. [buf[b] EXCEPT !.list = << >>, !.allowed = TRUE].list = << >>
      BY <3>1 DEF BufType
    <3> QED BY <3>2, <3>3 DEF ReleaseSurfaceAll
  <2> QED BY <2>1 DEF Recover
<1>3. /\ surf' \in [Surfaces -> SurfType]
      /\ \A s \in Surfaces : surf'[s].locked = 0 /\ surf'[s].frame = surf[s].frame
  <2>1. ASSUME NEW s \in Surfaces
        PROVE  /\ [surf[s] EXCEPT !.locked = 0] \in SurfType
               /\ [surf[s] EXCEPT !.locked = 0].locked = 0
               /\ [surf[s] EXCEPT !.locked = 0].frame = surf[s].frame
    <3>1. surf[s] \in SurfType
      BY <1>1
    <3> QED BY <3>1 DEF SurfType
  <2> QED BY <2>1 DEF Recover
<1>4. \A d \in Overlay : \A s \in Pool[d] : surf'[s].frame = 0
  <2>1. \A d \in Overlay : d \in Sinks /\ \A s \in Pool[d] : s \in Surfaces
    BY ShapeAssumption, SurfacesLemma
  <2> QED BY <1>1, <1>3, <2>1 DEF DecData
<1>5. Shared(buf', surf', dec', enc')
  BY <1>2, <1>3, StartShared DEF Recover
<1>6. ASSUME NEW d \in Sinks
      PROVE  SinkData(d, sink'[d], surf') /\ DecData(d, dec'[d], surf', sink'[d].n)
  <2>1. sink'[d] = InitSink(sink[d].pos, sink[d].n, sink[d].num) /\ dec'[d] = InitDec
    BY DEF Recover
  <2> QED BY <1>1, <1>4, <2>1, StartSink
<1>7. ASSUME NEW e \in Sources
      PROVE  SrcData(e, src'[e]) /\ ~Reading(src'[e]) /\ Clean(src'[e], sts'[e], buf'[e])
  <2>1. src'[e] = InitSrc(src[e].num) /\ sts'[e] = "run"
    BY DEF Recover, Sessions
  <2> QED BY <2>1, StartSource
<1> QED BY <1>1, <1>5, <1>6, <1>7 DEF DataInv, ReadsInv, CleanInv

LEMMA LauncherQuiet ==
    ASSUME DataInv, ThreadInv', Launcher, ~Recover
    PROVE  DataInv'
<1>1. /\ sink' = sink /\ src' = src /\ sts' = sts /\ buf' = buf /\ surf' = surf
      /\ dec' = dec /\ enc' = enc
      /\ stop' = stop \/ \E x \in Sessions : stop' = [stop EXCEPT ![x] = TRUE]
  BY DEF Launcher, Poll, StopSession, StopOverlay, Finish
<1>2. stop \in [Sessions -> BOOLEAN]
  BY DEF DataInv
<1>3. stop' \in [Sessions -> BOOLEAN]
  BY <1>1, <1>2
<1> QED BY <1>1, <1>3 DEF DataInv, ReadsInv, CleanInv, Cur

-----------------------------------------------------------------------------
(***************************************************************************)
(* All steps                                                               *)
(***************************************************************************)

LEMMA SinkThreadData ==
    ASSUME DataInv, ThreadInv', NEW d \in Sinks,
           SinkThread(d) \/ DecoderUnlocks(d) \/ DecodeFails(d) \/ GetFreeSurfaceTimeout(d)
    PROVE  DataInv'
  BY SinkRecords, DecodesOne, LastFrames, Adds, Signals, Unlocks DEF SinkThread

LEMMA SourceThreadData ==
    ASSUME DataInv, ThreadInv', NEW e \in Sources,
           \/ SourceThread(e) \/ RuntimeUnlocks(e) \/ SyncFrameFails(e) \/ VppFails(e)
           \/ EncodeFails(e) \/ SliceExpires(e)
    PROVE  DataInv'
  BY SourceRecords, Waits, Cancels, Releases1, Drains, Processes, Encodes, CodecUnlocks
  DEF SourceThread

LEMMA InitData == Init => DataInv
<1> SUFFICES ASSUME Init PROVE DataInv
  OBVIOUS
<1>1. ThreadInv
  BY InitThreads
<1>2. buf \in [Buffers -> BufType] /\ \A b \in Buffers : buf[b].list = << >>
  BY EmptyType DEF Init
<1>3. surf \in [Surfaces -> SurfType] /\ \A s \in Surfaces : surf[s].locked = 0 /\ surf[s].frame = 0
  <2>1. [locked |-> 0, frame |-> 0] \in SurfType
    BY DEF SurfType
  <2> QED BY <2>1 DEF Init
<1>4. Shared(buf, surf, dec, enc)
  BY <1>2, <1>3, StartShared DEF Init
<1>5. ASSUME NEW d \in Sinks
      PROVE  SinkData(d, sink[d], surf) /\ DecData(d, dec[d], surf, sink[d].n)
  <2>1. sink[d] = InitSink(0, 0, 0) /\ dec[d] = InitDec
    BY DEF Init
  <2>2. \A s \in Pool[d] : surf[s].frame = 0
    BY <1>3, SurfacesLemma
  <2>3. 0 \in Int
    OBVIOUS
  <2>4. /\ SinkData(d, InitSink(0, 0, 0), surf) /\ InitSink(0, 0, 0).n = 0
        /\ DecData(d, InitDec, surf, 0)
    BY <2>2, <2>3, StartSink
  <2> QED BY <2>1, <2>4
<1>6. ASSUME NEW e \in Sources
      PROVE  SrcData(e, src[e]) /\ ~Reading(src[e]) /\ Clean(src[e], sts[e], buf[e])
  <2>1. src[e] = InitSrc(0) /\ sts[e] = "run"
    BY DEF Init, Sessions
  <2> QED BY <2>1, StartSource
<1>7. stop \in [Sessions -> BOOLEAN]
  BY DEF Init
<1> QED BY <1>1, <1>4, <1>5, <1>6, <1>7 DEF DataInv, ReadsInv, CleanInv

LEMMA NextData == DataInv /\ [Next]_vars => DataInv'
<1> SUFFICES ASSUME DataInv, [Next]_vars PROVE DataInv'
  OBVIOUS
<1>1. ThreadInv'
  BY NextThreads DEF DataInv
<1>2. CASE \E d \in Sinks : \/ SinkThread(d) \/ DecoderUnlocks(d) \/ DecodeFails(d)
                            \/ GetFreeSurfaceTimeout(d)
  BY <1>1, <1>2, SinkThreadData
<1>3. CASE \E e \in Sources : \/ SourceThread(e) \/ RuntimeUnlocks(e) \/ SyncFrameFails(e)
                              \/ VppFails(e) \/ EncodeFails(e) \/ SliceExpires(e)
  BY <1>1, <1>3, SourceThreadData
<1>4. CASE Launcher
  BY <1>1, <1>4, LauncherQuiet, Recovers2
<1>5. CASE Finished \/ UNCHANGED vars
  BY <1>5 DEF Finished, vars, DataInv, ThreadInv, ReadsInv, CleanInv, Cur
<1> QED BY <1>2, <1>3, <1>4, <1>5 DEF Next, Progress, Timeout, Failure

LEMMA DataAlways == Spec => []DataInv
  BY InitData, NextData, PTL DEF Spec

-----------------------------------------------------------------------------
(***************************************************************************)
(* Theorems                                                                *)
(***************************************************************************)

\* Every thread is at a place of its function, has a status exactly when it has
\* ended, and reads a buffer that it has; no Data.Locked is ever negative.
THEOREM TypeTheorem == Spec => []TypeOK
<1>1. DataInv => TypeOK
  <2> SUFFICES ASSUME DataInv PROVE TypeOK
    OBVIOUS
  <2>1. \A s \in Surfaces : surf[s].locked \in Nat
    BY LockedNat DEF DataInv
  <2> QED BY <2>1 DEF DataInv, ThreadInv, SinkOK, SrcOK, SinkData, SrcData, TypeOK
<1> QED BY <1>1, DataAlways, PTL

\* Whatever threads add, release, cancel, stop, fail or are started again,
\* Data.Locked of a surface is the number of its users: the places of the
\* buffers it is queued at, the decoder, and the codecs that read it.
THEOREM LockBalanceTheorem == Spec => []LockBalance
<1>1. DataInv => LockBalance
  <2> SUFFICES ASSUME DataInv, NEW s \in Surfaces
               PROVE  surf[s].locked = Cardinality(Queued(s)) + Cardinality(Decoding(s))
                                       + Cardinality(Held(s))
    BY DEF LockBalance
  <2>1. Counted(buf, dec, enc, s, surf[s].locked)
    BY DEF DataInv, Shared
  <2>2. Queued(s) = QueuedIn(buf, s) /\ Decoding(s) = DecodingIn(dec, s) /\ Held(s) = HeldIn(enc, s)
    BY DEF Queued, QueuedIn, Decoding, DecodingIn, Held, HeldIn
  <2> QED BY <2>1, <2>2 DEF Counted
<1> QED BY <1>1, DataAlways, PTL

\* The decoder never writes into a surface that is queued in a buffer, or that
\* VPP or an encoder still reads: the lock that AddSurface takes is enough, also
\* between the decoder and the first buffer of a chain.
THEOREM FrameIntactTheorem == Spec => []FrameIntact
<1>1. DataInv => FrameIntact
  BY DEF DataInv, Shared, Intact, FrameIntact
<1> QED BY <1>1, DataAlways, PTL

\* A source passes on the frame that GetSurface returned, although GetSurface
\* only copies the descriptor: the descriptor stays at the front, and locked,
\* until the source itself releases it.  A composition whose VPP returns two
\* outputs per input is left out: it releases an input before the second output.
THEOREM ReadsTheorem == (Comp => Vpp # "double") => (Spec => []ReadsWhatItGot)
<1> SUFFICES ASSUME Comp => Vpp # "double" PROVE Spec => []ReadsWhatItGot
  OBVIOUS
<1>1. DataInv => ReadsWhatItGot
  <2> SUFFICES ASSUME DataInv, NEW e \in Sources, src[e].pc \in {"vpp", "enc"},
                      src[e].x.surf # None, src[e].pc = "enc" => Vpp = "off"
               PROVE  surf[src[e].x.surf].frame = src[e].x.frame
    BY DEF ReadsWhatItGot
  <2> DEFINE b == Cur(e)
             x == src[e].x
  <2>1. Reading(src[e])
    BY ShapeAssumption DEF Reading
  <2>2. b \in Buffers /\ AtFront(buf[b], x)
    BY <2>1, SourceFacts
  <2>3. buf[b].list \in Seq(Items) /\ buf[b].list # << >> /\ Head(buf[b].list) = x
    BY <2>2, DataFacts DEF AtFront, NoSurface, Front, BufType
  <2>4. 1 \in 1 .. Len(buf[b].list) /\ buf[b].list[1] = x
    BY <2>3, TailLemma
  <2> HIDE DEF b
  <2> QED BY <2>2, <2>4 DEF DataInv, Shared, Intact
<1> QED BY <1>1, DataAlways, PTL

\* Once a source of a 1 to N transcoding has ended without an error, its buffer
\* is empty and stays empty, however late its sink adds a surface.
THEOREM CleanedUpTheorem == ~Comp => (Spec => []CleanedUp)
<1> SUFFICES ASSUME ~Comp PROVE Spec => []CleanedUp
  OBVIOUS
<1>1. DataInv => CleanedUp
  <2> SUFFICES ASSUME DataInv, NEW e \in Sources, sts[e] = "ok", NEW i \in 1 .. Len(Path(e))
               PROVE  NoSurface(buf[Path(e)[i]])
    BY DEF CleanedUp
  <2>1. Path(e) = <<e>> /\ Len(Path(e)) = 1 /\ Path(e)[1] = e
    BY SourceFacts
  <2>2. i = 1
    BY <2>1
  <2>3. NoSurface(buf[e])
    BY DEF DataInv, CleanInv, Clean
  <2> QED BY <2>1, <2>2, <2>3
<1> QED BY <1>1, DataAlways, PTL

\* A sink of a 1 to N transcoding, whose pool is larger than what its decoder
\* keeps back, never waits for a surface when all sources have ended without an
\* error and the codecs are done: no queue of an ended source holds its surfaces.
THEOREM NotStarvedTheorem ==
    ~Comp /\ (\A d \in Sinks : Cardinality(Pool[d]) > DecDelay) => (Spec => []NotStarved)
<1> SUFFICES ASSUME ~Comp, \A d \in Sinks : Cardinality(Pool[d]) > DecDelay
             PROVE  Spec => []NotStarved
  OBVIOUS
<1>1. DataInv => NotStarved
  <2> SUFFICES ASSUME DataInv, NEW d \in Sinks, Free(d) = {},
                      dec[d].refs \subseteq {dec[d].pend[i] : i \in 1 .. Len(dec[d].pend)},
                      \A e \in Sources : sts[e] = "ok" /\ enc[e].hold = {}
               PROVE  FALSE
    BY DEF NotStarved
  <2> DEFINE D == dec[d]
             I == 1 .. Len(D.pend)
  <2>1. /\ D.pend \in Seq(Surfaces) /\ Len(D.pend) \in Nat /\ Len(D.pend) <= DecDelay
    BY DataFacts DEF DataInv, DecData, DecType
  <2>2. Buffers = Sources
    BY DEF Buffers
  <2>3. ASSUME NEW s \in Pool[d] PROVE s \in D.refs
    <3>1. s \in Surfaces /\ surf[s].locked # 0
      BY SurfacesLemma DEF Free
    <3>2. Counted(buf, dec, enc, s, surf[s].locked)
      BY <3>1 DEF DataInv, Shared
    <3>3. QueuedIn(buf, s) = {}
      <4>1. ASSUME NEW b \in Buffers PROVE Positions(buf[b], s) = {}
        <5>1. buf[b].list = << >>
          BY <2>2 DEF DataInv, CleanInv, Clean, NoSurface
        <5> QED BY <5>1 DEF Positions
      <4> QED BY <4>1 DEF QueuedIn
    <3>4. HeldIn(enc, s) = {}
      BY DEF HeldIn
    <3>5. DecodingIn(dec, s) # {}
      BY <3>1, <3>2, <3>3, <3>4, FS_EmptySet DEF Counted
    <3>6. PICK c \in Sinks : s \in dec[c].refs
      BY <3>5 DEF DecodingIn
    <3>7. s \in Pool[c]
      BY <3>6 DEF DataInv, DecData
    <3>8. c = d
      BY <3>7, SurfacesLemma
    <3> QED BY <3>6, <3>8
  <2> DEFINE T == {D.pend[i] : i \in I}
             f == [i \in I |-> D.pend[i]]
  <2>4. f \in Surjection(I, T)
    BY DEF Surjection
  <2>5. IsFiniteSet(I) /\ Cardinality(I) = Len(D.pend)
    <3> DEFINE n == Len(D.pend)
    <3>1. n \in Nat
      BY <2>1
    <3> HIDE DEF n
    <3>2. IsFiniteSet(1 .. n) /\ Cardinality(1 .. n) = IF 1 > n THEN 0 ELSE n - 1 + 1
      BY <3>1, FS_Interval
    <3>3. (IF 1 > n THEN 0 ELSE n - 1 + 1) = n
      BY <3>1
    <3> QED BY <3>2, <3>3 DEF n
  <2>6. IsFiniteSet(T) /\ Cardinality(T) <= Len(D.pend)
    <3> HIDE DEF I, T, f
    <3> QED BY <2>4, <2>5, FS_Surjection
  <2>7. Pool[d] \in SUBSET T
    BY <2>3
  <2> HIDE DEF T, I, f
  <2>8. IsFiniteSet(Pool[d]) /\ Cardinality(Pool[d]) <= Cardinality(T)
    BY <2>6, <2>7, FS_Subset
  <2>9. Cardinality(Pool[d]) \in Nat /\ Cardinality(T) \in Nat
    BY <2>6, <2>8, FS_CardinalityType
  <2> HIDE DEF D
  <2> QED BY <2>1, <2>6, <2>8, <2>9, ShapeAssumption
<1> QED BY <1>1, DataAlways, PTL
===============================================================================
