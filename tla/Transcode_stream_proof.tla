------------------------- MODULE Transcode_stream_proof -------------------------
(***************************************************************************)
(* Theorems about 1 to N transcodings, for any number of sources, surfaces  *)
(* and frames: they implement a stream of frames (FrameStream), and when    *)
(* all sessions end without an error every source has every frame.          *)
(*                                                                         *)
(* On top of where each frame is (Transcode_order_proof), the invariant     *)
(* counts: the frames a sink has delivered, the ones a source has encoded,  *)
(* and how each thread came to its end.                                    *)
(***************************************************************************)
EXTENDS Transcode_order_proof

\* 1 if a frame came out of the decoder and is not counted yet.
Uncounted(K) == IF (Adding(K) /\ Real(K.x)) \/ K.pc = "count" THEN 1 ELSE 0

\* A sink that does not repeat its input: it leaves the loop when the input is
\* over or MaxFrames are delivered, or because of a stop or an error.
OnePass(d, K, o, st, r) ==
    /\ ~K.timeout /\ K.n = K.pos /\ K.pos <= Input[d]
    /\ K.pc \in {"oneFrame", "lastFrame"} => K.last
    /\ K.pc = "lastFrame" => K.eof
    /\ K.eof => K.pos = Input[d]
    /\ r = "ok" \/ (Adding(K) /\ K.after = "done" /\ K.res = "ok") => st \/ o = Total(d)

\* The sink d with the record K and the status r, o frames out of the decoder.
SinkCount(d, K, o, st, r) ==
    /\ K.num \in Nat
    /\ Adding(K) /\ K.after = "count" => Real(K.x)
    /\ K.pc # "done" => /\ K.num + Uncounted(K) = o
                        /\ K.num < MaxFrames \/ (Adding(K) /\ K.after = "done")
    /\ ~Looping => OnePass(d, K, o, st, r)

\* The source with the record K and the status r, which has processed u: it
\* leaves the loop after an end mark, or when MaxFrames are encoded.
SourceCount(K, u, r) ==
    /\ K.num <= Len(u)
    /\ Vpp = "plain" /\ K.pc = "enc" /\ K.vs => K.num < Len(u)
    /\ K.pc = "enc" /\ ~K.vs => K.quit
    /\ K.pc = "rel" /\ K.r \in {"more", "none"} /\ ~K.vs => K.quit \/ K.poll
    /\ K.pc \in {"flush", "cancel", "drain"} \/ r = "ok" => K.quit \/ K.poll

\* Nothing is stopped before a session has failed.
Counts ==
    /\ \A d \in Sinks : SinkCount(d, sink[d], Output(d), stop[d], sts[d])
    /\ Vpp # "double" => \A e \in Sources : SourceCount(src[e], used[e], sts[e])
    /\ lau.todo # {} \/ (\E x \in Sessions : stop[x]) => \E y \in Sessions : sts[y] \notin {"run", "ok"}

CountInv == ~Comp /\ lau.round = 0 => Counts

-----------------------------------------------------------------------------
(***************************************************************************)
(* The threads of a 1 to N transcoding                                     *)
(***************************************************************************)

LEMMA FanOutFacts ==
    ASSUME ~Comp
    PROVE  /\ Overlay = {} /\ Buffers = Sources /\ Sessions = Sinks \cup Sources
           /\ \A d, c \in Sinks : d = c
           /\ Sinks \cap Sources = {}
           /\ \A e \in Sources : Reader(e) = e /\ Path(e) = <<e>>
           /\ \A b, d : d \in Sinks => Feeder(b) = d
<1>1. PICK d \in Sinks : Sinks = {d}
  BY ShapeAssumption
<1>2. ASSUME NEW b PROVE Feeder(b) = d
  BY <1>1 DEF Feeder
<1> QED BY <1>1, <1>2, ShapeAssumption DEF Buffers, Sessions, Reader, Path

LEMMA SinkCountStep ==
    ASSUME DataInv, ~Comp, Counts, NEW d \in Sinks, NEW K, sink' = [sink EXCEPT ![d] = K],
           src' = src, stop' = stop, used' = used, lau' = lau,
           \A x \in Sessions \ {d} : sts'[x] = sts[x], sink[d].pc # "done",
           SinkCount(d, K, Output(d)', stop[d], sts'[d])
    PROVE  Counts'
<1>1. sink'[d] = K /\ d \in Sessions
  BY DataFacts DEF Sessions
<1>2. sts[d] = "run"
  BY DEF DataInv, ThreadInv, SinkOK
<1>3. \A c \in Sinks : SinkCount(c, sink'[c], Output(c)', stop'[c], sts'[c])
  BY <1>1, FanOutFacts
<1>4. \A e \in Sources : sts'[e] = sts[e]
  BY FanOutFacts
<1>5. Vpp # "double" => \A e \in Sources : SourceCount(src'[e], used'[e], sts'[e])
  BY <1>4 DEF Counts
<1>6. \A y \in Sessions : sts[y] \notin {"run", "ok"} => sts'[y] \notin {"run", "ok"}
  BY <1>2
<1> QED BY <1>3, <1>5, <1>6 DEF Counts

LEMMA SourceCountStep ==
    ASSUME DataInv, ~Comp, Counts, NEW e \in Sources, NEW K, src' = [src EXCEPT ![e] = K],
           sink' = sink, dec' = dec, stop' = stop, lau' = lau,
           \A c \in Sources \ {e} : used'[c] = used[c],
           \A x \in Sessions \ {e} : sts'[x] = sts[x], src[e].pc # "done",
           Vpp # "double" => SourceCount(K, used'[e], sts'[e])
    PROVE  Counts'
<1>1. src'[e] = K /\ (\A c \in Sources \ {e} : src'[c] = src[c]) /\ e \in Sessions
  BY SourceFacts
<1>2. sts[e] = "run"
  BY SourceFacts
<1>3. \A d \in Sinks : sts'[d] = sts[d] /\ Output(d)' = Output(d)
  BY FanOutFacts DEF Output
<1>4. \A d \in Sinks : SinkCount(d, sink'[d], Output(d)', stop'[d], sts'[d])
  BY <1>3 DEF Counts
<1>5. ASSUME Vpp # "double", NEW c \in Sources PROVE SourceCount(src'[c], used'[c], sts'[c])
  <2>1. CASE c = e
    BY <1>1, <1>5, <2>1
  <2>2. CASE c # e
    <3>1. src'[c] = src[c] /\ used'[c] = used[c] /\ sts'[c] = sts[c]
      BY <1>1, <2>2, FanOutFacts
    <3> QED BY <1>5, <3>1 DEF Counts
  <2> QED BY <2>1, <2>2
<1>6. \A y \in Sessions : sts[y] \notin {"run", "ok"} => sts'[y] \notin {"run", "ok"}
  BY <1>2
<1> QED BY <1>4, <1>5, <1>6 DEF Counts

\* Only surfaces, buffers and the codecs' inputs change.
LEMMA QuietCounts ==
    ASSUME ~Comp, Counts, sink' = sink, src' = src, stop' = stop, used' = used, sts' = sts,
           \A d \in Sinks : dec'[d].pend = dec[d].pend, lau'.todo = lau.todo
    PROVE  Counts'
<1>1. \A d \in Sinks : Output(d)' = Output(d)
  BY DEF Output
<1> QED BY <1>1 DEF Counts

-----------------------------------------------------------------------------
(***************************************************************************)
(* Decoding threads                                                        *)
(***************************************************************************)

LEMMA TotalLemma ==
    ASSUME NEW d \in Sinks
    PROVE  /\ Total(d) \in Nat /\ Total(d) <= MaxFrames /\ MaxFrames \in Nat \ {0}
           /\ Input[d] <= MaxFrames => Total(d) = Input[d]
           /\ Input[d] >= MaxFrames => Total(d) = MaxFrames
           /\ Input[d] \in Nat
<1>1. Input[d] \in Nat /\ MaxFrames \in Nat \ {0}
  BY ShapeAssumption
<1> QED BY <1>1 DEF Total

\* The thread begins to add end marks, after which it ends with the status r.
LEMMA MarksCount ==
    ASSUME DataInv, NEW d \in Sinks, NEW r, ~Adding(sink[d]), sink[d].pc \notin {"count", "done"},
           NEW o \in Int, NEW st, SinkCount(d, sink[d], o, st, "run"),
           ~Looping /\ r = "ok" => st \/ o = Total(d)
    PROVE  SinkCount(d, Marks(d, "done", r), o, st, "run")
<1> DEFINE K == Marks(d, "done", r)
<1>1. /\ K.pc = "add" /\ ~Real(K.x) /\ K.after = "done" /\ K.res = r
      /\ K.n = sink[d].n /\ K.num = sink[d].num /\ K.pos = sink[d].pos /\ K.eof = sink[d].eof
      /\ K.last = sink[d].last /\ K.timeout = sink[d].timeout
  BY MarksFields
<1> HIDE DEF K
<1>2. Uncounted(K) = 0 /\ Uncounted(sink[d]) = 0 /\ Adding(K)
  BY <1>1 DEF Uncounted, Adding
<1>3. ~Looping => OnePass(d, K, o, st, "run")
  BY <1>1, <1>2 DEF SinkCount, OnePass
<1> QED BY <1>1, <1>2, <1>3 DEF SinkCount, K

\* The thread goes on without a frame, at another place.
LEMMA GoesOnCount ==
    ASSUME NEW d \in Sinks, NEW J, NEW K, NEW o \in Int, NEW st, SinkCount(d, J, o, st, "run"),
           J.pc \notin {"count", "done"}, ~Adding(J), K.pc \in {"loop", "oneFrame", "lastFrame"},
           K.num = J.num,
           ~Looping => /\ K.n = J.n /\ K.pos = J.pos /\ K.timeout = J.timeout
                       /\ K.eof => J.eof \/ K.pos = Input[d]
                       /\ K.pc # "loop" => K.last
                       /\ K.pc = "lastFrame" => K.eof
    PROVE  SinkCount(d, K, o, st, "run")
<1>1. Uncounted(K) = 0 /\ Uncounted(J) = 0 /\ ~Adding(K)
  BY DEF Uncounted, Adding
<1>2. ~Looping => OnePass(d, K, o, st, "run")
  BY <1>1 DEF SinkCount, OnePass
<1> QED BY <1>1, <1>2 DEF SinkCount

LEMMA SinkRecordsCounts ==
    ASSUME OrderInv, DataInv, ~Comp, Counts, NEW d \in Sinks,
           \/ StartDecode(d) \/ LoopDecode(d) \/ EndOfInput(d) \/ StoppedDecode(d)
           \/ DecodeFails(d) \/ GetFreeSurfaceTimeout(d)
    PROVE  Counts'
<1> DEFINE J == sink[d]
           o == Output(d)
<1>1. /\ DOMAIN J = SinkFields /\ DOMAIN sink = Sinks /\ o \in Int /\ d \notin Overlay
      /\ SinkCount(d, J, o, stop[d], sts[d])
  BY DataFacts, OrderFacts, FanOutFacts DEF Counts
<1>2. /\ src' = src /\ stop' = stop /\ dec' = dec /\ used' = used /\ lau' = lau /\ sts' = sts
      /\ J.pc \in {"start", "loop", "oneFrame", "lastFrame"}
  BY DEF StartDecode, LoopDecode, EndOfInput, StoppedDecode, DecodeFails, GetFreeSurfaceTimeout
<1>3. ~Adding(J) /\ J.pc \notin {"count", "done"} /\ sts[d] = "run"
  BY <1>2 DEF Adding, DataInv, ThreadInv, SinkOK
<1>4. SinkCount(d, J, o, stop[d], "run")
  BY <1>1, <1>3
<1> HIDE DEF J, o
<1>5. ASSUME NEW K, sink' = [sink EXCEPT ![d] = K], K.n = J.n, SinkCount(d, K, o, stop[d], "run")
      PROVE  Counts'
  <2>1. Output(d)' = Output(d)
    BY <1>1, <1>2, <1>5 DEF Output, J
  <2> QED BY <1>2, <1>3, <1>5, <2>1, SinkCountStep DEF J, o
<1>6. ASSUME NEW r, sink' = [sink EXCEPT ![d] = Marks(d, "done", r)],
             ~Looping /\ r = "ok" => stop[d] \/ o = Total(d)
      PROVE  Counts'
  <2> DEFINE K == Marks(d, "done", r)
  <2>1. K.n = J.n
    BY MarksFields DEF J
  <2>2. SinkCount(d, K, o, stop[d], "run")
    BY <1>1, <1>3, <1>4, <1>6, MarksCount DEF J
  <2> HIDE DEF K
  <2> QED BY <1>5, <1>6, <2>1, <2>2 DEF K
<1>7. ASSUME NEW K, sink' = [sink EXCEPT ![d] = K], K.pc \in {"loop", "oneFrame", "lastFrame"},
             K.num = J.num, K.n = J.n,
             ~Looping => /\ K.n = J.n /\ K.pos = J.pos /\ K.timeout = J.timeout
                         /\ K.eof => J.eof \/ K.pos = Input[d]
                         /\ K.pc # "loop" => K.last
                         /\ K.pc = "lastFrame" => K.eof
      PROVE  Counts'
  <2>1. SinkCount(d, K, o, stop[d], "run")
    BY <1>1, <1>3, <1>4, <1>7, GoesOnCount
  <2> QED BY <1>5, <1>7, <2>1
<1>8. ASSUME NEW r, sink' = [sink EXCEPT ![d] = NoFrame(d, r)], r # "ok" \/ ~J.last,
             J.pc = "oneFrame"
      PROVE  Counts'
  <2>1. CASE J.last
    BY <1>6, <1>8, <2>1 DEF NoFrame, J
  <2>2. CASE ~J.last
    <3> DEFINE K == [J EXCEPT !.pc = "loop", !.pos = 0]
    <3>1. sink' = [sink EXCEPT ![d] = K]
      BY <1>8, <2>2 DEF NoFrame, J
    <3>2. K.pc = "loop" /\ K.n = J.n /\ K.num = J.num
      BY <1>1 DEF SinkFields
    <3>3. Looping
      BY <1>4, <1>8, <2>2 DEF SinkCount, OnePass
    <3> HIDE DEF K
    <3> QED BY <1>7, <3>1, <3>2, <3>3
  <2> QED BY <2>1, <2>2
<1>9. CASE StartDecode(d)
  <2>1. CASE stop[d]
    BY <1>6, <1>9, <2>1 DEF StartDecode
  <2>2. CASE ~stop[d]
    <3> DEFINE K == [J EXCEPT !.pc = "loop"]
    <3>1. sink' = [sink EXCEPT ![d] = K]
      BY <1>1, <1>9, <2>2 DEF StartDecode, J
    <3>2. /\ K.pc = "loop" /\ K.n = J.n /\ K.num = J.num /\ K.pos = J.pos /\ K.timeout = J.timeout
          /\ K.eof = J.eof
      BY <1>1 DEF SinkFields
    <3> HIDE DEF K
    <3> QED BY <1>7, <3>1, <3>2
  <2> QED BY <2>1, <2>2
<1>10. CASE LoopDecode(d)
  <2>1. PICK last \in BOOLEAN :
           /\ last \/ (J.timeout /\ ~J.last)
           /\ sink' = [sink EXCEPT ![d].last = last,
                                   ![d].pc = IF sink[d].eof THEN "lastFrame" ELSE "oneFrame"]
    BY <1>10 DEF LoopDecode, J
  <2> DEFINE K == [J EXCEPT !.last = last, !.pc = IF sink[d].eof THEN "lastFrame" ELSE "oneFrame"]
  <2>2. sink' = [sink EXCEPT ![d] = K]
    BY <1>1, <2>1 DEF J
  <2>3. /\ K.pc = (IF J.eof THEN "lastFrame" ELSE "oneFrame") /\ K.n = J.n /\ K.num = J.num
        /\ K.pos = J.pos /\ K.timeout = J.timeout /\ K.eof = J.eof /\ K.last = last
    BY <1>1 DEF SinkFields, J
  <2> HIDE DEF K
  <2>4. ~Looping => ~J.timeout
    BY <1>4 DEF SinkCount, OnePass
  <2> QED BY <1>7, <2>1, <2>2, <2>3, <2>4
<1>11. CASE EndOfInput(d)
  <2>1. CASE J.last
    <3> DEFINE K == [J EXCEPT !.eof = TRUE, !.pc = "lastFrame"]
    <3>1. sink' = [sink EXCEPT ![d] = K] /\ J.pos = Input[d] /\ J.pc = "oneFrame"
      BY <1>1, <1>11, <2>1 DEF EndOfInput, J
    <3>2. /\ K.pc = "lastFrame" /\ K.n = J.n /\ K.num = J.num /\ K.pos = J.pos
          /\ K.timeout = J.timeout /\ K.eof /\ K.last = J.last
      BY <1>1 DEF SinkFields
    <3> HIDE DEF K
    <3> QED BY <1>7, <2>1, <3>1, <3>2
  <2>2. CASE ~J.last
    <3>1. sink' = [sink EXCEPT ![d] = NoFrame(d, "ok")] /\ J.pc = "oneFrame"
      BY <1>1, <1>11, <2>2 DEF EndOfInput, J
    <3> QED BY <1>8, <2>2, <3>1
  <2> QED BY <2>1, <2>2
<1>12. CASE StoppedDecode(d)
  <2> DEFINE M == Marks(d, IF J.last THEN "leave" ELSE "loop", "ok")
             K == [M EXCEPT !.timeout = FALSE]
  <2>1. sink' = [sink EXCEPT ![d] = K] /\ stop[d]
    BY <1>1, <1>12 DEF StoppedDecode, J
  <2>2. /\ DOMAIN M = SinkFields /\ M.pc = "add" /\ ~Real(M.x)
        /\ M.after = (IF J.last THEN "leave" ELSE "loop")
        /\ M.n = J.n /\ M.num = J.num /\ M.pos = J.pos /\ M.eof = J.eof /\ M.last = J.last
    BY MarksFields DEF J
  <2> HIDE DEF M
  <2>3. /\ K.pc = "add" /\ ~Real(K.x) /\ K.after \notin {"done", "count"} /\ ~K.timeout
        /\ K.n = J.n /\ K.num = J.num /\ K.pos = J.pos /\ K.eof = J.eof
    BY <2>2 DEF SinkFields, Real
  <2> HIDE DEF K
  <2>4. Uncounted(K) = 0 /\ Uncounted(J) = 0
    BY <1>3, <2>3 DEF Uncounted
  <2>5. SinkCount(d, K, o, stop[d], "run")
    <3>1. ~Looping => OnePass(d, K, o, stop[d], "run")
      BY <1>4, <2>3 DEF SinkCount, OnePass
    <3> QED BY <1>3, <1>4, <2>3, <2>4, <3>1 DEF SinkCount
  <2> QED BY <1>5, <2>1, <2>3, <2>5
<1>13. CASE DecodeFails(d)
  <2>1. PICK r \in {"error", "hang"} : sink' = [sink EXCEPT ![d] = NoFrame(d, r)]
    BY <1>13 DEF DecodeFails
  <2> QED BY <1>8, <1>13, <2>1 DEF DecodeFails, J
<1>14. CASE GetFreeSurfaceTimeout(d)
  <2>1. \/ J.pc = "oneFrame" /\ sink' = [sink EXCEPT ![d] = NoFrame(d, "error")]
        \/ sink' = [sink EXCEPT ![d] = Marks(d, "done", "error")]
    BY <1>1, <1>14 DEF GetFreeSurfaceTimeout, J
  <2> QED BY <1>6, <1>8, <2>1
<1> QED BY <1>9, <1>10, <1>11, <1>12, <1>13, <1>14

LEMMA FrameCounted ==
    ASSUME OrderInv, DataInv, ~Comp, Counts, NEW d \in Sinks, CountFrame(d)
    PROVE  Counts'
<1> DEFINE J == sink[d]
           o == Output(d)
           n == J.num + 1
<1>1. /\ DOMAIN J = SinkFields /\ DOMAIN sink = Sinks /\ o \in Int /\ J.n \in Int
      /\ SinkCount(d, J, o, stop[d], sts[d]) /\ J.pc = "count"
      /\ J.num \in Nat /\ DOMAIN sts = Sessions /\ d \in Sessions
  BY DataFacts, OrderFacts, FanOutFacts DEF Counts, CountFrame, SinkCount
<1>2. /\ src' = src /\ stop' = stop /\ dec' = dec /\ used' = used /\ lau' = lau
      /\ \A x \in Sessions \ {d} : sts'[x] = sts[x]
  BY <1>1 DEF CountFrame
<1>3. ~Adding(J) /\ sts[d] = "run" /\ Uncounted(J) = 1 /\ n = o /\ J.num < MaxFrames /\ n <= MaxFrames
  <2>1. ~Adding(J) /\ sts[d] = "run" /\ Uncounted(J) = 1
    BY <1>1 DEF Adding, DataInv, ThreadInv, SinkOK, Uncounted
  <2>2. J.num < MaxFrames /\ n = o
    BY <1>1, <2>1 DEF SinkCount
  <2> QED BY <1>1, <2>1, <2>2, ShapeAssumption
<1>4. ~Looping => o <= Input[d]
  <2>1. Len(dec[d].pend) \in Nat /\ o = J.n - Len(dec[d].pend)
    BY OrderFacts DEF Output
  <2>2. ~Looping => J.n <= Input[d]
    BY <1>1 DEF SinkCount, OnePass
  <2> HIDE DEF o
  <2> QED BY <1>1, <2>1, <2>2, TotalLemma
<1>5. sts'[d] \in {"run", "error"}
  BY <1>1, <1>3 DEF CountFrame
<1> HIDE DEF J, o, n
<1>6. ASSUME NEW K, sink' = [sink EXCEPT ![d] = K], K.n = J.n, SinkCount(d, K, o, stop[d], sts'[d])
      PROVE  Counts'
  <2>1. Output(d)' = Output(d)
    BY <1>1, <1>2, <1>6 DEF Output, J
  <2> QED BY <1>1, <1>2, <1>6, <2>1, SinkCountStep DEF J, o
<1>7. CASE /\ sink' = [sink EXCEPT ![d] = [Marks(d, "done", "ok") EXCEPT !.num = n]]
           /\ (J.eof /\ J.timeout) \/ n >= MaxFrames
  <2> DEFINE M == Marks(d, "done", "ok")
             K == [M EXCEPT !.num = n]
  <2>1. sink' = [sink EXCEPT ![d] = K]
    BY <1>7
  <2>2. /\ DOMAIN M = SinkFields /\ M.pc = "add" /\ ~Real(M.x) /\ M.after = "done"
        /\ M.n = J.n /\ M.pos = J.pos /\ M.eof = J.eof /\ M.last = J.last /\ M.timeout = J.timeout
    BY MarksFields DEF J
  <2> HIDE DEF M
  <2>3. /\ K.pc = "add" /\ ~Real(K.x) /\ K.after = "done" /\ K.num = n /\ K.timeout = J.timeout
        /\ K.n = J.n /\ K.pos = J.pos /\ K.eof = J.eof
    BY <2>2 DEF SinkFields, Real
  <2> HIDE DEF K
  <2>4. Uncounted(K) = 0 /\ Adding(K)
    BY <2>3 DEF Uncounted, Adding
  <2>5. ASSUME ~Looping PROVE OnePass(d, K, o, stop[d], sts'[d])
    <3>1. OnePass(d, J, o, stop[d], sts[d])
      BY <1>1, <2>5 DEF SinkCount
    <3>2. n >= MaxFrames
      BY <1>7, <3>1 DEF OnePass
    <3>3. o = Total(d)
      BY <1>1, <1>3, <1>4, <2>5, <3>2, TotalLemma
    <3> QED BY <2>3, <3>1, <3>3 DEF OnePass
  <2>6. SinkCount(d, K, o, stop[d], sts'[d])
    BY <1>1, <1>3, <2>3, <2>4, <2>5 DEF SinkCount, n
  <2> QED BY <1>6, <2>1, <2>3, <2>6
<1>8. CASE /\ sink' = [sink EXCEPT ![d] = [J EXCEPT !.pc = "loop", !.num = n]]
           /\ ~(n >= MaxFrames)
  <2> DEFINE K == [J EXCEPT !.pc = "loop", !.num = n]
  <2>1. /\ K.pc = "loop" /\ K.num = n /\ K.timeout = J.timeout
        /\ K.n = J.n /\ K.pos = J.pos /\ K.eof = J.eof
    BY <1>1 DEF SinkFields
  <2>2. sink' = [sink EXCEPT ![d] = K]
    BY <1>8
  <2> HIDE DEF K
  <2>3. Uncounted(K) = 0 /\ ~Adding(K)
    BY <2>1 DEF Uncounted, Adding
  <2>4. ~Looping => OnePass(d, K, o, stop[d], sts'[d])
    BY <1>1, <1>5, <2>1, <2>3 DEF SinkCount, OnePass
  <2>5. n \in Nat /\ n < MaxFrames
    BY <1>1, <1>8, ShapeAssumption DEF n
  <2>6. SinkCount(d, K, o, stop[d], sts'[d])
    BY <1>3, <2>1, <2>3, <2>4, <2>5 DEF SinkCount
  <2> QED BY <1>6, <2>1, <2>2, <2>6
<1>9. CASE sink' = [sink EXCEPT ![d].pc = "done"] /\ sts'[d] = "error"
  <2> DEFINE K == [J EXCEPT !.pc = "done"]
  <2>1. /\ K.pc = "done" /\ K.num = J.num /\ K.timeout = J.timeout
        /\ K.n = J.n /\ K.pos = J.pos /\ K.eof = J.eof
    BY <1>1 DEF SinkFields
  <2>2. sink' = [sink EXCEPT ![d] = K]
    BY <1>9 DEF J
  <2> HIDE DEF K
  <2>3. ~Looping => OnePass(d, K, o, stop[d], sts'[d])
    BY <1>1, <1>9, <2>1 DEF SinkCount, OnePass, Adding
  <2>4. SinkCount(d, K, o, stop[d], sts'[d])
    BY <1>1, <2>1, <2>3 DEF SinkCount, Adding
  <2> QED BY <1>6, <2>1, <2>2, <2>4
<1>10. \/ /\ sink' = [sink EXCEPT ![d] = [Marks(d, "done", "ok") EXCEPT !.num = n]]
          /\ (J.eof /\ J.timeout) \/ n >= MaxFrames
       \/ /\ sink' = [sink EXCEPT ![d] = [J EXCEPT !.pc = "loop", !.num = n]]
          /\ ~(n >= MaxFrames)
       \/ sink' = [sink EXCEPT ![d].pc = "done"] /\ sts'[d] = "error"
  BY <1>1 DEF CountFrame, J, n
<1> QED BY <1>7, <1>8, <1>9, <1>10

\* A frame came out of the decoder.
LEMMA FrameCount ==
    ASSUME NEW d \in Sinks, NEW J, NEW K, NEW o \in Int, NEW st, SinkCount(d, J, o, st, "run"),
           J.pc \in {"oneFrame", "lastFrame"}, K.pc = "add", Real(K.x), K.after = "count",
           K.num = J.num, K.timeout = J.timeout, K.eof = J.eof,
           ~Looping => K.n = K.pos /\ K.pos <= Input[d] /\ (K.eof => K.pos = Input[d])
    PROVE  SinkCount(d, K, o + 1, st, "run")
<1>1. Uncounted(K) = 1 /\ Uncounted(J) = 0 /\ ~Adding(J) /\ Adding(K)
  BY DEF Uncounted, Adding
<1>2. ~Looping => OnePass(d, K, o + 1, st, "run")
  BY <1>1 DEF SinkCount, OnePass
<1>3. J.num \in Nat /\ J.num = o /\ J.num < MaxFrames
  BY <1>1 DEF SinkCount
<1> QED BY <1>1, <1>2, <1>3 DEF SinkCount

LEMMA DecodesOneCount ==
    ASSUME OrderInv, DataInv, ~Comp, Counts, NEW d \in Sinks, DecodeOneFrame(d)
    PROVE  Counts'
<1> DEFINE n == sink[d].n
           p == Len(dec[d].pend)
           J == Decoded(d)
           o == Output(d)
<1>1. DOMAIN sink[d] = SinkFields /\ DOMAIN sink = Sinks /\ n \in Int /\ p \in Nat
      /\ o = n - p /\ o \in Int
  BY DataFacts, OrderFacts DEF Output
<1>2. PICK s \in Surfaces, q \in Seq(Surfaces) :
         /\ IF Len(q) > DecDelay
            THEN /\ Len(dec'[d].pend) = p /\ p = DecDelay
                 /\ sink' = [sink EXCEPT ![d] = Frame(d, J, s, (n + 1) - DecDelay)]
            ELSE /\ Len(dec'[d].pend) = p + 1
                 /\ sink' = [sink EXCEPT ![d] = J]
         /\ sink[d].pos < Input[d] /\ sink[d].pc = "oneFrame"
         /\ src' = src /\ stop' = stop /\ used' = used /\ lau' = lau /\ sts' = sts
  BY DecodeFields
<1>3. sts[d] = "run" /\ SinkCount(d, sink[d], o, stop[d], "run")
  BY <1>2 DEF DataInv, ThreadInv, SinkOK, Counts
<1>4. /\ J.n = n + 1 /\ J.pos = sink[d].pos + 1 /\ DOMAIN J = SinkFields
      /\ J.pc = sink[d].pc /\ J.num = sink[d].num /\ J.timeout = sink[d].timeout
      /\ J.eof = sink[d].eof /\ J.last = sink[d].last
  BY <1>1 DEF SinkFields, Decoded
<1> HIDE DEF J
<1>5. ~Looping => /\ J.n = J.pos /\ J.pos <= Input[d] /\ ~J.eof /\ J.last /\ ~J.timeout
  <2>1. ~Looping => OnePass(d, sink[d], o, stop[d], "run")
    BY <1>3 DEF SinkCount
  <2>2. ~Looping => sink[d].pos = n /\ n < Input[d] /\ ~sink[d].eof /\ sink[d].last /\ ~sink[d].timeout
    BY <1>1, <1>2, <2>1, TotalLemma DEF OnePass
  <2> QED BY <1>1, <1>4, <2>2, TotalLemma
<1> HIDE DEF n, p, o
<1>6. CASE Len(q) > DecDelay
  <2> DEFINE K == Frame(d, J, s, (n + 1) - DecDelay)
  <2>1. /\ K.pc = "add" /\ Real(K.x) /\ K.after = "count" /\ K.n = J.n /\ K.num = J.num
        /\ K.pos = J.pos /\ K.eof = J.eof /\ K.timeout = J.timeout
    BY <1>4, FrameFields
  <2>2. sink' = [sink EXCEPT ![d] = K] /\ Len(dec'[d].pend) = p
    BY <1>2, <1>6
  <2> HIDE DEF K
  <2>3. Output(d)' = n + 1 - p
    BY <1>1, <1>4, <2>1, <2>2 DEF Output
  <2>4. Output(d)' = o + 1
    BY <1>1, <2>3
  <2>5. SinkCount(d, K, o + 1, stop[d], "run")
    <3>1. sink[d].pc \in {"oneFrame", "lastFrame"} /\ K.num = sink[d].num
          /\ K.timeout = sink[d].timeout /\ K.eof = sink[d].eof
      BY <1>2, <1>4, <2>1
    <3>2. ~Looping => K.n = K.pos /\ K.pos <= Input[d] /\ (K.eof => K.pos = Input[d])
      BY <1>5, <2>1
    <3> QED BY <1>1, <1>3, <2>1, <3>1, <3>2, FrameCount
  <2> QED BY <1>2, <1>3, <2>2, <2>4, <2>5, SinkCountStep
<1>7. CASE ~(Len(q) > DecDelay)
  <2>1. sink' = [sink EXCEPT ![d] = J] /\ Len(dec'[d].pend) = p + 1
    BY <1>2, <1>7
  <2>2. Output(d)' = n + 1 - (p + 1)
    BY <1>1, <1>4, <2>1 DEF Output
  <2>3. Output(d)' = o
    BY <1>1, <2>2
  <2>4. Uncounted(J) = 0 /\ Uncounted(sink[d]) = 0 /\ ~Adding(J) /\ ~Adding(sink[d]) /\ J.pc # "done"
    BY <1>2, <1>4 DEF Uncounted, Adding
  <2>5. ~Looping => OnePass(d, J, o, stop[d], "run")
    BY <1>2, <1>4, <1>5, <2>4 DEF OnePass
  <2>6. SinkCount(d, J, o, stop[d], "run")
    BY <1>2, <1>3, <1>4, <2>4, <2>5 DEF SinkCount
  <2> QED BY <1>2, <1>3, <2>1, <2>3, <2>6, SinkCountStep
<1> QED BY <1>6, <1>7

LEMMA LastFramesCount ==
    ASSUME OrderInv, DataInv, ~Comp, Counts, NEW d \in Sinks, DecodeLastFrame(d)
    PROVE  Counts'
<1> DEFINE n == sink[d].n
           p == Len(dec[d].pend)
           o == Output(d)
<1>1. DOMAIN sink[d] = SinkFields /\ DOMAIN sink = Sinks /\ n \in Int /\ p \in Nat
      /\ o = n - p /\ o \in Int
  BY DataFacts, OrderFacts DEF Output
<1>2. /\ sink[d].pc = "lastFrame"
      /\ src' = src /\ stop' = stop /\ used' = used /\ lau' = lau /\ sts' = sts
  BY LastFields
<1>3. sts[d] = "run" /\ SinkCount(d, sink[d], o, stop[d], "run") /\ ~Adding(sink[d])
  BY <1>2 DEF DataInv, ThreadInv, SinkOK, Counts, Adding
<1>4. ASSUME NEW r, dec' = dec, sink' = [sink EXCEPT ![d] = Marks(d, "done", r)],
             ~Looping /\ r = "ok" => stop[d] \/ o = Total(d)
      PROVE  Counts'
  <2> DEFINE K == Marks(d, "done", r)
  <2>1. K.n = n
    BY MarksFields
  <2>2. SinkCount(d, K, o, stop[d], "run")
    <3> HIDE DEF o
    <3> QED BY <1>1, <1>2, <1>3, <1>4, MarksCount
  <2> HIDE DEF K
  <2>3. Output(d)' = o
    BY <1>1, <1>4, <2>1 DEF Output, K
  <2> HIDE DEF o
  <2> QED BY <1>2, <1>3, <1>4, <2>2, <2>3, SinkCountStep DEF K
<1>5. CASE dec' = dec /\ stop[d] /\ sink' = [sink EXCEPT ![d] = Marks(d, "done", "error")]
  BY <1>4, <1>5
<1>6. CASE /\ dec' = dec /\ ~stop[d] /\ dec[d].pend = << >>
           /\ sink' = [sink EXCEPT ![d] = Marks(d, "done", "ok")]
  <2>1. Len(<< >>) = 0
    OBVIOUS
  <2>2. o = n
    BY <1>1, <1>6, <2>1
  <2>3. Uncounted(sink[d]) = 0
    BY <1>2, <1>3 DEF Uncounted
  <2>4. sink[d].num \in Nat /\ sink[d].num = o /\ sink[d].num < MaxFrames
    BY <1>2, <1>3, <2>3 DEF SinkCount
  <2>5. ~Looping => n = Input[d]
    BY <1>2, <1>3 DEF SinkCount, OnePass
  <2>6. ~Looping => o = Total(d)
    <3> HIDE DEF o, n
    <3> QED BY <2>2, <2>4, <2>5, TotalLemma
  <2> QED BY <1>4, <1>6, <2>6
<1>7. CASE /\ ~stop[d] /\ Len(dec'[d].pend) = Len(dec[d].pend) - 1
           /\ \E s \in Surfaces : sink' = [sink EXCEPT ![d] = Frame(d, sink[d], s, Output(d) + 1)]
  <2>1. PICK s \in Surfaces : sink' = [sink EXCEPT ![d] = Frame(d, sink[d], s, Output(d) + 1)]
    BY <1>7
  <2> DEFINE K == Frame(d, sink[d], s, Output(d) + 1)
  <2>2. /\ K.pc = "add" /\ Real(K.x) /\ K.after = "count" /\ K.n = n /\ K.num = sink[d].num
        /\ K.pos = sink[d].pos /\ K.eof = sink[d].eof /\ K.timeout = sink[d].timeout
    BY <1>1, FrameFields
  <2> HIDE DEF K
  <2>3. Output(d)' = n - (p - 1)
    BY <1>1, <1>7, <2>1, <2>2 DEF Output, K
  <2>4. Output(d)' = o + 1
    BY <1>1, <2>3
  <2>5. ~Looping => K.n = K.pos /\ K.pos <= Input[d] /\ (K.eof => K.pos = Input[d])
    BY <1>3, <2>2 DEF SinkCount, OnePass
  <2>6. sink' = [sink EXCEPT ![d] = K]
    BY <2>1 DEF K
  <2> HIDE DEF o, n, p
  <2>7. SinkCount(d, K, o + 1, stop[d], "run")
    BY <1>1, <1>2, <1>3, <2>2, <2>5, FrameCount
  <2> QED BY <1>2, <1>3, <2>4, <2>6, <2>7, SinkCountStep
<1> QED BY <1>5, <1>6, <1>7, LastFields

\* The next buffer is filled, or all of them are.
LEMMA FilledCount ==
    ASSUME NEW d \in Sinks, d \notin Overlay, NEW J, NEW L, NEW o \in Int, NEW st, NEW r,
           SinkCount(d, J, o, st, "run"), SinkOrder(d, J, o, st), Adding(J), SameCounts(J, L),
           J.after \in {"start", "loop", "count", "leave", "done"},
           \/ /\ L.pc = "signal" /\ L.x = J.x /\ L.after = J.after /\ L.res = J.res
              /\ r = "run"
           \/ NextBuffer(d, J, L) /\ r = "run"
           \/ AllFilled(d, J, L) /\ r = (IF J.after = "done" THEN J.res ELSE "run")
    PROVE  SinkCount(d, L, o, st, r)
<1>1. /\ L.n = J.n /\ L.num = J.num /\ L.pos = J.pos
      /\ L.eof = J.eof /\ L.last = J.last /\ L.timeout = J.timeout
  BY DEF SameCounts
<1>2. /\ J.pc \notin {"done", "count"}
      /\ IF Real(J.x) THEN J.after = "count" ELSE J.after = "done" \/ st
  BY DEF Adding, SinkOrder
<1>3. CASE Adding(L) /\ L.x = J.x /\ L.after = J.after /\ L.res = J.res /\ r = "run"
  <2>1. Uncounted(L) = Uncounted(J) /\ L.pc \notin {"done", "count"}
    BY <1>2, <1>3 DEF Uncounted, Adding
  <2>2. ~Looping => OnePass(d, L, o, st, r)
    BY <1>1, <1>3 DEF SinkCount, OnePass, Adding
  <2> QED BY <1>1, <1>2, <1>3, <2>1, <2>2 DEF SinkCount
<1>4. CASE AllFilled(d, J, L) /\ J.after = "leave" /\ r = "run"
  <2>1. L.pc = "add" /\ ~Real(L.x) /\ L.after = "done" /\ ~Real(J.x) /\ st
    BY <1>2, <1>4 DEF AllFilled
  <2>2. Uncounted(L) = 0 /\ Uncounted(J) = 0 /\ Adding(L)
    BY <1>2, <2>1 DEF Uncounted, Adding
  <2>3. ~Looping => OnePass(d, L, o, st, r)
    BY <1>1, <2>1, <2>2 DEF SinkCount, OnePass
  <2> QED BY <1>1, <1>2, <2>1, <2>2, <2>3 DEF SinkCount
<1>5. CASE /\ AllFilled(d, J, L) /\ J.after # "leave"
           /\ r = (IF J.after = "done" THEN J.res ELSE "run")
  <2>1. L.pc = J.after
    BY <1>5 DEF AllFilled
  <2>2. ~Adding(L) /\ (L.pc = "count" <=> Real(J.x))
    BY <1>2, <1>5, <2>1 DEF Adding, SinkCount
  <2>3. Uncounted(L) = Uncounted(J)
    BY <1>2, <2>2 DEF Uncounted
  <2>4. ~Looping => OnePass(d, L, o, st, r)
    BY <1>1, <1>5, <2>1, <2>2 DEF SinkCount, OnePass
  <2> QED BY <1>1, <1>2, <1>5, <2>1, <2>2, <2>3, <2>4 DEF SinkCount
<1> QED BY <1>3, <1>4, <1>5 DEF NextBuffer, Adding

LEMMA AddsCount ==
    ASSUME OrderInv, DataInv, ~Comp, Counts, NEW d \in Sinks, AddStep(d) \/ SignalStep(d)
    PROVE  Counts'
<1> DEFINE J == sink[d]
           o == Output(d)
<1>1. /\ DOMAIN sink = Sinks /\ o \in Int /\ d \notin Overlay /\ DOMAIN sts = Sessions
      /\ d \in Sessions
      /\ J.after \in {"start", "loop", "count", "leave", "done"} /\ SinkOrder(d, J, o, stop[d])
  BY DataFacts, OrderFacts, FanOutFacts DEF DataInv, ThreadInv, SinkOK, OrderInv
<1>2. PICK L, r :
         /\ sink' = [sink EXCEPT ![d] = L] /\ SameCounts(J, L) /\ Adding(J)
         /\ \/ /\ L.pc = "signal" /\ L.x = J.x /\ L.after = J.after /\ L.res = J.res
               /\ r = "run" /\ sts' = sts
            \/ NextBuffer(d, J, L) /\ r = "run" /\ sts' = sts
            \/ /\ AllFilled(d, J, L) /\ r = (IF J.after = "done" THEN J.res ELSE "run")
               /\ sts' = [sts EXCEPT ![d] = IF J.after = "done" THEN J.res ELSE @]
         /\ src' = src /\ dec' = dec /\ stop' = stop /\ used' = used /\ lau' = lau
  <2>1. CASE AddStep(d)
    BY <2>1, AddFields DEF Adding
  <2>2. CASE SignalStep(d)
    BY <2>2, SignalFields DEF Adding
  <2> QED BY <2>1, <2>2
<1>3. sts[d] = "run" /\ SinkCount(d, J, o, stop[d], "run") /\ J.pc # "done"
  BY <1>2 DEF DataInv, ThreadInv, SinkOK, Counts, Adding
<1>4. sts'[d] = r /\ \A x \in Sessions \ {d} : sts'[x] = sts[x]
  BY <1>1, <1>2, <1>3
<1>5. Output(d)' = o
  BY <1>1, <1>2 DEF Output, SameCounts
<1> HIDE DEF J, o
<1>6. SinkCount(d, L, o, stop[d], r)
  BY <1>1, <1>2, <1>3, FilledCount
<1> QED BY <1>2, <1>3, <1>4, <1>5, <1>6, SinkCountStep DEF J

-----------------------------------------------------------------------------
(***************************************************************************)
(* Encoding threads                                                        *)
(***************************************************************************)

\* Steps that neither encode nor release a frame.
LEMMA SourceRecordsCount ==
    ASSUME OrderInv, DataInv, ~Comp, Counts, NEW e \in Sources,
           \/ GetFrame(e) \/ SyncFrameFails(e) \/ WaitForSurfaceInsertion(e) \/ SliceReturns(e)
           \/ SliceExpires(e) \/ VppDrained(e) \/ VppFails(e) \/ VppStopped(e) \/ EncodeFails(e)
           \/ Flush(e) \/ Cancel(e) \/ Drain(e)
    PROVE  Counts'
<1> DEFINE J == src[e]
           u == used[e]
<1>1. /\ DOMAIN J = SrcFields /\ SourceOrder(e, J) /\ DOMAIN src = Sources /\ DOMAIN sts = Sessions
      /\ e \in Sessions /\ (J.pc = "done" <=> sts[e] # "run") /\ Len(Path(e)) = 1 /\ J.cur = 1
      /\ J.num \in Int /\ Len(u) \in Nat
  <2>1. u \in Seq(Int)
    BY FanOutFacts DEF OrderInv, Ordered, BufferOrder, Delivered
  <2> QED BY <2>1, SourceFacts DEF OrderInv, SourceOrder
<1>2. /\ sink' = sink /\ dec' = dec /\ stop' = stop /\ lau' = lau /\ used' = used
      /\ \A x \in Sessions \ {e} : sts'[x] = sts[x]
      /\ J.pc # "done"
  BY <1>1 DEF GetFrame, SyncFrameFails, WaitForSurfaceInsertion, SliceReturns, SliceExpires, VppDrained,
     VppFails, VppStopped, EncodeFails, Flush, Cancel, Drain
<1>3. sts[e] = "run" /\ (Vpp # "double" => SourceCount(J, u, "run"))
  BY <1>1, <1>2 DEF Counts
<1> HIDE DEF J, u
<1>4. ASSUME NEW K, src' = [src EXCEPT ![e] = K], K.num = J.num,
             K.pc = "enc" => (K.vs => Vpp # "plain") /\ (~K.vs => K.quit),
             K.pc = "rel" => K.r \notin {"more", "none"},
             Vpp # "double" /\ (K.pc \in {"flush", "cancel", "drain"} \/ sts'[e] = "ok")
                => K.quit \/ K.poll
      PROVE  Counts'
  <2>1. Vpp # "double" => SourceCount(K, used'[e], sts'[e])
    BY <1>2, <1>3, <1>4 DEF SourceCount, u
  <2> QED BY <1>2, <1>4, <2>1, SourceCountStep DEF J
<1>5. CASE src' = [src EXCEPT ![e].pc = "done"] /\ sts'[e] \in {"run", "error", "hang"}
  <2> DEFINE K == [J EXCEPT !.pc = "done"]
  <2>1. src' = [src EXCEPT ![e] = K]
    BY <1>5 DEF J
  <2>2. K.pc = "done" /\ K.num = J.num
    BY <1>1 DEF SrcFields
  <2> HIDE DEF K
  <2> QED BY <1>4, <1>5, <2>1, <2>2
<1>6. CASE GetFrame(e)
  <2>1. sts'[e] = "run"
    BY <1>3, <1>6 DEF GetFrame
  <2>2. CASE src' = [src EXCEPT ![e].pc = "wait", ![e].slices = 0]
    <3> DEFINE K == [J EXCEPT !.pc = "wait", !.slices = 0]
    <3>1. src' = [src EXCEPT ![e] = K]
      BY <1>1, <2>2 DEF J
    <3>2. K.pc = "wait" /\ K.num = J.num
      BY <1>1 DEF SrcFields
    <3> HIDE DEF K
    <3> QED BY <1>4, <2>1, <3>1, <3>2
  <2>3. CASE \E x : src' = [src EXCEPT ![e].x = x, ![e].quit = (x.surf = None),
                                       ![e].vs = (x.surf # None),
                                       ![e].pc = IF Vpp = "off" THEN "enc" ELSE "vpp"]
    <3>1. PICK x : src' = [src EXCEPT ![e].x = x, ![e].quit = (x.surf = None),
                                      ![e].vs = (x.surf # None),
                                      ![e].pc = IF Vpp = "off" THEN "enc" ELSE "vpp"]
      BY <2>3
    <3> DEFINE K == [J EXCEPT !.x = x, !.quit = (x.surf = None), !.vs = (x.surf # None),
                              !.pc = IF Vpp = "off" THEN "enc" ELSE "vpp"]
    <3>2. src' = [src EXCEPT ![e] = K]
      BY <1>1, <3>1 DEF J
    <3>3. /\ K.pc = (IF Vpp = "off" THEN "enc" ELSE "vpp") /\ K.num = J.num
          /\ (K.vs <=> Real(x)) /\ (K.quit <=> ~Real(x))
      BY <1>1 DEF SrcFields, Real
    <3> HIDE DEF K
    <3> QED BY <1>4, <2>1, <3>2, <3>3
  <2> QED BY <1>6, <2>2, <2>3 DEF GetFrame
<1>7. CASE SyncFrameFails(e) \/ VppFails(e) \/ VppStopped(e)
  <2>1. src' = [src EXCEPT ![e].pc = "done"] /\ sts'[e] \in {"error", "hang"}
    BY <1>1, <1>7 DEF SyncFrameFails, VppFails, VppStopped
  <2> QED BY <1>5, <2>1
<1>8. CASE WaitForSurfaceInsertion(e) \/ SliceExpires(e)
  <2>1. sts'[e] = "run"
    BY <1>3, <1>8 DEF WaitForSurfaceInsertion, SliceExpires
  <2>2. PICK p \in {"get", "blocked", "expired"} : src' = [src EXCEPT ![e].pc = p]
    BY <1>8 DEF WaitForSurfaceInsertion, SliceExpires
  <2> DEFINE K == [J EXCEPT !.pc = p]
  <2>3. src' = [src EXCEPT ![e] = K]
    BY <2>2 DEF J
  <2>4. K.pc = p /\ K.num = J.num
    BY <1>1 DEF SrcFields
  <2> HIDE DEF K
  <2> QED BY <1>4, <2>1, <2>3, <2>4
<1>9. CASE SliceReturns(e)
  <2>1. CASE src' = [src EXCEPT ![e].pc = "wait", ![e].slices = @ + 1] /\ sts' = sts
    <3> DEFINE K == [J EXCEPT !.pc = "wait", !.slices = @ + 1]
    <3>1. src' = [src EXCEPT ![e] = K]
      BY <1>1, <2>1 DEF J
    <3>2. K.pc = "wait" /\ K.num = J.num
      BY <1>1 DEF SrcFields
    <3> HIDE DEF K
    <3> QED BY <1>3, <1>4, <2>1, <3>1, <3>2
  <2>2. CASE src' = [src EXCEPT ![e].pc = "done"] /\ sts' = [sts EXCEPT ![e] = "error"]
    BY <1>1, <1>5, <2>2
  <2> QED BY <1>9, <2>1, <2>2 DEF SliceReturns
<1>10. CASE VppDrained(e)
  <2> DEFINE K == [J EXCEPT !.vs = FALSE, !.pc = "enc"]
  <2>1. src' = [src EXCEPT ![e] = K] /\ J.pc = "vpp" /\ ~Real(J.x) /\ sts'[e] = "run"
    BY <1>1, <1>3, <1>10 DEF VppDrained, Real, J
  <2>2. K.pc = "enc" /\ K.num = J.num /\ ~K.vs /\ K.quit = J.quit
    BY <1>1 DEF SrcFields
  <2> HIDE DEF K
  <2>3. K.quit
    BY <1>1, <2>1, <2>2 DEF SourceOrder
  <2> QED BY <1>4, <2>1, <2>2, <2>3
<1>11. CASE EncodeFails(e)
  <2>1. PICK kind \in {"error", "hang"} :
           src' = [src EXCEPT ![e].pc = "rel", ![e].r = kind, ![e].bs = @ + 1]
    BY <1>11 DEF EncodeFails
  <2> DEFINE K == [J EXCEPT !.pc = "rel", !.r = kind, !.bs = @ + 1]
  <2>2. src' = [src EXCEPT ![e] = K] /\ sts'[e] = "run"
    BY <1>1, <1>3, <1>11, <2>1 DEF EncodeFails, J
  <2>3. K.pc = "rel" /\ K.num = J.num /\ K.r = kind
    BY <1>1 DEF SrcFields
  <2> HIDE DEF K
  <2> QED BY <1>4, <2>2, <2>3
<1>12. CASE Flush(e)
  <2>1. CASE src' = [src EXCEPT ![e].bs = 0, ![e].cur = 1, ![e].pc = "cancel"] /\ sts' = sts
    <3> DEFINE K == [J EXCEPT !.bs = 0, !.cur = 1, !.pc = "cancel"]
    <3>1. src' = [src EXCEPT ![e] = K]
      BY <1>1, <2>1 DEF J
    <3>2. K.pc = "cancel" /\ K.num = J.num /\ K.quit = J.quit /\ K.poll = J.poll
      BY <1>1 DEF SrcFields
    <3> HIDE DEF K
    <3>3. Vpp # "double" => J.quit \/ J.poll
      BY <1>3, <1>12 DEF SourceCount, Flush, J
    <3> QED BY <1>3, <1>4, <2>1, <3>1, <3>2, <3>3
  <2>2. CASE src' = [src EXCEPT ![e].pc = "done"] /\ sts' = [sts EXCEPT ![e] = "error"]
    BY <1>1, <1>5, <2>2
  <2> QED BY <1>12, <2>1, <2>2 DEF Flush
<1>13. CASE Cancel(e) \/ Drain(e)
  <2>1. Vpp # "double" => J.quit \/ J.poll
    BY <1>3, <1>13 DEF SourceCount, Cancel, Drain, J
  <2>2. \E p \in {"drain", "done"} : src' = [src EXCEPT ![e].pc = p]
    BY <1>1, <1>13 DEF Cancel, Drain, J
  <2>3. PICK p \in {"drain", "done"} : src' = [src EXCEPT ![e].pc = p]
    BY <2>2
  <2> DEFINE K == [J EXCEPT !.pc = p]
  <2>4. src' = [src EXCEPT ![e] = K]
    BY <2>3 DEF J
  <2>5. K.pc = p /\ K.num = J.num /\ K.quit = J.quit /\ K.poll = J.poll
    BY <1>1 DEF SrcFields
  <2> HIDE DEF K
  <2> QED BY <1>4, <2>1, <2>4, <2>5
<1> QED BY <1>6, <1>7, <1>8, <1>9, <1>10, <1>11, <1>12, <1>13

\* The thread that has processed u processes and encodes one more frame, or not.
LEMMA VppCounts ==
    ASSUME OrderInv, DataInv, ~Comp, Counts, NEW e \in Sources, VppOutput(e)
    PROVE  Counts'
<1> DEFINE J == src[e]
           u == used[e]
           f == surf[J.x.surf].frame
           r == ~(Vpp = "double" /\ J.read)
           K == [J EXCEPT !.pc = "enc", !.vs = TRUE, !.read = r]
<1>1. /\ DOMAIN J = SrcFields /\ SourceOrder(e, J) /\ DOMAIN src = Sources /\ SrcData(e, J)
      /\ e \in Sessions /\ (J.pc = "done" <=> sts[e] # "run") /\ Cur(e) = e
      /\ J.num \in Int /\ u \in Seq(Int) /\ Len(u) \in Nat /\ DOMAIN used = Sources
  <2>1. u \in Seq(Int)
    BY FanOutFacts DEF OrderInv, Ordered, BufferOrder, Delivered
  <2>2. SourceOrder(e, J) /\ DOMAIN used = Sources
    BY FanOutFacts DEF OrderInv
  <2> QED BY <2>1, <2>2, SourceFacts DEF SourceOrder
<1>2. /\ sink' = sink /\ dec' = dec /\ stop' = stop /\ lau' = lau /\ sts' = sts
      /\ used' = IF J.read THEN [used EXCEPT ![e] = Append(@, f)] ELSE used
      /\ src' = [src EXCEPT ![e] = K] /\ J.pc = "vpp"
  BY <1>1 DEF VppOutput, VppReads
<1>3. K.pc = "enc" /\ K.vs = TRUE /\ K.num = J.num
  BY <1>1 DEF SrcFields
<1>4. sts'[e] = "run" /\ \A c \in Sources \ {e} : used'[c] = used[c]
  BY <1>1, <1>2
<1> HIDE DEF K, r, f
<1>5. ASSUME Vpp # "double" PROVE SourceCount(K, used'[e], sts'[e])
  <2>1. J.read = TRUE /\ SourceCount(J, u, sts[e])
    BY <1>1, <1>5 DEF SrcData, Counts
  <2>2. used'[e] = Append(u, f) /\ Len(Append(u, f)) = Len(u) + 1
    BY <1>1, <1>2, <2>1, AppendLemma
  <2>3. J.num <= Len(u) /\ J.num \in Int
    BY <1>1, <2>1 DEF SourceCount
  <2> HIDE DEF J, u
  <2>4. J.num < Len(Append(u, f))
    BY <1>1, <2>2, <2>3
  <2> QED BY <1>1, <1>3, <1>4, <2>2, <2>4 DEF SourceCount
<1> QED BY <1>1, <1>2, <1>4, <1>5, SourceCountStep

LEMMA EncodeCounts ==
    ASSUME OrderInv, DataInv, ~Comp, Counts, NEW e \in Sources, EncodeFrame(e)
    PROVE  Counts'
<1> DEFINE J == src[e]
           u == used[e]
           f == surf[J.x.surf].frame
<1>1. /\ DOMAIN J = SrcFields /\ SourceOrder(e, J) /\ DOMAIN src = Sources /\ SrcData(e, J)
      /\ e \in Sessions /\ (J.pc = "done" <=> sts[e] # "run") /\ Cur(e) = e
      /\ J.num \in Int /\ u \in Seq(Int) /\ Len(u) \in Nat /\ DOMAIN used = Sources
  <2>1. u \in Seq(Int)
    BY FanOutFacts DEF OrderInv, Ordered, BufferOrder, Delivered
  <2>2. SourceOrder(e, J) /\ DOMAIN used = Sources
    BY FanOutFacts DEF OrderInv
  <2> QED BY <2>1, <2>2, SourceFacts DEF SourceOrder
<1>2. /\ sink' = sink /\ dec' = dec /\ stop' = stop /\ lau' = lau /\ J.pc = "enc"
      /\ J.bs < AsyncDepth
  BY DEF EncodeFrame, DataInv, ThreadInv, SrcOK
<1>3. sts' = sts /\ sts[e] = "run"
  BY <1>1, <1>2 DEF EncodeFrame
<1>4. PICK real \in {J.vs /\ ~J.poll} : EncodeOneFrame(e, real, J.num + IF real THEN 1 ELSE 0)
  BY <1>2, Zenon DEF EncodeFrame
<1> DEFINE n == J.num + IF real THEN 1 ELSE 0
           r == EncodeResult(e, real)
           K == [J EXCEPT !.pc = "rel", !.vs = real, !.num = n, !.poll = (n >= MaxFrames),
                          !.bs = @ + 1, !.r = r]
<1>5. /\ src' = [src EXCEPT ![e] = K]
      /\ used' = IF real /\ Vpp = "off" THEN [used EXCEPT ![e] = Append(@, f)] ELSE used
  BY <1>1, <1>4 DEF EncodeOneFrame
<1>6. /\ K.pc = "rel" /\ K.num = n /\ (K.poll <=> n >= MaxFrames) /\ K.vs = real /\ K.quit = J.quit
  BY <1>1 DEF SrcFields
<1>7. (real <=> J.vs /\ ~J.poll) /\ (real => n = J.num + 1) /\ (~real => n = J.num)
  <2>1. real <=> J.vs /\ ~J.poll
    OBVIOUS
  <2> HIDE DEF J
  <2>2. (real => n = J.num + 1) /\ (~real => n = J.num)
    BY <1>1
  <2> QED BY <2>1, <2>2
<1> HIDE DEF K, r, n, f
<1>8. ASSUME Vpp # "double" PROVE SourceCount(K, used'[e], sts'[e])
  <2>1. SourceCount(J, u, "run")
    BY <1>3, <1>8 DEF Counts
  <2>2. ~K.vs => K.quit \/ K.poll
    <3>1. J.poll => J.num >= MaxFrames
      BY <1>1 DEF SourceOrder
    <3> QED BY <1>2, <1>6, <1>7, <2>1, <3>1 DEF SourceCount
  <2>3. K.num <= Len(used'[e])
    <3>1. CASE real /\ Vpp = "off"
      <4>1. used'[e] = Append(u, f) /\ Len(Append(u, f)) = Len(u) + 1
        BY <1>1, <1>5, <3>1, AppendLemma
      <4> HIDE DEF J, u
      <4>2. J.num <= Len(u) /\ K.num = J.num + 1
        BY <1>6, <1>7, <2>1, <3>1 DEF SourceCount
      <4> QED BY <1>1, <4>1, <4>2
    <3>2. CASE real /\ Vpp # "off"
      <4>1. Vpp = "plain" /\ used'[e] = u
        BY <1>5, <1>8, <3>2, ShapeAssumption
      <4>2. J.vs
        BY <1>7, <3>2
      <4> HIDE DEF J, u
      <4>3. J.num < Len(u) /\ K.num = J.num + 1
        BY <1>2, <1>6, <1>7, <2>1, <3>2, <4>1, <4>2 DEF SourceCount
      <4> QED BY <1>1, <4>1, <4>3
    <3>3. CASE ~real
      BY <1>1, <1>5, <1>6, <1>7, <2>1, <3>3 DEF SourceCount
    <3> QED BY <3>1, <3>2, <3>3
  <2> QED BY <1>3, <1>6, <2>2, <2>3 DEF SourceCount
<1>9. \A c \in Sources \ {e} : used'[c] = used[c]
  BY <1>1, <1>5
<1> QED BY <1>2, <1>3, <1>5, <1>8, <1>9, SourceCountStep

LEMMA ReleaseCounts ==
    ASSUME OrderInv, DataInv, ~Comp, Counts, NEW e \in Sources, ReleaseFrame(e)
    PROVE  Counts'
<1> DEFINE J == src[e]
           u == used[e]
<1>1. /\ DOMAIN J = SrcFields /\ DOMAIN src = Sources /\ DOMAIN sts = Sessions
      /\ e \in Sessions /\ (J.pc = "done" <=> sts[e] # "run")
      /\ J.r \in {"none", "more", "error", "hang"}
  BY SourceFacts DEF DataInv, ThreadInv, SrcOK
<1>2. /\ sink' = sink /\ dec' = dec /\ stop' = stop /\ lau' = lau /\ used' = used /\ J.pc = "rel"
  BY DEF ReleaseFrame
<1>3. sts[e] = "run" /\ (Vpp # "double" => SourceCount(J, u, "run"))
  BY <1>1, <1>2 DEF Counts
<1>4. ASSUME NEW K, src' = [src EXCEPT ![e] = K], K.num = J.num, K.quit = J.quit, K.poll = J.poll,
             K.pc \in {"get", "vpp", "flush", "done"}, K.pc = "flush" => J.r = "more" /\ ~J.vs,
             sts'[e] # "ok", \A x \in Sessions \ {e} : sts'[x] = sts[x]
      PROVE  Counts'
  <2>1. Vpp # "double" => SourceCount(K, used'[e], sts'[e])
    BY <1>2, <1>3, <1>4 DEF SourceCount
  <2> HIDE DEF J
  <2> QED BY <1>2, <1>4, <2>1, SourceCountStep DEF J
<1>5. CASE J.r = "more"
  <2> DEFINE p == IF J.vs THEN Again(J) ELSE "flush"
             n == J.bs - 1
             K == [J EXCEPT !.pc = p, !.bs = n]
  <2>1. src' = [src EXCEPT ![e] = K] /\ sts' = sts
    <3>1. src' = [src EXCEPT ![e].bs = @ - 1, ![e].pc = IF src[e].vs THEN Again(src[e]) ELSE "flush"]
      BY <1>5 DEF ReleaseFrame
    <3>2. sts' = sts
      BY <1>5 DEF ReleaseFrame
    <3> QED BY <1>1, <3>1, <3>2
  <2>2. K.num = J.num /\ K.quit = J.quit /\ K.poll = J.poll /\ K.pc = p
    BY <1>1 DEF SrcFields
  <2>3. p \in {"get", "vpp", "flush"} /\ (p = "flush" => ~J.vs)
    BY DEF Again
  <2> HIDE DEF K, p, J
  <2> QED BY <1>3, <1>4, <1>5, <2>1, <2>2, <2>3
<1>6. CASE J.r # "more" /\ sts'[e] \in {"error", "hang"} /\ src' = [src EXCEPT ![e].pc = "done"]
           /\ \A x \in Sessions \ {e} : sts'[x] = sts[x]
  <2> DEFINE K == [J EXCEPT !.pc = "done"]
  <2>1. src' = [src EXCEPT ![e] = K]
    BY <1>6
  <2>2. K.num = J.num /\ K.quit = J.quit /\ K.poll = J.poll /\ K.pc = "done"
    BY <1>1 DEF SrcFields
  <2> HIDE DEF K, J
  <2> QED BY <1>4, <1>6, <2>1, <2>2
<1>7. CASE /\ J.r # "more" /\ sts' = sts
           /\ src' = [src EXCEPT ![e].pc = Again(src[e]), ![e].bs = IF @ = AsyncDepth THEN @ - 1 ELSE @]
  <2> DEFINE n == IF J.bs = AsyncDepth THEN J.bs - 1 ELSE J.bs
             K == [J EXCEPT !.pc = Again(J), !.bs = n]
  <2>1. src' = [src EXCEPT ![e] = K]
    BY <1>1, <1>7
  <2>2. K.num = J.num /\ K.quit = J.quit /\ K.poll = J.poll /\ K.pc \in {"get", "vpp"}
    BY <1>1 DEF SrcFields, Again
  <2> HIDE DEF K, J
  <2> QED BY <1>3, <1>4, <1>7, <2>1, <2>2
<1>8. CASE J.r = "none"
  <2>1. \/ /\ src' = [src EXCEPT ![e].pc = Again(src[e]), ![e].bs = IF @ = AsyncDepth THEN @ - 1 ELSE @]
           /\ sts' = sts
        \/ src' = [src EXCEPT ![e].pc = "done"] /\ sts' = [sts EXCEPT ![e] = "error"]
    BY <1>8 DEF ReleaseFrame
  <2>2. CASE src' = [src EXCEPT ![e].pc = "done"] /\ sts' = [sts EXCEPT ![e] = "error"]
    <3>1. sts'[e] \in {"error", "hang"} /\ \A x \in Sessions \ {e} : sts'[x] = sts[x]
      BY <1>1, <2>2
    <3> QED BY <1>6, <1>8, <2>2, <3>1
  <2> QED BY <1>7, <1>8, <2>1, <2>2
<1>9. CASE J.r \notin {"more", "none"}
  <2>1. src' = [src EXCEPT ![e].pc = "done"] /\ sts' = [sts EXCEPT ![e] = J.r]
    BY <1>9 DEF ReleaseFrame
  <2>2. sts'[e] \in {"error", "hang"} /\ \A x \in Sessions \ {e} : sts'[x] = sts[x]
    BY <1>1, <1>9, <2>1
  <2> QED BY <1>6, <1>9, <2>1, <2>2
<1> QED BY <1>5, <1>8, <1>9

-----------------------------------------------------------------------------
(***************************************************************************)
(* The launcher, and all steps                                             *)
(***************************************************************************)

\* Sessions are stopped because one has failed.
LEMMA StopsCount ==
    ASSUME ~Comp, Counts, sink' = sink, src' = src, dec' = dec, used' = used, sts' = sts,
           \A d \in Sinks : stop[d] => stop'[d],
           lau'.todo # {} \/ (\E x \in Sessions : stop'[x]) =>
              \E y \in Sessions : sts[y] \notin {"run", "ok"}
    PROVE  Counts'
<1>1. ASSUME NEW d \in Sinks PROVE SinkCount(d, sink'[d], Output(d)', stop'[d], sts'[d])
  <2>1. SinkCount(d, sink[d], Output(d), stop[d], sts[d]) /\ Output(d)' = Output(d)
    BY DEF Counts, Output
  <2>2. SinkCount(d, sink[d], Output(d), stop'[d], sts[d])
    BY <2>1 DEF SinkCount, OnePass
  <2> QED BY <2>1, <2>2
<1> QED BY <1>1 DEF Counts

LEMMA LauncherCount ==
    ASSUME OrderInv, DataInv, ~Comp, Counts, Launcher, ~Recover
    PROVE  Counts'
<1>1. /\ sink' = sink /\ src' = src /\ dec' = dec /\ used' = used /\ sts' = sts
  BY DEF Launcher, Poll, StopSession, StopOverlay, Finish
<1>2. DOMAIN lau = {"pc", "seen", "todo", "round"} /\ stop \in [Sessions -> BOOLEAN]
      /\ \A d \in Sinks : d \in Sessions
  BY DEF OrderInv, DataInv, Sessions
<1>3. CASE \E x \in Sessions : Poll(x)
  <2>1. \E y \in Sessions : sts[y] \notin {"run", "ok"}
    BY <1>3 DEF Poll, Fatal
  <2>2. stop' = stop
    BY <1>3 DEF Poll
  <2> QED BY <1>1, <2>1, <2>2, StopsCount
<1>4. CASE \E x \in Sessions : StopSession(x)
  <2>1. PICK x \in Sessions : x \in lau.todo /\ stop' = [stop EXCEPT ![x] = TRUE]
    BY <1>4 DEF StopSession
  <2>2. \E y \in Sessions : sts[y] \notin {"run", "ok"}
    BY <2>1 DEF Counts
  <2>3. \A d \in Sinks : stop[d] => stop'[d]
    BY <1>2, <2>1
  <2> QED BY <1>1, <2>2, <2>3, StopsCount
<1>5. CASE StopOverlay \/ Finish
  <2>1. stop' = stop /\ lau'.todo = {}
    BY <1>2, <1>5, FanOutFacts DEF StopOverlay, Finish, Joined
  <2> QED BY <1>1, <2>1, StopsCount DEF Counts
<1> QED BY <1>3, <1>4, <1>5 DEF Launcher

LEMMA ThreadsCount ==
    ASSUME OrderInv, DataInv, ~Comp, Counts,
           \/ \E d \in Sinks : \/ SinkThread(d) \/ DecoderUnlocks(d) \/ DecodeFails(d)
                               \/ GetFreeSurfaceTimeout(d)
           \/ \E e \in Sources : \/ SourceThread(e) \/ RuntimeUnlocks(e) \/ SyncFrameFails(e)
                                 \/ VppFails(e) \/ EncodeFails(e) \/ SliceExpires(e)
    PROVE  Counts'
<1>1. ASSUME NEW d \in Sinks, SinkThread(d) \/ DecodeFails(d) \/ GetFreeSurfaceTimeout(d)
      PROVE  Counts'
  BY <1>1, SinkRecordsCounts, DecodesOneCount, LastFramesCount, AddsCount, FrameCounted DEF SinkThread
<1>2. ASSUME NEW d \in Sinks, DecoderUnlocks(d) PROVE Counts'
  <2>1. /\ sink' = sink /\ src' = src /\ stop' = stop /\ used' = used /\ sts' = sts /\ lau' = lau
        /\ \E s : dec' = [dec EXCEPT ![d].refs = @ \ {s}]
    BY <1>2 DEF DecoderUnlocks
  <2>2. dec \in [Sinks -> DecType]
    BY DataFacts
  <2>3. \A c \in Sinks : dec'[c].pend = dec[c].pend
    BY <2>1, <2>2 DEF DecType
  <2> QED BY <2>1, <2>3, QuietCounts
<1>3. ASSUME NEW e \in Sources, RuntimeUnlocks(e) PROVE Counts'
  BY <1>3, QuietCounts DEF RuntimeUnlocks
<1>4. ASSUME NEW e \in Sources, VppWantsMore(e) \/ ReleaseInput(e) \/ ReleaseComposed(e) PROVE FALSE
  <2>1. SrcData(e, src[e]) /\ Len(Path(e)) = 1 /\ src[e].cur = 1
    BY SourceFacts
  <2> QED BY <1>4, <2>1 DEF VppWantsMore, ReleaseInput, ReleaseComposed, SrcData
<1>5. ASSUME NEW e \in Sources,
             \/ SourceThread(e) \/ SyncFrameFails(e) \/ VppFails(e) \/ EncodeFails(e) \/ SliceExpires(e)
      PROVE  Counts'
  BY <1>4, <1>5, SourceRecordsCount, VppCounts, EncodeCounts, ReleaseCounts DEF SourceThread
<1> QED BY <1>1, <1>2, <1>3, <1>5

LEMMA InitCount == Init => CountInv
<1> SUFFICES ASSUME Init, ~Comp PROVE Counts
  BY DEF CountInv
<1>1. /\ sink = [d \in Sinks |-> InitSink(0, 0, 0)] /\ dec = [d \in Sinks |-> InitDec]
      /\ src = [e \in Sources |-> InitSrc(0)] /\ used = [b \in Buffers |-> << >>]
      /\ stop = [x \in Sessions |-> FALSE] /\ sts = [x \in Sessions |-> "run"]
      /\ lau = [pc |-> "poll", seen |-> {}, todo |-> {}, round |-> 0]
  BY DEF Init
<1>2. ASSUME NEW d \in Sinks PROVE SinkCount(d, sink[d], Output(d), stop[d], sts[d])
  <2> DEFINE K == InitSink(0, 0, 0)
  <2>1. /\ K.pc = "start" /\ K.n = 0 /\ K.num = 0 /\ K.pos = 0 /\ ~K.eof /\ K.timeout = Looping
        /\ sink[d] = K
    BY <1>1 DEF InitSink
  <2> HIDE DEF K
  <2>2. dec[d].pend = << >> /\ Len(<< >>) = 0
    BY <1>1 DEF InitDec
  <2>3. Output(d) = 0
    <3>1. Len(dec[d].pend) = 0
      BY <2>2
    <3> QED BY <2>1, <3>1 DEF Output
  <2>4. Uncounted(K) = 0 /\ ~Adding(K)
    BY <2>1 DEF Uncounted, Adding
  <2>5. sts[d] = "run" /\ MaxFrames \in Nat \ {0} /\ Input[d] \in Nat
    BY <1>1, TotalLemma DEF Sessions
  <2>6. ~Looping => OnePass(d, K, 0, stop[d], "run")
    BY <2>1, <2>4, <2>5 DEF OnePass
  <2> QED BY <2>1, <2>3, <2>4, <2>5, <2>6 DEF SinkCount
<1>3. ASSUME NEW e \in Sources PROVE SourceCount(src[e], used[e], sts[e])
  <2>1. src[e].pc = "get" /\ src[e].num = 0
    BY <1>1 DEF InitSrc
  <2>2. used[e] = << >> /\ Len(<< >>) = 0 /\ sts[e] = "run"
    BY <1>1, FanOutFacts
  <2> QED BY <2>1, <2>2 DEF SourceCount
<1> QED BY <1>1, <1>2, <1>3 DEF Counts

\* Only a recovery begins another round.
LEMMA RoundStays ==
    ASSUME OrderInv, [Next]_vars, ~Recover
    PROVE  lau'.round = lau.round
<1>1. CASE \E d \in Sinks : \/ SinkThread(d) \/ DecoderUnlocks(d) \/ DecodeFails(d)
                            \/ GetFreeSurfaceTimeout(d)
  BY <1>1 DEF SinkThread, DecoderUnlocks, DecodeFails, GetFreeSurfaceTimeout, StartDecode, LoopDecode,
     DecodeOneFrame, EndOfInput, StoppedDecode, DecodeLastFrame, AddStep, SignalStep, CountFrame
<1>2. CASE \E e \in Sources : \/ SourceThread(e) \/ RuntimeUnlocks(e) \/ SyncFrameFails(e)
                              \/ VppFails(e) \/ EncodeFails(e) \/ SliceExpires(e)
  BY <1>2 DEF SourceThread, RuntimeUnlocks, SyncFrameFails, VppFails, EncodeFails, SliceExpires, GetFrame,
     WaitForSurfaceInsertion, SliceReturns, VppDrained, VppWantsMore, VppStopped, ReleaseInput, VppOutput,
     ReleaseComposed, EncodeFrame, ReleaseFrame, Flush, Cancel, Drain
<1>3. CASE Launcher
  <2>1. DOMAIN lau = {"pc", "seen", "todo", "round"}
    BY DEF OrderInv
  <2> QED BY <1>3, <2>1 DEF Launcher, Poll, StopSession, StopOverlay, Finish
<1>4. CASE Finished \/ UNCHANGED vars
  BY <1>4 DEF Finished, vars
<1> QED BY <1>1, <1>2, <1>3, <1>4 DEF Next, Progress, Timeout, Failure

LEMMA NextCount == DataInv /\ OrderInv /\ CountInv /\ [Next]_vars => CountInv'
<1> SUFFICES ASSUME DataInv, OrderInv, CountInv, [Next]_vars, ~Comp, lau'.round = 0 PROVE Counts'
  BY DEF CountInv
<1>1. ~Recover
  <2>1. ASSUME Recover PROVE FALSE
    <3>1. lau'.round = lau.round + 1 /\ lau.round \in Nat
      BY <2>1 DEF Recover, OrderInv
    <3> QED BY <3>1
  <2> QED BY <2>1
<1>2. Counts
  BY <1>1, RoundStays DEF CountInv
<1>3. CASE \/ \E d \in Sinks : \/ SinkThread(d) \/ DecoderUnlocks(d) \/ DecodeFails(d)
                               \/ GetFreeSurfaceTimeout(d)
           \/ \E e \in Sources : \/ SourceThread(e) \/ RuntimeUnlocks(e) \/ SyncFrameFails(e)
                                 \/ VppFails(e) \/ EncodeFails(e) \/ SliceExpires(e)
  BY <1>2, <1>3, ThreadsCount
<1>4. CASE Launcher
  BY <1>1, <1>2, <1>4, LauncherCount
<1>5. CASE Finished \/ UNCHANGED vars
  BY <1>2, <1>5, QuietCounts DEF Finished, vars
<1> QED BY <1>3, <1>4, <1>5 DEF Next, Progress, Timeout, Failure

LEMMA CountAlways == Spec => []CountInv
<1>1. CASE Comp
  <2>1. CountInv /\ CountInv'
    BY <1>1 DEF CountInv
  <2> QED BY <2>1, InitCount, NextCount, PTL DEF Spec
<1>2. CASE ~Comp
  <2>1. OneRelease
    BY <1>2 DEF OneRelease
  <2>2. Spec => []OrderInv
    BY <2>1, OrderAlways
  <2> QED BY <2>2, InitCount, NextCount, DataAlways, PTL DEF Spec
<1> QED BY <1>1, <1>2

-----------------------------------------------------------------------------
(***************************************************************************)
(* Every source has every frame                                            *)
(***************************************************************************)

\* The sources process one frame after the other.
LEMMA UsedLemma ==
    ASSUME OrderInv, ~Comp, lau.round = 0, NEW e \in Sources, NEW d \in Sinks
    PROVE  /\ used[e] \in Seq(Int) /\ Len(used[e]) \in Nat /\ Newest(used[e]) = Len(used[e])
           /\ Newest(used[e]) <= Output(d)
           /\ BufferOrder(e, buf[e], used[e], sink[d], Output(d), stop[d], src[e], TRUE)
<1>1. Feeder(e) = d /\ Reader(e) = e /\ e \in Buffers \ Overlay /\ (lau.round = 0) = TRUE
  BY FanOutFacts
<1>2. Ordered(e)
  BY <1>1 DEF OrderInv
<1>3. BufferOrder(e, buf[e], used[e], sink[d], Output(d), stop[d], src[e], TRUE)
  BY <1>1, <1>2 DEF Ordered
<1>4. Delivered(used[e], Output(d), TRUE)
  BY <1>3 DEF BufferOrder
<1>5. used[e] \in Seq(Int) /\ Len(used[e]) \in Nat
  BY <1>4 DEF Delivered
<1>6. Newest(used[e]) = Len(used[e])
  <2>1. CASE used[e] = << >>
    <3>1. Len(<< >>) = 0
      OBVIOUS
    <3> QED BY <2>1, <3>1 DEF Newest
  <2>2. CASE used[e] # << >>
    <3>1. Len(used[e]) \in 1 .. Len(used[e])
      BY <1>5, <2>2
    <3> QED BY <1>4, <2>2, <3>1 DEF Delivered, Newest
  <2> QED BY <2>1, <2>2
<1> QED BY <1>3, <1>4, <1>5, <1>6 DEF Delivered

\* When all sessions of a 1 to N transcoding have ended without an error, each
\* source has processed every frame of the input, up to the limit on frames.
\* With two outputs per input the limit counts outputs, and a source may reach
\* it before the sink does.
THEOREM AllFramesTheorem == Vpp # "double" => (Spec => []AllFrames)
<1> SUFFICES ASSUME Vpp # "double" PROVE Spec => []AllFrames
  OBVIOUS
<1>1. ASSUME DataInv, OrderInv, CountInv PROVE AllFrames
  <2> SUFFICES ASSUME ~Comp, ~Looping, lau.round = 0, \A x \in Sessions : sts[x] = "ok",
                      NEW e \in Sources, NEW d \in Sinks
               PROVE  Len(used[e]) = Total(d)
    BY DEF AllFrames
  <2> DEFINE o == Output(d)
             m == Len(used[e])
  <2>1. Counts /\ d \in Sessions /\ e \in Sessions
    BY <1>1, FanOutFacts DEF CountInv
  <2>2. ~stop[d]
    BY <2>1 DEF Counts
  <2>3. sink[d].pc = "done" /\ SinkCount(d, sink[d], o, stop[d], "ok") /\ o \in Int
    BY <1>1, <2>1, OrderFacts DEF Counts, DataInv, ThreadInv, SinkOK
  <2>4. o = Total(d)
    BY <2>2, <2>3 DEF SinkCount, OnePass
  <2>5. SourceCount(src[e], used[e], "ok") /\ SourceOrder(e, src[e])
    BY <1>1, <2>1 DEF Counts, OrderInv
  <2>6. m \in Nat /\ Newest(used[e]) = m /\ m <= o
        /\ BufferOrder(e, buf[e], used[e], sink[d], o, stop[d], src[e], TRUE)
    BY <1>1, UsedLemma
  <2> HIDE DEF o, m
  <2>7. CASE src[e].poll
    <3>1. src[e].num \in Nat /\ src[e].num >= MaxFrames /\ src[e].num <= m
      BY <2>5, <2>7 DEF SourceOrder, SourceCount, m
    <3> QED BY <2>3, <2>4, <2>6, <3>1, TotalLemma DEF m
  <2>8. CASE ~src[e].poll
    <3>1. src[e].quit
      BY <2>5, <2>8 DEF SourceCount
    <3>2. Newest(used[e]) = o
      BY <2>6, <2>8, <3>1 DEF BufferOrder
    <3> QED BY <2>4, <2>6, <3>2 DEF m
  <2> QED BY <2>7, <2>8
<1>2. CASE Comp
  <2>1. AllFrames
    BY <1>2 DEF AllFrames
  <2> QED BY <2>1, PTL
<1>3. CASE ~Comp
  <2>1. OneRelease
    BY <1>3 DEF OneRelease
  <2>2. Spec => []OrderInv
    BY <2>1, OrderAlways
  <2> QED BY <1>1, <2>2, CountAlways, DataAlways, PTL
<1> QED BY <1>2, <1>3

-----------------------------------------------------------------------------
(***************************************************************************)
(* A stream of frames                                                      *)
(***************************************************************************)

\* The source with the record K takes no more frames.
Closed(K) == K.pc \in {"flush", "cancel", "drain", "done"}

\* The frames that are in the decoder or on the buffer of an open source are in
\* surfaces that are not free: a frame can be decoded only if there is one more.
LEMMA RoomLemma ==
    ASSUME OrderInv, DataInv, CountInv, ~Comp, lau.round = 0,
           NEW d \in Sinks, DecodeOneFrame(d), NEW e \in Sources, ~Closed(src[e])
    PROVE  sink[d].n - Latest(e) < Cardinality(Surfaces)
<1> DEFINE K == src[e]
           J == sink[d]
           l == buf[e].list
           q == dec[d].pend
           m == Len(l)
           p == Len(q)
           n == J.n
           o == Output(d)
           u == used[e]
           S == Surfaces
<1>1. /\ J.pc = "oneFrame" /\ ~stop[d] /\ Free(d) # {}
  BY DEF DecodeOneFrame
<1>2. ~Adding(J) /\ ~Marked(J, stop[d])
  BY <1>1 DEF Adding, Marked
<1>3. /\ u \in Seq(Int) /\ Len(u) \in Nat /\ Newest(u) = Len(u) /\ Newest(u) <= o
      /\ BufferOrder(e, buf[e], u, J, o, stop[d], K, TRUE)
  BY UsedLemma
<1>4. /\ l \in Seq(Items) /\ q \in Seq(S) /\ n \in Int /\ p \in Nat /\ m \in Nat
      /\ o = n - p /\ o \in Int /\ e \in Buffers /\ Reader(e) = e
  BY OrderFacts, FanOutFacts DEF Output
<1>5. ~K.quit /\ AllReal(l, m)
  BY <1>2, <1>3 DEF BufferOrder
<1>6. Open(K)
  <2>1. ASSUME Vpp = "off", K.poll PROVE FALSE
    <3>1. SinkCount(d, J, o, stop[d], sts[d]) /\ SourceCount(K, u, sts[e]) /\ SourceOrder(e, K)
      BY <2>1 DEF CountInv, Counts, OrderInv
    <3>2. Uncounted(J) = 0
      BY <1>1, <1>2 DEF Uncounted
    <3>3. J.num \in Nat /\ J.num = o /\ J.num < MaxFrames
      BY <1>1, <1>2, <3>1, <3>2 DEF SinkCount
    <3>4. K.num \in Nat /\ K.num >= MaxFrames /\ K.num <= Len(u)
      BY <2>1, <3>1 DEF SourceOrder, SourceCount
    <3> HIDE DEF J, K, u, o
    <3> QED BY <1>3, <3>3, <3>4, TotalLemma
  <2> QED BY <1>5, <2>1 DEF Open, Closed
<1>7. Numbered(l, u, o - Coming(J, e), Taken(e, K, e), TRUE)
  BY <1>3, <1>4, <1>6 DEF BufferOrder
<1>8. o - Coming(J, e) = o
  <2>1. Coming(J, e) = 0
    BY <1>2, ComingLemma
  <2> HIDE DEF o, J
  <2> QED BY <1>4, <2>1
<1>9. Taken(e, K, e) \in {0, 1}
  BY DEF Taken
<1> DEFINE t == Taken(e, K, e)
<1>10. PICK k \in Int : NumberedFrom(k, l, u, o, t, TRUE)
  BY <1>7, <1>8 DEF Numbered
<1> HIDE DEF t
<1>11. Latest(e) = k + t /\ t \in {0, 1}
  BY <1>3, <1>9, <1>10 DEF NumberedFrom, Latest, Newest, t
<1>12. k + m = o /\ \A i \in 1 .. m : l[i].frame = k + i /\ Real(l[i])
  <2> HIDE DEF l, o, u
  <2>1. m + 1 \in 1 .. m + 1 /\ (m + 1) - 1 = m /\ ~(m + 1 <= m)
    BY <1>4
  <2>2. k + (m + 1) - 1 = o
    BY <1>5, <1>10, <2>1 DEF NumberedFrom
  <2>3. k + m = o
    BY <1>4, <2>2
  <2> QED BY <1>5, <1>10, <2>3 DEF NumberedFrom, AllReal
<1>13. PICK s : s \in Free(d)
  BY <1>1
<1>14. s \in S /\ surf[s].locked = 0
  BY <1>13, SurfacesLemma DEF Free
<1>15. Queued(s) = {} /\ Decoding(s) = {}
  <2>1. Counted(buf, dec, enc, s, 0)
    BY <1>14 DEF DataInv, Shared
  <2>2. /\ IsFiniteSet(Queued(s)) /\ IsFiniteSet(Decoding(s)) /\ IsFiniteSet(Held(s))
        /\ 0 = Cardinality(Queued(s)) + Cardinality(Decoding(s)) + Cardinality(Held(s))
    BY <2>1 DEF Counted, QueuedIn, DecodingIn, HeldIn, Queued, Decoding, Held
  <2>3. Cardinality(Queued(s)) \in Nat /\ Cardinality(Decoding(s)) \in Nat /\ Cardinality(Held(s)) \in Nat
    BY <2>2, FS_CardinalityType
  <2>4. Cardinality(Queued(s)) = 0 /\ Cardinality(Decoding(s)) = 0
    BY <2>2, <2>3
  <2> QED BY <2>2, <2>4, FS_EmptySet
<1> DEFINE At(i) == IF i <= m THEN l[i].surf ELSE q[i - m]
<1>16. ASSUME NEW i \in 1 .. p + m
       PROVE  At(i) \in S \ {s} /\ surf[At(i)].frame = k + i
  <2>1. CASE i <= m
    <3>1. i \in 1 .. m /\ i \in 1 .. Len(l)
      BY <2>1
    <3>2. Real(l[i]) /\ l[i].frame = k + i /\ l[i] \in Items
      BY <1>4, <1>12, <3>1
    <3>3. surf[l[i].surf].frame = k + i
      BY <1>4, <3>1, <3>2 DEF DataInv, Shared, Intact, Real
    <3>4. l[i].surf \in S
      BY <3>2 DEF Items, Real
    <3>5. l[i].surf # s
      <4>1. ASSUME l[i].surf = s PROVE FALSE
        <5>1. i \in Positions(buf[e], s)
          BY <3>1, <4>1 DEF Positions
        <5>2. <<e, i>> \in Queued(s)
          BY <1>4, <5>1 DEF Queued
        <5> QED BY <1>15, <5>2
      <4> QED BY <4>1
    <3> QED BY <2>1, <3>3, <3>4, <3>5
  <2>2. CASE ~(i <= m)
    <3> DEFINE j == i - m
    <3>1. j \in 1 .. p /\ i = m + j
      <4> HIDE DEF m, p
      <4> QED BY <1>4, <2>2
    <3> HIDE DEF j
    <3>2. q[j] \in dec[d].refs /\ surf[q[j]].frame = n - p + j /\ q[j] \in S
      BY <1>4, <3>1 DEF DataInv, DecData
    <3>3. q[j] # s
      BY <1>15, <3>2 DEF Decoding
    <3>4. n - p + j = k + i
      <4>1. j \in Int
        BY <3>1
      <4> HIDE DEF n, p, m, o
      <4> QED BY <1>4, <1>12, <3>1, <4>1
    <3> QED BY <2>2, <3>2, <3>3, <3>4 DEF j
  <2> QED BY <2>1, <2>2
<1> DEFINE R == 1 .. p + m
           g == [i \in R |-> At(i)]
<1>17. g \in Injection(R, S \ {s})
  <2>1. g \in [R -> S \ {s}]
    BY <1>16
  <2>2. ASSUME NEW i \in R, NEW j \in R, g[i] = g[j] PROVE i = j
    <3>1. surf[At(i)].frame = k + i /\ surf[At(j)].frame = k + j /\ At(i) = At(j)
      BY <1>16, <2>2
    <3> HIDE DEF At
    <3>2. k + i = k + j
      BY <3>1
    <3> QED BY <3>2
  <2> HIDE DEF g, R
  <2> QED BY <2>1, <2>2 DEF Injection, IsInjective
<1>18. IsFiniteSet(S) /\ IsFiniteSet(S \ {s}) /\ Cardinality(S \ {s}) = Cardinality(S) - 1
       /\ Cardinality(S) \in Nat
  <2>1. S = Pool[d]
    <3>1. Sinks = {d}
      BY FanOutFacts
    <3> QED BY <3>1 DEF Surfaces
  <2>2. IsFiniteSet(S)
    BY <2>1, ShapeAssumption
  <2> HIDE DEF S
  <2> QED BY <1>14, <2>2, FS_RemoveElement, FS_CardinalityType
<1>19. Cardinality(R) = p + m /\ Cardinality(R) <= Cardinality(S \ {s})
  <2> HIDE DEF g, S
  <2>1. Cardinality(R) <= Cardinality(S \ {s})
    BY <1>17, <1>18, FS_Injection
  <2> HIDE DEF p, m
  <2>2. p + m \in Nat /\ 1 \in Int /\ p + m \in Int
    BY <1>4
  <2> DEFINE w == p + m
  <2> HIDE DEF w
  <2>3. Cardinality(1 .. w) = IF 1 > w THEN 0 ELSE w - 1 + 1
    BY <2>2, FS_Interval DEF w
  <2>4. w \in Nat
    BY <2>2 DEF w
  <2>5. Cardinality(1 .. w) = w
    BY <2>3, <2>4
  <2> QED BY <2>1, <2>5 DEF w
<1> DEFINE c == Cardinality(S)
<1>20. n = k + (p + m) /\ p + m <= c - 1 /\ c \in Nat
  <2> HIDE DEF n, p, m, o, S, R
  <2> QED BY <1>4, <1>12, <1>18, <1>19
<1> HIDE DEF c
<1>21. n - (k + t) < c
  <2> HIDE DEF n, p, m
  <2> QED BY <1>4, <1>11, <1>20
<1> QED BY <1>11, <1>21 DEF c

\* What each source has taken was made, and is counted by the frames it used.
Taking ==
    \A e \in Sources : /\ used[e] \in Seq(Int) /\ Len(used[e]) \in Nat /\ Latest(e) = Len(used[e])
                       /\ \A d \in Sinks : sink[d].n \in Int /\ Latest(e) <= sink[d].n

LEMMA TakingLemma == DataInv /\ OrderInv /\ ~Comp /\ lau.round = 0 => Taking
<1> SUFFICES ASSUME DataInv, OrderInv, ~Comp, lau.round = 0, NEW e \in Sources, NEW d \in Sinks
             PROVE  /\ used[e] \in Seq(Int) /\ Len(used[e]) \in Nat /\ Latest(e) = Len(used[e])
                    /\ sink[d].n \in Int /\ Latest(e) <= sink[d].n
  <2>1. \E d \in Sinks : TRUE
    BY FanOutFacts, ShapeAssumption
  <2> QED BY <2>1 DEF Taking
<1>1. /\ used[e] \in Seq(Int) /\ Len(used[e]) \in Nat /\ Newest(used[e]) = Len(used[e])
      /\ Newest(used[e]) <= Output(d)
  BY UsedLemma
<1>2. sink[d].n \in Int /\ Len(dec[d].pend) \in Nat
  BY OrderFacts
<1>3. Latest(e) = Newest(used[e])
  BY DEF Latest, Newest
<1> HIDE DEF Latest
<1>4. Newest(used[e]) <= sink[d].n
  BY <1>1, <1>2 DEF Output
<1> QED BY <1>1, <1>2, <1>3, <1>4

\* The frame that is made next is passed to the decoder.
LEMMA MakesFrame ==
    ASSUME OrderInv, DataInv, CountInv, ~Comp, lau.round = 0, NEW d \in Sinks, DecodeOneFrame(d)
    PROVE  Stream!Make
<1>1. (CHOOSE c \in Sinks : TRUE) = d
  BY FanOutFacts
<1>2. /\ src' = src /\ used' = used /\ sink'[d].n = sink[d].n + 1
  <2>1. PICK s, f :
            /\ s \in Surfaces
            /\ src' = src /\ used' = used
            /\ \/ sink' = [sink EXCEPT ![d] = Frame(d, Decoded(d), s, f)]
               \/ sink' = [sink EXCEPT ![d] = Decoded(d)]
    BY DecodeFields
  <2>2. DOMAIN sink[d] = SinkFields /\ DOMAIN sink = Sinks
    BY DataFacts
  <2> DEFINE J == Decoded(d)
             K == Frame(d, J, s, f)
  <2>3. J.n = sink[d].n + 1 /\ DOMAIN J = SinkFields
    BY <2>2 DEF Decoded, SinkFields
  <2> HIDE DEF J
  <2>4. K.n = J.n
    BY <2>1, <2>3, FrameFields
  <2> HIDE DEF K
  <2>5. sink' = [sink EXCEPT ![d] = K] \/ sink' = [sink EXCEPT ![d] = J]
    BY <2>1 DEF K, J
  <2>6. sink'[d] = K \/ sink'[d] = J
    BY <2>2, <2>5
  <2> QED BY <2>1, <2>3, <2>4, <2>6
<1>3. \A e \in Sources : ~Closed(src[e]) => sink[d].n - Latest(e) < Cardinality(Surfaces)
  BY RoomLemma
<1>4. \A e \in Sources : Latest(e)' = Latest(e)
  BY <1>2 DEF Latest
<1> QED BY <1>1, <1>2, <1>3, <1>4 DEF Stream!Make, Closed

\* The other steps of the sink and its decoder.
LEMMA SinkQuiet ==
    ASSUME DataInv, NEW d \in Sinks, ~DecodeOneFrame(d),
           SinkThread(d) \/ DecoderUnlocks(d) \/ DecodeFails(d) \/ GetFreeSurfaceTimeout(d)
    PROVE  sink'[d].n = sink[d].n /\ src' = src /\ used' = used
<1> DEFINE J == sink[d]
<1>1. DOMAIN J = SinkFields /\ DOMAIN sink = Sinks
  BY DataFacts
<1>2. src' = src /\ used' = used
  BY DEF SinkThread, DecoderUnlocks, DecodeFails, GetFreeSurfaceTimeout, StartDecode, LoopDecode,
     DecodeOneFrame, EndOfInput, StoppedDecode, DecodeLastFrame, AddStep, SignalStep, CountFrame
<1>3. \A p, r : Marks(d, p, r).n = J.n /\ DOMAIN Marks(d, p, r) = SinkFields
  BY MarksFields
<1>4. ASSUME NEW r PROVE NoFrame(d, r).n = J.n
  BY <1>1, <1>3 DEF NoFrame, SinkFields
<1>5. CASE StartDecode(d)
  <2>1. \E K : sink' = [sink EXCEPT ![d] = K] /\ K.n = J.n
    <3> DEFINE A == [J EXCEPT !.pc = "loop"]
               B == [J EXCEPT !.pc = "add", !.todo = Out(d), !.after = "start",
                              !.x = Descriptor(First(Pool[d]), 0)]
               C == Marks(d, "done", "ok")
    <3>1. A.n = J.n /\ B.n = J.n /\ C.n = J.n
      BY <1>1, <1>3 DEF SinkFields
    <3>2. sink' = [sink EXCEPT ![d] = A] \/ sink' = [sink EXCEPT ![d] = B] \/ sink' = [sink EXCEPT ![d] = C]
      BY <1>5 DEF StartDecode
    <3> HIDE DEF A, B, C
    <3> QED BY <3>1, <3>2
  <2> QED BY <1>1, <1>2, <2>1
<1>6. CASE LoopDecode(d)
  BY <1>1, <1>6 DEF LoopDecode, SinkFields
<1>7. CASE EndOfInput(d)
  <2> DEFINE A == [J EXCEPT !.eof = TRUE, !.pc = "lastFrame"]
             B == NoFrame(d, "ok")
  <2>1. A.n = J.n /\ B.n = J.n
    BY <1>1, <1>4 DEF SinkFields
  <2>2. sink' = [sink EXCEPT ![d] = A] \/ sink' = [sink EXCEPT ![d] = B]
    BY <1>7 DEF EndOfInput
  <2> HIDE DEF A, B
  <2> QED BY <1>1, <1>2, <2>1, <2>2
<1>8. CASE StoppedDecode(d)
  <2>1. PICK p : sink' = [sink EXCEPT ![d] = [Marks(d, p, "ok") EXCEPT !.timeout = FALSE]]
    BY <1>8 DEF StoppedDecode
  <2> DEFINE M == Marks(d, p, "ok")
             A == [M EXCEPT !.timeout = FALSE]
  <2>2. M.n = J.n /\ DOMAIN M = SinkFields
    BY <1>3
  <2> HIDE DEF M
  <2>3. A.n = M.n
    BY <2>2 DEF SinkFields
  <2> HIDE DEF A
  <2> QED BY <1>1, <1>2, <2>1, <2>2, <2>3 DEF A, M
<1>9. CASE CountFrame(d)
  <2> DEFINE m == J.num + 1
             M == Marks(d, "done", "ok")
             A == [M EXCEPT !.num = m]
             B == [J EXCEPT !.pc = "loop", !.num = m]
             C == [J EXCEPT !.pc = "done"]
  <2>1. sink' = [sink EXCEPT ![d] = A] \/ sink' = [sink EXCEPT ![d] = B] \/ sink' = [sink EXCEPT ![d] = C]
    BY <1>9 DEF CountFrame
  <2>2. B.n = J.n /\ C.n = J.n
    BY <1>1 DEF SinkFields
  <2>3. M.n = J.n /\ DOMAIN M = SinkFields
    BY <1>3
  <2> HIDE DEF M
  <2>4. A.n = J.n
    BY <2>3 DEF SinkFields
  <2> HIDE DEF A, B, C
  <2> QED BY <1>1, <1>2, <2>1, <2>2, <2>4
<1>10. CASE DecodeFails(d)
  <2>1. PICK kind : sink' = [sink EXCEPT ![d] = NoFrame(d, kind)]
    BY <1>10 DEF DecodeFails
  <2> QED BY <1>1, <1>2, <1>4, <2>1
<1>11. CASE GetFreeSurfaceTimeout(d)
  <2> DEFINE A == NoFrame(d, "error")
             B == Marks(d, "done", "error")
  <2>1. sink' = [sink EXCEPT ![d] = A] \/ sink' = [sink EXCEPT ![d] = B]
    BY <1>1, <1>11 DEF GetFreeSurfaceTimeout
  <2>2. A.n = J.n /\ B.n = J.n
    BY <1>3, <1>4
  <2> HIDE DEF A, B
  <2> QED BY <1>1, <1>2, <2>1, <2>2
<1>12. CASE DecodeLastFrame(d)
  <2>1. \E K : sink' = [sink EXCEPT ![d] = K] /\ K.n = J.n
    <3>1. \/ \E r : sink' = [sink EXCEPT ![d] = Marks(d, "done", r)]
          \/ \E s \in Surfaces : \E f : sink' = [sink EXCEPT ![d] = Frame(d, sink[d], s, f)]
      BY <1>12, LastFields
    <3>2. \A s \in Surfaces : \A f : Frame(d, sink[d], s, f).n = J.n
      BY <1>1, FrameFields
    <3> QED BY <1>3, <3>1, <3>2
  <2> QED BY <1>1, <1>2, <2>1
<1>13. CASE AddStep(d)
  <2>1. PICK L : sink' = [sink EXCEPT ![d] = L] /\ SameCounts(sink[d], L)
    BY <1>13, AddFields
  <2> QED BY <1>1, <1>2, <2>1 DEF SameCounts
<1>14. CASE SignalStep(d)
  <2>1. PICK L : sink' = [sink EXCEPT ![d] = L] /\ SameCounts(sink[d], L)
    BY <1>14, SignalFields
  <2> QED BY <1>1, <1>2, <2>1 DEF SameCounts
<1>15. CASE DecoderUnlocks(d)
  BY <1>15 DEF DecoderUnlocks
<1> QED BY <1>2, <1>5, <1>6, <1>7, <1>8, <1>9, <1>10, <1>11, <1>12, <1>13, <1>14, <1>15 DEF SinkThread

\* A source takes a frame, or what it has taken stays; and it stays closed.
LEMMA SourceShape ==
    ASSUME DataInv, OrderInv, ~Comp, NEW e \in Sources,
           \/ SourceThread(e) \/ RuntimeUnlocks(e) \/ SyncFrameFails(e) \/ VppFails(e)
           \/ EncodeFails(e) \/ SliceExpires(e)
    PROVE  /\ sink' = sink
           /\ \A c \in Sources \ {e} : src'[c] = src[c] /\ used'[c] = used[c]
           /\ Closed(src[e]) => Closed(src'[e])
           /\ \/ used'[e] = used[e]
              \/ \E f : used'[e] = Append(used[e], f) /\ ~Closed(src[e]) /\ ~Closed(src'[e])
<1> DEFINE J == src[e]
           f == surf[J.x.surf].frame
<1>1. /\ DOMAIN J = SrcFields /\ DOMAIN src = Sources /\ Cur(e) = e /\ DOMAIN used = Sources
  BY SourceFacts, FanOutFacts DEF OrderInv
<1>2. ASSUME NEW c \in Sources \ {e} PROVE src'[c] = src[c]
  BY <1>1, <1>2 DEF SourceThread, RuntimeUnlocks, SyncFrameFails, VppFails, EncodeFails, SliceExpires,
     GetFrame, WaitForSurfaceInsertion, SliceReturns, VppDrained, VppWantsMore, VppStopped, ReleaseInput,
     VppOutput, ReleaseComposed, EncodeFrame, EncodeOneFrame, ReleaseFrame, Flush, Cancel, Drain
<1>3. CASE VppOutput(e)
  <2> DEFINE r == ~(Vpp = "double" /\ J.read)
             K == [J EXCEPT !.pc = "enc", !.vs = TRUE, !.read = r]
  <2>1. /\ src' = [src EXCEPT ![e] = K] /\ J.pc = "vpp" /\ sink' = sink
        /\ used' = IF J.read THEN [used EXCEPT ![e] = Append(@, f)] ELSE used
    BY <1>1, <1>3 DEF VppOutput, VppReads
  <2>2. K.pc = "enc"
    BY <1>1 DEF SrcFields
  <2> HIDE DEF K, f
  <2>3. src'[e] = K /\ (used' = used \/ used' = [used EXCEPT ![e] = Append(@, f)])
    BY <1>1, <2>1
  <2>4. ~Closed(src[e]) /\ ~Closed(src'[e])
    BY <2>1, <2>2, <2>3 DEF Closed
  <2>5. CASE used' = used
    BY <1>2, <2>1, <2>4, <2>5
  <2>6. CASE used' = [used EXCEPT ![e] = Append(@, f)]
    <3>1. used'[e] = Append(used[e], f) /\ \A c \in Sources \ {e} : used'[c] = used[c]
      BY <1>1, <2>6
    <3> QED BY <1>2, <2>1, <2>4, <3>1
  <2> QED BY <2>3, <2>5, <2>6
<1>4. CASE EncodeFrame(e) /\ J.bs < AsyncDepth
  <2>1. PICK real \in {J.vs /\ ~J.poll} : EncodeOneFrame(e, real, J.num + IF real THEN 1 ELSE 0)
    BY <1>4, Zenon DEF EncodeFrame
  <2> DEFINE n == J.num + IF real THEN 1 ELSE 0
             r == EncodeResult(e, real)
             K == [J EXCEPT !.pc = "rel", !.vs = real, !.num = n, !.poll = (n >= MaxFrames),
                            !.bs = @ + 1, !.r = r]
  <2>2. /\ src' = [src EXCEPT ![e] = K]
        /\ used' = IF real /\ Vpp = "off" THEN [used EXCEPT ![e] = Append(@, f)] ELSE used
    BY <1>1, <2>1 DEF EncodeOneFrame
  <2>3. K.pc = "rel"
    BY <1>1 DEF SrcFields
  <2> HIDE DEF K, f, n, r
  <2>4. /\ src'[e] = K /\ (used' = used \/ used' = [used EXCEPT ![e] = Append(@, f)])
        /\ sink' = sink /\ J.pc = "enc"
    BY <1>1, <1>4, <2>2 DEF EncodeFrame
  <2>5. ~Closed(src[e]) /\ ~Closed(src'[e])
    BY <2>3, <2>4 DEF Closed
  <2>6. CASE used' = used
    BY <1>2, <2>4, <2>5, <2>6
  <2>7. CASE used' = [used EXCEPT ![e] = Append(@, f)]
    <3>1. used'[e] = Append(used[e], f) /\ \A c \in Sources \ {e} : used'[c] = used[c]
      BY <1>1, <2>7
    <3> QED BY <1>2, <2>4, <2>5, <3>1
  <2> QED BY <2>4, <2>6, <2>7
<1>5. CASE ~VppOutput(e) /\ ~(EncodeFrame(e) /\ J.bs < AsyncDepth)
  <2>1. ~VppWantsMore(e)
    <3>1. Len(Path(e)) = 1 /\ src[e].cur = 1
      BY SourceFacts
    <3> QED BY <3>1 DEF VppWantsMore
  <2>2. sink' = sink /\ used' = used
    BY <1>5, <2>1 DEF SourceThread, RuntimeUnlocks, SyncFrameFails, VppFails, EncodeFails, SliceExpires,
       GetFrame, WaitForSurfaceInsertion, SliceReturns, VppDrained, VppStopped, ReleaseInput,
       ReleaseComposed, EncodeFrame, ReleaseFrame, Flush, Cancel, Drain
  <2>3. ASSUME Closed(J) PROVE Closed(src'[e])
    <3>1. Flush(e) \/ Cancel(e) \/ Drain(e) \/ RuntimeUnlocks(e)
      BY <2>3, <1>5, <2>1 DEF Closed, SourceThread, SyncFrameFails, VppFails, EncodeFails, SliceExpires,
         GetFrame, WaitForSurfaceInsertion, SliceReturns, VppDrained, VppStopped, VppOutput, ReleaseInput,
         ReleaseComposed, EncodeFrame, ReleaseFrame
    <3>2. CASE RuntimeUnlocks(e)
      BY <2>3, <3>2 DEF RuntimeUnlocks
    <3>3. CASE Flush(e)
      <4> DEFINE A == [J EXCEPT !.bs = 0, !.cur = 1, !.pc = "cancel"]
                 B == [J EXCEPT !.pc = "done"]
      <4>1. src' = [src EXCEPT ![e] = A] \/ src' = [src EXCEPT ![e] = B]
        BY <1>1, <3>3 DEF Flush
      <4>2. A.pc = "cancel" /\ B.pc = "done"
        BY <1>1 DEF SrcFields
      <4> HIDE DEF A, B
      <4> QED BY <1>1, <4>1, <4>2 DEF Closed
    <3>4. CASE Cancel(e) \/ Drain(e)
      <4>1. \E p \in {"drain", "done"} : src' = [src EXCEPT ![e] = [J EXCEPT !.pc = p]]
        <5>1. Len(Path(e)) = 1 /\ src[e].cur = 1
          BY SourceFacts
        <5> QED BY <1>1, <3>4, <5>1 DEF Cancel, Drain
      <4>2. \A p : [J EXCEPT !.pc = p].pc = p
        BY <1>1 DEF SrcFields
      <4> QED BY <1>1, <4>1, <4>2 DEF Closed
    <3> QED BY <3>1, <3>2, <3>3, <3>4
  <2> QED BY <1>2, <2>2, <2>3
<1> QED BY <1>3, <1>4, <1>5

LEMMA SourceStreams ==
    ASSUME DataInv, OrderInv, ~Comp, Taking, Taking', NEW e \in Sources,
           \/ SourceThread(e) \/ RuntimeUnlocks(e) \/ SyncFrameFails(e) \/ VppFails(e)
           \/ EncodeFails(e) \/ SliceExpires(e)
    PROVE  Stream!Take(e) \/ Stream!Close(e) \/ UNCHANGED Stream!vars
<1>1. /\ sink' = sink
      /\ \A c \in Sources \ {e} : src'[c] = src[c] /\ used'[c] = used[c]
      /\ Closed(src[e]) => Closed(src'[e])
      /\ \/ used'[e] = used[e]
         \/ \E f : used'[e] = Append(used[e], f) /\ ~Closed(src[e]) /\ ~Closed(src'[e])
  BY SourceShape
<1> DEFINE d == CHOOSE c \in Sinks : TRUE
           g == [c \in Sources |-> Latest(c)]
           p == [c \in Sources |-> src[c].pc \notin {"flush", "cancel", "drain", "done"}]
<1>2. \A c \in Sources \ {e} : Latest(c)' = Latest(c)
  BY <1>1 DEF Latest
<1>3. d \in Sinks
  BY FanOutFacts, ShapeAssumption
<1>4. CASE used'[e] = used[e]
  <2>1. g' = g
    <3>1. Latest(e)' = Latest(e)
      BY <1>4 DEF Latest
    <3> QED BY <1>2, <3>1
  <2>2. CASE Closed(src[e]) \/ ~Closed(src'[e])
    <3>1. p' = p
      BY <1>1, <2>2 DEF Closed
    <3> QED BY <1>1, <2>1, <3>1 DEF Stream!vars
  <2>3. CASE ~Closed(src[e]) /\ Closed(src'[e])
    <3>1. p[e] = TRUE /\ p' = [p EXCEPT ![e] = FALSE]
      BY <1>1, <2>3 DEF Closed
    <3> QED BY <1>1, <2>1, <3>1 DEF Stream!Close
  <2> QED BY <1>1, <2>2, <2>3
<1>5. ASSUME NEW f, used'[e] = Append(used[e], f), ~Closed(src[e]), ~Closed(src'[e])
      PROVE  Stream!Take(e)
  <2>1. p[e] = TRUE /\ p' = p
    BY <1>1, <1>5 DEF Closed
  <2>2. /\ Latest(e) = Len(used[e]) /\ Latest(e)' = Len(used'[e]) /\ Len(used[e]) \in Nat
        /\ used[e] \in Seq(Int) /\ Latest(e)' <= sink'[d].n /\ sink'[d].n \in Int
    BY <1>3 DEF Taking
  <2>3. Len(used'[e]) = Len(used[e]) + 1
    BY <1>5, <2>2
  <2>4. Latest(e)' = Latest(e) + 1 /\ Latest(e) < sink[d].n
    <3> HIDE DEF Latest
    <3>1. Latest(e)' = Latest(e) + 1
      BY <2>2, <2>3
    <3>2. sink'[d].n = sink[d].n /\ Latest(e) \in Int
      BY <1>1, <2>2
    <3> QED BY <2>2, <3>1, <3>2
  <2>5. g' = [g EXCEPT ![e] = @ + 1]
    <3>1. \A c \in Sources : g'[c] = IF c = e THEN g[e] + 1 ELSE g[c]
      BY <1>2, <2>4
    <3> QED BY <3>1
  <2>6. g[e] < sink[d].n
    BY <2>4
  <2> QED BY <1>1, <2>1, <2>5, <2>6 DEF Stream!Take
<1> QED BY <1>1, <1>4, <1>5

LEMMA StreamInit == ~Comp /\ Init => Stream!Init
<1> SUFFICES ASSUME ~Comp, Init PROVE Stream!Init
  OBVIOUS
<1>1. /\ sink = [d \in Sinks |-> InitSink(0, 0, 0)] /\ src = [e \in Sources |-> InitSrc(0)]
      /\ used = [b \in Sources |-> << >>]
  BY FanOutFacts DEF Init
<1>2. sink[CHOOSE d \in Sinks : TRUE].n = 0
  <2>1. (CHOOSE d \in Sinks : TRUE) \in Sinks
    BY ShapeAssumption
  <2> QED BY <1>1, <2>1 DEF InitSink
<1>3. \A e \in Sources : Latest(e) = 0 /\ src[e].pc = "get"
  BY <1>1 DEF Latest, InitSrc
<1> QED BY <1>2, <1>3 DEF Stream!Init

LEMMA StreamStep ==
    ASSUME DataInv, OrderInv, CountInv, ~Comp, lau.round = 0, Taking, Taking', [Next]_vars, ~Recover
    PROVE  [Stream!Next]_Stream!vars
<1>1. ASSUME NEW d \in Sinks, sink'[d].n = sink[d].n, src' = src, used' = used
      PROVE  UNCHANGED Stream!vars
  <2>1. (CHOOSE c \in Sinks : TRUE) = d
    BY FanOutFacts
  <2> QED BY <1>1, <2>1 DEF Stream!vars, Latest
<1>2. CASE \E d \in Sinks : \/ SinkThread(d) \/ DecoderUnlocks(d) \/ DecodeFails(d)
                            \/ GetFreeSurfaceTimeout(d)
  BY <1>1, <1>2, MakesFrame, SinkQuiet DEF Stream!Next
<1>3. CASE \E e \in Sources : \/ SourceThread(e) \/ RuntimeUnlocks(e) \/ SyncFrameFails(e)
                              \/ VppFails(e) \/ EncodeFails(e) \/ SliceExpires(e)
  BY <1>3, SourceStreams DEF Stream!Next
<1>4. CASE Launcher \/ Finished \/ UNCHANGED vars
  <2>1. sink' = sink /\ src' = src /\ used' = used
    BY <1>4 DEF Launcher, Poll, StopSession, StopOverlay, Finish, Finished, vars
  <2>2. \E d \in Sinks : TRUE
    BY FanOutFacts, ShapeAssumption
  <2> QED BY <1>1, <2>1, <2>2
<1> QED BY <1>2, <1>3, <1>4 DEF Next, Progress, Timeout, Failure

\* A 1 to N transcoding without the robust mode, in which a recovery would open
\* the sources again, implements a stream of frames: whatever fails, no source
\* misses a frame, gets one twice or out of order, and the decoder is never
\* further ahead of a source than there are surfaces.
THEOREM IsStreamTheorem == ~Comp /\ ~Robust => (Spec => IsStream)
<1> SUFFICES ASSUME ~Comp, ~Robust PROVE Spec => IsStream
  OBVIOUS
<1>1. ~Recover
  BY DEF Recover, Recovers
<1>2. Spec => []OrderInv
  <2>1. OneRelease
    BY DEF OneRelease
  <2> QED BY <2>1, OrderAlways
<1>3. Spec => [](lau.round = 0)
  <2> DEFINE Original == lau.round = 0
  <2>1. Init => Original
    BY DEF Init
  <2>2. OrderInv /\ Original /\ [Next]_vars => Original'
    BY <1>1, RoundStays
  <2> HIDE DEF Original
  <2>3. Spec => []Original
    BY <1>2, <2>1, <2>2, PTL DEF Spec
  <2> QED BY <2>3 DEF Original
<1>4. DataInv /\ OrderInv /\ lau.round = 0 => Taking
  BY TakingLemma
<1>5. /\ DataInv /\ OrderInv /\ CountInv /\ lau.round = 0 /\ Taking /\ Taking' /\ [Next]_vars
      => [Stream!Next]_Stream!vars
  BY <1>1, StreamStep
<1> QED BY <1>2, <1>3, <1>4, <1>5, StreamInit, DataAlways, CountAlways, PTL DEF Spec, IsStream, Stream!Spec
=============================================================================
