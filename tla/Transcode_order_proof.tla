------------------------- MODULE Transcode_order_proof -------------------------
(***************************************************************************)
(* Theorems about the frames of the multi-transcode sample, for any number  *)
(* of sessions, surfaces, frames, failures and recoveries: every buffer     *)
(* hands on the frames of its sink in order.                               *)
(*                                                                         *)
(* The invariant follows the numbers of the frames through the places they  *)
(* can be in: used, at the front of a buffer and already processed, in the  *)
(* buffer, in the hands of the sink, and in its decoder.  In a buffer they  *)
(* are consecutive as long as its source is going to take them (Open); a    *)
(* source that drains, has ended, or passes on null frames skips frames,    *)
(* but it will not take another one.                                       *)
(***************************************************************************)
EXTENDS Transcode_proof

Real(x) == x.surf # None

\* The session that fills the buffer b, and the one that reads it.
Feeder(b) == IF Comp THEN b ELSE CHOOSE d \in Sinks : TRUE
Reader(b) == IF Comp THEN CHOOSE e \in Sources : TRUE ELSE b

\* The number of the last frame that came out of the decoder.
Output(d) == sink[d].n - Len(dec[d].pend)

\* 1 if the sink with the record K is about to add its frame to b.
Coming(K, b) ==
    IF /\ Adding(K) /\ Real(K.x)
       /\ \E i \in (IF K.pc = "add" THEN 1 ELSE 2) .. Len(K.todo) : K.todo[i] = b
    THEN 1 ELSE 0

\* The sink with the record K, stopped if st, gives no more frames.
Marked(K, st) ==
    /\ ~(Adding(K) /\ Real(K.x))
    /\ st \/ K.pc = "done" \/ (Adding(K) /\ K.after = "done")

\* The source with the record K may take another frame.
Open(K) ==
    ~K.quit /\ K.pc \notin {"flush", "cancel", "drain", "done"} /\ (Vpp = "off" => ~K.poll)

\* The source with the record K has processed the front of its buffer.
Done(K) ==
    \/ K.pc \in {"more", "composed"}
    \/ /\ ~Comp
       /\ \/ K.pc = "rel" /\ (Vpp = "off" => K.r \in {"more", "none"})
          \/ K.pc = "enc" /\ Vpp # "off"
          \/ ~K.read

\* 1 if the front of b was processed by the source e with the record K.
Taken(e, K, b) == IF Done(K) /\ Path(e)[K.cur] = b THEN 1 ELSE 0

-----------------------------------------------------------------------------
(***************************************************************************)
(* The order of the frames in the list l of a buffer, of which the frames u *)
(* were used; first says that there was no recovery yet                    *)
(***************************************************************************)

Newest(u) == IF u = << >> THEN 0 ELSE u[Len(u)]

AllReal(l, n) == \A i \in 1 .. n : Real(l[i])

\* The frames that were used are in order, and not above o.
Delivered(u, o, first) ==
    /\ u \in Seq(Int) /\ Newest(u) <= o
    /\ \A i \in 1 .. Len(u) : i > 1 => u[i] > u[i - 1]
    /\ first => \A i \in 1 .. Len(u) : u[i] = i

\* The frames on the list follow k, up to g; t of them are used already.
NumberedFrom(k, l, u, g, t, first) ==
    /\ \A i \in 1 .. Len(l) : Real(l[i]) => l[i].frame = k + i /\ k + i <= g
    /\ \A j \in 1 .. Len(l) + 1 :
         AllReal(l, j - 1) /\ (j <= Len(l) => ~Real(l[j])) => k + j - 1 = g
    /\ Newest(u) <= k + t
    /\ first => Len(u) = k + t

Numbered(l, u, g, t, first) == \E k \in Int : NumberedFrom(k, l, u, g, t, first)

\* The buffer B is b, which the sink with the record J, o frames out of the
\* decoder and the stop flag st fills, and the source with the record K reads.
BufferOrder(b, B, u, J, o, st, K, first) ==
    /\ Delivered(u, o, first)
    /\ ~AllReal(B.list, Len(B.list)) => Marked(J, st)
    /\ Open(K) => /\ B.allowed
                  /\ Numbered(B.list, u, o - Coming(J, b), Taken(Reader(b), K, b), first)
    /\ ~Comp /\ K.quit => /\ Marked(J, st)
                          /\ first => Newest(u) = o \/ (Vpp = "off" /\ K.poll)

\* The thread of the sink d with the record K.
SinkOrder(d, K, o, st) ==
    /\ Distinct(K.todo)
    /\ \A i \in 1 .. Len(K.todo) : \E j \in 1 .. Len(Out(d)) : K.todo[i] = Out(d)[j]
    /\ Adding(K) /\ d \notin Overlay =>
         IF Real(K.x) THEN K.after = "count" /\ K.x.frame = o ELSE K.after = "done" \/ st

\* The thread of the source e with the record K.
SourceOrder(e, K) ==
    /\ K.quit => ~Real(K.x)
    /\ K.pc \in {"get", "wait", "blocked", "expired"} => K.read
    /\ K.pc \in {"vpp", "more", "composed", "enc", "rel"} /\ ~K.quit => Real(K.x)
    /\ Comp /\ ~K.quit =>
         /\ K.pc = "composed" => K.cur = Len(Path(e))
         /\ K.pc \in {"enc", "rel"} => K.x.surf \in Pool[Path(e)[Len(Path(e))]]
    /\ Vpp = "off" /\ K.pc = "enc" /\ ~K.quit => K.vs
    /\ K.num \in Nat /\ (K.poll => K.num >= MaxFrames)

\* In a composition, a buffer has surfaces of its own sink only.
OwnSurfaces(b, l) == Comp => \A i \in 1 .. Len(l) : Real(l[i]) => l[i].surf \in Pool[b]

Ordered(b) ==
    BufferOrder(b, buf[b], used[b], sink[Feeder(b)], Output(Feeder(b)), stop[Feeder(b)],
                src[Reader(b)], lau.round = 0)

OrderInv ==
    /\ DOMAIN used = Buffers
    /\ DOMAIN lau = {"pc", "seen", "todo", "round"} /\ lau.round \in Nat
    /\ \A d \in Sinks : SinkOrder(d, sink[d], Output(d), stop[d])
    /\ \A e \in Sources : SourceOrder(e, src[e])
    /\ \A b \in Buffers : OwnSurfaces(b, buf[b].list)
    /\ \A b \in Buffers \ Overlay : Ordered(b)

\* Input surfaces are released once: by the thread that read them, and from
\* the buffer they came from.
OneRelease == Comp => Vpp # "double" /\ Len(Chain) > 1

-----------------------------------------------------------------------------
(***************************************************************************)
(* Lists of frames                                                         *)
(***************************************************************************)

LEMMA NewestLemma ==
    ASSUME NEW u \in Seq(Int)
    PROVE  /\ Newest(u) \in Int /\ Len(u) \in Nat
           /\ \A f \in Int : /\ Append(u, f) \in Seq(Int) /\ Newest(Append(u, f)) = f
                             /\ Len(Append(u, f)) = Len(u) + 1
<1>1. Len(u) \in Nat /\ (u # << >> => u[Len(u)] \in Int)
  OBVIOUS
<1>2. ASSUME NEW f \in Int
      PROVE  /\ Append(u, f) \in Seq(Int) /\ Newest(Append(u, f)) = f
             /\ Len(Append(u, f)) = Len(u) + 1
  BY <1>1, AppendLemma DEF Newest
<1> QED BY <1>1, <1>2 DEF Newest

LEMMA DeliveredMore ==
    ASSUME NEW u, NEW o \in Int, NEW p \in Int, o <= p, NEW first, Delivered(u, o, first)
    PROVE  Delivered(u, p, first) /\ Delivered(u, p, FALSE)
<1>1. Newest(u) \in Int
  BY NewestLemma DEF Delivered
<1> QED BY <1>1 DEF Delivered

LEMMA DeliveredTake ==
    ASSUME NEW u, NEW o \in Int, NEW first, Delivered(u, o, first),
           NEW f \in Int, f > Newest(u), f <= o, first => f = Len(u) + 1
    PROVE  Delivered(Append(u, f), o, first)
<1> DEFINE v == Append(u, f)
<1>1. u \in Seq(Int) /\ Len(u) \in Nat /\ v \in Seq(Int) /\ Newest(v) = f /\ Len(v) = Len(u) + 1
  BY NewestLemma DEF Delivered
<1>2. /\ \A i \in 1 .. Len(u) : v[i] = u[i]
      /\ v[Len(u) + 1] = f
  BY <1>1, AppendLemma
<1> HIDE DEF v
<1>3. ASSUME NEW i \in 1 .. Len(v), i > 1 PROVE v[i] > v[i - 1]
  <2>1. CASE i = Len(u) + 1
    <3>1. u # << >> /\ v[i] = f /\ v[i - 1] = u[Len(u)]
      BY <1>1, <1>2, <1>3, <2>1
    <3> QED BY <3>1 DEF Newest
  <2>2. CASE i # Len(u) + 1
    <3>1. i \in 1 .. Len(u) /\ i - 1 \in 1 .. Len(u)
      BY <1>1, <1>3, <2>2
    <3>2. v[i] = u[i] /\ v[i - 1] = u[i - 1]
      BY <1>2, <3>1
    <3> QED BY <1>3, <3>1, <3>2 DEF Delivered
  <2> QED BY <2>1, <2>2
<1>4. ASSUME first, NEW i \in 1 .. Len(v) PROVE v[i] = i
  BY <1>1, <1>2, <1>4 DEF Delivered
<1> QED BY <1>1, <1>3, <1>4 DEF v, Delivered

\* The front was processed and is erased.
LEMMA NumberedErase ==
    ASSUME NEW l \in Seq(Items), l # << >>, Real(l[1]), NEW u \in Seq(Int), NEW g \in Int, NEW first,
           Numbered(l, u, g, 1, first)
    PROVE  Numbered(EraseAt(l, 1), u, g, 0, first)
<1> DEFINE m == EraseAt(l, 1)
<1>1. PICK k \in Int : NumberedFrom(k, l, u, g, 1, first)
  BY DEF Numbered
<1>2. /\ m \in Seq(Items) /\ Len(m) = Len(l) - 1 /\ Len(l) \in Nat
      /\ \A i \in 1 .. Len(l) - 1 : m[i] = l[i + 1]
  BY EraseLemma
<1> HIDE DEF m
<1>3. Newest(u) \in Int /\ Len(u) \in Nat
  BY NewestLemma
<1>4. ASSUME NEW i \in 1 .. Len(m), Real(m[i])
      PROVE  m[i].frame = (k + 1) + i /\ (k + 1) + i <= g
  <2>1. i + 1 \in 1 .. Len(l) /\ m[i] = l[i + 1]
    BY <1>2
  <2> QED BY <1>1, <1>4, <2>1 DEF NumberedFrom
<1>5. ASSUME NEW j \in 1 .. Len(m) + 1, AllReal(m, j - 1), j <= Len(m) => ~Real(m[j])
      PROVE  (k + 1) + j - 1 = g
  <2>1. j + 1 \in 1 .. Len(l) + 1 /\ (j <= Len(m) => m[j] = l[j + 1] /\ j + 1 <= Len(l))
    BY <1>2
  <2>2. AllReal(l, (j + 1) - 1)
    <3>1. ASSUME NEW i \in 1 .. (j + 1) - 1, i # 1 PROVE Real(l[i])
      <4>1. i - 1 \in 1 .. j - 1 /\ i - 1 \in 1 .. Len(l) - 1 /\ (i - 1) + 1 = i
        BY <1>2, <3>1
      <4>2. m[i - 1] = l[i]
        BY <1>2, <4>1
      <4> QED BY <1>5, <4>1, <4>2 DEF AllReal
    <3> QED BY <3>1 DEF AllReal
  <2>3. j + 1 <= Len(l) => ~Real(l[j + 1])
    BY <1>2, <1>5, <2>1
  <2>4. k + (j + 1) - 1 = g
    BY <1>1, <2>1, <2>2, <2>3 DEF NumberedFrom
  <2> QED BY <2>4
<1>6. NumberedFrom(k + 1, m, u, g, 0, first)
  BY <1>1, <1>3, <1>4, <1>5 DEF NumberedFrom
<1> QED BY <1>6 DEF Numbered, m

\* The sink adds the frame that follows.
LEMMA NumberedAddReal ==
    ASSUME NEW l \in Seq(Items), AllReal(l, Len(l)), NEW x \in Items, Real(x),
           NEW u \in Seq(Int), NEW g \in Int, NEW t, NEW first, x.frame = g + 1,
           Numbered(l, u, g, t, first)
    PROVE  Numbered(Append(l, x), u, g + 1, t, first)
<1> DEFINE m == Append(l, x)
<1>1. PICK k \in Int : NumberedFrom(k, l, u, g, t, first)
  BY DEF Numbered
<1>2. /\ m \in Seq(Items) /\ Len(m) = Len(l) + 1 /\ Len(l) \in Nat
      /\ \A i \in 1 .. Len(l) : m[i] = l[i]
      /\ m[Len(l) + 1] = x
  BY AppendLemma
<1> HIDE DEF m
<1>3. k + Len(l) = g
  <2>1. Len(l) + 1 \in 1 .. Len(l) + 1 /\ (Len(l) + 1) - 1 = Len(l) /\ ~(Len(l) + 1 <= Len(l))
    BY <1>2
  <2>2. k + (Len(l) + 1) - 1 = g
    BY <1>1, <2>1 DEF NumberedFrom
  <2> QED BY <1>2, <2>2
<1>4. ASSUME NEW i \in 1 .. Len(m)
      PROVE  Real(m[i]) /\ m[i].frame = k + i /\ k + i <= g + 1
  <2>1. CASE i = Len(l) + 1
    BY <1>2, <1>3, <2>1
  <2>2. CASE i # Len(l) + 1
    <3>1. i \in 1 .. Len(l) /\ m[i] = l[i] /\ Real(l[i])
      BY <1>2, <2>2 DEF AllReal
    <3> QED BY <1>1, <3>1 DEF NumberedFrom
  <2> QED BY <2>1, <2>2
<1>5. ASSUME NEW j \in 1 .. Len(m) + 1, j <= Len(m) => ~Real(m[j])
      PROVE  k + j - 1 = g + 1
  <2>1. j = Len(m) + 1
    BY <1>2, <1>4, <1>5
  <2> QED BY <1>1, <1>2, <1>3, <2>1
<1>6. NumberedFrom(k, m, u, g + 1, t, first)
  BY <1>1, <1>4, <1>5 DEF NumberedFrom
<1> QED BY <1>6 DEF Numbered, m

\* The sink adds an end mark.
LEMMA NumberedAddMark ==
    ASSUME NEW l \in Seq(Items), NEW x \in Items, ~Real(x),
           NEW u \in Seq(Int), NEW g \in Int, NEW t, NEW first,
           Numbered(l, u, g, t, first)
    PROVE  Numbered(Append(l, x), u, g, t, first)
<1> DEFINE m == Append(l, x)
<1>1. PICK k \in Int : NumberedFrom(k, l, u, g, t, first)
  BY DEF Numbered
<1>2. /\ m \in Seq(Items) /\ Len(m) = Len(l) + 1 /\ Len(l) \in Nat
      /\ \A i \in 1 .. Len(l) : m[i] = l[i]
      /\ m[Len(l) + 1] = x
  BY AppendLemma
<1> HIDE DEF m
<1>3. ASSUME NEW i \in 1 .. Len(m), Real(m[i])
      PROVE  m[i].frame = k + i /\ k + i <= g
  <2>1. i \in 1 .. Len(l) /\ m[i] = l[i]
    BY <1>2, <1>3
  <2> QED BY <1>1, <1>3, <2>1 DEF NumberedFrom
<1>4. ASSUME NEW j \in 1 .. Len(m) + 1, AllReal(m, j - 1), j <= Len(m) => ~Real(m[j])
      PROVE  k + j - 1 = g
  <2>1. j # Len(m) + 1
    <3>1. CASE j = Len(m) + 1
      <4>1. Len(l) + 1 \in 1 .. j - 1
        BY <1>2, <3>1
      <4> QED BY <1>2, <1>4, <4>1 DEF AllReal
    <3> QED BY <3>1
  <2>2. j \in 1 .. Len(l) + 1
    BY <1>2, <2>1
  <2>3. AllReal(l, j - 1)
    BY <1>2, <1>4, <2>2 DEF AllReal
  <2>4. j <= Len(l) => ~Real(l[j])
    BY <1>2, <1>4, <2>2
  <2> QED BY <1>1, <2>2, <2>3, <2>4 DEF NumberedFrom
<1>5. NumberedFrom(k, m, u, g, t, first)
  BY <1>1, <1>3, <1>4 DEF NumberedFrom
<1> QED BY <1>5 DEF Numbered, m

\* The source processes the front.
LEMMA NumberedTake ==
    ASSUME NEW l \in Seq(Items), l # << >>, Real(l[1]), NEW u \in Seq(Int), NEW g \in Int, NEW first,
           Numbered(l, u, g, 0, first)
    PROVE  /\ l[1].frame \in Int /\ l[1].frame > Newest(u) /\ l[1].frame <= g
           /\ first => l[1].frame = Len(u) + 1
           /\ Numbered(l, Append(u, l[1].frame), g, 1, first)
<1>1. PICK k \in Int : NumberedFrom(k, l, u, g, 0, first)
  BY DEF Numbered
<1>2. 1 \in 1 .. Len(l) /\ Newest(u) \in Int /\ Len(u) \in Nat
  BY NewestLemma
<1>3. l[1].frame = k + 1 /\ k + 1 <= g /\ Newest(u) <= k /\ (first => Len(u) = k)
  BY <1>1, <1>2 DEF NumberedFrom
<1> DEFINE f == l[1].frame
           v == Append(u, f)
<1>4. f \in Int /\ Newest(v) = f /\ Len(v) = Len(u) + 1
  BY <1>3, NewestLemma
<1> HIDE DEF f, v
<1>5. NumberedFrom(k, l, v, g, 1, first)
  BY <1>1, <1>3, <1>4, <1>2 DEF NumberedFrom, f
<1> QED BY <1>2, <1>3, <1>4, <1>5 DEF Numbered, f, v

\* The source finds an end mark at the front.
LEMMA NumberedEnd ==
    ASSUME NEW l \in Seq(Items), l # << >>, ~Real(l[1]), NEW u, NEW o \in Int, NEW g \in Int, NEW first,
           Delivered(u, o, first), Numbered(l, u, g, 0, first), first
    PROVE  Newest(u) = g
<1>1. PICK k \in Int : NumberedFrom(k, l, u, g, 0, first)
  BY DEF Numbered
<1>2. 1 \in 1 .. Len(l) + 1 /\ 1 <= Len(l) /\ AllReal(l, 1 - 1)
  BY DEF AllReal
<1>3. k + 1 - 1 = g
  BY <1>1, <1>2 DEF NumberedFrom
<1>4. u \in Seq(Int) /\ Len(u) \in Nat /\ (u = << >> <=> Len(u) = 0)
  BY DEF Delivered
<1>5. Len(u) = k /\ (u # << >> => u[Len(u)] = Len(u))
  BY <1>1, <1>4 DEF NumberedFrom, Delivered
<1> QED BY <1>3, <1>4, <1>5 DEF Newest

LEMMA NumberedEmpty ==
    ASSUME NEW u \in Seq(Int), NEW g \in Int, NEW first, Newest(u) <= g, first => Len(u) = g
    PROVE  Numbered(<< >>, u, g, 0, first)
<1>1. Len(<< >>) = 0 /\ Newest(u) \in Int
  BY NewestLemma
<1>2. NumberedFrom(g, << >>, u, g, 0, first)
  BY <1>1 DEF NumberedFrom
<1> QED BY <1>2 DEF Numbered

-----------------------------------------------------------------------------
(***************************************************************************)
(* Who fills and who reads a buffer                                        *)
(***************************************************************************)

LEMMA BufferFacts ==
    ASSUME NEW b \in Buffers
    PROVE  /\ Feeder(b) \in Sinks /\ Reader(b) \in Sources
           /\ \A d \in Sinks : \A i \in 1 .. Len(Out(d)) : Out(d)[i] = b => d = Feeder(b)
           /\ \A d \in Sinks : d = Feeder(b) => \E i \in 1 .. Len(Out(d)) : Out(d)[i] = b
           /\ \A e \in Sources : \A i \in 1 .. Len(Path(e)) : Path(e)[i] = b => e = Reader(b)
           /\ ~Comp => Reader(b) = b /\ b \in Sources /\ b \notin Overlay
           /\ Comp => Feeder(b) = b /\ b \in Sinks
<1>1. CASE Comp
  <2>1. PICK e0 \in Sources : Sources = {e0}
    BY <1>1, ShapeAssumption
  <2>2. b \in Sinks /\ Feeder(b) = b /\ Reader(b) = e0
    BY <1>1, <2>1 DEF Buffers, Feeder, Reader
  <2>3. \A d \in Sinks : Len(Out(d)) = 1 /\ Out(d)[1] = d
    BY <1>1 DEF Out
  <2>4. ASSUME NEW d \in Sinks, NEW i \in 1 .. Len(Out(d)), Out(d)[i] = b PROVE d = Feeder(b)
    <3>1. i = 1
      <4>1. i \in 1 .. 1
        BY <2>3
      <4> QED BY <4>1
    <3> QED BY <2>2, <2>3, <2>4, <3>1
  <2>5. \A d \in Sinks : d = Feeder(b) => \E i \in 1 .. Len(Out(d)) : Out(d)[i] = b
    BY <2>2, <2>3
  <2>6. \A e \in Sources : e = Reader(b)
    BY <2>1, <2>2
  <2> QED BY <1>1, <2>1, <2>2, <2>4, <2>5, <2>6
<1>2. CASE ~Comp
  <2>1. PICK d0 \in Sinks : Sinks = {d0}
    BY <1>2, ShapeAssumption
  <2>2. b \in Sources /\ Feeder(b) = d0 /\ Reader(b) = b
    BY <1>2, <2>1 DEF Buffers, Feeder, Reader
  <2>3. \A d \in Sinks : d = Feeder(b) /\ Out(d) = Chain
    BY <1>2, <2>1, <2>2 DEF Out
  <2>4. \E i \in 1 .. Len(Chain) : Chain[i] = b
    BY <1>2, <2>2, ShapeAssumption
  <2>5. ASSUME NEW e \in Sources, NEW i \in 1 .. Len(Path(e)), Path(e)[i] = b PROVE e = Reader(b)
    <3>1. Path(e) = <<e>> /\ Len(<<e>>) = 1 /\ <<e>>[1] = e
      BY <1>2 DEF Path
    <3>2. i = 1
      BY <3>1
    <3> QED BY <2>2, <2>5, <3>1, <3>2
  <2>6. b \notin Overlay
    BY <1>2, ShapeAssumption
  <2> QED BY <1>2, <2>1, <2>2, <2>3, <2>4, <2>5, <2>6
<1> QED BY <1>1, <1>2

LEMMA SingleLemma == ASSUME NEW x PROVE Len(<<x>>) = 1 /\ <<x>>[1] = x /\ Distinct(<<x>>)
<1>1. Len(<<x>>) = 1 /\ <<x>>[1] = x
  OBVIOUS
<1> QED BY <1>1 DEF Distinct

LEMMA PathFacts ==
    /\ \A d \in Sinks : Distinct(Out(d))
    /\ \A e \in Sources : /\ Distinct(Path(e)) /\ (Comp => Len(Path(e)) = Len(Chain))
                          /\ \A i \in 1 .. Len(Path(e)) : Path(e)[i] \in Buffers /\ Reader(Path(e)[i]) = e
<1>1. Distinct(Chain)
  BY ShapeAssumption DEF Distinct
<1>2. \A d \in Sinks : Distinct(Out(d))
  BY <1>1, SingleLemma DEF Out
<1>3. ASSUME NEW e \in Sources
      PROVE  /\ Distinct(Path(e)) /\ (Comp => Len(Path(e)) = Len(Chain))
             /\ \A i \in 1 .. Len(Path(e)) : Path(e)[i] \in Buffers /\ Reader(Path(e)[i]) = e
  <2>1. Distinct(Path(e)) /\ (Comp => Len(Path(e)) = Len(Chain))
    BY <1>1, SingleLemma DEF Path
  <2>2. Path(e) \in Seq(Buffers)
    BY SurfacesLemma
  <2>3. \A i \in 1 .. Len(Path(e)) : Path(e)[i] \in Buffers
    BY <2>2
  <2> QED BY <2>1, <2>3, BufferFacts
<1> QED BY <1>2, <1>3

\* Buffers of overlay sessions are filled by overlay sessions.
LEMMA OverlayFeeds ==
    ASSUME NEW b \in Buffers, Feeder(b) \in Overlay
    PROVE  b \in Overlay
<1>1. Comp
  BY ShapeAssumption
<1> QED BY <1>1, BufferFacts

LEMMA OrderFacts ==
    ASSUME DataInv
    PROVE  /\ \A d \in Sinks : /\ sink[d].n \in Int /\ Len(dec[d].pend) \in Nat /\ Output(d) \in Int
                               /\ dec[d].pend \in Seq(Surfaces)
           /\ \A b \in Buffers : buf[b].list \in Seq(Items)
<1>1. /\ buf \in [Buffers -> BufType] /\ dec \in [Sinks -> DecType]
  BY DataFacts
<1>2. ASSUME NEW d \in Sinks
      PROVE  /\ sink[d].n \in Int /\ Len(dec[d].pend) \in Nat /\ Output(d) \in Int
             /\ dec[d].pend \in Seq(Surfaces)
  <2>1. sink[d].n \in Int
    BY DEF DataInv, SinkData
  <2>2. dec[d].pend \in Seq(Surfaces)
    BY <1>1 DEF DecType
  <2>3. Len(dec[d].pend) \in Nat
    BY <2>2
  <2> QED BY <2>1, <2>2, <2>3 DEF Output
<1> QED BY <1>1, <1>2 DEF BufType

\* What a frame that is coming counts for.
LEMMA ComingLemma ==
    ASSUME NEW K, NEW b
    PROVE  /\ Coming(K, b) \in {0, 1}
           /\ ~(Adding(K) /\ Real(K.x)) => Coming(K, b) = 0
  BY DEF Coming

-----------------------------------------------------------------------------
(***************************************************************************)
(* Frame conditions                                                        *)
(***************************************************************************)

\* Nothing that the order in b depends on changes.
LEMMA BufferStays ==
    ASSUME NEW b, NEW B, NEW B2, NEW u, NEW J, NEW J2, NEW o, NEW st, NEW st2, NEW K, NEW K2, NEW first,
           BufferOrder(b, B, u, J, o, st, K, first),
           B2.list = B.list, Open(K2) => B2.allowed = B.allowed,
           Marked(J, st) => Marked(J2, st2), Coming(J2, b) = Coming(J, b),
           Open(K2) => Open(K) /\ Taken(Reader(b), K2, b) = Taken(Reader(b), K, b),
           ~Comp /\ K2.quit => K.quit /\ (Vpp = "off" /\ K.poll => K2.poll)
    PROVE  BufferOrder(b, B2, u, J2, o, st2, K2, first)
  BY DEF BufferOrder

\* A step of the thread of d: the other threads and their buffers do not change.
LEMMA SinkOrderStep ==
    ASSUME OrderInv, NEW d \in Sinks,
           src' = src, stop' = stop, used' = used, lau' = lau,
           \A c \in Sinks \ {d} : sink'[c] = sink[c] /\ dec'[c] = dec[c],
           \A b \in Buffers : Feeder(b) # d => buf'[b] = buf[b],
           SinkOrder(d, sink'[d], Output(d)', stop[d]),
           \A b \in Buffers : Feeder(b) = d =>
              /\ OwnSurfaces(b, buf'[b].list)
              /\ b \notin Overlay =>
                   BufferOrder(b, buf'[b], used[b], sink'[d], Output(d)', stop[d], src[Reader(b)],
                               lau.round = 0)
    PROVE  OrderInv'
<1>1. \A c \in Sinks \ {d} : Output(c)' = Output(c)
  BY DEF Output
<1>2. \A c \in Sinks : SinkOrder(c, sink'[c], Output(c)', stop'[c])
  BY <1>1 DEF OrderInv
<1>3. ASSUME NEW b \in Buffers
      PROVE  /\ OwnSurfaces(b, buf'[b].list)
             /\ b \notin Overlay =>
                  BufferOrder(b, buf'[b], used'[b], sink'[Feeder(b)], Output(Feeder(b))', stop'[Feeder(b)],
                              src'[Reader(b)], lau'.round = 0)
  <2>1. CASE Feeder(b) = d
    BY <2>1
  <2>2. CASE Feeder(b) # d
    <3>1. Feeder(b) \in Sinks \ {d}
      BY <2>2, BufferFacts
    <3>2. sink'[Feeder(b)] = sink[Feeder(b)] /\ Output(Feeder(b))' = Output(Feeder(b)) /\ buf'[b] = buf[b]
      BY <1>1, <2>2, <3>1
    <3> QED BY <3>2 DEF OrderInv, Ordered
  <2> QED BY <2>1, <2>2
<1>4. \A e \in Sources : SourceOrder(e, src'[e])
  BY DEF OrderInv
<1>5. \A b \in Buffers : Feeder(b)' = Feeder(b) /\ Reader(b)' = Reader(b)
  BY DEF Feeder, Reader
<1>6. \A b \in Buffers \ Overlay : Ordered(b)'
  BY <1>3, <1>5 DEF Ordered
<1>7. /\ DOMAIN used' = Buffers
      /\ DOMAIN lau' = {"pc", "seen", "todo", "round"} /\ lau'.round \in Nat
  BY DEF OrderInv
<1> QED BY <1>2, <1>3, <1>4, <1>6, <1>7 DEF OrderInv

\* A step of the thread of e.
LEMMA SourceOrderStep ==
    ASSUME OrderInv, NEW e \in Sources,
           sink' = sink, dec' = dec, stop' = stop, lau' = lau, DOMAIN used' = Buffers,
           \A c \in Sources \ {e} : src'[c] = src[c],
           \A b \in Buffers : Reader(b) # e => buf'[b] = buf[b] /\ used'[b] = used[b],
           SourceOrder(e, src'[e]),
           \A b \in Buffers : Reader(b) = e =>
              /\ OwnSurfaces(b, buf'[b].list)
              /\ b \notin Overlay =>
                   BufferOrder(b, buf'[b], used'[b], sink[Feeder(b)], Output(Feeder(b)), stop[Feeder(b)],
                               src'[e], lau.round = 0)
    PROVE  OrderInv'
<1>1. \A c \in Sinks : Output(c)' = Output(c)
  BY DEF Output
<1>2. \A c \in Sinks : SinkOrder(c, sink'[c], Output(c)', stop'[c])
  BY <1>1 DEF OrderInv
<1>3. ASSUME NEW b \in Buffers
      PROVE  /\ OwnSurfaces(b, buf'[b].list)
             /\ b \notin Overlay =>
                  BufferOrder(b, buf'[b], used'[b], sink'[Feeder(b)], Output(Feeder(b))', stop'[Feeder(b)],
                              src'[Reader(b)], lau'.round = 0)
  <2>0. Feeder(b) \in Sinks
    BY BufferFacts
  <2>1. CASE Reader(b) = e
    BY <1>1, <2>0, <2>1
  <2>2. CASE Reader(b) # e
    <3>1. Reader(b) \in Sources \ {e}
      BY <2>2, BufferFacts
    <3>2. src'[Reader(b)] = src[Reader(b)] /\ Output(Feeder(b))' = Output(Feeder(b)) /\ buf'[b] = buf[b]
          /\ used'[b] = used[b]
      BY <1>1, <2>0, <2>2, <3>1
    <3> QED BY <3>2 DEF OrderInv, Ordered
  <2> QED BY <2>1, <2>2
<1>4. \A c \in Sources : SourceOrder(c, src'[c])
  BY DEF OrderInv
<1>5. \A b \in Buffers : Feeder(b)' = Feeder(b) /\ Reader(b)' = Reader(b)
  BY DEF Feeder, Reader
<1>6. \A b \in Buffers \ Overlay : Ordered(b)'
  BY <1>3, <1>5 DEF Ordered
<1>7. DOMAIN lau' = {"pc", "seen", "todo", "round"} /\ lau'.round \in Nat
  BY DEF OrderInv
<1> QED BY <1>2, <1>3, <1>4, <1>6, <1>7 DEF OrderInv

-----------------------------------------------------------------------------
(***************************************************************************)
(* Decoding threads                                                        *)
(***************************************************************************)

\* The thread goes on, or begins to add end marks, with no frame in its hands.
LEMMA SinkRecordOrder ==
    ASSUME OrderInv, DataInv, NEW d \in Sinks, NEW K, sink' = [sink EXCEPT ![d] = K],
           buf' = buf, src' = src, stop' = stop, used' = used, lau' = lau,
           \A c \in Sinks \ {d} : dec'[c] = dec[c],
           Output(d)' = Output(d), ~Adding(sink[d]), sink[d].pc # "done",
           K.todo = sink[d].todo \/ K.todo = Out(d),
           ~Adding(K) \/ (~Real(K.x) /\ (K.after = "done" \/ stop[d])) \/ d \in Overlay
    PROVE  OrderInv'
<1>1. sink'[d] = K /\ \A c \in Sinks \ {d} : sink'[c] = sink[c]
  BY DataFacts
<1>3. SinkOrder(d, K, Output(d), stop[d])
  <2>1. SinkOrder(d, sink[d], Output(d), stop[d])
    BY DEF OrderInv
  <2>2. Distinct(Out(d))
    BY PathFacts
  <2> QED BY <2>1, <2>2 DEF SinkOrder
<1>4. ASSUME NEW b \in Buffers \ Overlay, Feeder(b) = d
      PROVE  BufferOrder(b, buf[b], used[b], K, Output(d), stop[d], src[Reader(b)], lau.round = 0)
  <2>1. d \notin Overlay
    BY <1>4, OverlayFeeds
  <2>2. BufferOrder(b, buf[b], used[b], sink[d], Output(d), stop[d], src[Reader(b)], lau.round = 0)
    BY <1>4 DEF OrderInv, Ordered
  <2>3. Coming(K, b) = 0 /\ Coming(sink[d], b) = 0
    BY <2>1, ComingLemma
  <2>4. Marked(sink[d], stop[d]) => Marked(K, stop[d])
    BY <2>1 DEF Marked
  <2> QED BY <2>2, <2>3, <2>4, BufferStays
<1>5. \A b \in Buffers : OwnSurfaces(b, buf[b].list)
  BY DEF OrderInv
<1> QED BY <1>1, <1>3, <1>4, <1>5, SinkOrderStep

LEMMA MarksFields ==
    ASSUME DataInv, NEW d \in Sinks, NEW p, NEW r
    PROVE  /\ Marks(d, p, r).pc = "add" /\ ~Real(Marks(d, p, r).x)
           /\ Marks(d, p, r).todo = Out(d) /\ Marks(d, p, r).after = p /\ Marks(d, p, r).res = r
           /\ Marks(d, p, r).n = sink[d].n /\ Marks(d, p, r).num = sink[d].num
           /\ Marks(d, p, r).pos = sink[d].pos /\ Marks(d, p, r).eof = sink[d].eof
           /\ Marks(d, p, r).last = sink[d].last /\ Marks(d, p, r).timeout = sink[d].timeout
           /\ DOMAIN Marks(d, p, r) = SinkFields
<1>1. DOMAIN sink[d] = SinkFields
  BY DataFacts
<1> QED BY <1>1, EndMarkItem DEF Marks, SinkFields, Real

\* The thread neither has nor gets a frame.
LEMMA SinkRecordsOrder ==
    ASSUME OrderInv, DataInv, NEW d \in Sinks,
           \/ StartDecode(d) \/ LoopDecode(d) \/ EndOfInput(d) \/ StoppedDecode(d)
           \/ CountFrame(d) \/ DecodeFails(d) \/ GetFreeSurfaceTimeout(d)
    PROVE  OrderInv'
<1> DEFINE J == sink[d]
<1>1. DOMAIN J = SinkFields /\ DOMAIN sink = Sinks
  BY DataFacts
<1>2. /\ src' = src /\ stop' = stop /\ buf' = buf /\ dec' = dec /\ used' = used /\ lau' = lau
      /\ J.pc \in {"start", "loop", "oneFrame", "lastFrame", "count"}
  BY DEF StartDecode, LoopDecode, EndOfInput, StoppedDecode, CountFrame, DecodeFails,
         GetFreeSurfaceTimeout
<1>3. ~Adding(J) /\ J.pc # "done"
  BY <1>2 DEF Adding
<1> HIDE DEF J
<1>4. ASSUME NEW K, sink' = [sink EXCEPT ![d] = K], K.n = J.n, K.todo = J.todo \/ K.todo = Out(d),
             ~Adding(K) \/ (~Real(K.x) /\ (K.after = "done" \/ stop[d])) \/ d \in Overlay
      PROVE  OrderInv'
  <2>1. Output(d)' = Output(d)
    BY <1>1, <1>2, <1>4 DEF Output, J
  <2> QED BY <1>2, <1>3, <1>4, <2>1, SinkRecordOrder DEF J
<1>5. ASSUME NEW r, sink' = [sink EXCEPT ![d] = Marks(d, "done", r)]
      PROVE  OrderInv'
  <2> DEFINE K == Marks(d, "done", r)
  <2>1. ~Real(K.x) /\ K.todo = Out(d) /\ K.n = J.n /\ K.after = "done"
    BY MarksFields DEF J
  <2> HIDE DEF K
  <2> QED BY <1>4, <1>5, <2>1 DEF K
<1>6. ASSUME NEW r, sink' = [sink EXCEPT ![d] = NoFrame(d, r)]
      PROVE  OrderInv'
  <2>1. CASE J.last
    BY <1>5, <1>6, <2>1 DEF NoFrame, J
  <2>2. CASE ~J.last
    <3> DEFINE K == [J EXCEPT !.pc = "loop", !.pos = 0]
    <3>1. sink' = [sink EXCEPT ![d] = K]
      BY <1>6, <2>2 DEF NoFrame, J
    <3>2. K.pc = "loop" /\ K.n = J.n /\ K.todo = J.todo
      BY <1>1 DEF SinkFields
    <3> HIDE DEF K
    <3> QED BY <1>4, <3>1, <3>2 DEF Adding
  <2> QED BY <2>1, <2>2
<1>7. CASE StartDecode(d)
  <2>1. CASE stop[d]
    BY <1>5, <1>7, <2>1 DEF StartDecode
  <2>2. CASE ~stop[d] /\ d \notin Overlay
    <3> DEFINE K == [J EXCEPT !.pc = "loop"]
    <3>1. sink' = [sink EXCEPT ![d] = K]
      BY <1>7, <2>2 DEF StartDecode, J
    <3>2. K.pc = "loop" /\ K.n = J.n /\ K.todo = J.todo
      BY <1>1 DEF SinkFields
    <3> HIDE DEF K
    <3> QED BY <1>4, <3>1, <3>2 DEF Adding
  <2>3. CASE ~stop[d] /\ d \in Overlay
    <3> DEFINE K == [J EXCEPT !.pc = "add", !.todo = Out(d), !.after = "start",
                              !.x = Descriptor(First(Pool[d]), 0)]
    <3>1. sink' = [sink EXCEPT ![d] = K]
      BY <1>7, <2>3 DEF StartDecode, J
    <3>2. K.n = J.n /\ K.todo = Out(d)
      BY <1>1 DEF SinkFields
    <3> HIDE DEF K
    <3> QED BY <1>4, <2>3, <3>1, <3>2
  <2> QED BY <2>1, <2>2, <2>3
<1>8. CASE LoopDecode(d)
  <2>1. PICK last \in BOOLEAN :
           sink' = [sink EXCEPT ![d].last = last,
                                ![d].pc = IF sink[d].eof THEN "lastFrame" ELSE "oneFrame"]
    BY <1>8 DEF LoopDecode
  <2> DEFINE K == [J EXCEPT !.last = last, !.pc = IF sink[d].eof THEN "lastFrame" ELSE "oneFrame"]
  <2>2. sink' = [sink EXCEPT ![d] = K]
    BY <1>1, <2>1 DEF J
  <2>3. K.pc \in {"oneFrame", "lastFrame"} /\ K.n = J.n /\ K.todo = J.todo
    BY <1>1 DEF SinkFields
  <2> HIDE DEF K
  <2> QED BY <1>4, <2>2, <2>3 DEF Adding
<1>9. CASE EndOfInput(d)
  <2> DEFINE K == [J EXCEPT !.eof = TRUE, !.pc = "lastFrame"]
  <2>1. CASE J.last
    <3>1. sink' = [sink EXCEPT ![d] = K]
      BY <1>1, <1>9, <2>1 DEF EndOfInput, J
    <3>2. K.pc = "lastFrame" /\ K.n = J.n /\ K.todo = J.todo
      BY <1>1 DEF SinkFields
    <3> HIDE DEF K
    <3> QED BY <1>4, <3>1, <3>2 DEF Adding
  <2>2. CASE ~J.last
    <3>1. sink' = [sink EXCEPT ![d] = NoFrame(d, "ok")]
      BY <1>1, <1>9, <2>2 DEF EndOfInput, J
    <3> QED BY <1>6, <3>1
  <2> QED BY <2>1, <2>2
<1>10. CASE StoppedDecode(d)
  <2> DEFINE M == Marks(d, IF J.last THEN "leave" ELSE "loop", "ok")
             K == [M EXCEPT !.timeout = FALSE]
  <2>1. sink' = [sink EXCEPT ![d] = K] /\ stop[d]
    BY <1>1, <1>10 DEF StoppedDecode, J
  <2>2. DOMAIN M = SinkFields /\ ~Real(M.x) /\ M.todo = Out(d) /\ M.n = J.n
    BY MarksFields DEF J
  <2> HIDE DEF M
  <2>3. ~Real(K.x) /\ K.todo = Out(d) /\ K.n = J.n
    BY <2>2 DEF SinkFields, Real
  <2> HIDE DEF K
  <2> QED BY <1>4, <2>1, <2>3
<1>11. CASE CountFrame(d)
  <2> DEFINE n == J.num + 1
  <2>1. CASE sink' = [sink EXCEPT ![d] = [Marks(d, "done", "ok") EXCEPT !.num = n]]
    <3> DEFINE M == Marks(d, "done", "ok")
               K == [M EXCEPT !.num = n]
    <3>1. sink' = [sink EXCEPT ![d] = K]
      BY <2>1
    <3>2. DOMAIN M = SinkFields /\ ~Real(M.x) /\ M.todo = Out(d) /\ M.n = J.n /\ M.after = "done"
      BY MarksFields DEF J
    <3> HIDE DEF M
    <3>3. ~Real(K.x) /\ K.todo = Out(d) /\ K.n = J.n /\ K.after = "done"
      BY <3>2 DEF SinkFields, Real
    <3> HIDE DEF K
    <3> QED BY <1>4, <3>1, <3>3
  <2>2. CASE sink' = [sink EXCEPT ![d] = [J EXCEPT !.pc = "loop", !.num = n]]
    <3> DEFINE K == [J EXCEPT !.pc = "loop", !.num = n]
    <3>1. K.pc = "loop" /\ K.n = J.n /\ K.todo = J.todo
      BY <1>1 DEF SinkFields
    <3>2. sink' = [sink EXCEPT ![d] = K]
      BY <2>2
    <3> HIDE DEF K
    <3> QED BY <1>4, <3>1, <3>2 DEF Adding
  <2>3. CASE sink' = [sink EXCEPT ![d].pc = "done"]
    <3> DEFINE K == [J EXCEPT !.pc = "done"]
    <3>1. K.pc = "done" /\ K.n = J.n /\ K.todo = J.todo
      BY <1>1 DEF SinkFields
    <3>2. sink' = [sink EXCEPT ![d] = K]
      BY <2>3 DEF J
    <3> HIDE DEF K
    <3> QED BY <1>4, <3>1, <3>2 DEF Adding
  <2>4. \/ sink' = [sink EXCEPT ![d] = [Marks(d, "done", "ok") EXCEPT !.num = n]]
        \/ sink' = [sink EXCEPT ![d] = [J EXCEPT !.pc = "loop", !.num = n]]
        \/ sink' = [sink EXCEPT ![d].pc = "done"]
    BY <1>11 DEF CountFrame, J
  <2> QED BY <2>1, <2>2, <2>3, <2>4
<1>12. CASE DecodeFails(d)
  BY <1>6, <1>12 DEF DecodeFails
<1>13. CASE GetFreeSurfaceTimeout(d)
  <2>1. \/ sink' = [sink EXCEPT ![d] = NoFrame(d, "error")]
        \/ sink' = [sink EXCEPT ![d] = Marks(d, "done", "error")]
    BY <1>1, <1>13 DEF GetFreeSurfaceTimeout
  <2> QED BY <1>5, <1>6, <2>1
<1> QED BY <1>7, <1>8, <1>9, <1>10, <1>11, <1>12, <1>13

\* The thread gets the next frame from the decoder.
LEMMA FrameComes ==
    ASSUME OrderInv, DataInv, NEW d \in Sinks, NEW K, sink' = [sink EXCEPT ![d] = K],
           buf' = buf, src' = src, stop' = stop, used' = used, lau' = lau,
           \A c \in Sinks \ {d} : dec'[c] = dec[c], Output(d)' = Output(d) + 1,
           ~Adding(sink[d]), sink[d].pc # "done", ~stop[d], d \notin Overlay,
           K.pc = "add", Real(K.x), K.x.frame = Output(d) + 1, K.todo = Out(d), K.after = "count"
    PROVE  OrderInv'
<1>1. sink'[d] = K /\ \A c \in Sinks \ {d} : sink'[c] = sink[c]
  BY DataFacts
<1>2. Output(d) \in Int
  BY OrderFacts
<1>3. SinkOrder(d, K, Output(d)', stop[d])
  BY PathFacts DEF SinkOrder
<1>4. ASSUME NEW b \in Buffers \ Overlay, Feeder(b) = d
      PROVE  BufferOrder(b, buf[b], used[b], K, Output(d)', stop[d], src[Reader(b)], lau.round = 0)
  <2> DEFINE first == lau.round = 0
             L == src[Reader(b)]
             o == Output(d)
  <2>1. BufferOrder(b, buf[b], used[b], sink[d], o, stop[d], L, first)
    BY <1>4 DEF OrderInv, Ordered
  <2>2. Coming(sink[d], b) = 0 /\ Coming(K, b) = 1
    <3>1. \E i \in 1 .. Len(Out(d)) : Out(d)[i] = b
      BY <1>4, BufferFacts
    <3> QED BY <3>1, ComingLemma DEF Coming, Adding
  <2>3. ~Marked(sink[d], stop[d])
    BY DEF Marked
  <2> HIDE DEF o, first, L
  <2>4. Delivered(used[b], o + 1, first)
    <3>1. o \in Int /\ o + 1 \in Int /\ o <= o + 1
      BY <1>2 DEF o
    <3>2. Delivered(used[b], o, first)
      BY <2>1 DEF BufferOrder
    <3> QED BY <3>1, <3>2, DeliveredMore
  <2>5. (o + 1) - 1 = o - 0
    BY <1>2 DEF o
  <2>6. BufferOrder(b, buf[b], used[b], K, o + 1, stop[d], L, first)
    BY <2>1, <2>2, <2>3, <2>4, <2>5 DEF BufferOrder
  <2> QED BY <2>6 DEF o, first, L
<1>5. \A b \in Buffers : OwnSurfaces(b, buf[b].list)
  BY DEF OrderInv
<1> QED BY <1>1, <1>3, <1>4, <1>5, SinkOrderStep

LEMMA FrameFields ==
    ASSUME NEW d \in Sinks, NEW J, DOMAIN J = SinkFields, NEW s \in Surfaces, NEW f
    PROVE  /\ Frame(d, J, s, f).pc = "add" /\ Real(Frame(d, J, s, f).x)
           /\ Frame(d, J, s, f).x.frame = f
           /\ Frame(d, J, s, f).todo = Out(d) /\ Frame(d, J, s, f).after = "count"
           /\ Frame(d, J, s, f).n = J.n /\ Frame(d, J, s, f).num = J.num
           /\ Frame(d, J, s, f).pos = J.pos /\ Frame(d, J, s, f).eof = J.eof
           /\ Frame(d, J, s, f).last = J.last /\ Frame(d, J, s, f).timeout = J.timeout
           /\ Frame(d, J, s, f).res = J.res
           /\ DOMAIN Frame(d, J, s, f) = SinkFields
  BY SurfacesLemma DEF Frame, Descriptor, SinkFields, Real

\* The thread has passed one more frame to the decoder.
Decoded(d) == [sink[d] EXCEPT !.pos = sink[d].pos + 1, !.n = sink[d].n + 1]

\* One more frame is decoded; the oldest one comes out if DecDelay were kept.
LEMMA DecodeFields ==
    ASSUME DataInv, NEW d \in Sinks, DecodeOneFrame(d)
    PROVE  \E s \in Surfaces, q \in Seq(Surfaces) :
             /\ Len(q) = Len(dec[d].pend) + 1 /\ q # << >>
             /\ IF Len(q) > DecDelay
                THEN /\ Len(dec'[d].pend) = Len(dec[d].pend) /\ Len(dec[d].pend) = DecDelay
                     /\ sink' = [sink EXCEPT ![d] = Frame(d, Decoded(d), s, (sink[d].n + 1) - DecDelay)]
                ELSE /\ Len(dec'[d].pend) = Len(dec[d].pend) + 1
                     /\ sink' = [sink EXCEPT ![d] = Decoded(d)]
             /\ \A c \in Sinks \ {d} : dec'[c] = dec[c]
             /\ Free(d) # {} /\ sink[d].pos < Input[d] /\ sink[d].pc = "oneFrame" /\ ~stop[d]
             /\ buf' = buf /\ src' = src /\ stop' = stop /\ used' = used /\ lau' = lau /\ sts' = sts
<1> DEFINE D == dec[d]
           n == sink[d].n
<1>1. /\ DOMAIN sink = Sinks /\ dec \in [Sinks -> DecType] /\ D \in DecType
      /\ D.pend \in Seq(Surfaces) /\ Len(D.pend) <= DecDelay /\ Len(D.pend) \in Nat
  <2>1. DecData(d, D, surf, n)
    BY DEF DataInv
  <2>2. dec \in [Sinks -> DecType] /\ D \in DecType
    BY DataFacts
  <2> QED BY <2>1, <2>2, DataFacts, OrderFacts DEF DecData
<1>2. PICK s \in {First(Free(d))}, f \in {n + 1} :
         \E r \in {Append(dec[d].pend, s)} :
            IF Len(r) > DecDelay
            THEN /\ dec' = [dec EXCEPT ![d] = [pend |-> Tail(r), refs |-> @.refs \cup {s}]]
                 /\ sink' = [sink EXCEPT ![d] =
                       Frame(d, [sink[d] EXCEPT !.pos = @ + 1, !.n = f], Head(r), f - DecDelay)]
            ELSE /\ dec' = [dec EXCEPT ![d] = [pend |-> r, refs |-> @.refs \cup {s}]]
                 /\ sink' = [sink EXCEPT ![d].pos = @ + 1, ![d].n = f]
  BY Zenon DEF DecodeOneFrame
<1>3. s \in Surfaces
  <2>1. Free(d) \subseteq Nat /\ Free(d) # {}
    BY ShapeAssumption DEF Free, DecodeOneFrame
  <2>2. s \in Free(d)
    BY <2>1, FirstLemma
  <2> QED BY <2>2, SurfacesLemma DEF Free
<1> DEFINE q == Append(D.pend, s)
           J == Decoded(d)
<1>4. IF Len(q) > DecDelay
      THEN /\ dec' = [dec EXCEPT ![d] = [pend |-> Tail(q), refs |-> D.refs \cup {s}]]
           /\ sink' = [sink EXCEPT ![d] = Frame(d, J, Head(q), (n + 1) - DecDelay)]
      ELSE /\ dec' = [dec EXCEPT ![d] = [pend |-> q, refs |-> D.refs \cup {s}]]
           /\ sink' = [sink EXCEPT ![d] = J]
  <2> DEFINE I == [sink[d] EXCEPT !.pos = @ + 1, !.n = f]
  <2>1. f = n + 1
    OBVIOUS
  <2>2. I = J
    BY <2>1 DEF Decoded
  <2>3. sink' = [sink EXCEPT ![d].pos = @ + 1, ![d].n = f] => sink' = [sink EXCEPT ![d] = I]
    BY <1>1
  <2>4. IF Len(q) > DecDelay
        THEN /\ dec' = [dec EXCEPT ![d] = [pend |-> Tail(q), refs |-> @.refs \cup {s}]]
             /\ sink' = [sink EXCEPT ![d] = Frame(d, I, Head(q), f - DecDelay)]
        ELSE /\ dec' = [dec EXCEPT ![d] = [pend |-> q, refs |-> @.refs \cup {s}]]
             /\ sink' = [sink EXCEPT ![d].pos = @ + 1, ![d].n = f]
    BY <1>2
  <2> HIDE DEF I, J, q
  <2>5. CASE Len(q) > DecDelay
    <3>1. dec' = [dec EXCEPT ![d] = [pend |-> Tail(q), refs |-> D.refs \cup {s}]]
      BY <2>4, <2>5
    <3>2. sink' = [sink EXCEPT ![d] = Frame(d, J, Head(q), f - DecDelay)]
      BY <2>2, <2>4, <2>5
    <3> QED BY <2>1, <2>5, <3>1, <3>2
  <2>6. CASE ~(Len(q) > DecDelay)
    BY <2>1, <2>2, <2>3, <2>4, <2>6
  <2> QED BY <2>5, <2>6
<1> HIDE DEF J, n
<1>5. /\ q \in Seq(Surfaces) /\ Len(q) = Len(D.pend) + 1 /\ q # << >>
  BY <1>1, <1>3, AppendLemma
<1> HIDE DEF q
<1>6. Head(q) \in Surfaces /\ Len(Tail(q)) = Len(q) - 1
  BY <1>5, TailLemma
<1>7. /\ \A c \in Sinks \ {d} : dec'[c] = dec[c]
      /\ dec'[d].pend = IF Len(q) > DecDelay THEN Tail(q) ELSE q
  <2>1. PICK l : dec' = [dec EXCEPT ![d] = [pend |-> l, refs |-> D.refs \cup {s}]]
                 /\ l = IF Len(q) > DecDelay THEN Tail(q) ELSE q
    BY <1>4
  <2>2. dec'[d] = [pend |-> l, refs |-> D.refs \cup {s}]
    BY <1>1, <2>1
  <2> QED BY <1>1, <2>1, <2>2
<1>8. /\ Free(d) # {} /\ sink[d].pos < Input[d] /\ sink[d].pc = "oneFrame" /\ ~stop[d]
      /\ buf' = buf /\ src' = src /\ stop' = stop /\ used' = used /\ lau' = lau /\ sts' = sts
  BY DEF DecodeOneFrame
<1>9. CASE Len(q) > DecDelay
  <2>1. /\ Len(dec'[d].pend) = Len(D.pend) /\ Len(D.pend) = DecDelay
        /\ sink' = [sink EXCEPT ![d] = Frame(d, J, Head(q), (n + 1) - DecDelay)]
    <3>1. Len(q) \in Nat /\ DecDelay \in Nat
      BY <1>1, <1>5, ShapeAssumption
    <3>2. Len(D.pend) = DecDelay
      BY <1>1, <1>5, <1>9, <3>1
    <3> HIDE DEF D
    <3> QED BY <1>1, <1>4, <1>5, <1>6, <1>7, <1>9, <3>2
  <2> QED BY <1>5, <1>6, <1>7, <1>8, <1>9, <2>1, Zenon DEF J, n, D
<1>10. CASE ~(Len(q) > DecDelay)
  <2>1. Len(dec'[d].pend) = Len(D.pend) + 1 /\ sink' = [sink EXCEPT ![d] = J]
    BY <1>4, <1>5, <1>7, <1>10
  <2> QED BY <1>3, <1>5, <1>7, <1>8, <1>10, <2>1, Zenon DEF J, n, D
<1> QED BY <1>9, <1>10

LEMMA DecodesOneOrder ==
    ASSUME OrderInv, DataInv, NEW d \in Sinks, DecodeOneFrame(d)
    PROVE  OrderInv'
<1> DEFINE n == sink[d].n
           p == Len(dec[d].pend)
<1>1. DOMAIN sink[d] = SinkFields /\ DOMAIN sink = Sinks /\ n \in Int /\ p \in Nat
      /\ Output(d) = n - p
  BY DataFacts, OrderFacts DEF Output
<1>2. d \notin Overlay /\ ~Adding(sink[d]) /\ sink[d].pc # "done"
  BY NotOverlay DEF DecodeOneFrame, Adding
<1> DEFINE J == Decoded(d)
<1>7. PICK s \in Surfaces, q \in Seq(Surfaces) :
         /\ IF Len(q) > DecDelay
            THEN /\ Len(dec'[d].pend) = p /\ p = DecDelay
                 /\ sink' = [sink EXCEPT ![d] = Frame(d, J, s, (n + 1) - DecDelay)]
            ELSE /\ Len(dec'[d].pend) = p + 1
                 /\ sink' = [sink EXCEPT ![d] = J]
         /\ \A c \in Sinks \ {d} : dec'[c] = dec[c]
         /\ ~stop[d]
         /\ buf' = buf /\ src' = src /\ stop' = stop /\ used' = used /\ lau' = lau
  BY DecodeFields
<1>4. J.n = n + 1 /\ DOMAIN J = SinkFields /\ J.todo = sink[d].todo /\ J.pc = sink[d].pc
  BY <1>1 DEF SinkFields, Decoded
<1> HIDE DEF n, p, J
<1>5. CASE Len(q) > DecDelay
  <2> DEFINE K == Frame(d, J, s, (n + 1) - DecDelay)
  <2>1. /\ K.pc = "add" /\ Real(K.x) /\ K.x.frame = (n + 1) - DecDelay /\ K.todo = Out(d)
        /\ K.after = "count" /\ K.n = J.n
    BY <1>4, FrameFields
  <2>2. sink' = [sink EXCEPT ![d] = K] /\ p = DecDelay /\ Len(dec'[d].pend) = p
    BY <1>7, <1>5
  <2> HIDE DEF K
  <2>3. Output(d)' = n + 1 - p
    BY <1>1, <1>4, <2>1, <2>2 DEF Output
  <2>4. Output(d)' = Output(d) + 1 /\ K.x.frame = Output(d) + 1
    BY <1>1, <2>1, <2>2, <2>3
  <2> QED BY <1>2, <1>7, <2>1, <2>2, <2>4, FrameComes
<1>6. CASE ~(Len(q) > DecDelay)
  <2>1. sink' = [sink EXCEPT ![d] = J] /\ Len(dec'[d].pend) = p + 1
    BY <1>7, <1>6
  <2>2. Output(d)' = n + 1 - (p + 1)
    BY <1>1, <1>4, <2>1 DEF Output
  <2>3. Output(d)' = Output(d)
    BY <1>1, <2>2
  <2>4. ~Adding(J)
    BY <1>2, <1>4 DEF Adding
  <2> QED BY <1>2, <1>7, <1>4, <2>1, <2>3, <2>4, SinkRecordOrder
<1> QED BY <1>5, <1>6

\* The last frames, in order.
LEMMA LastFields ==
    ASSUME DataInv, NEW d \in Sinks, DecodeLastFrame(d)
    PROVE  /\ sink[d].pc = "lastFrame" /\ \A c \in Sinks \ {d} : dec'[c] = dec[c]
           /\ buf' = buf /\ src' = src /\ stop' = stop /\ used' = used /\ lau' = lau /\ sts' = sts
           /\ \/ /\ dec' = dec
                 /\ \/ stop[d] /\ sink' = [sink EXCEPT ![d] = Marks(d, "done", "error")]
                    \/ /\ ~stop[d] /\ dec[d].pend = << >>
                       /\ sink' = [sink EXCEPT ![d] = Marks(d, "done", "ok")]
              \/ /\ ~stop[d] /\ Len(dec'[d].pend) = Len(dec[d].pend) - 1
                 /\ \E s \in Surfaces : sink' = [sink EXCEPT ![d] = Frame(d, sink[d], s, Output(d) + 1)]
<1>1. /\ DOMAIN sink = Sinks /\ dec \in [Sinks -> DecType] /\ dec[d] \in DecType
      /\ DecData(d, dec[d], surf, sink[d].n) /\ dec[d].pend \in Seq(Surfaces)
  BY DataFacts, OrderFacts DEF DataInv
<1>2. /\ sink[d].pc = "lastFrame"
      /\ buf' = buf /\ src' = src /\ stop' = stop /\ used' = used /\ lau' = lau /\ sts' = sts
  BY DEF DecodeLastFrame
<1>3. \A c \in Sinks \ {d} : dec'[c] = dec[c]
  BY <1>1 DEF DecodeLastFrame
<1>4. CASE dec[d].pend # << >> /\ ~stop[d]
  <2> DEFINE l == dec[d].pend
             s == Head(l)
  <2>1. dec' = [dec EXCEPT ![d].pend = Tail(l)]
        /\ sink' = [sink EXCEPT ![d] = Frame(d, sink[d], s, surf[s].frame)]
    BY <1>1, <1>4 DEF DecodeLastFrame
  <2>2. s = l[1] /\ s \in Surfaces /\ Len(Tail(l)) = Len(l) - 1 /\ Len(l) \in Nat \ {0}
    BY <1>1, <1>4, TailLemma
  <2>3. dec'[d].pend = Tail(l)
    BY <1>1, <2>1 DEF DecType
  <2>4. surf[s].frame = sink[d].n - Len(l) + 1
    BY <1>1, <2>2 DEF DecData
  <2>5. Output(d) = sink[d].n - Len(l)
    BY DEF Output
  <2> QED BY <1>2, <1>3, <1>4, <2>1, <2>2, <2>3, <2>4, <2>5
<1>5. CASE ~(dec[d].pend # << >> /\ ~stop[d])
  BY <1>1, <1>2, <1>3, <1>5 DEF DecodeLastFrame
<1> QED BY <1>4, <1>5

LEMMA LastFramesOrder ==
    ASSUME OrderInv, DataInv, NEW d \in Sinks, DecodeLastFrame(d)
    PROVE  OrderInv'
<1> DEFINE n == sink[d].n
           p == Len(dec[d].pend)
<1>1. DOMAIN sink[d] = SinkFields /\ DOMAIN sink = Sinks /\ n \in Int /\ p \in Nat
      /\ Output(d) = n - p
  BY DataFacts, OrderFacts DEF Output
<1>2. /\ d \notin Overlay /\ ~Adding(sink[d]) /\ sink[d].pc # "done"
      /\ \A c \in Sinks \ {d} : dec'[c] = dec[c]
      /\ buf' = buf /\ src' = src /\ stop' = stop /\ used' = used /\ lau' = lau
  BY NotOverlay, LastFields DEF DecodeLastFrame, Adding
<1>3. CASE \E r : dec' = dec /\ sink' = [sink EXCEPT ![d] = Marks(d, "done", r)]
  <2>1. PICK r : dec' = dec /\ sink' = [sink EXCEPT ![d] = Marks(d, "done", r)]
    BY <1>3
  <2> DEFINE K == Marks(d, "done", r)
  <2>2. ~Real(K.x) /\ K.todo = Out(d) /\ K.n = n /\ K.after = "done"
    BY MarksFields
  <2> HIDE DEF K
  <2>3. Output(d)' = Output(d)
    BY <1>1, <2>1, <2>2 DEF Output, K
  <2> QED BY <1>2, <2>1, <2>2, <2>3, SinkRecordOrder DEF K
<1>4. CASE /\ ~stop[d] /\ Len(dec'[d].pend) = Len(dec[d].pend) - 1
           /\ \E s \in Surfaces : sink' = [sink EXCEPT ![d] = Frame(d, sink[d], s, Output(d) + 1)]
  <2>1. PICK s \in Surfaces : sink' = [sink EXCEPT ![d] = Frame(d, sink[d], s, Output(d) + 1)]
    BY <1>4
  <2> DEFINE K == Frame(d, sink[d], s, Output(d) + 1)
  <2>2. /\ K.pc = "add" /\ Real(K.x) /\ K.x.frame = Output(d) + 1 /\ K.todo = Out(d)
        /\ K.after = "count" /\ K.n = n
    BY <1>1, FrameFields
  <2> HIDE DEF K
  <2>3. Output(d)' = n - (p - 1)
    BY <1>1, <1>4, <2>1, <2>2 DEF Output, K
  <2>4. Output(d)' = Output(d) + 1
    BY <1>1, <2>3
  <2> QED BY <1>2, <1>4, <2>1, <2>2, <2>4, FrameComes DEF K
<1> QED BY <1>3, <1>4, LastFields

\* What the record L of a thread is after it has added to, or signalled, the
\* next buffer, with the record K before.
NextBuffer(d, K, L) ==
    /\ Tail(K.todo) # << >> /\ L.pc = "add" /\ L.todo = Tail(K.todo)
    /\ L.x = K.x /\ L.after = K.after /\ L.res = K.res

AllFilled(d, K, L) ==
    /\ Tail(K.todo) = << >>
    /\ IF K.after = "leave"
       THEN L.pc = "add" /\ L.todo = Out(d) /\ ~Real(L.x) /\ L.after = "done" /\ L.res = K.res
       ELSE L.pc = K.after /\ L.todo = << >>

SameCounts(K, L) ==
    /\ DOMAIN L = SinkFields /\ L.n = K.n /\ L.num = K.num /\ L.pos = K.pos
    /\ L.eof = K.eof /\ L.last = K.last /\ L.timeout = K.timeout

LEMMA AddedAllFields ==
    ASSUME DataInv, NEW d \in Sinks, AddedAll(d), Tail(sink[d].todo) = << >>
    PROVE  \E L : sink' = [sink EXCEPT ![d] = L] /\ AllFilled(d, sink[d], L) /\ SameCounts(sink[d], L)
<1> DEFINE J == sink[d]
<1>1. DOMAIN J = SinkFields /\ DOMAIN sink = Sinks
  BY DataFacts
<1>2. CASE J.after = "leave"
  <2> DEFINE L == Marks(d, "done", J.res)
  <2>1. sink' = [sink EXCEPT ![d] = L]
    BY <1>1, <1>2 DEF AddedAll
  <2>2. AllFilled(d, J, L) /\ SameCounts(J, L)
    BY <1>1, <1>2, MarksFields DEF AllFilled, SameCounts
  <2> QED BY <2>1, <2>2
<1>3. CASE J.after # "leave"
  <2> DEFINE L == [J EXCEPT !.todo = << >>, !.pc = J.after]
  <2>1. sink' = [sink EXCEPT ![d] = L]
    BY <1>1, <1>3 DEF AddedAll
  <2>2. AllFilled(d, J, L) /\ SameCounts(J, L)
    BY <1>1, <1>3 DEF AllFilled, SameCounts, SinkFields
  <2> QED BY <2>1, <2>2
<1> QED BY <1>2, <1>3

\* AddStep: the frame is on the buffer and its event is signalled next, or the
\* buffer does not take it.
LEMMA AddFields ==
    ASSUME DataInv, NEW d \in Sinks, AddStep(d)
    PROVE  \E b, L :
             /\ b \in Buffers
             /\ b = sink[d].todo[1] /\ sink[d].pc = "add" /\ sink[d].todo \in Seq(Buffers)
             /\ sink[d].todo # << >> /\ sink[d].x \in Items
             /\ buf' = [buf EXCEPT ![b] = AddSurface(@, sink[d].x)]
             /\ sink' = [sink EXCEPT ![d] = L] /\ SameCounts(sink[d], L)
             /\ IF buf[b].allowed
                THEN /\ L.pc = "signal" /\ L.todo = sink[d].todo /\ L.x = sink[d].x
                     /\ L.after = sink[d].after /\ L.res = sink[d].res /\ sts' = sts
                ELSE \/ NextBuffer(d, sink[d], L) /\ sts' = sts
                     \/ /\ AllFilled(d, sink[d], L)
                        /\ sts' = [sts EXCEPT ![d] = IF sink[d].after = "done" THEN sink[d].res ELSE @]
             /\ src' = src /\ dec' = dec /\ stop' = stop /\ used' = used /\ lau' = lau
<1> DEFINE J == sink[d]
           b == Head(J.todo)
<1>1. DOMAIN J = SinkFields /\ DOMAIN sink = Sinks /\ SinkData(d, J, surf)
  BY DataFacts DEF DataInv
<1>2. J.pc = "add" /\ J.todo \in Seq(Buffers) /\ J.todo # << >> /\ J.x \in Items
  BY <1>1 DEF AddStep, SinkData, Adding
<1>3. b = J.todo[1] /\ b \in Buffers
  BY <1>2, TailLemma
<1>4. /\ buf' = [buf EXCEPT ![b] = AddSurface(@, J.x)]
      /\ src' = src /\ dec' = dec /\ stop' = stop /\ used' = used /\ lau' = lau
      /\ IF buf[b].allowed
         THEN sink' = [sink EXCEPT ![d].pc = "signal"] /\ sts' = sts
         ELSE IF Tail(J.todo) # << >>
         THEN sink' = [sink EXCEPT ![d].todo = Tail(@)] /\ sts' = sts
         ELSE AddedAll(d)
  BY DEF AddStep
<1> HIDE DEF b
<1>5. CASE buf[b].allowed
  <2> DEFINE L == [J EXCEPT !.pc = "signal"]
  <2>1. sink' = [sink EXCEPT ![d] = L] /\ sts' = sts
    BY <1>1, <1>4, <1>5
  <2>2. /\ L.pc = "signal" /\ L.todo = J.todo /\ L.x = J.x /\ L.after = J.after /\ L.res = J.res
        /\ SameCounts(J, L)
    BY <1>1 DEF SinkFields, SameCounts
  <2> HIDE DEF L, J
  <2> QED BY <1>2, <1>3, <1>4, <1>5, <2>1, <2>2 DEF J
<1>6. CASE ~buf[b].allowed /\ Tail(J.todo) # << >>
  <2> DEFINE L == [J EXCEPT !.todo = Tail(@)]
  <2>1. sink' = [sink EXCEPT ![d] = L] /\ sts' = sts
    BY <1>1, <1>4, <1>6
  <2>2. NextBuffer(d, J, L) /\ SameCounts(J, L)
    BY <1>1, <1>2, <1>6 DEF SinkFields, SameCounts, NextBuffer
  <2> HIDE DEF L, J
  <2> QED BY <1>2, <1>3, <1>4, <1>6, <2>1, <2>2 DEF J
<1>7. CASE ~buf[b].allowed /\ Tail(J.todo) = << >>
  <2>1. AddedAll(d)
    BY <1>4, <1>7
  <2>2. PICK L : sink' = [sink EXCEPT ![d] = L] /\ AllFilled(d, J, L) /\ SameCounts(J, L)
    BY <1>7, <2>1, AddedAllFields
  <2>3. sts' = [sts EXCEPT ![d] = IF J.after = "done" THEN J.res ELSE @]
    BY <2>1 DEF AddedAll
  <2> HIDE DEF J
  <2> QED BY <1>2, <1>3, <1>4, <1>7, <2>2, <2>3 DEF J
<1> QED BY <1>5, <1>6, <1>7

LEMMA SignalFields ==
    ASSUME DataInv, NEW d \in Sinks, SignalStep(d)
    PROVE  \E b, L :
             /\ b \in Buffers
             /\ b = sink[d].todo[1] /\ sink[d].pc = "signal" /\ sink[d].todo \in Seq(Buffers)
             /\ sink[d].todo # << >>
             /\ buf' = [buf EXCEPT ![b] = Signal(@)]
             /\ sink' = [sink EXCEPT ![d] = L] /\ SameCounts(sink[d], L)
             /\ \/ NextBuffer(d, sink[d], L) /\ sts' = sts
                \/ /\ AllFilled(d, sink[d], L)
                   /\ sts' = [sts EXCEPT ![d] = IF sink[d].after = "done" THEN sink[d].res ELSE @]
             /\ src' = src /\ dec' = dec /\ stop' = stop /\ used' = used /\ lau' = lau
<1> DEFINE J == sink[d]
           b == Head(J.todo)
<1>1. DOMAIN J = SinkFields /\ DOMAIN sink = Sinks /\ SinkData(d, J, surf)
  BY DataFacts DEF DataInv
<1>2. J.pc = "signal" /\ J.todo \in Seq(Buffers) /\ J.todo # << >>
  BY <1>1 DEF SignalStep, SinkData, Adding
<1>3. b = J.todo[1] /\ b \in Buffers
  BY <1>2, TailLemma
<1>4. /\ buf' = [buf EXCEPT ![b] = Signal(@)]
      /\ src' = src /\ dec' = dec /\ stop' = stop /\ used' = used /\ lau' = lau
      /\ IF Tail(J.todo) # << >>
         THEN sink' = [sink EXCEPT ![d].todo = Tail(@), ![d].pc = "add"] /\ sts' = sts
         ELSE AddedAll(d)
  BY DEF SignalStep
<1> HIDE DEF b
<1>5. CASE Tail(J.todo) # << >>
  <2> DEFINE L == [J EXCEPT !.todo = Tail(@), !.pc = "add"]
  <2>1. sink' = [sink EXCEPT ![d] = L] /\ sts' = sts
    BY <1>1, <1>4, <1>5
  <2>2. NextBuffer(d, J, L) /\ SameCounts(J, L)
    BY <1>1, <1>2, <1>5 DEF SinkFields, SameCounts, NextBuffer
  <2> HIDE DEF L, J
  <2> QED BY <1>2, <1>3, <1>4, <2>1, <2>2 DEF J
<1>6. CASE Tail(J.todo) = << >>
  <2>1. AddedAll(d)
    BY <1>4, <1>6
  <2>2. PICK L : sink' = [sink EXCEPT ![d] = L] /\ AllFilled(d, J, L) /\ SameCounts(J, L)
    BY <1>6, <2>1, AddedAllFields
  <2>3. sts' = [sts EXCEPT ![d] = IF J.after = "done" THEN J.res ELSE @]
    BY <2>1 DEF AddedAll
  <2> HIDE DEF J
  <2> QED BY <1>2, <1>3, <1>4, <2>2, <2>3 DEF J
<1> QED BY <1>5, <1>6

LEMMA TailsDistinct ==
    ASSUME NEW T, NEW l \in Seq(T), l # << >>, Distinct(l)
    PROVE  /\ Distinct(Tail(l))
           /\ \A i \in 1 .. Len(Tail(l)) : \E j \in 2 .. Len(l) : Tail(l)[i] = l[j]
           /\ \A j \in 2 .. Len(l) : \E i \in 1 .. Len(Tail(l)) : Tail(l)[i] = l[j]
           /\ \A j \in 2 .. Len(l) : l[j] # l[1]
<1>1. /\ Len(Tail(l)) = Len(l) - 1 /\ Len(l) \in Nat \ {0}
      /\ \A i \in 1 .. Len(l) - 1 : Tail(l)[i] = l[i + 1]
  BY TailLemma
<1> DEFINE t == Tail(l)
           n == Len(l)
<1> HIDE DEF t, n
<1>2. n \in Nat \ {0} /\ Len(t) = n - 1 /\ \A i \in 1 .. n - 1 : t[i] = l[i + 1]
  BY <1>1 DEF t, n
<1>3. \A i, j \in 1 .. n : l[i] = l[j] => i = j
  BY DEF Distinct, n
<1>4. Distinct(t)
  <2> SUFFICES ASSUME NEW i \in 1 .. Len(t), NEW j \in 1 .. Len(t), t[i] = t[j] PROVE i = j
    BY DEF Distinct
  <2>1. i \in 1 .. n - 1 /\ j \in 1 .. n - 1 /\ i + 1 \in 1 .. n /\ j + 1 \in 1 .. n
    BY <1>2
  <2>2. l[i + 1] = l[j + 1]
    BY <1>2, <2>1
  <2>3. i + 1 = j + 1
    BY <1>3, <2>1, <2>2
  <2> QED BY <2>1, <2>3
<1>5. ASSUME NEW i \in 1 .. Len(t) PROVE \E j \in 2 .. n : t[i] = l[j]
  <2>1. i \in 1 .. n - 1 /\ i + 1 \in 2 .. n
    BY <1>2
  <2> QED BY <1>2, <2>1
<1>6. ASSUME NEW j \in 2 .. n PROVE (\E i \in 1 .. Len(t) : t[i] = l[j]) /\ l[j] # l[1]
  <2>1. j - 1 \in 1 .. n - 1 /\ (j - 1) + 1 = j /\ j \in 1 .. n /\ 1 \in 1 .. n /\ j # 1
    BY <1>2
  <2>2. t[j - 1] = l[j] /\ j - 1 \in 1 .. Len(t)
    BY <1>2, <2>1
  <2> QED BY <1>3, <2>1, <2>2
<1> QED BY <1>4, <1>5, <1>6 DEF t, n

\* What is in the hands of the thread after it was added to, or refused by, the
\* next buffer, and whether the thread gives more.
LEMMA MovesOn ==
    ASSUME NEW d \in Sinks, NEW K, NEW L, K.todo \in Seq(Buffers), K.todo # << >>, Adding(K),
           NEW o, NEW st, SinkOrder(d, K, o, st),
           K.after \in {"start", "loop", "count", "leave", "done"},
           NextBuffer(d, K, L) \/ AllFilled(d, K, L)
    PROVE  /\ SinkOrder(d, L, o, st)
           /\ Marked(K, st) => Marked(L, st)
           /\ \A b : K.pc = "signal" \/ b # K.todo[1] => Coming(L, b) = Coming(K, b)
           /\ Coming(L, K.todo[1]) = 0
<1>1. /\ Distinct(K.todo)
      /\ \A i \in 1 .. Len(K.todo) : \E j \in 1 .. Len(Out(d)) : K.todo[i] = Out(d)[j]
      /\ d \notin Overlay => IF Real(K.x) THEN K.after = "count" /\ K.x.frame = o
                             ELSE K.after = "done" \/ st
  BY DEF SinkOrder
<1>2. /\ Distinct(Tail(K.todo)) /\ Len(K.todo) \in Nat \ {0} /\ Len(Tail(K.todo)) = Len(K.todo) - 1
      /\ \A i \in 1 .. Len(Tail(K.todo)) : \E j \in 2 .. Len(K.todo) : Tail(K.todo)[i] = K.todo[j]
      /\ \A j \in 2 .. Len(K.todo) : \E i \in 1 .. Len(Tail(K.todo)) : Tail(K.todo)[i] = K.todo[j]
      /\ \A j \in 2 .. Len(K.todo) : K.todo[j] # K.todo[1]
  BY <1>1, TailsDistinct, TailLemma
<1>3. CASE NextBuffer(d, K, L)
  <2>1. L.pc = "add" /\ L.todo = Tail(K.todo) /\ L.x = K.x /\ L.after = K.after
    BY <1>3 DEF NextBuffer
  <2>2. SinkOrder(d, L, o, st)
    <3>1. \A j \in 2 .. Len(K.todo) : j \in 1 .. Len(K.todo)
      BY <1>2
    <3> QED BY <1>1, <1>2, <2>1, <3>1 DEF SinkOrder
  <2>3. Marked(K, st) => Marked(L, st)
    BY <2>1 DEF Marked, Adding
  <2>6. /\ \A i \in 1 .. Len(L.todo) : \E j \in 2 .. Len(K.todo) : L.todo[i] = K.todo[j]
        /\ \A j \in 2 .. Len(K.todo) : \E i \in 1 .. Len(L.todo) : L.todo[i] = K.todo[j]
    <3> DEFINE t == Tail(K.todo)
    <3>1. /\ L.todo = t
          /\ \A i \in 1 .. Len(t) : \E j \in 2 .. Len(K.todo) : t[i] = K.todo[j]
          /\ \A j \in 2 .. Len(K.todo) : \E i \in 1 .. Len(t) : t[i] = K.todo[j]
      BY <1>2, <2>1
    <3> HIDE DEF t
    <3> QED BY <3>1
  <2>4. ASSUME NEW b, K.pc = "signal" \/ b # K.todo[1] PROVE Coming(L, b) = Coming(K, b)
    <3> DEFINE k == IF K.pc = "add" THEN 1 ELSE 2
    <3>1. (\E i \in k .. Len(K.todo) : K.todo[i] = b) <=> (\E j \in 2 .. Len(K.todo) : K.todo[j] = b)
      <4>1. CASE K.pc = "add"
        <5>1. k = 1 /\ b # K.todo[1]
          BY <2>4, <4>1
        <5>2. \A i \in 1 .. Len(K.todo) : i = 1 \/ i \in 2 .. Len(K.todo)
          BY <1>2
        <5>3. \A i \in 2 .. Len(K.todo) : i \in 1 .. Len(K.todo)
          BY <1>2
        <5> QED BY <5>1, <5>2, <5>3
      <4>2. CASE K.pc # "add"
        BY <4>2
      <4> QED BY <4>1, <4>2
    <3>2. (\E i \in 1 .. Len(L.todo) : L.todo[i] = b) <=> (\E j \in 2 .. Len(K.todo) : K.todo[j] = b)
      BY <2>6
    <3> QED BY <2>1, <3>1, <3>2 DEF Coming, Adding
  <2>5. Coming(L, K.todo[1]) = 0
    <3>1. ASSUME NEW i \in 1 .. Len(L.todo), L.todo[i] = K.todo[1] PROVE FALSE
      <4>1. \E j \in 2 .. Len(K.todo) : L.todo[i] = K.todo[j]
        BY <2>6
      <4> QED BY <1>2, <3>1, <4>1
    <3> QED BY <2>1, <3>1 DEF Coming
  <2> QED BY <2>2, <2>3, <2>4, <2>5
<1>4. CASE AllFilled(d, K, L)
  <2>1. Len(K.todo) = 1
    <3> DEFINE t == Tail(K.todo)
    <3>1. t = << >> /\ Len(t) = Len(K.todo) - 1
      BY <1>2, <1>4 DEF AllFilled
    <3> HIDE DEF t
    <3>2. Len(t) = 0
      BY <3>1
    <3> QED BY <1>2, <3>1, <3>2
  <2>2. ASSUME NEW b PROVE /\ Coming(L, b) = 0
                           /\ K.pc = "signal" \/ b # K.todo[1] => Coming(K, b) = 0
    <3>1. ~(Adding(L) /\ Real(L.x))
      BY <1>4 DEF AllFilled, Adding
    <3>2. ASSUME K.pc = "signal" \/ b # K.todo[1] PROVE Coming(K, b) = 0
      <4>1. ~\E i \in (IF K.pc = "add" THEN 1 ELSE 2) .. Len(K.todo) : K.todo[i] = b
        <5>1. CASE K.pc = "add"
          <6>1. b # K.todo[1] /\ 1 .. Len(K.todo) = {1}
            BY <2>1, <3>2, <5>1
          <6> QED BY <5>1, <6>1
        <5>2. CASE K.pc # "add"
          <6>1. 2 .. Len(K.todo) = {}
            BY <2>1
          <6> QED BY <5>2, <6>1
        <5> QED BY <5>1, <5>2
      <4> QED BY <4>1 DEF Coming
    <3> QED BY <3>1, <3>2, ComingLemma
  <2>3. SinkOrder(d, L, o, st)
    <3>1. Distinct(Out(d)) /\ Distinct(<< >>)
      BY PathFacts, EmptyLists
    <3> QED BY <1>4, <3>1 DEF AllFilled, SinkOrder, Adding
  <2>4. Marked(K, st) => Marked(L, st)
    BY <1>1, <1>4 DEF AllFilled, Marked, Adding
  <2> QED BY <2>2, <2>3, <2>4
<1> QED BY <1>3, <1>4

LEMMA SignalsNext ==
    ASSUME NEW d \in Sinks, NEW K, NEW L, K.todo \in Seq(Buffers), K.todo # << >>, K.pc = "add",
           NEW o, NEW st, SinkOrder(d, K, o, st),
           L.pc = "signal", L.todo = K.todo, L.x = K.x, L.after = K.after
    PROVE  /\ SinkOrder(d, L, o, st)
           /\ Marked(K, st) => Marked(L, st)
           /\ \A b : b # K.todo[1] => Coming(L, b) = Coming(K, b)
           /\ Coming(L, K.todo[1]) = 0
           /\ Coming(K, K.todo[1]) = IF Real(K.x) THEN 1 ELSE 0
<1>1. Distinct(K.todo) /\ Len(K.todo) \in Nat \ {0}
  BY TailLemma DEF SinkOrder
<1>2. /\ \A j \in 2 .. Len(K.todo) : K.todo[j] # K.todo[1]
      /\ \A i \in 1 .. Len(K.todo) : i = 1 \/ i \in 2 .. Len(K.todo)
      /\ \A i \in 2 .. Len(K.todo) : i \in 1 .. Len(K.todo)
      /\ 1 \in 1 .. Len(K.todo)
  BY <1>1, TailsDistinct
<1>3. SinkOrder(d, L, o, st) /\ (Marked(K, st) => Marked(L, st))
  BY DEF SinkOrder, Adding, Marked
<1>4. ASSUME NEW b, b # K.todo[1] PROVE Coming(L, b) = Coming(K, b)
  <2>1. (\E i \in 1 .. Len(K.todo) : K.todo[i] = b) <=> (\E i \in 2 .. Len(K.todo) : K.todo[i] = b)
    BY <1>2, <1>4
  <2> QED BY <2>1 DEF Coming, Adding
<1>5. Coming(L, K.todo[1]) = 0
  BY <1>2 DEF Coming
<1>6. Coming(K, K.todo[1]) = IF Real(K.x) THEN 1 ELSE 0
  BY <1>2 DEF Coming, Adding
<1> QED BY <1>3, <1>4, <1>5, <1>6

LEMMA AllRealAppend ==
    ASSUME NEW l \in Seq(Items), NEW x \in Items
    PROVE  AllReal(Append(l, x), Len(Append(l, x))) <=> AllReal(l, Len(l)) /\ Real(x)
<1> DEFINE m == Append(l, x)
<1>1. /\ Len(m) = Len(l) + 1 /\ Len(l) \in Nat
      /\ \A i \in 1 .. Len(l) : m[i] = l[i]
      /\ m[Len(l) + 1] = x
  BY AppendLemma
<1> HIDE DEF m
<1>2. /\ \A i \in 1 .. Len(l) : i \in 1 .. Len(m)
      /\ Len(l) + 1 \in 1 .. Len(m)
      /\ \A i \in 1 .. Len(m) : i \in 1 .. Len(l) \/ i = Len(l) + 1
  BY <1>1
<1> QED BY <1>1, <1>2 DEF AllReal, m

\* The thread adds what it has to the buffer b, which takes it.
LEMMA AddedOrder ==
    ASSUME NEW b, NEW B \in BufType, NEW B2, NEW u, NEW K, NEW L, NEW o \in Int, NEW st, NEW J, NEW first,
           BufferOrder(b, B, u, K, o, st, J, first),
           K.x \in Items, Adding(K), B2.list = Append(B.list, K.x), B2.allowed = B.allowed,
           Adding(L), L.x = K.x, L.after = K.after,
           IF Real(K.x) THEN K.x.frame = o ELSE K.after = "done" \/ st,
           Coming(L, b) = 0, Coming(K, b) = IF Real(K.x) THEN 1 ELSE 0
    PROVE  BufferOrder(b, B2, u, L, o, st, J, first)
<1> DEFINE l == B.list
           m == Append(l, K.x)
<1>1. l \in Seq(Items) /\ u \in Seq(Int)
  BY DEF BufType, BufferOrder, Delivered
<1>2. AllReal(m, Len(m)) <=> AllReal(l, Len(l)) /\ Real(K.x)
  BY <1>1, AllRealAppend
<1> HIDE DEF l
<1>3. Marked(K, st) <=> Marked(L, st)
  BY DEF Marked
<1>4. CASE Real(K.x)
  <2>1. ~Marked(K, st) /\ AllReal(l, Len(l))
    BY <1>4 DEF Marked, BufferOrder, l
  <2>2. ASSUME Open(J)
        PROVE  Numbered(m, u, o - Coming(L, b), Taken(Reader(b), J, b), first)
    <3>1. Numbered(l, u, o - 1, Taken(Reader(b), J, b), first)
      BY <1>4, <2>2 DEF BufferOrder, l
    <3>2. o - 1 \in Int /\ K.x.frame = (o - 1) + 1 /\ (o - 1) + 1 = o /\ o - 0 = o
      BY <1>4
    <3> HIDE DEF m
    <3> DEFINE g == o - 1
               t == Taken(Reader(b), J, b)
    <3> HIDE DEF g, t
    <3>3. g \in Int /\ K.x.frame = g + 1 /\ Numbered(l, u, g, t, first)
      BY <3>1, <3>2 DEF g, t
    <3>4. Numbered(m, u, g + 1, t, first)
      BY <1>1, <1>4, <2>1, <3>3, NumberedAddReal DEF m
    <3> QED BY <3>2, <3>4 DEF g, t
  <2> QED BY <1>2, <1>3, <1>4, <2>1, <2>2 DEF BufferOrder, l
<1>5. CASE ~Real(K.x)
  <2>1. Marked(L, st)
    BY <1>5 DEF Marked
  <2>2. ASSUME Open(J)
        PROVE  Numbered(m, u, o - Coming(L, b), Taken(Reader(b), J, b), first)
    <3>1. Numbered(l, u, o - 0, Taken(Reader(b), J, b), first)
      BY <1>5, <2>2 DEF BufferOrder, l
    <3>2. o - 0 \in Int
      OBVIOUS
    <3> HIDE DEF m
    <3> DEFINE g == o - 0
               t == Taken(Reader(b), J, b)
    <3> HIDE DEF g, t
    <3>3. g \in Int /\ Numbered(l, u, g, t, first)
      BY <3>1, <3>2 DEF g, t
    <3>4. Numbered(m, u, g, t, first)
      BY <1>1, <1>5, <3>3, NumberedAddMark DEF m
    <3> QED BY <3>4 DEF g, t
  <2> QED BY <1>2, <1>3, <1>5, <2>1, <2>2 DEF BufferOrder, l
<1> QED BY <1>4, <1>5

\* Everything that the thread still has to add goes to its own buffers.
LEMMA OwnBuffers ==
    ASSUME OrderInv, NEW d \in Sinks, NEW i \in 1 .. Len(sink[d].todo), sink[d].todo[i] \in Buffers
    PROVE  Feeder(sink[d].todo[i]) = d
<1>1. \E j \in 1 .. Len(Out(d)) : sink[d].todo[i] = Out(d)[j]
  BY DEF OrderInv, SinkOrder
<1> QED BY <1>1, BufferFacts

LEMMA AddsOrder ==
    ASSUME OrderInv, DataInv, NEW d \in Sinks, AddStep(d)
    PROVE  OrderInv'
<1> DEFINE K == sink[d]
           o == Output(d)
           st == stop[d]
<1>1. /\ DOMAIN sink = Sinks /\ SinkData(d, K, surf) /\ buf \in [Buffers -> BufType] /\ o \in Int
      /\ K.after \in {"start", "loop", "count", "leave", "done"}
  BY DataFacts, OrderFacts DEF DataInv, ThreadInv, SinkOK
<1>2. PICK b, L :
             /\ b \in Buffers
             /\ b = sink[d].todo[1] /\ sink[d].pc = "add" /\ sink[d].todo \in Seq(Buffers)
             /\ sink[d].todo # << >> /\ sink[d].x \in Items
             /\ buf' = [buf EXCEPT ![b] = AddSurface(@, sink[d].x)]
             /\ sink' = [sink EXCEPT ![d] = L] /\ SameCounts(sink[d], L)
             /\ IF buf[b].allowed
                THEN /\ L.pc = "signal" /\ L.todo = sink[d].todo /\ L.x = sink[d].x
                     /\ L.after = sink[d].after /\ L.res = sink[d].res /\ sts' = sts
                ELSE \/ NextBuffer(d, sink[d], L) /\ sts' = sts
                     \/ /\ AllFilled(d, sink[d], L)
                        /\ sts' = [sts EXCEPT ![d] = IF sink[d].after = "done" THEN sink[d].res ELSE @]
             /\ src' = src /\ dec' = dec /\ stop' = stop /\ used' = used /\ lau' = lau
  BY AddFields
<1>3. sink'[d] = L /\ \A c \in Sinks \ {d} : sink'[c] = sink[c] /\ dec'[c] = dec[c]
  BY <1>1, <1>2
<1>4. Output(d)' = o
  BY <1>2, <1>3 DEF Output, SameCounts
<1> HIDE DEF K, o, st
<1>5. SinkOrder(d, K, o, st) /\ Adding(K)
  BY <1>2 DEF OrderInv, K, o, st, Adding
<1>6. /\ SinkOrder(d, L, o, st) /\ (Marked(K, st) => Marked(L, st))
      /\ \A c : c # b => Coming(L, c) = Coming(K, c)
      /\ Coming(L, b) = 0
  <2>1. CASE buf[b].allowed
    <3>1. /\ L.pc = "signal" /\ L.todo = K.todo /\ L.x = K.x /\ L.after = K.after
          /\ K.todo \in Seq(Buffers) /\ K.todo # << >> /\ K.pc = "add" /\ b = K.todo[1]
      BY <1>2, <2>1 DEF K
    <3> QED BY <1>5, <3>1, SignalsNext
  <2>2. CASE ~buf[b].allowed
    BY <1>1, <1>2, <1>5, <2>2, MovesOn DEF K
  <2> QED BY <2>1, <2>2
<1>7. /\ Feeder(b) = d /\ \A c \in Buffers \ {b} : buf'[c] = buf[c]
      /\ buf'[b].list = (IF buf[b].allowed THEN Append(buf[b].list, K.x) ELSE buf[b].list)
      /\ buf'[b].allowed = buf[b].allowed
  <2>1. 1 \in 1 .. Len(sink[d].todo)
    BY <1>2
  <2>2. Feeder(b) = d
    BY <1>2, <2>1, OwnBuffers
  <2>3. buf'[b] = AddSurface(buf[b], K.x) /\ \A c \in Buffers \ {b} : buf'[c] = buf[c]
    BY <1>1, <1>2 DEF K
  <2> QED BY <1>1, <1>2, <2>2, <2>3, AddLemma DEF K
<1>8. ASSUME NEW c \in Buffers, Feeder(c) = d
      PROVE  /\ OwnSurfaces(c, buf'[c].list)
             /\ c \notin Overlay =>
                  BufferOrder(c, buf'[c], used[c], L, o, st, src[Reader(c)], lau.round = 0)
  <2>1. OwnSurfaces(c, buf[c].list)
    BY DEF OrderInv
  <2>2. c \notin Overlay => BufferOrder(c, buf[c], used[c], K, o, st, src[Reader(c)], lau.round = 0)
    BY <1>8 DEF OrderInv, Ordered, K, o, st
  <2>3. CASE c # b
    <3>1. buf'[c] = buf[c] /\ Coming(L, c) = Coming(K, c)
      BY <1>6, <1>7, <2>3
    <3> QED BY <1>6, <2>1, <2>2, <3>1, BufferStays
  <2>4. CASE c = b /\ ~buf[b].allowed
    <3>1. buf'[c].list = buf[c].list /\ buf'[c].allowed = buf[c].allowed /\ ~buf[c].allowed
      BY <1>7, <2>4
    <3>2. OwnSurfaces(c, buf'[c].list)
      BY <2>1, <3>1
    <3>3. ASSUME c \notin Overlay
          PROVE  BufferOrder(c, buf'[c], used[c], L, o, st, src[Reader(c)], lau.round = 0)
      BY <1>6, <2>2, <3>1, <3>3 DEF BufferOrder
    <3> QED BY <3>2, <3>3
  <2>5. CASE c = b /\ buf[b].allowed
    <3>1. buf'[c].list = Append(buf[c].list, K.x) /\ buf'[c].allowed = buf[c].allowed
      BY <1>7, <2>5
    <3>2. OwnSurfaces(c, buf'[c].list)
      <4> SUFFICES ASSUME Comp, NEW i \in 1 .. Len(buf'[c].list), Real(buf'[c].list[i])
                   PROVE  buf'[c].list[i].surf \in Pool[c]
        BY DEF OwnSurfaces
      <4>1. buf[c].list \in Seq(Items) /\ K.x \in Items
        BY <1>2, OrderFacts DEF K
      <4>2. d = c
        BY <1>8, BufferFacts
      <4>3. Real(K.x) => K.x.surf \in Pool[c]
        BY <1>1, <1>5, <4>2 DEF SinkData, Real, K
      <4>4. /\ Len(buf'[c].list) = Len(buf[c].list) + 1 /\ Len(buf[c].list) \in Nat
            /\ \A j \in 1 .. Len(buf[c].list) : buf'[c].list[j] = buf[c].list[j]
            /\ buf'[c].list[Len(buf[c].list) + 1] = K.x
        BY <3>1, <4>1, AppendLemma
      <4>5. CASE i = Len(buf[c].list) + 1
        BY <4>3, <4>4, <4>5
      <4>6. CASE i # Len(buf[c].list) + 1
        <5>1. i \in 1 .. Len(buf[c].list)
          BY <4>4, <4>6
        <5> QED BY <2>1, <4>4, <5>1 DEF OwnSurfaces
      <4> QED BY <4>5, <4>6
    <3>3. ASSUME c \notin Overlay
          PROVE  BufferOrder(c, buf'[c], used[c], L, o, st, src[Reader(c)], lau.round = 0)
      <4>1. Adding(L) /\ L.x = K.x /\ L.after = K.after /\ K.x \in Items
        BY <1>2, <2>5 DEF Adding, K
      <4>2. d \notin Overlay
        BY <1>8, <3>3, OverlayFeeds
      <4>3. IF Real(K.x) THEN K.x.frame = o ELSE K.after = "done" \/ st
        BY <1>5, <4>2 DEF SinkOrder
      <4>4. Coming(L, c) = 0 /\ Coming(K, c) = IF Real(K.x) THEN 1 ELSE 0
        BY <1>2, <1>5, <1>6, <2>5, SignalsNext DEF K
      <4>5. buf[c] \in BufType
        BY <1>1
      <4> QED BY <1>1, <1>5, <2>2, <3>1, <3>3, <4>1, <4>3, <4>4, <4>5, AddedOrder
    <3> QED BY <3>2, <3>3
  <2> QED BY <2>3, <2>4, <2>5
<1>9. \A c \in Buffers : Feeder(c) # d => buf'[c] = buf[c]
  BY <1>7
<1> QED BY <1>2, <1>3, <1>4, <1>6, <1>8, <1>9, SinkOrderStep DEF st

LEMMA SignalsOrder ==
    ASSUME OrderInv, DataInv, NEW d \in Sinks, SignalStep(d)
    PROVE  OrderInv'
<1> DEFINE K == sink[d]
           o == Output(d)
           st == stop[d]
<1>1. /\ DOMAIN sink = Sinks /\ buf \in [Buffers -> BufType]
      /\ K.after \in {"start", "loop", "count", "leave", "done"}
  BY DataFacts DEF DataInv, ThreadInv, SinkOK
<1>2. PICK b, L :
             /\ b \in Buffers
             /\ b = sink[d].todo[1] /\ sink[d].pc = "signal" /\ sink[d].todo \in Seq(Buffers)
             /\ sink[d].todo # << >>
             /\ buf' = [buf EXCEPT ![b] = Signal(@)]
             /\ sink' = [sink EXCEPT ![d] = L] /\ SameCounts(sink[d], L)
             /\ \/ NextBuffer(d, sink[d], L) /\ sts' = sts
                \/ /\ AllFilled(d, sink[d], L)
                   /\ sts' = [sts EXCEPT ![d] = IF sink[d].after = "done" THEN sink[d].res ELSE @]
             /\ src' = src /\ dec' = dec /\ stop' = stop /\ used' = used /\ lau' = lau
  BY SignalFields
<1>3. sink'[d] = L /\ \A c \in Sinks \ {d} : sink'[c] = sink[c] /\ dec'[c] = dec[c]
  BY <1>1, <1>2
<1>4. Output(d)' = o
  BY <1>2, <1>3 DEF Output, SameCounts
<1> HIDE DEF K, o, st
<1>5. SinkOrder(d, K, o, st) /\ Adding(K)
  BY <1>2 DEF OrderInv, K, o, st, Adding
<1>6. /\ SinkOrder(d, L, o, st) /\ (Marked(K, st) => Marked(L, st))
      /\ \A c : Coming(L, c) = Coming(K, c)
  BY <1>1, <1>2, <1>5, MovesOn DEF K
<1>7. \A c \in Buffers : /\ buf'[c].list = buf[c].list /\ buf'[c].allowed = buf[c].allowed
                         /\ c # b => buf'[c] = buf[c]
  BY <1>1, <1>2, EventLemma
<1>8. Feeder(b) = d
  <2>1. 1 \in 1 .. Len(sink[d].todo)
    BY <1>2
  <2> QED BY <1>2, <2>1, OwnBuffers
<1>9. ASSUME NEW c \in Buffers, Feeder(c) = d
      PROVE  /\ OwnSurfaces(c, buf'[c].list)
             /\ c \notin Overlay =>
                  BufferOrder(c, buf'[c], used[c], L, o, st, src[Reader(c)], lau.round = 0)
  <2>1. OwnSurfaces(c, buf[c].list)
    BY DEF OrderInv
  <2>2. c \notin Overlay => BufferOrder(c, buf[c], used[c], K, o, st, src[Reader(c)], lau.round = 0)
    BY <1>9 DEF OrderInv, Ordered, K, o, st
  <2>3. buf'[c].list = buf[c].list /\ buf'[c].allowed = buf[c].allowed
    BY <1>7
  <2> QED BY <1>6, <2>1, <2>2, <2>3, BufferStays
<1>10. \A c \in Buffers : Feeder(c) # d => buf'[c] = buf[c]
  BY <1>7, <1>8
<1> QED BY <1>2, <1>3, <1>4, <1>6, <1>9, <1>10, SinkOrderStep DEF st

\* The decoder does not care about the order of what it has output.
LEMMA UnlocksOrder ==
    ASSUME OrderInv, DataInv, NEW d \in Sinks, DecoderUnlocks(d)
    PROVE  OrderInv'
<1>1. dec \in [Sinks -> DecType]
  BY DataFacts
<1>2. /\ sink' = sink /\ src' = src /\ stop' = stop /\ used' = used /\ lau' = lau /\ buf' = buf
      /\ \E s : dec' = [dec EXCEPT ![d].refs = @ \ {s}]
  BY DEF DecoderUnlocks
<1>3. dec'[d].pend = dec[d].pend /\ \A c \in Sinks \ {d} : dec'[c] = dec[c]
  BY <1>1, <1>2 DEF DecType
<1>4. Output(d)' = Output(d)
  BY <1>2, <1>3 DEF Output
<1>5. /\ SinkOrder(d, sink[d], Output(d), stop[d])
      /\ \A b \in Buffers : OwnSurfaces(b, buf[b].list)
      /\ \A b \in Buffers : Feeder(b) = d /\ b \notin Overlay =>
           BufferOrder(b, buf[b], used[b], sink[d], Output(d), stop[d], src[Reader(b)], lau.round = 0)
  BY DEF OrderInv, Ordered
<1> QED BY <1>2, <1>3, <1>4, <1>5, SinkOrderStep

-----------------------------------------------------------------------------
(***************************************************************************)
(* Encoding threads                                                        *)
(***************************************************************************)

\* No frame is taken from a buffer, and no list changes.
LEMMA SourceQuietOrder ==
    ASSUME OrderInv, DataInv, NEW e \in Sources, NEW K, src' = [src EXCEPT ![e] = K],
           sink' = sink, dec' = dec, stop' = stop, lau' = lau, used' = used,
           \A b \in Buffers : /\ buf'[b].list = buf[b].list
                              /\ Open(K) => buf'[b].allowed = buf[b].allowed
                              /\ Reader(b) # e => buf'[b] = buf[b],
           SourceOrder(e, K),
           Open(K) => Open(src[e]) /\ (Done(K) <=> Done(src[e])) /\ K.cur = src[e].cur,
           ~Comp /\ K.quit => src[e].quit /\ (Vpp = "off" /\ src[e].poll => K.poll)
    PROVE  OrderInv'
<1>1. src'[e] = K /\ \A c \in Sources \ {e} : src'[c] = src[c]
  BY SourceFacts
<1>2. DOMAIN used' = Buffers /\ \A b \in Buffers : used'[b] = used[b]
  BY DEF OrderInv
<1>3. \A b \in Buffers : Open(K) => Taken(e, K, b) = Taken(e, src[e], b)
  BY DEF Taken
<1>4. ASSUME NEW b \in Buffers, Reader(b) = e
      PROVE  /\ OwnSurfaces(b, buf'[b].list)
             /\ b \notin Overlay =>
                  BufferOrder(b, buf'[b], used'[b], sink[Feeder(b)], Output(Feeder(b)), stop[Feeder(b)],
                              K, lau.round = 0)
  <2>1. OwnSurfaces(b, buf'[b].list)
    BY DEF OrderInv
  <2>2. ASSUME b \notin Overlay
        PROVE  BufferOrder(b, buf'[b], used'[b], sink[Feeder(b)], Output(Feeder(b)), stop[Feeder(b)],
                           K, lau.round = 0)
    <3>1. BufferOrder(b, buf[b], used[b], sink[Feeder(b)], Output(Feeder(b)), stop[Feeder(b)],
                      src[e], lau.round = 0)
      BY <1>4, <2>2 DEF OrderInv, Ordered
    <3> QED BY <1>2, <1>3, <1>4, <3>1, BufferStays
  <2> QED BY <2>1, <2>2
<1> QED BY <1>1, <1>2, <1>4, SourceOrderStep

\* Only the record changes.
LEMMA SourceJumpsOrder ==
    ASSUME OrderInv, DataInv, NEW e \in Sources, NEW K, src' = [src EXCEPT ![e] = K],
           sink' = sink, dec' = dec, stop' = stop, lau' = lau, used' = used, buf' = buf,
           SourceOrder(e, K),
           Open(K) => Open(src[e]) /\ (Done(K) <=> Done(src[e])) /\ K.cur = src[e].cur,
           ~Comp /\ K.quit => src[e].quit /\ (Vpp = "off" /\ src[e].poll => K.poll)
    PROVE  OrderInv'
  BY SourceQuietOrder

\* The thread leaves the loop, or ends.
LEMMA SourceLeavesOrder ==
    ASSUME OrderInv, DataInv, NEW e \in Sources, NEW K, src' = [src EXCEPT ![e] = K],
           sink' = sink, dec' = dec, stop' = stop, lau' = lau, used' = used,
           \A b \in Buffers : /\ buf'[b].list = buf[b].list
                              /\ Reader(b) # e => buf'[b] = buf[b],
           K.pc \in {"flush", "cancel", "drain", "done"},
           K.x = src[e].x, K.quit = src[e].quit, K.poll = src[e].poll, K.num = src[e].num
    PROVE  OrderInv'
<1>1. SourceOrder(e, src[e])
  BY DEF OrderInv
<1>2. SourceOrder(e, K) /\ ~Open(K)
  BY <1>1 DEF SourceOrder, Open
<1> QED BY <1>2, SourceQuietOrder

\* The thread gets the front of its buffer, or has to wait for it.
LEMMA GetsOrder ==
    ASSUME OrderInv, DataInv, NEW e \in Sources, GetFrame(e)
    PROVE  OrderInv'
<1> DEFINE J == src[e]
<1>1. /\ DOMAIN J = SrcFields /\ SrcData(e, J) /\ DOMAIN src = Sources
      /\ Cur(e) \in Buffers /\ (~Comp => Cur(e) = e /\ Path(e) = <<e>>)
      /\ buf \in [Buffers -> BufType]
  BY SourceFacts
<1>2. /\ sink' = sink /\ dec' = dec /\ stop' = stop /\ buf' = buf /\ lau' = lau /\ used' = used
      /\ J.pc = "get"
  BY DEF GetFrame
<1>3. SourceOrder(e, J) /\ J.read /\ (Comp => Vpp # "off")
  BY <1>2, ShapeAssumption DEF OrderInv, SourceOrder
<1>4. CASE J.quit \/ ~NoSurface(buf[Cur(e)])
  <2> DEFINE x == IF J.quit THEN EndMark ELSE Front(buf[Cur(e)])
             K == [J EXCEPT !.x = x, !.quit = (x.surf = None), !.vs = (x.surf # None),
                            !.pc = IF Vpp = "off" THEN "enc" ELSE "vpp"]
  <2>1. src' = [src EXCEPT ![e] = K]
    <3>1. PICK y \in {x} : src' = [src EXCEPT ![e].x = y, ![e].quit = (y.surf = None),
                                              ![e].vs = (y.surf # None),
                                              ![e].pc = IF Vpp = "off" THEN "enc" ELSE "vpp"]
      BY <1>4, Zenon DEF GetFrame
    <3>2. y = x
      OBVIOUS
    <3> HIDE DEF x
    <3> QED BY <1>1, <3>1, <3>2
  <2>2. J.quit => ~Real(x)
    BY EndMarkItem DEF Real
  <2>3. ~J.quit => x = Head(buf[Cur(e)].list) /\ buf[Cur(e)].list # << >>
    BY <1>4 DEF Front, NoSurface
  <2> HIDE DEF x
  <2>4. /\ K.x = x /\ K.cur = J.cur /\ K.read = J.read /\ K.num = J.num /\ K.poll = J.poll
        /\ K.pc = (IF Vpp = "off" THEN "enc" ELSE "vpp")
        /\ (K.vs <=> Real(x)) /\ (K.quit <=> ~Real(x))
    BY <1>1 DEF SrcFields, Real
  <2> HIDE DEF K, J
  <2>5. SourceOrder(e, K)
    BY <1>3, <2>4 DEF SourceOrder
  <2>6. CASE Real(x)
    <3>1. Open(K) => Open(J)
      BY <1>2, <2>2, <2>4, <2>6 DEF Open
    <3>2. ~Done(K) /\ ~Done(J) /\ ~K.quit
      BY <1>2, <1>3, <2>4, <2>6 DEF Done
    <3> QED BY <1>2, <2>1, <2>4, <2>5, <3>1, <3>2, SourceJumpsOrder DEF J
  <2>7. CASE ~Real(x) /\ (J.quit \/ Comp)
    <3>1. ~Open(K) /\ (~Comp => J.quit)
      BY <2>4, <2>7 DEF Open
    <3> QED BY <1>2, <2>1, <2>4, <2>5, <3>1, SourceJumpsOrder DEF J
  <2>8. CASE ~Real(x) /\ ~J.quit /\ ~Comp
    <3> DEFINE d == Feeder(e)
               l == buf[e].list
               u == used[e]
               o == Output(d)
               st == stop[d]
               first == lau.round = 0
    <3>1. e \in Buffers /\ e \notin Overlay /\ Reader(e) = e /\ Cur(e) = e
      BY <1>1, <2>8, BufferFacts
    <3>2. BufferOrder(e, buf[e], u, sink[d], o, st, J, first)
      BY <3>1 DEF OrderInv, Ordered, J
    <3>3. l \in Seq(Items) /\ l # << >> /\ ~Real(l[1]) /\ d \in Sinks /\ o \in Int
      <4>1. l \in Seq(Items) /\ l # << >> /\ x = Head(l)
        BY <1>1, <2>3, <2>8, <3>1 DEF BufType
      <4>2. Head(l) = l[1]
        BY <4>1, TailLemma
      <4> QED BY <2>8, <3>1, <4>1, <4>2, BufferFacts, OrderFacts
    <3> HIDE DEF l, d, o, st, first
    <3>4. ~AllReal(l, Len(l))
      <4>1. 1 \in 1 .. Len(l)
        BY <3>3
      <4> QED BY <3>3, <4>1 DEF AllReal
    <3>5. Marked(sink[d], st) /\ Coming(sink[d], e) = 0
      BY <3>2, <3>4, ComingLemma DEF BufferOrder, Marked, l
    <3>6. first => Newest(u) = o \/ (Vpp = "off" /\ K.poll)
      <4>1. CASE Open(J)
        <5>1. Taken(e, J, e) = 0
          BY <1>2, <1>3 DEF Taken, Done
        <5>2. Numbered(l, u, o - 0, 0, first)
          BY <3>1, <3>2, <3>5, <4>1, <5>1 DEF BufferOrder, l
        <5>3. Delivered(u, o, first)
          BY <3>2 DEF BufferOrder
        <5>4. o - 0 = o
          BY <3>3
        <5> HIDE DEF u
        <5> QED BY <3>3, <5>2, <5>3, <5>4, NumberedEnd
      <4>2. CASE ~Open(J)
        BY <1>2, <2>4, <2>8, <4>2 DEF Open
      <4> QED BY <4>1, <4>2
    <3>7. BufferOrder(e, buf[e], u, sink[d], o, st, K, first)
      <4>1. ~Open(K)
        BY <2>4, <2>8 DEF Open
      <4> QED BY <3>2, <3>5, <3>6, <4>1 DEF BufferOrder
    <3>8. \A b \in Buffers : Reader(b) = e => b = e
      BY <2>8, BufferFacts
    <3>9. src'[e] = K /\ \A c \in Sources \ {e} : src'[c] = src[c]
      BY <1>1, <2>1
    <3>10. /\ DOMAIN used = Buffers /\ used'[e] = used[e] /\ buf'[e] = buf[e]
           /\ \A b \in Buffers : OwnSurfaces(b, buf[b].list)
      BY <1>2 DEF OrderInv
    <3> QED BY <1>2, <2>5, <3>1, <3>7, <3>8, <3>9, <3>10, SourceOrderStep DEF d, o, st, first
  <2> QED BY <2>6, <2>7, <2>8
<1>5. CASE ~(J.quit \/ ~NoSurface(buf[Cur(e)]))
  <2> DEFINE K == [J EXCEPT !.pc = "wait", !.slices = 0]
  <2>1. src' = [src EXCEPT ![e] = K]
    BY <1>1, <1>5 DEF GetFrame
  <2>2. /\ K.pc = "wait" /\ K.x = J.x /\ K.cur = J.cur /\ K.read = J.read /\ K.quit = J.quit
        /\ K.poll = J.poll /\ K.num = J.num
    BY <1>1 DEF SrcFields
  <2> HIDE DEF K, J
  <2>3. SourceOrder(e, K) /\ ~Done(K) /\ ~Done(J) /\ (Open(K) => Open(J))
    BY <1>2, <1>3, <2>2 DEF SourceOrder, Done, Open
  <2> QED BY <1>2, <2>1, <2>2, <2>3, SourceJumpsOrder DEF J
<1> QED BY <1>4, <1>5

\* Steps that only change the record and the status of the thread.
LEMMA SourceRecordsOrder ==
    ASSUME OrderInv, DataInv, NEW e \in Sources,
           \/ SyncFrameFails(e) \/ VppDrained(e) \/ VppFails(e) \/ VppStopped(e)
           \/ EncodeFails(e) \/ SliceExpires(e) \/ Flush(e)
    PROVE  OrderInv'
<1> DEFINE J == src[e]
<1>1. /\ DOMAIN J = SrcFields /\ SrcData(e, J) /\ SourceOrder(e, J) /\ DOMAIN src = Sources
  BY SourceFacts DEF OrderInv
<1>2. /\ sink' = sink /\ dec' = dec /\ stop' = stop /\ buf' = buf /\ lau' = lau /\ used' = used
  BY DEF SyncFrameFails, VppDrained, VppFails, VppStopped, EncodeFails, SliceExpires, Flush
<1>3. CASE src' = [src EXCEPT ![e].pc = "done"]
  <2> DEFINE K == [J EXCEPT !.pc = "done"]
  <2>1. src' = [src EXCEPT ![e] = K]
    BY <1>3
  <2>2. K.pc = "done" /\ K.x = J.x /\ K.quit = J.quit /\ K.poll = J.poll /\ K.num = J.num
    BY <1>1 DEF SrcFields
  <2> HIDE DEF K
  <2> QED BY <1>2, <2>1, <2>2, SourceLeavesOrder
<1>4. CASE SyncFrameFails(e) \/ VppFails(e) \/ VppStopped(e)
  BY <1>3, <1>4 DEF SyncFrameFails, VppFails, VppStopped
<1>5. CASE VppDrained(e)
  <2> DEFINE K == [J EXCEPT !.vs = FALSE, !.pc = IF Comp THEN "composed" ELSE "enc"]
  <2>1. src' = [src EXCEPT ![e] = K] /\ J.pc = "vpp" /\ ~Real(J.x)
    BY <1>1, <1>5 DEF VppDrained, Real
  <2>2. /\ K.x = J.x /\ K.pc \in {"composed", "enc"} /\ K.quit = J.quit /\ K.poll = J.poll
        /\ K.num = J.num
    BY <1>1 DEF SrcFields
  <2> HIDE DEF K, J
  <2>3. K.quit /\ SourceOrder(e, K) /\ ~Open(K)
    BY <1>1, <2>1, <2>2 DEF SourceOrder, Open
  <2> QED BY <1>2, <2>1, <2>2, <2>3, SourceJumpsOrder DEF J
<1>6. CASE EncodeFails(e)
  <2>1. PICK kind \in {"error", "hang"} :
           src' = [src EXCEPT ![e].pc = "rel", ![e].r = kind, ![e].bs = @ + 1]
    BY <1>6 DEF EncodeFails
  <2> DEFINE K == [J EXCEPT !.pc = "rel", !.r = kind, !.bs = @ + 1]
  <2>2. src' = [src EXCEPT ![e] = K] /\ J.pc = "enc"
    BY <1>1, <1>6, <2>1 DEF EncodeFails
  <2>3. /\ K.pc = "rel" /\ K.x = J.x /\ K.cur = J.cur /\ K.read = J.read /\ K.quit = J.quit
        /\ K.poll = J.poll /\ K.num = J.num /\ K.r = kind
    BY <1>1 DEF SrcFields
  <2> HIDE DEF K, J
  <2>4. SourceOrder(e, K) /\ (Open(K) => Open(J))
    BY <1>1, <2>2, <2>3 DEF SourceOrder, Open
  <2>5. Done(K) <=> Done(J)
    BY <1>1, <2>2, <2>3 DEF SrcData, Done
  <2> QED BY <1>2, <2>2, <2>3, <2>4, <2>5, SourceJumpsOrder DEF J
<1>7. CASE SliceExpires(e)
  <2> DEFINE K == [J EXCEPT !.pc = "expired"]
  <2>1. src' = [src EXCEPT ![e] = K] /\ J.pc = "blocked"
    BY <1>7 DEF SliceExpires
  <2>2. /\ K.pc = "expired" /\ K.x = J.x /\ K.cur = J.cur /\ K.read = J.read /\ K.quit = J.quit
        /\ K.poll = J.poll /\ K.num = J.num
    BY <1>1 DEF SrcFields
  <2> HIDE DEF K, J
  <2>3. SourceOrder(e, K) /\ (Open(K) => Open(J)) /\ (Done(K) <=> Done(J))
    BY <1>1, <2>1, <2>2 DEF SourceOrder, Open, Done
  <2> QED BY <1>2, <2>1, <2>2, <2>3, SourceJumpsOrder DEF J
<1>8. CASE Flush(e)
  <2>1. CASE src' = [src EXCEPT ![e].bs = 0, ![e].cur = 1, ![e].pc = IF Comp THEN "drain" ELSE "cancel"]
    <3> DEFINE K == [J EXCEPT !.bs = 0, !.cur = 1, !.pc = IF Comp THEN "drain" ELSE "cancel"]
    <3>1. src' = [src EXCEPT ![e] = K]
      BY <1>1, <2>1
    <3>2. /\ K.pc \in {"drain", "cancel"} /\ K.x = J.x /\ K.quit = J.quit /\ K.poll = J.poll
          /\ K.num = J.num
      BY <1>1 DEF SrcFields
    <3> HIDE DEF K
    <3> QED BY <1>2, <3>1, <3>2, SourceLeavesOrder
  <2> QED BY <1>3, <1>8, <2>1 DEF Flush
<1> QED BY <1>4, <1>5, <1>6, <1>7, <1>8

\* A wait returns, or the buffer is cancelled.
LEMMA WaitsOrder ==
    ASSUME OrderInv, DataInv, NEW e \in Sources,
           WaitForSurfaceInsertion(e) \/ SliceReturns(e) \/ Cancel(e)
    PROVE  OrderInv'
<1> DEFINE J == src[e]
           b == Cur(e)
<1>1. /\ DOMAIN J = SrcFields /\ SourceOrder(e, J) /\ DOMAIN src = Sources /\ b \in Buffers
      /\ buf \in [Buffers -> BufType] /\ J.cur \in 1 .. Len(Path(e)) /\ b = Path(e)[J.cur]
  BY SourceFacts DEF OrderInv
<1>2. /\ sink' = sink /\ dec' = dec /\ stop' = stop /\ lau' = lau /\ used' = used
      /\ \E B : buf' = [buf EXCEPT ![b] = B]
  BY DEF WaitForSurfaceInsertion, SliceReturns, Cancel
<1>3. Reader(b) = e
  BY <1>1, BufferFacts
<1>4. /\ \A c \in Buffers : /\ buf'[c].list = buf[c].list /\ (Reader(c) # e => buf'[c] = buf[c])
                            /\ ~Cancel(e) => buf'[c].allowed = buf[c].allowed
  <2>1. \A c \in Buffers \ {b} : buf'[c] = buf[c]
    BY <1>1, <1>2
  <2>2. /\ buf'[b].list = buf[b].list
        /\ ~Cancel(e) => buf'[b].allowed = buf[b].allowed
    <3>1. \/ buf' = [buf EXCEPT ![b] = CancelBuffering(@)] /\ Cancel(e)
          \/ buf' = [buf EXCEPT ![b] = ResetEvent(@)]
      BY DEF WaitForSurfaceInsertion, SliceReturns, Cancel
    <3>2. buf[b] \in BufType
      BY <1>1
    <3> HIDE DEF b
    <3> QED BY <1>1, <3>1, <3>2, EventLemma
  <2> QED BY <1>3, <2>1, <2>2
<1>5. ASSUME NEW K, src' = [src EXCEPT ![e] = K], K.x = J.x, K.cur = J.cur, K.read = J.read,
             K.quit = J.quit, K.poll = J.poll, K.num = J.num,
             J.pc \in {"wait", "blocked", "expired"}, K.pc \in {"get", "blocked", "wait"}, ~Cancel(e)
      PROVE  OrderInv'
  <2>1. SourceOrder(e, K) /\ (Open(K) => Open(J)) /\ (Done(K) <=> Done(J))
    BY <1>1, <1>5 DEF SourceOrder, Open, Done
  <2> HIDE DEF b
  <2> QED BY <1>2, <1>4, <1>5, <2>1, SourceQuietOrder
<1>6. ASSUME NEW K, src' = [src EXCEPT ![e] = K], K.x = J.x,
             K.quit = J.quit, K.poll = J.poll, K.num = J.num, K.pc \in {"drain", "done"}
      PROVE  OrderInv'
  <2> HIDE DEF b
  <2> QED BY <1>2, <1>4, <1>6, SourceLeavesOrder
<1>7. CASE WaitForSurfaceInsertion(e) /\ ~Cancel(e)
  <2> DEFINE p == IF buf[Cur(e)].ins THEN "get" ELSE "blocked"
             K == [J EXCEPT !.pc = p]
  <2>1. src' = [src EXCEPT ![e] = K] /\ J.pc \in {"wait", "blocked"}
    BY <1>7 DEF WaitForSurfaceInsertion
  <2>2. /\ K.pc = p /\ K.x = J.x /\ K.cur = J.cur /\ K.read = J.read /\ K.quit = J.quit
        /\ K.poll = J.poll /\ K.num = J.num /\ p \in {"get", "blocked"}
    BY <1>1 DEF SrcFields
  <2> HIDE DEF K, p
  <2> QED BY <1>5, <1>7, <2>1, <2>2
<1>8. CASE SliceReturns(e) /\ ~Cancel(e)
  <2>1. CASE src' = [src EXCEPT ![e].pc = "done"]
    <3> DEFINE K == [J EXCEPT !.pc = "done"]
    <3>1. src' = [src EXCEPT ![e] = K]
      BY <2>1
    <3>2. K.pc = "done" /\ K.x = J.x /\ K.quit = J.quit /\ K.poll = J.poll /\ K.num = J.num
      BY <1>1 DEF SrcFields
    <3> HIDE DEF K
    <3> QED BY <1>6, <3>1, <3>2
  <2>2. CASE src' = [src EXCEPT ![e].pc = "wait", ![e].slices = @ + 1]
    <3> DEFINE K == [J EXCEPT !.pc = "wait", !.slices = @ + 1]
    <3>1. src' = [src EXCEPT ![e] = K] /\ J.pc = "expired"
      BY <1>1, <1>8, <2>2 DEF SliceReturns
    <3>2. /\ K.pc = "wait" /\ K.x = J.x /\ K.cur = J.cur /\ K.read = J.read /\ K.quit = J.quit
          /\ K.poll = J.poll /\ K.num = J.num
      BY <1>1 DEF SrcFields
    <3> HIDE DEF K
    <3> QED BY <1>5, <1>8, <3>1, <3>2
  <2> QED BY <1>8, <2>1, <2>2 DEF SliceReturns
<1>9. CASE Cancel(e)
  <2> DEFINE K == [J EXCEPT !.pc = "drain"]
  <2>1. src' = [src EXCEPT ![e] = K]
    BY <1>9 DEF Cancel
  <2>2. K.pc = "drain" /\ K.x = J.x /\ K.quit = J.quit /\ K.poll = J.poll /\ K.num = J.num
    BY <1>1 DEF SrcFields
  <2> HIDE DEF K
  <2> QED BY <1>6, <2>1, <2>2
<1> QED BY <1>7, <1>8, <1>9

\* What is left when a descriptor is released from the buffer b.
LEMMA ReleasedOrder ==
    ASSUME OrderInv, DataInv, NEW b \in Buffers, NEW x \in Items, Released(b, x)
    PROVE  /\ buf'[b].allowed = buf[b].allowed /\ OwnSurfaces(b, buf'[b].list)
           /\ AllReal(buf[b].list, Len(buf[b].list)) => AllReal(buf'[b].list, Len(buf'[b].list))
           /\ AtFront(buf[b], x) => buf'[b].list = EraseAt(buf[b].list, 1)
           /\ ~Releases(buf[b], x.surf) => buf'[b] = buf[b]
           /\ \A c \in Buffers \ {b} : buf'[c] = buf[c]
<1> DEFINE B == buf[b]
           l == B.list
<1>1. buf \in [Buffers -> BufType] /\ B \in BufType /\ l \in Seq(Items) /\ OwnSurfaces(b, l)
  BY DataFacts, OrderFacts DEF OrderInv
<1>2. buf'[b] = ReleaseSurface(B, x.surf) /\ \A c \in Buffers \ {b} : buf'[c] = buf[c]
  BY <1>1 DEF Released
<1> HIDE DEF B
<1>3. /\ buf'[b].allowed = B.allowed
      /\ ~Releases(B, x.surf) => buf'[b] = B
      /\ Releases(B, x.surf) => \E k \in 1 .. Len(l) :
                /\ buf'[b].list = EraseAt(l, k) /\ l[k].surf = x.surf
                /\ \A i \in 1 .. Len(l) : l[i].surf = x.surf => k <= i
  BY <1>1, <1>2, ReleaseLemma
<1>4. /\ OwnSurfaces(b, buf'[b].list)
      /\ AllReal(l, Len(l)) => AllReal(buf'[b].list, Len(buf'[b].list))
  <2>1. CASE ~Releases(B, x.surf)
    BY <1>1, <1>3, <2>1
  <2>2. CASE Releases(B, x.surf)
    <3>1. PICK k \in 1 .. Len(l) : buf'[b].list = EraseAt(l, k)
      BY <1>3, <2>2
    <3> DEFINE m == EraseAt(l, k)
    <3> HIDE DEF l
    <3>2. /\ Len(m) = Len(l) - 1 /\ Len(l) \in Nat
          /\ \A i \in 1 .. Len(l) - 1 : m[i] = IF i < k THEN l[i] ELSE l[i + 1]
      BY <1>1, EraseLemma
    <3> HIDE DEF m
    <3>3. ASSUME NEW i \in 1 .. Len(m) PROVE \E j \in 1 .. Len(l) : m[i] = l[j]
      <4>1. i \in 1 .. Len(l) - 1 /\ i \in 1 .. Len(l) /\ i + 1 \in 1 .. Len(l)
        BY <3>2
      <4>2. m[i] = l[i] \/ m[i] = l[i + 1]
        BY <3>2, <4>1
      <4> QED BY <4>1, <4>2
    <3>4. OwnSurfaces(b, m)
      BY <1>1, <3>3 DEF OwnSurfaces
    <3>5. AllReal(l, Len(l)) => AllReal(m, Len(m))
      BY <3>3 DEF AllReal
    <3> QED BY <3>1, <3>4, <3>5 DEF m
  <2> QED BY <2>1, <2>2
<1>5. ASSUME AtFront(B, x) PROVE buf'[b].list = EraseAt(l, 1)
  <2>1. l # << >> /\ Head(l) = x
    BY <1>5 DEF AtFront, NoSurface, Front
  <2>2. l[1] = x /\ 1 \in 1 .. Len(l)
    <3> HIDE DEF l
    <3> QED BY <1>1, <2>1, TailLemma
  <2>3. Releases(B, x.surf)
    BY <2>2 DEF Releases, Positions
  <2>4. PICK k \in 1 .. Len(l) : /\ buf'[b].list = EraseAt(l, k) /\ l[k].surf = x.surf
                                 /\ \A i \in 1 .. Len(l) : l[i].surf = x.surf => k <= i
    BY <1>3, <2>3
  <2>5. k = 1
    BY <2>2, <2>4
  <2> QED BY <2>4, <2>5
<1> QED BY <1>2, <1>3, <1>4, <1>5 DEF B

\* The thread releases x from its buffer c; if it goes on, x is the front that
\* it has processed, or it was released before.
LEMMA SourceReleasesOrder ==
    ASSUME OrderInv, DataInv, NEW e \in Sources, NEW K, src' = [src EXCEPT ![e] = K],
           sink' = sink, dec' = dec, stop' = stop, lau' = lau, used' = used,
           NEW c \in Buffers, Reader(c) = e, NEW x \in Items, Released(c, x),
           SourceOrder(e, K),
           Open(K) =>
              /\ Open(src[e])
              /\ \A b \in Buffers \ {c} : Taken(e, K, b) = Taken(e, src[e], b)
              /\ \/ /\ Real(x) /\ AtFront(buf[c], x)
                    /\ Taken(e, src[e], c) = 1 /\ Taken(e, K, c) = 0
                 \/ /\ ~Releases(buf[c], x.surf)
                    /\ Taken(e, K, c) = Taken(e, src[e], c),
           ~Comp /\ K.quit => src[e].quit /\ (Vpp = "off" /\ src[e].poll => K.poll)
    PROVE  OrderInv'
<1> DEFINE J == src[e]
           first == lau.round = 0
<1>1. src'[e] = K /\ \A a \in Sources \ {e} : src'[a] = src[a]
  BY SourceFacts
<1>2. DOMAIN used' = Buffers /\ \A b \in Buffers : used'[b] = used[b]
  BY DEF OrderInv
<1>3. /\ buf'[c].allowed = buf[c].allowed /\ OwnSurfaces(c, buf'[c].list)
      /\ AllReal(buf[c].list, Len(buf[c].list)) => AllReal(buf'[c].list, Len(buf'[c].list))
      /\ AtFront(buf[c], x) => buf'[c].list = EraseAt(buf[c].list, 1)
      /\ ~Releases(buf[c], x.surf) => buf'[c] = buf[c]
      /\ \A b \in Buffers \ {c} : buf'[b] = buf[b]
  BY ReleasedOrder
<1>4. ASSUME NEW b \in Buffers, Reader(b) = e
      PROVE  /\ OwnSurfaces(b, buf'[b].list)
             /\ b \notin Overlay =>
                  BufferOrder(b, buf'[b], used'[b], sink[Feeder(b)], Output(Feeder(b)), stop[Feeder(b)],
                              K, lau.round = 0)
  <2> DEFINE d == Feeder(b)
             D == sink[d]
             o == Output(d)
             st == stop[d]
             u == used[b]
  <2>1. OwnSurfaces(b, buf'[b].list)
    BY <1>3 DEF OrderInv
  <2>2. ASSUME b \notin Overlay
        PROVE  BufferOrder(b, buf'[b], u, D, o, st, K, first)
    <3>1. BufferOrder(b, buf[b], u, D, o, st, J, first)
      BY <1>4, <2>2 DEF OrderInv, Ordered
    <3>2. o \in Int /\ buf[b].list \in Seq(Items) /\ Coming(D, b) \in {0, 1}
      BY BufferFacts, OrderFacts, ComingLemma
    <3> HIDE DEF d, D, o, st, u, first, J
    <3>3. CASE b # c
      <4>1. buf'[b] = buf[b] /\ (Open(K) => Open(J) /\ Taken(e, K, b) = Taken(e, J, b))
        BY <1>3, <3>3 DEF J
      <4> QED BY <1>4, <3>1, <4>1, BufferStays DEF J
    <3>4. CASE b = c
      <4>1. ASSUME Open(K)
            PROVE  buf'[b].allowed /\ Numbered(buf'[b].list, u, o - Coming(D, b), Taken(Reader(b), K, b), first)
        <5>1. /\ buf[b].allowed
              /\ Numbered(buf[b].list, u, o - Coming(D, b), Taken(e, J, b), first)
          BY <1>4, <3>1, <4>1 DEF BufferOrder, J
        <5>2. CASE ~Releases(buf[c], x.surf) /\ Taken(e, K, c) = Taken(e, J, c)
          BY <1>3, <1>4, <3>4, <5>1, <5>2
        <5>3. CASE Real(x) /\ AtFront(buf[c], x) /\ Taken(e, J, c) = 1 /\ Taken(e, K, c) = 0
          <6> DEFINE l == buf[b].list
                     g == o - Coming(D, b)
          <6>1. l # << >> /\ Head(l) = x
            BY <3>4, <5>3 DEF AtFront, NoSurface, Front
          <6>2. buf'[b].list = EraseAt(l, 1) /\ buf'[b].allowed /\ g \in Int
            <7>1. buf'[b].list = EraseAt(l, 1) /\ buf'[b].allowed
              BY <1>3, <3>4, <5>1, <5>3
            <7>2. g \in Int
              <8> DEFINE k == Coming(D, b)
              <8> HIDE DEF k
              <8>1. k \in {0, 1}
                BY <3>2 DEF k
              <8>2. o - k \in Int
                BY <3>2, <8>1
              <8> QED BY <8>2 DEF k
            <7> QED BY <7>1, <7>2
          <6>3. l \in Seq(Items) /\ Numbered(l, u, g, 1, first)
            BY <3>2, <3>4, <5>1, <5>3
          <6> HIDE DEF l, g
          <6>4. l[1] = x
            BY <6>1, <6>3, TailLemma
          <6>5. u \in Seq(Int)
            BY <3>1 DEF BufferOrder, Delivered
          <6>6. Numbered(EraseAt(l, 1), u, g, 0, first)
            BY <5>3, <6>1, <6>2, <6>3, <6>4, <6>5, NumberedErase
          <6> QED BY <1>4, <3>4, <5>3, <6>2, <6>6 DEF g
        <5> QED BY <4>1, <5>2, <5>3 DEF J
      <4>2. ~AllReal(buf'[b].list, Len(buf'[b].list)) => Marked(D, st)
        BY <1>3, <3>1, <3>4 DEF BufferOrder
      <4>3. ~Comp /\ K.quit => Marked(D, st) /\ (first => Newest(u) = o \/ (Vpp = "off" /\ K.poll))
        BY <3>1 DEF BufferOrder, J
      <4> QED BY <3>1, <4>1, <4>2, <4>3 DEF BufferOrder
    <3> QED BY <3>3, <3>4
  <2> QED BY <1>2, <2>1, <2>2
<1> QED BY <1>1, <1>2, <1>3, <1>4, SourceOrderStep

\* What is left in a buffer is released.
LEMMA DrainsOrder ==
    ASSUME OrderInv, DataInv, NEW e \in Sources, Drain(e)
    PROVE  OrderInv'
<1> DEFINE J == src[e]
           b == Cur(e)
<1>1. /\ DOMAIN J = SrcFields /\ SourceOrder(e, J) /\ DOMAIN src = Sources /\ b \in Buffers
      /\ buf \in [Buffers -> BufType] /\ J.cur \in 1 .. Len(Path(e)) /\ b = Path(e)[J.cur]
  BY SourceFacts DEF OrderInv
<1>2. /\ sink' = sink /\ dec' = dec /\ stop' = stop /\ lau' = lau /\ used' = used
  BY DEF Drain
<1>3. Reader(b) = e
  BY <1>1, BufferFacts
<1>4. CASE ~NoSurface(buf[b])
  <2> DEFINE x == Front(buf[b])
             K == [J EXCEPT !.pc = IF Comp THEN "cancel" ELSE "drain"]
  <2>1. Released(b, x) /\ src' = [src EXCEPT ![e] = K]
    BY <1>4 DEF Drain
  <2>2. x \in Items
    <3>1. buf[b].list \in Seq(Items) /\ buf[b].list # << >>
      BY <1>1, <1>4 DEF BufType, NoSurface
    <3> QED BY <3>1, TailLemma DEF Front
  <2> HIDE DEF b, x
  <2>3. /\ K.pc \in {"cancel", "drain"} /\ K.x = J.x /\ K.quit = J.quit /\ K.poll = J.poll
        /\ K.num = J.num
    BY <1>1 DEF SrcFields
  <2> HIDE DEF K
  <2>4. SourceOrder(e, K) /\ ~Open(K)
    BY <1>1, <2>3 DEF SourceOrder, Open
  <2> QED BY <1>1, <1>2, <1>3, <2>1, <2>2, <2>3, <2>4, SourceReleasesOrder
<1>5. CASE NoSurface(buf[b])
  <2>1. buf' = buf
    BY <1>5 DEF Drain
  <2>2. ASSUME NEW p \in {"drain", "done"}, NEW n,
               src' = [src EXCEPT ![e] = [J EXCEPT !.pc = p, !.cur = n]]
        PROVE  OrderInv'
    <3> DEFINE K == [J EXCEPT !.pc = p, !.cur = n]
    <3>1. /\ K.pc = p /\ K.x = J.x /\ K.quit = J.quit /\ K.poll = J.poll /\ K.num = J.num
      BY <1>1 DEF SrcFields
    <3>2. src' = [src EXCEPT ![e] = K]
      BY <2>2
    <3> HIDE DEF K
    <3> QED BY <1>2, <2>1, <3>1, <3>2, SourceLeavesOrder
  <2>3. [J EXCEPT !.pc = "done"] = [J EXCEPT !.pc = "done", !.cur = J.cur]
    BY <1>1 DEF SrcFields
  <2>4. ASSUME NEW n PROVE [J EXCEPT !.pc = "drain", !.cur = n] = [J EXCEPT !.cur = n] \/ J.pc # "drain"
    BY <1>1 DEF SrcFields
  <2>5. \/ src' = [src EXCEPT ![e] = [J EXCEPT !.cur = J.cur + 1]] /\ J.pc = "drain"
        \/ src' = [src EXCEPT ![e] = [J EXCEPT !.pc = "done"]]
    BY <1>1, <1>5 DEF Drain
  <2> QED BY <2>2, <2>3, <2>4, <2>5
<1> QED BY <1>4, <1>5

\* Both inputs and compositions: the frame that VPP has read.
LEMMA ReleasesInputOrder ==
    ASSUME OrderInv, DataInv, OneRelease, NEW e \in Sources, ReleaseInput(e) \/ ReleaseComposed(e)
    PROVE  OrderInv'
<1> DEFINE J == src[e]
           b == Cur(e)
<1>1. /\ DOMAIN J = SrcFields /\ SrcData(e, J) /\ SourceOrder(e, J) /\ J.x \in Items
      /\ DOMAIN src = Sources /\ b \in Buffers /\ J.cur \in 1 .. Len(Path(e)) /\ b = Path(e)[J.cur]
      /\ (~Comp => Len(Path(e)) = 1 /\ J.cur = 1)
      /\ Reading(J) => AtFront(buf[b], J.x)
  BY SourceFacts DEF OrderInv, OneRelease
<1>2. /\ sink' = sink /\ dec' = dec /\ stop' = stop /\ lau' = lau /\ used' = used
      /\ Released(b, J.x) /\ J.pc \in {"more", "composed"}
      /\ ReleaseInput(e) => J.pc = "more" /\ src' = [src EXCEPT ![e].pc = "get", ![e].cur = @ + 1]
      /\ ReleaseComposed(e) => J.pc = "composed" /\ src' = [src EXCEPT ![e].pc = "enc", ![e].cur = 1]
  BY DEF ReleaseInput, ReleaseComposed
<1>3. Reader(b) = e
  BY <1>1, BufferFacts
<1> HIDE DEF b
<1>4. Comp /\ J.read
  <2>1. Comp
    <3>1. J.pc = "composed" => Comp
      BY <1>1 DEF SrcData
    <3>2. J.pc = "more" => J.cur < Len(Path(e))
      BY <1>1 DEF SrcData
    <3>3. ~Comp => ~(J.cur < Len(Path(e)))
      <4> SUFFICES ASSUME ~Comp PROVE ~(J.cur < Len(Path(e)))
        OBVIOUS
      <4>1. J.cur = 1 /\ Len(Path(e)) = 1
        BY <1>1
      <4> QED BY <4>1
    <3> QED BY <1>2, <3>1, <3>2, <3>3
  <2> QED BY <1>1, <2>1 DEF SrcData, OneRelease
<1>5. ~J.quit => Real(J.x) /\ AtFront(buf[b], J.x)
  BY <1>1, <1>2 DEF SourceOrder, Reading, Real
<1>6. /\ Taken(e, J, b) = 1
      /\ \A c \in Buffers \ {b} : Taken(e, J, c) = 0
  BY <1>1, <1>2 DEF Taken, Done
<1>7. ASSUME NEW p \in {"get", "enc"}, NEW n,
             p = "enc" /\ ~J.quit => J.x.surf \in Pool[Path(e)[Len(Path(e))]],
             src' = [src EXCEPT ![e] = [J EXCEPT !.pc = p, !.cur = n]]
      PROVE  OrderInv'
  <2> DEFINE K == [J EXCEPT !.pc = p, !.cur = n]
  <2>1. /\ K.pc = p /\ K.x = J.x /\ K.quit = J.quit /\ K.poll = J.poll /\ K.num = J.num
        /\ K.read = J.read
    BY <1>1 DEF SrcFields
  <2>2. src' = [src EXCEPT ![e] = K]
    BY <1>7
  <2> HIDE DEF K, J
  <2>3. SourceOrder(e, K) /\ (Open(K) => Open(J) /\ ~J.quit)
    BY <1>1, <1>2, <1>4, <1>5, <1>7, <2>1, ShapeAssumption DEF SourceOrder, Open
  <2>4. \A c : Taken(e, K, c) = 0
    BY <1>4, <1>7, <2>1 DEF Taken, Done
  <2>5. ASSUME Open(K)
        PROVE  /\ Open(J) /\ \A c \in Buffers \ {b} : Taken(e, K, c) = Taken(e, J, c)
               /\ Real(J.x) /\ AtFront(buf[b], J.x) /\ Taken(e, J, b) = 1 /\ Taken(e, K, b) = 0
    BY <1>5, <1>6, <2>3, <2>4, <2>5
  <2> QED BY <1>1, <1>2, <1>3, <1>4, <2>1, <2>2, <2>3, <2>5, SourceReleasesOrder DEF J
<1>8. CASE ReleaseInput(e)
  <2>1. src' = [src EXCEPT ![e] = [J EXCEPT !.pc = "get", !.cur = J.cur + 1]]
    BY <1>1, <1>2, <1>8
  <2> HIDE DEF J
  <2> QED BY <1>7, <2>1
<1>9. CASE ReleaseComposed(e)
  <2>1. src' = [src EXCEPT ![e] = [J EXCEPT !.pc = "enc", !.cur = 1]]
    BY <1>1, <1>2, <1>9
  <2>2. ASSUME ~J.quit PROVE J.x.surf \in Pool[Path(e)[Len(Path(e))]]
    <3>1. J.cur = Len(Path(e))
      BY <1>1, <1>2, <1>4, <1>9, <2>2 DEF SourceOrder
    <3>2. buf[b].list # << >> /\ Head(buf[b].list) = J.x /\ buf[b].list \in Seq(Items)
      BY <1>1, <1>5, <2>2, OrderFacts DEF AtFront, NoSurface, Front
    <3> DEFINE l == buf[b].list
    <3>3. OwnSurfaces(b, l)
      BY <1>1 DEF OrderInv
    <3> HIDE DEF l
    <3>4. 1 \in 1 .. Len(l) /\ l[1] = J.x
      BY <3>2, TailLemma DEF l
    <3>5. J.x.surf \in Pool[b]
      BY <1>4, <1>5, <2>2, <3>3, <3>4 DEF OwnSurfaces
    <3> QED BY <1>1, <3>1, <3>5
  <2> HIDE DEF J
  <2> QED BY <1>7, <2>1, <2>2
<1> QED BY <1>8, <1>9

\* What the end of an iteration does to the record.
LEMMA ReleaseFields ==
    ASSUME DataInv, NEW e \in Sources, ReleaseFrame(e)
    PROVE  \E K : /\ src' = [src EXCEPT ![e] = K]
                  /\ K.x = src[e].x /\ K.cur = src[e].cur /\ K.read = src[e].read
                  /\ K.quit = src[e].quit /\ K.poll = src[e].poll /\ K.num = src[e].num
                  /\ \/ K.pc = Again(src[e]) /\ src[e].r \in {"more", "none"}
                     \/ K.pc \in {"flush", "done"}
<1> DEFINE J == src[e]
<1>1. DOMAIN J = SrcFields /\ DOMAIN src = Sources
  BY SourceFacts
<1>2. ASSUME NEW p, NEW n, src' = [src EXCEPT ![e] = [J EXCEPT !.pc = p, !.bs = n]],
             \/ p = Again(J) /\ J.r \in {"more", "none"}
             \/ p \in {"flush", "done"}
      PROVE  \E K : /\ src' = [src EXCEPT ![e] = K]
                    /\ K.x = J.x /\ K.cur = J.cur /\ K.read = J.read
                    /\ K.quit = J.quit /\ K.poll = J.poll /\ K.num = J.num
                    /\ \/ K.pc = Again(J) /\ J.r \in {"more", "none"}
                       \/ K.pc \in {"flush", "done"}
  <2> DEFINE K == [J EXCEPT !.pc = p, !.bs = n]
  <2>1. /\ K.pc = p /\ K.x = J.x /\ K.cur = J.cur /\ K.read = J.read
        /\ K.quit = J.quit /\ K.poll = J.poll /\ K.num = J.num
    BY <1>1 DEF SrcFields
  <2>2. src' = [src EXCEPT ![e] = K]
    BY <1>2
  <2> HIDE DEF K
  <2> QED BY <1>2, <2>1, <2>2
<1>3. CASE src[e].r = "more"
  <2> DEFINE p == IF J.vs THEN Again(J) ELSE "flush"
             n == J.bs - 1
  <2>1. src' = [src EXCEPT ![e] = [J EXCEPT !.pc = p, !.bs = n]]
    <3>1. src' = [src EXCEPT ![e].bs = @ - 1, ![e].pc = IF src[e].vs THEN Again(src[e]) ELSE "flush"]
      BY <1>3 DEF ReleaseFrame
    <3> QED BY <1>1, <3>1
  <2>2. p = Again(J) \/ p = "flush"
    OBVIOUS
  <2> HIDE DEF p, n
  <2> QED BY <1>2, <1>3, <2>1, <2>2
<1>4. CASE src[e].r # "more" /\ src' = [src EXCEPT ![e].pc = "done"]
  <2>1. src' = [src EXCEPT ![e] = [J EXCEPT !.pc = "done", !.bs = J.bs]]
    <3>1. [J EXCEPT !.pc = "done", !.bs = J.bs] = [J EXCEPT !.pc = "done"]
      BY <1>1 DEF SrcFields
    <3> QED BY <1>4, <3>1
  <2> QED BY <1>2, <2>1
<1>5. CASE src[e].r # "more" /\ src' # [src EXCEPT ![e].pc = "done"]
  <2> DEFINE n == IF J.bs = AsyncDepth THEN J.bs - 1 ELSE J.bs
  <2>1. /\ src[e].r = "none"
        /\ src' = [src EXCEPT ![e].pc = Again(src[e]), ![e].bs = IF @ = AsyncDepth THEN @ - 1 ELSE @]
    BY <1>5 DEF ReleaseFrame
  <2>2. src' = [src EXCEPT ![e] = [J EXCEPT !.pc = Again(J), !.bs = n]]
    BY <1>1, <2>1
  <2> HIDE DEF n
  <2> QED BY <1>2, <2>1, <2>2
<1> QED BY <1>3, <1>4, <1>5

\* In a composition the input was released before, and it cannot be found in
\* the first buffer, which is not its own.
LEMMA NotFound ==
    ASSUME OrderInv, DataInv, OneRelease, Comp, NEW e \in Sources, src[e].pc = "rel", ~src[e].quit
    PROVE  ~Releases(buf[Path(e)[1]], src[e].x.surf)
<1> DEFINE J == src[e]
           P == Path(e)
           b == P[1]
           c == P[Len(P)]
           l == buf[b].list
<1>1. SourceOrder(e, J) /\ Len(P) = Len(Chain) /\ Distinct(P) /\ Len(P) \in Nat \ {0}
  BY SourceFacts, PathFacts DEF OrderInv
<1>2. Len(P) > 1
  BY <1>1 DEF OneRelease
<1>3. b \in Sinks /\ c \in Sinks /\ b # c
  <2>1. 1 \in 1 .. Len(P) /\ Len(P) \in 1 .. Len(P) /\ 1 # Len(P)
    BY <1>1, <1>2
  <2>2. b # c
    <3> HIDE DEF P
    <3> QED BY <1>1, <2>1 DEF Distinct
  <2>3. b \in Buffers /\ c \in Buffers
    BY <2>1, PathFacts
  <2> QED BY <2>2, <2>3, BufferFacts
<1>4. Real(J.x) /\ J.x.surf \in Pool[c]
  BY <1>1 DEF SourceOrder
<1>5. OwnSurfaces(b, l)
  BY <1>3 DEF OrderInv, Buffers
<1> HIDE DEF b, c, P
<1>6. ASSUME NEW i \in 1 .. Len(l), l[i].surf = J.x.surf PROVE FALSE
  <2>1. Real(l[i])
    BY <1>4, <1>6 DEF Real
  <2>2. J.x.surf \in Pool[b]
    BY <1>5, <1>6, <2>1 DEF OwnSurfaces
  <2> QED BY <1>3, <1>4, <2>2, SurfacesLemma
<1>7. Positions(buf[b], J.x.surf) = {}
  BY <1>6 DEF Positions
<1> QED BY <1>7 DEF Releases, b, P

LEMMA ReleasesFrameOrder ==
    ASSUME OrderInv, DataInv, OneRelease, NEW e \in Sources, ReleaseFrame(e)
    PROVE  OrderInv'
<1> DEFINE J == src[e]
           b == Path(e)[1]
<1>1. /\ SrcData(e, J) /\ SourceOrder(e, J) /\ J.x \in Items /\ b \in Buffers
      /\ J.cur \in 1 .. Len(Path(e)) /\ Len(Path(e)) \in Nat \ {0}
      /\ (~Comp => J.cur = 1)
      /\ Reading(J) => AtFront(buf[Path(e)[J.cur]], J.x)
  BY SourceFacts DEF OrderInv, OneRelease
<1>2. PICK K : /\ src' = [src EXCEPT ![e] = K]
               /\ K.x = J.x /\ K.cur = J.cur /\ K.read = J.read
               /\ K.quit = J.quit /\ K.poll = J.poll /\ K.num = J.num
               /\ \/ K.pc = Again(J) /\ J.r \in {"more", "none"}
                  \/ K.pc \in {"flush", "done"}
  BY ReleaseFields
<1>3. /\ sink' = sink /\ dec' = dec /\ stop' = stop /\ lau' = lau /\ used' = used /\ J.pc = "rel"
      /\ J.read => Released(b, J.x)
      /\ ~J.read => buf' = buf
  BY DEF ReleaseFrame
<1>4. Reader(b) = e
  <2>1. 1 \in 1 .. Len(Path(e))
    BY <1>1
  <2> QED BY <1>1, <2>1, BufferFacts
<1> HIDE DEF J, b
<1>5. SourceOrder(e, K) /\ (Open(K) => Open(J) /\ K.pc = Again(J) /\ J.r \in {"more", "none"})
  BY <1>1, <1>2, <1>3 DEF SourceOrder, Open, Again
<1>6. CASE ~J.read
  <2>1. ~Comp
    BY <1>1, <1>6 DEF SrcData, OneRelease
  <2>2. Open(K) => (Done(K) <=> Done(J))
    BY <1>2, <1>6, <2>1 DEF Done
  <2> QED BY <1>2, <1>3, <1>5, <1>6, <2>2, SourceJumpsOrder DEF J
<1>7. CASE J.read
  <2>1. Open(K) => ~Done(K) /\ ~J.quit
    BY <1>2, <1>3, <1>5, <1>7 DEF Again, Done, Open
  <2>2. ASSUME Open(K), Comp
        PROVE  ~Done(J) /\ ~Releases(buf[b], J.x.surf)
    BY <1>3, <2>1, <2>2, NotFound DEF Done, J, b
  <2>3. ASSUME Open(K), ~Comp
        PROVE  /\ Real(J.x) /\ AtFront(buf[b], J.x) /\ Done(J) /\ Path(e)[J.cur] = b
    <3>1. Real(J.x)
      BY <1>1, <1>3, <2>1, <2>3 DEF SourceOrder
    <3>2. Reading(J) /\ Path(e)[J.cur] = b
      BY <1>1, <1>3, <2>3, <3>1 DEF Reading, Real, b
    <3>3. Done(J)
      BY <1>3, <1>5, <2>3 DEF Done
    <3> QED BY <1>1, <3>1, <3>2, <3>3
  <2>4. ASSUME Open(K)
        PROVE  /\ Open(J) /\ \A c \in Buffers \ {b} : Taken(e, K, c) = Taken(e, J, c)
               /\ \/ Real(J.x) /\ AtFront(buf[b], J.x) /\ Taken(e, J, b) = 1 /\ Taken(e, K, b) = 0
                  \/ ~Releases(buf[b], J.x.surf) /\ Taken(e, K, b) = Taken(e, J, b)
    <3>1. CASE Comp
      BY <1>5, <2>1, <2>2, <2>4, <3>1 DEF Taken
    <3>2. CASE ~Comp
      BY <1>5, <2>1, <2>3, <2>4, <3>2 DEF Taken
    <3> QED BY <3>1, <3>2
  <2>5. Released(b, J.x) /\ (~Comp /\ K.quit => J.quit /\ (Vpp = "off" /\ J.poll => K.poll))
    BY <1>2, <1>3, <1>7
  <2> QED BY <1>1, <1>2, <1>3, <1>4, <1>5, <2>4, <2>5, SourceReleasesOrder DEF J
<1> QED BY <1>6, <1>7

\* The thread passes the front of its buffer on.
LEMMA SourceTakesOrder ==
    ASSUME OrderInv, DataInv, OneRelease, NEW e \in Sources, NEW K, src' = [src EXCEPT ![e] = K],
           sink' = sink, dec' = dec, stop' = stop, lau' = lau, buf' = buf,
           used' = [used EXCEPT ![Cur(e)] = Append(@, surf[src[e].x.surf].frame)],
           Reading(src[e]), Open(src[e]), ~Done(src[e]), Done(K), K.cur = src[e].cur, ~K.quit,
           SourceOrder(e, K)
    PROVE  OrderInv'
<1> DEFINE J == src[e]
           c == Cur(e)
           x == J.x
           f == surf[x.surf].frame
           l == buf[c].list
           first == lau.round = 0
<1>1. /\ src'[e] = K /\ \A a \in Sources \ {e} : src'[a] = src[a]
      /\ c \in Buffers /\ c = Path(e)[J.cur] /\ AtFront(buf[c], x) /\ J.cur \in 1 .. Len(Path(e))
  BY SourceFacts DEF OneRelease
<1>2. Reader(c) = e
  BY <1>1, BufferFacts
<1>3. l \in Seq(Items) /\ l # << >> /\ l[1] = x /\ Real(x) /\ f = x.frame
  <2>1. l \in Seq(Items) /\ l # << >> /\ Head(l) = x /\ Real(x)
    BY <1>1, OrderFacts DEF AtFront, NoSurface, Front, Reading, Real
  <2> HIDE DEF l
  <2>2. l[1] = x /\ 1 \in 1 .. Len(l)
    BY <2>1, TailLemma
  <2> HIDE DEF x, c
  <2>3. f = x.frame
    BY <1>1, <2>1, <2>2 DEF DataInv, Shared, Intact, Real, l
  <2> QED BY <2>1, <2>2, <2>3
<1> HIDE DEF c, f, x
<1>4. /\ DOMAIN used = Buffers /\ DOMAIN used' = Buffers
      /\ used'[c] = Append(used[c], f) /\ \A b \in Buffers \ {c} : used'[b] = used[b]
  <2>1. DOMAIN used = Buffers /\ used' = [used EXCEPT ![c] = Append(used[c], f)]
    BY DEF OrderInv, c, f, x
  <2> QED BY <1>1, <2>1
<1>5. /\ Taken(e, J, c) = 0 /\ Taken(e, K, c) = 1
      /\ \A b \in Buffers \ {c} : Taken(e, J, b) = 0 /\ Taken(e, K, b) = 0
  BY <1>1 DEF Taken
<1>6. ASSUME NEW b \in Buffers, Reader(b) = e
      PROVE  /\ OwnSurfaces(b, buf'[b].list)
             /\ b \notin Overlay =>
                  BufferOrder(b, buf'[b], used'[b], sink[Feeder(b)], Output(Feeder(b)), stop[Feeder(b)],
                              K, lau.round = 0)
  <2> DEFINE d == Feeder(b)
             D == sink[d]
             o == Output(d)
             st == stop[d]
             u == used[b]
  <2>1. OwnSurfaces(b, buf'[b].list)
    BY DEF OrderInv
  <2>2. ASSUME b \notin Overlay
        PROVE  BufferOrder(b, buf[b], used'[b], D, o, st, K, first)
    <3>1. BufferOrder(b, buf[b], u, D, o, st, J, first)
      BY <1>6, <2>2 DEF OrderInv, Ordered
    <3>2. o \in Int /\ Coming(D, b) \in {0, 1}
      BY BufferFacts, OrderFacts, ComingLemma
    <3>3. u = used[b] /\ Open(J) /\ J.cur = src[e].cur
      OBVIOUS
    <3> HIDE DEF d, D, o, st, u, first, J
    <3>4. CASE b # c
      BY <1>4, <1>5, <1>6, <3>1, <3>3, <3>4, BufferStays
    <3>5. CASE b = c
      <4> DEFINE k == Coming(D, b)
                 g == o - k
      <4>1. Numbered(l, u, g, 0, first) /\ buf[b].allowed /\ Delivered(u, o, first)
        BY <1>5, <1>6, <3>1, <3>3, <3>5 DEF BufferOrder
      <4> HIDE DEF k
      <4>2. g \in Int /\ g <= o
        <5>1. k \in {0, 1}
          BY <3>2 DEF k
        <5> QED BY <3>2, <5>1
      <4> HIDE DEF g, l
      <4>3. u \in Seq(Int) /\ Real(l[1]) /\ f = l[1].frame
        BY <1>3, <4>1 DEF Delivered
      <4>4. /\ f \in Int /\ f > Newest(u) /\ f <= g /\ (first => f = Len(u) + 1)
            /\ Numbered(l, Append(u, f), g, 1, first)
        BY <1>3, <4>1, <4>2, <4>3, NumberedTake
      <4>5. Delivered(Append(u, f), o, first)
        <5>1. f <= o
          BY <3>2, <4>2, <4>4
        <5> QED BY <3>2, <4>1, <4>4, <5>1, DeliveredTake
      <4>6. used'[b] = Append(u, f) /\ Taken(Reader(b), K, b) = 1
        BY <1>4, <1>5, <1>6, <3>3, <3>5
      <4>7. Open(K) => Numbered(buf[b].list, used'[b], o - Coming(D, b), Taken(Reader(b), K, b), first)
        BY <3>5, <4>4, <4>6 DEF l, g, k
      <4> QED BY <3>1, <4>1, <4>5, <4>6, <4>7 DEF BufferOrder
    <3> QED BY <3>4, <3>5
  <2> QED BY <2>1, <2>2
<1>7. \A b \in Buffers : Reader(b) # e => buf'[b] = buf[b] /\ used'[b] = used[b]
  BY <1>2, <1>4
<1> QED BY <1>1, <1>4, <1>6, <1>7, SourceOrderStep

\* VPP reads the frame.
LEMMA ProcessesOrder ==
    ASSUME OrderInv, DataInv, OneRelease, NEW e \in Sources, VppWantsMore(e) \/ VppOutput(e)
    PROVE  OrderInv'
<1> DEFINE J == src[e]
<1>1. /\ DOMAIN J = SrcFields /\ SrcData(e, J) /\ SourceOrder(e, J) /\ DOMAIN src = Sources
      /\ (~Comp => ~(J.cur < Len(Path(e))))
  <2>1. DOMAIN J = SrcFields /\ SrcData(e, J) /\ SourceOrder(e, J) /\ DOMAIN src = Sources
    BY SourceFacts DEF OrderInv
  <2>2. ASSUME ~Comp PROVE ~(J.cur < Len(Path(e)))
    <3>1. J.cur = 1 /\ Len(Path(e)) = 1
      BY <2>2, SourceFacts
    <3> QED BY <3>1
  <2> QED BY <2>1, <2>2
<1>2. /\ sink' = sink /\ dec' = dec /\ stop' = stop /\ buf' = buf /\ lau' = lau
      /\ J.pc = "vpp" /\ Real(J.x)
      /\ used' = IF J.read THEN [used EXCEPT ![Cur(e)] = Append(@, surf[J.x.surf].frame)] ELSE used
  BY DEF VppWantsMore, VppOutput, VppReads, Real
<1>3. Vpp # "off" /\ ~J.quit /\ Reading(J) /\ Open(J) /\ (Comp => J.read)
  BY <1>1, <1>2 DEF SrcData, SourceOrder, Reading, Open, Real, OneRelease
<1>4. ASSUME NEW K, src' = [src EXCEPT ![e] = K], K.pc \in {"more", "composed", "enc"},
             K.pc \in {"more", "composed"} <=> Comp, K.pc = "composed" => K.cur = Len(Path(e)),
             K.x = J.x, K.cur = J.cur, K.quit = J.quit, K.poll = J.poll, K.num = J.num
      PROVE  OrderInv'
  <2>1. SourceOrder(e, K) /\ Done(K)
    BY <1>1, <1>2, <1>3, <1>4 DEF SourceOrder, Done
  <2>2. CASE J.read
    <3>1. ~Done(J)
      BY <1>2, <2>2 DEF Done
    <3> HIDE DEF J
    <3> QED BY <1>2, <1>3, <1>4, <2>1, <2>2, <3>1, SourceTakesOrder DEF J
  <2>3. CASE ~J.read
    <3>1. Done(J)
      BY <1>2, <1>3, <2>3 DEF Done
    <3> HIDE DEF J
    <3> QED BY <1>2, <1>3, <1>4, <2>1, <2>3, <3>1, SourceJumpsOrder DEF J
  <2> QED BY <2>2, <2>3
<1>5. CASE VppWantsMore(e)
  <2> DEFINE K == [J EXCEPT !.pc = "more"]
  <2>1. src' = [src EXCEPT ![e] = K] /\ J.cur < Len(Path(e))
    BY <1>5 DEF VppWantsMore
  <2>2. /\ K.pc = "more" /\ K.x = J.x /\ K.cur = J.cur /\ K.quit = J.quit
        /\ K.poll = J.poll /\ K.num = J.num
    BY <1>1 DEF SrcFields
  <2>3. Comp
    BY <1>1, <2>1
  <2> HIDE DEF K, J
  <2> QED BY <1>4, <2>1, <2>2, <2>3
<1>6. CASE VppOutput(e)
  <2> DEFINE r == ~(Vpp = "double" /\ J.read)
             p == IF Comp THEN "composed" ELSE "enc"
             K == [J EXCEPT !.pc = p, !.vs = TRUE, !.read = r]
  <2>1. src' = [src EXCEPT ![e] = K] /\ (~J.read \/ J.cur = Len(Path(e)))
    BY <1>1, <1>6 DEF VppOutput
  <2>2. /\ K.pc = p /\ K.x = J.x /\ K.cur = J.cur /\ K.quit = J.quit
        /\ K.poll = J.poll /\ K.num = J.num
    BY <1>1 DEF SrcFields
  <2>3. p \in {"composed", "enc"} /\ (p = "composed" <=> Comp)
    OBVIOUS
  <2> HIDE DEF K, J, p
  <2>4. K.pc \in {"more", "composed"} <=> Comp
    BY <2>2, <2>3
  <2>5. K.pc = "composed" => K.cur = Len(Path(e))
    BY <1>3, <2>1, <2>2, <2>3
  <2> QED BY <1>4, <2>1, <2>2, <2>3, <2>4, <2>5
<1> QED BY <1>5, <1>6

\* The frame, or a null frame, is passed to the encoder.
LEMMA EncodesOrder ==
    ASSUME OrderInv, DataInv, OneRelease, NEW e \in Sources, EncodeFrame(e)
    PROVE  OrderInv'
<1> DEFINE J == src[e]
<1>1. /\ DOMAIN J = SrcFields /\ SrcData(e, J) /\ SourceOrder(e, J) /\ DOMAIN src = Sources
  BY SourceFacts DEF OrderInv
<1>2. /\ sink' = sink /\ dec' = dec /\ stop' = stop /\ buf' = buf /\ lau' = lau /\ J.pc = "enc"
  BY DEF EncodeFrame
<1>3. CASE J.bs < AsyncDepth
  <2>1. PICK real \in {J.vs /\ ~J.poll} :
           EncodeOneFrame(e, real, J.num + IF real THEN 1 ELSE 0)
    BY <1>3, Zenon DEF EncodeFrame
  <2> DEFINE n == J.num + IF real THEN 1 ELSE 0
             r == EncodeResult(e, real)
             K == [J EXCEPT !.pc = "rel", !.vs = real, !.num = n, !.poll = (n >= MaxFrames),
                            !.bs = @ + 1, !.r = r]
  <2>2. /\ src' = [src EXCEPT ![e] = K]
        /\ used' = IF real /\ Vpp = "off"
                   THEN [used EXCEPT ![Cur(e)] = Append(@, surf[J.x.surf].frame)] ELSE used
    BY <1>1, <2>1 DEF EncodeOneFrame
  <2>3. /\ K.pc = "rel" /\ K.x = J.x /\ K.cur = J.cur /\ K.read = J.read /\ K.quit = J.quit
        /\ K.num = n /\ (K.poll <=> n >= MaxFrames) /\ K.r = r
    BY <1>1 DEF SrcFields
  <2>4. r \in {"more", "none"} /\ (real <=> J.vs /\ ~J.poll)
    BY DEF EncodeResult
  <2>5. J.num \in Nat /\ n \in Nat /\ n >= J.num /\ (J.poll => J.num >= MaxFrames) /\ MaxFrames \in Nat
    BY <1>1, ShapeAssumption DEF SourceOrder
  <2> HIDE DEF K, J, n, r
  <2>6. J.poll => K.poll
    BY <2>3, <2>5
  <2>7. SourceOrder(e, K)
    BY <1>1, <1>2, <2>3, <2>5 DEF SourceOrder
  <2>8. CASE real /\ Vpp = "off"
    <3>1. Real(J.x) /\ ~Comp /\ J.read /\ ~J.quit
      BY <1>1, <1>2, <2>4, <2>8, ShapeAssumption DEF SrcData, SourceOrder, Real
    <3>2. Reading(J) /\ Open(J) /\ ~Done(J)
      BY <1>2, <2>4, <2>8, <3>1 DEF Reading, Real, Open, Done
    <3>3. Done(K) /\ ~K.quit
      BY <2>3, <2>4, <3>1 DEF Done
    <3> QED BY <1>2, <2>2, <2>3, <2>7, <2>8, <3>2, <3>3, SourceTakesOrder DEF J
  <2>9. CASE ~(real /\ Vpp = "off")
    <3>1. ASSUME Open(K) PROVE Open(J) /\ (Done(K) <=> Done(J))
      <4>1. Vpp # "off"
        BY <1>1, <1>2, <2>3, <2>4, <2>6, <2>9, <3>1 DEF Open, SourceOrder
      <4> QED BY <1>2, <2>3, <3>1, <4>1 DEF Open, Done
    <3> QED BY <1>2, <2>2, <2>3, <2>6, <2>7, <2>9, <3>1, SourceJumpsOrder DEF J
  <2> QED BY <2>8, <2>9
<1>4. CASE ~(J.bs < AsyncDepth)
  <2> DEFINE K == [J EXCEPT !.pc = "done"]
  <2>1. src' = [src EXCEPT ![e] = K] /\ used' = used
    BY <1>4 DEF EncodeFrame
  <2>2. K.pc = "done" /\ K.x = J.x /\ K.quit = J.quit /\ K.poll = J.poll /\ K.num = J.num
    BY <1>1 DEF SrcFields
  <2> HIDE DEF K
  <2> QED BY <1>2, <2>1, <2>2, SourceLeavesOrder
<1> QED BY <1>3, <1>4

-----------------------------------------------------------------------------
(***************************************************************************)
(* The launcher                                                            *)
(***************************************************************************)

\* Sessions are stopped, and no frame moves.
LEMMA StopsOrder ==
    ASSUME OrderInv, DataInv, buf' = buf, sink' = sink, src' = src, dec' = dec, used' = used,
           DOMAIN lau' = DOMAIN lau, lau'.round = lau.round,
           \A d \in Sinks : stop[d] => stop'[d]
    PROVE  OrderInv'
<1>1. \A d \in Sinks : Output(d)' = Output(d)
  BY DEF Output
<1>2. ASSUME NEW d \in Sinks PROVE SinkOrder(d, sink'[d], Output(d)', stop'[d])
  BY <1>1 DEF OrderInv, SinkOrder
<1>3. ASSUME NEW b \in Buffers \ Overlay PROVE Ordered(b)'
  <2> DEFINE d == Feeder(b)
             J == sink[d]
             e == Reader(b)
  <2>1. Ordered(b) /\ Feeder(b)' = d /\ Reader(b)' = e
    BY DEF OrderInv, Feeder, Reader
  <2>2. d \in Sinks
    BY BufferFacts
  <2> HIDE DEF d, e
  <2>3. BufferOrder(b, buf[b], used[b], J, Output(d), stop[d], src[e], lau.round = 0)
    BY <2>1 DEF Ordered, d, e
  <2>4. Marked(J, stop[d]) => Marked(J, stop'[d])
    BY <2>2 DEF Marked
  <2>5. BufferOrder(b, buf[b], used[b], J, Output(d), stop'[d], src[e], lau.round = 0)
    BY <2>3, <2>4, BufferStays
  <2> QED BY <1>1, <2>1, <2>2, <2>5 DEF Ordered
<1>4. /\ DOMAIN used' = Buffers /\ DOMAIN lau' = {"pc", "seen", "todo", "round"} /\ lau'.round \in Nat
      /\ \A e \in Sources : SourceOrder(e, src'[e])
      /\ \A b \in Buffers : OwnSurfaces(b, buf'[b].list)
  BY DEF OrderInv
<1> QED BY <1>2, <1>3, <1>4 DEF OrderInv

\* A recovery: the frames that were on their way are lost, and the numbers go
\* on where the decoder is.
LEMMA RecoversOrder ==
    ASSUME OrderInv, DataInv, Recover
    PROVE  OrderInv'
<1>1. /\ used' = used /\ stop' = stop
      /\ lau' = [pc |-> "poll", seen |-> {}, todo |-> {}, round |-> lau.round + 1]
      /\ \A b \in Buffers : buf'[b] = ReleaseSurfaceAll(buf[b])
      /\ \A d \in Sinks : sink'[d] = InitSink(sink[d].pos, sink[d].n, sink[d].num) /\ dec'[d] = InitDec
      /\ \A e \in Sources : src'[e] = InitSrc(src[e].num)
  BY DEF Recover
<1>2. /\ DOMAIN lau' = {"pc", "seen", "todo", "round"} /\ lau'.round \in Nat /\ lau'.round # 0
  <2>1. lau'.round = lau.round + 1 /\ lau.round \in Nat
    BY <1>1 DEF OrderInv
  <2>2. DOMAIN lau' = {"pc", "seen", "todo", "round"}
    BY <1>1
  <2> QED BY <2>1, <2>2
<1>3. \A b \in Buffers : buf'[b].list = << >> /\ buf'[b].allowed = TRUE
  <2>1. buf \in [Buffers -> BufType]
    BY DataFacts
  <2> QED BY <1>1, <2>1 DEF ReleaseSurfaceAll, BufType
<1>4. ASSUME NEW d \in Sinks
      PROVE  /\ sink'[d].pc = "start" /\ sink'[d].todo = << >> /\ ~Adding(sink'[d])
             /\ Output(d)' = sink[d].n /\ sink[d].n \in Int /\ Output(d) <= sink[d].n
             /\ Output(d) \in Int
  <2>1. sink'[d].pc = "start" /\ sink'[d].todo = << >> /\ sink'[d].n = sink[d].n
    <3> DEFINE K == InitSink(sink[d].pos, sink[d].n, sink[d].num)
    <3>1. sink'[d] = K
      BY <1>1
    <3>2. K.pc = "start" /\ K.todo = << >> /\ K.n = sink[d].n
      BY DEF InitSink
    <3> HIDE DEF K
    <3> QED BY <3>1, <3>2
  <2>2. dec'[d].pend = << >> /\ Len(<< >>) = 0
    BY <1>1 DEF InitDec
  <2>3. sink[d].n \in Int /\ Len(dec[d].pend) \in Nat
    BY OrderFacts
  <2>4. Output(d)' = sink[d].n
    BY <2>1, <2>2, <2>3 DEF Output
  <2>5. Output(d) <= sink[d].n /\ Output(d) \in Int
    BY <2>3 DEF Output
  <2> QED BY <2>1, <2>3, <2>4, <2>5 DEF Adding
<1>5. ASSUME NEW d \in Sinks PROVE SinkOrder(d, sink'[d], Output(d)', stop'[d])
  BY <1>4, EmptyLists DEF SinkOrder
<1>6. ASSUME NEW e \in Sources
      PROVE  SourceOrder(e, src'[e]) /\ ~Done(src'[e]) /\ ~src'[e].quit
  <2>1. /\ src'[e].pc = "get" /\ src'[e].quit = FALSE /\ src'[e].read = TRUE
        /\ src'[e].poll = FALSE /\ src'[e].num = src[e].num
    <3> DEFINE K == InitSrc(src[e].num)
    <3>1. src'[e] = K
      BY <1>1
    <3>2. /\ K.pc = "get" /\ K.quit = FALSE /\ K.read = TRUE /\ K.poll = FALSE
          /\ K.num = src[e].num
      BY DEF InitSrc
    <3> HIDE DEF K
    <3> QED BY <3>1, <3>2
  <2>2. src[e].num \in Nat
    BY DEF OrderInv, SourceOrder
  <2> QED BY <2>1, <2>2 DEF SourceOrder, Done
<1>7. ASSUME NEW b \in Buffers \ Overlay PROVE Ordered(b)'
  <2> DEFINE d == Feeder(b)
             e == Reader(b)
             u == used[b]
             n == sink[d].n
  <2>1. Feeder(b)' = d /\ Reader(b)' = e /\ d \in Sinks /\ e \in Sources
    BY BufferFacts DEF Feeder, Reader
  <2>2. Delivered(u, Output(d), lau.round = 0)
    BY DEF OrderInv, Ordered, BufferOrder
  <2> HIDE DEF d, e, u
  <2>3. n \in Int /\ Output(d)' = n /\ Output(d) <= n /\ Output(d) \in Int /\ ~Adding(sink'[d])
    BY <1>4, <2>1
  <2> HIDE DEF n
  <2>4. Delivered(u, n, FALSE)
    BY <2>2, <2>3, DeliveredMore
  <2>5. Numbered(<< >>, u, n, 0, FALSE)
    BY <2>3, <2>4, NumberedEmpty DEF Delivered
  <2>6. Coming(sink'[d], b) = 0 /\ Taken(e, src'[e], b) = 0 /\ n - 0 = n
    BY <1>6, <2>1, <2>3, ComingLemma DEF Taken
  <2>7. AllReal(<< >>, Len(<< >>))
    BY DEF AllReal
  <2>8. e = Reader(b) /\ ~src'[e].quit /\ buf'[b].list = << >> /\ buf'[b].allowed = TRUE
    BY <1>3, <1>6, <2>1 DEF e
  <2>9. BufferOrder(b, buf'[b], u, sink'[d], n, stop'[d], src'[e], FALSE)
    BY <2>4, <2>5, <2>6, <2>7, <2>8 DEF BufferOrder
  <2>10. used'[b] = u /\ (lau'.round = 0) = FALSE
    BY <1>1, <1>2 DEF u
  <2> QED BY <2>1, <2>3, <2>9, <2>10 DEF Ordered
<1>8. \A b \in Buffers : OwnSurfaces(b, buf'[b].list)
  BY <1>3 DEF OwnSurfaces
<1>9. DOMAIN used' = Buffers
  BY <1>1 DEF OrderInv
<1> QED BY <1>2, <1>5, <1>6, <1>7, <1>8, <1>9 DEF OrderInv

LEMMA LauncherOrder ==
    ASSUME OrderInv, DataInv, Launcher, ~Recover
    PROVE  OrderInv'
<1>1. /\ sink' = sink /\ src' = src /\ buf' = buf /\ dec' = dec /\ used' = used
      /\ stop' = stop \/ \E x \in Sessions : stop' = [stop EXCEPT ![x] = TRUE]
  BY DEF Launcher, Poll, StopSession, StopOverlay, Finish
<1>2. DOMAIN lau' = DOMAIN lau /\ lau'.round = lau.round
  <2>1. DOMAIN lau = {"pc", "seen", "todo", "round"}
    BY DEF OrderInv
  <2> QED BY <2>1 DEF Launcher, Poll, StopSession, StopOverlay, Finish
<1>3. stop \in [Sessions -> BOOLEAN] /\ \A d \in Sinks : d \in Sessions
  BY DEF DataInv, Sessions
<1>4. \A d \in Sinks : stop[d] => stop'[d]
  BY <1>1, <1>3
<1> QED BY <1>1, <1>2, <1>4, StopsOrder

-----------------------------------------------------------------------------
(***************************************************************************)
(* All steps                                                               *)
(***************************************************************************)

LEMMA SinkThreadOrder ==
    ASSUME OrderInv, DataInv, NEW d \in Sinks,
           SinkThread(d) \/ DecoderUnlocks(d) \/ DecodeFails(d) \/ GetFreeSurfaceTimeout(d)
    PROVE  OrderInv'
  BY SinkRecordsOrder, DecodesOneOrder, LastFramesOrder, AddsOrder, SignalsOrder, UnlocksOrder
  DEF SinkThread

LEMMA SourceThreadOrder ==
    ASSUME OrderInv, DataInv, OneRelease, NEW e \in Sources,
           \/ SourceThread(e) \/ RuntimeUnlocks(e) \/ SyncFrameFails(e) \/ VppFails(e)
           \/ EncodeFails(e) \/ SliceExpires(e)
    PROVE  OrderInv'
<1>1. CASE RuntimeUnlocks(e)
  BY <1>1, StopsOrder DEF RuntimeUnlocks
<1> QED BY <1>1, GetsOrder, SourceRecordsOrder, WaitsOrder, DrainsOrder, ReleasesInputOrder,
           ReleasesFrameOrder, ProcessesOrder, EncodesOrder DEF SourceThread

LEMMA InitOrder == Init => OrderInv
<1> SUFFICES ASSUME Init PROVE OrderInv
  OBVIOUS
<1>1. /\ used = [b \in Buffers |-> << >>] /\ buf = [b \in Buffers |-> Empty]
      /\ lau = [pc |-> "poll", seen |-> {}, todo |-> {}, round |-> 0]
      /\ sink = [d \in Sinks |-> InitSink(0, 0, 0)] /\ dec = [d \in Sinks |-> InitDec]
      /\ src = [e \in Sources |-> InitSrc(0)]
  BY DEF Init
<1>2. ASSUME NEW d \in Sinks
      PROVE  /\ sink[d].todo = << >> /\ ~Adding(sink[d]) /\ Output(d) = 0
  <2>1. sink[d].pc = "start" /\ sink[d].todo = << >> /\ sink[d].n = 0
    BY <1>1 DEF InitSink
  <2>2. dec[d].pend = << >> /\ Len(<< >>) = 0
    BY <1>1 DEF InitDec
  <2>3. Len(dec[d].pend) = 0
    BY <2>2
  <2>4. sink[d].n - Len(dec[d].pend) = 0
    BY <2>1, <2>3
  <2> QED BY <2>1, <2>4 DEF Adding, Output
<1>3. ASSUME NEW d \in Sinks PROVE SinkOrder(d, sink[d], Output(d), stop[d])
  BY <1>2, EmptyLists DEF SinkOrder
<1>4. ASSUME NEW e \in Sources PROVE SourceOrder(e, src[e]) /\ ~Done(src[e]) /\ ~src[e].quit
  <2>1. /\ src[e].pc = "get" /\ src[e].quit = FALSE /\ src[e].read = TRUE
        /\ src[e].poll = FALSE /\ src[e].num = 0
    BY <1>1 DEF InitSrc
  <2> QED BY <2>1 DEF SourceOrder, Done
<1>5. ASSUME NEW b \in Buffers
      PROVE  /\ OwnSurfaces(b, buf[b].list)
             /\ BufferOrder(b, buf[b], used[b], sink[Feeder(b)], Output(Feeder(b)), stop[Feeder(b)],
                            src[Reader(b)], lau.round = 0)
  <2> DEFINE d == Feeder(b)
             e == Reader(b)
             u == used[b]
             first == lau.round = 0
  <2>1. d \in Sinks /\ e \in Sources /\ u = << >> /\ << >> \in Seq(Int) /\ Len(<< >>) = 0
    BY <1>1, BufferFacts
  <2>2. buf[b].list = << >> /\ buf[b].allowed = TRUE /\ Output(d) = 0
    BY <1>1, <1>2, <2>1, EmptyType
  <2> HIDE DEF d, e, u, first
  <2>3. Delivered(u, 0, first) /\ Newest(u) = 0
    BY <2>1 DEF Delivered, Newest
  <2>4. Numbered(<< >>, u, 0, 0, first)
    <3>1. u \in Seq(Int) /\ Newest(u) <= 0 /\ 0 \in Int /\ (first => Len(u) = 0)
      BY <2>1, <2>3
    <3> QED BY <3>1, NumberedEmpty
  <2>5. Coming(sink[d], b) = 0 /\ Taken(e, src[e], b) = 0 /\ 0 - 0 = 0 /\ ~src[e].quit
    BY <1>2, <1>4, <2>1, ComingLemma DEF Taken
  <2>6. AllReal(<< >>, Len(<< >>)) /\ OwnSurfaces(b, << >>)
    BY DEF AllReal, OwnSurfaces
  <2>7. e = Reader(b)
    BY DEF e
  <2>8. BufferOrder(b, buf[b], u, sink[d], 0, stop[d], src[e], first)
    BY <2>2, <2>3, <2>4, <2>5, <2>6, <2>7 DEF BufferOrder
  <2> QED BY <2>2, <2>6, <2>8 DEF d, e, u, first
<1>6. DOMAIN used = Buffers /\ DOMAIN lau = {"pc", "seen", "todo", "round"} /\ lau.round = 0
  BY <1>1
<1> QED BY <1>3, <1>4, <1>5, <1>6 DEF OrderInv, Ordered

LEMMA NextOrder == OneRelease /\ DataInv /\ OrderInv /\ [Next]_vars => OrderInv'
<1> SUFFICES ASSUME OneRelease, DataInv, OrderInv, [Next]_vars PROVE OrderInv'
  OBVIOUS
<1>2. CASE \E d \in Sinks : \/ SinkThread(d) \/ DecoderUnlocks(d) \/ DecodeFails(d)
                            \/ GetFreeSurfaceTimeout(d)
  BY <1>2, SinkThreadOrder
<1>3. CASE \E e \in Sources : \/ SourceThread(e) \/ RuntimeUnlocks(e) \/ SyncFrameFails(e)
                              \/ VppFails(e) \/ EncodeFails(e) \/ SliceExpires(e)
  BY <1>3, SourceThreadOrder
<1>4. CASE Launcher
  BY <1>4, LauncherOrder, RecoversOrder
<1>5. CASE Finished \/ UNCHANGED vars
  BY <1>5, StopsOrder DEF Finished, vars
<1> QED BY <1>2, <1>3, <1>4, <1>5 DEF Next, Progress, Timeout, Failure

LEMMA OrderAlways == OneRelease => (Spec => []OrderInv)
<1> SUFFICES ASSUME OneRelease PROVE Spec => []OrderInv
  OBVIOUS
<1>1. DataInv /\ OrderInv /\ [Next]_vars => OrderInv'
  BY NextOrder
<1> QED BY <1>1, InitOrder, DataAlways, PTL DEF Spec

-----------------------------------------------------------------------------
(***************************************************************************)
(* Theorems                                                                *)
(***************************************************************************)

\* Every buffer hands the frames of its sink to its source in decoding order
\* and none twice, whatever fails or is started again; and until the first
\* recovery it leaves none out.  A composition with two outputs per input, or
\* of a single input, releases an input twice, and is left out.
THEOREM InOrderTheorem == OneRelease => (Spec => []InOrder)
<1> SUFFICES ASSUME OneRelease PROVE Spec => []InOrder
  OBVIOUS
<1>1. OrderInv => InOrder
  BY DEF OrderInv, Ordered, BufferOrder, Delivered, InOrder
<1>2. Spec => []OrderInv
  BY OrderAlways
<1> QED BY <1>1, <1>2, PTL
===============================================================================
