------------------------ MODULE DecodePipeline_proof ------------------------
(***************************************************************************)
(* Theorems about the buffering of the decode sample, for any number of     *)
(* surfaces, any delay of the decoder, any input and any failures and       *)
(* resets: no surface is lost or given out twice, render_lock is right, no  *)
(* frame is overwritten before it is delivered, and frames are delivered in *)
(* order.                                                                  *)
(*                                                                         *)
(* None of the four is inductive.  A surface may be decoded into because it *)
(* is on no list of outputs, so they need one account of where every        *)
(* surface and every output is (PoolInv, FlightInv, KeptInv); the order of  *)
(* the frames needs the number of every frame between the decoder and the   *)
(* screen, which OrderInv gives by counting back from the last frame; and   *)
(* the two threads need what each may rely on while the other is in the     *)
(* middle of something (ControlInv).                                       *)
(***************************************************************************)
EXTENDS DecodePipeline, FiniteSetTheorems, SequenceTheorems, WellFoundedInduction, TLAPS

Surfaces == Frames \cup VppFrames
Outputs == [surf : Surfaces, frame : Nat]

Pcs ==
    {"top", "surf", "sync", "post", "wait", "decode", "final", "asleep", "end", "join", "done", "crash"}
Sts == {"ok", "more", "moresurf", "notfound", "unknown", "error", "lost", "working"}
Calls == {"stuck", "busy", "drain"}

Locals ==
    [pc : Pcs, sts : Sts, bs : BOOLEAN, has : BOOLEAN, pos : Nat, n : Nat,
     cur : Surfaces \cup {None}, vcur : Surfaces \cup {None},
     curOut : Outputs \cup {None}, stale : BOOLEAN, ret : Calls,
     incompat : BOOLEAN, prev : Nat \cup {None}, res : Sts \cup {"incompat"}]

Pool ==
    [free : Seq(Surfaces), used : Seq(Surfaces), vfree : Seq(Surfaces), vused : Seq(Surfaces),
     out : Seq(Outputs), count : Int, deliv : Seq(Outputs), wild : BOOLEAN]
Comm == [ev : BOOLEAN, sem : Nat, err : BOOLEAN, stop : BOOLEAN]
Dlv == [pc : {"loop", "off", "show", "count", "signal"}, x : Outputs \cup {None}]
Cnt == [synced : Nat, output : Nat]

TypeInv ==
    /\ mode \in [work : Modes, vpp : BOOLEAN]
    /\ pool \in Pool
    /\ surf \in [Surfaces -> [locked : BOOLEAN, render : Int, frame : Nat]]
    /\ main \in Locals
    /\ dlv \in Dlv
    /\ comm \in Comm
    /\ cnt \in Cnt
    /\ dec \in Seq(Frames)
    /\ shown \in Seq(Nat)
    /\ restarts \in Nat

-----------------------------------------------------------------------------
(***************************************************************************)
(* Where the surfaces are                                                  *)
(***************************************************************************)

Distinct(l) == \A i, j \in 1 .. Len(l) : l[i] = l[j] => i = j

\* The surfaces in all are on the two lists and the current one, each once.
Parts(all, free, used, cur) ==
    /\ free \in Seq(all) /\ used \in Seq(all) /\ cur \in all \cup {None}
    /\ Distinct(free) /\ Distinct(used)
    /\ \A s \in Elems(free) : s \notin Elems(used)
    /\ cur \notin Elems(free) /\ cur \notin Elems(used)
    /\ \A s \in all : s = cur \/ s \in Elems(free) \/ s \in Elems(used)

\* Nobody needs the surface s.
Idle(s) == ~surf[s].locked /\ surf[s].render = 0

VppAll == IF mode.vpp THEN VppFrames ELSE {}

PoolInv ==
    /\ Parts(Frames, pool.free, pool.used, main.cur)
    /\ Parts(VppAll, pool.vfree, pool.vused, main.vcur)
    /\ \A s \in Elems(pool.free) \cup Elems(pool.vfree) \cup ({main.cur, main.vcur} \ {None}) : Idle(s)

\* The frames that the decoder keeps are in surfaces it has locked.
KeptInv ==
    /\ Distinct(dec)
    /\ \A i \in 1 .. Len(dec) :
         dec[i] \in Elems(pool.used) /\ surf[dec[i]].locked /\ surf[dec[i]].render = 0

-----------------------------------------------------------------------------
(***************************************************************************)
(* Where the outputs are                                                   *)
(***************************************************************************)

Has(l, s) == \E i \in 1 .. Len(l) : l[i].surf = s
OneEach(l) == \A i, j \in 1 .. Len(l) : l[i].surf = l[j].surf => i = j

\* The current output, unless it is left over from before a reset.
Current == IF main.stale THEN None ELSE main.curOut

\* A surface is the output of at most one frame that is not yet delivered.
FlightInv ==
    /\ OneEach(pool.out) /\ OneEach(pool.deliv)
    /\ \A s \in Surfaces :
         /\ surf[s].render = (IF Has(pool.out, s) THEN 1 ELSE 0) + (IF Has(pool.deliv, s) THEN 1 ELSE 0)
                             + Holds(dlv.x, s) + Holds(Current, s)
         /\ surf[s].render <= 1

\* FrameIntact, place by place.
IntactInv ==
    /\ \A i \in 1 .. Len(pool.out) : surf[pool.out[i].surf].frame = pool.out[i].frame
    /\ \A i \in 1 .. Len(pool.deliv) : surf[pool.deliv[i].surf].frame = pool.deliv[i].frame
    /\ \A x \in {dlv.x, Current} \ {None} : surf[x.surf].frame = x.frame

-----------------------------------------------------------------------------
(***************************************************************************)
(* Where the threads are                                                   *)
(***************************************************************************)

ControlInv ==
    /\ main.pc = "decode" \/ (main.pc \in {"sync", "post"} /\ main.ret = "busy")
         => main.cur # None /\ (mode.vpp => main.vcur # None)
    /\ mode.work # "render" => dlv.pc = "off" /\ pool.deliv = << >> /\ main.pc # "post" /\ ~comm.err
    /\ dlv.x # None <=> dlv.pc = "show"
    /\ dlv.pc = "show" => ~comm.err
    /\ ~comm.stop => comm.sem + (IF main.pc = "post" THEN 1 ELSE 0) <= Len(pool.deliv)
    /\ main.sts = "unknown" =>
         /\ mode.work = "file"
         /\ main.pc \in {"top", "final", "asleep", "end", "join", "done", "crash"}

-----------------------------------------------------------------------------
(***************************************************************************)
(* The numbers of the frames                                               *)
(***************************************************************************)

One(x) == IF x = None THEN 0 ELSE 1

\* The number of the last frame that was delivered, or failed to be; a reset
\* skips frames, so that frame numbers are ahead of the count by D.
Delivered(D) == D + cnt.synced - Len(pool.deliv) - One(dlv.x)

Over == main.pc \in {"end", "join", "done", "crash"}

\* A frame could not be delivered: none is delivered in this run after it.
Failed == comm.err \/ main.sts = "unknown"

Numbered(D) ==
    /\ dlv.x # None => dlv.x.frame = Delivered(D) + 1
    /\ \A i \in 1 .. Len(pool.deliv) :
         pool.deliv[i].frame = D + cnt.synced - Len(pool.deliv) + i
    /\ Current # None => Current.frame = D + cnt.synced + 1
    /\ \A i \in 1 .. Len(pool.out) : pool.out[i].frame = D + cnt.synced + One(Current) + i
    /\ \A i \in 1 .. Len(dec) : surf[dec[i]].frame = main.n - Len(dec) + i
    /\ D + cnt.synced + One(Current) + Len(pool.out) <= main.n - Len(dec)
    /\ ~Over => D + cnt.synced + One(Current) + Len(pool.out) = main.n - Len(dec)
    /\ \A i \in 1 .. Len(shown) :
         shown[i] <= Delivered(D) /\ (i > 1 => shown[i] > shown[i - 1])

\* Until the first reset, the frames that were shown are 1, 2, ...
FirstRun ==
    restarts = 0 =>
        /\ Numbered(0)
        /\ \A i \in 1 .. Len(shown) : shown[i] = i
        /\ ~Failed => Len(shown) = Delivered(0)

OrderInv == FirstRun /\ \E D \in Int : Numbered(D)

StateInv ==
    TypeInv /\ PoolInv /\ KeptInv /\ FlightInv /\ IntactInv /\ ControlInv /\ OrderInv

-----------------------------------------------------------------------------
(***************************************************************************)
(* Lists of surfaces                                                       *)
(***************************************************************************)

LEMMA AppendLemma ==
    ASSUME NEW S, NEW l \in Seq(S), NEW x \in S
    PROVE  /\ Append(l, x) \in Seq(S) /\ Len(Append(l, x)) = Len(l) + 1 /\ Len(l) \in Nat
           /\ \A i \in 1 .. Len(l) : Append(l, x)[i] = l[i]
           /\ Append(l, x)[Len(l) + 1] = x
           /\ Elems(Append(l, x)) = Elems(l) \cup {x}
           /\ Distinct(l) /\ x \notin Elems(l) => Distinct(Append(l, x))
<1>1. /\ Append(l, x) \in Seq(S) /\ Len(Append(l, x)) = Len(l) + 1 /\ Len(l) \in Nat
      /\ \A i \in 1 .. Len(l) : Append(l, x)[i] = l[i]
      /\ Append(l, x)[Len(l) + 1] = x
  OBVIOUS
<1> DEFINE a == Append(l, x)
<1> HIDE DEF a
<1>2. \A e : e \in Elems(a) <=> e \in Elems(l) \/ e = x
  <2>1. ASSUME NEW e \in Elems(a) PROVE e \in Elems(l) \/ e = x
    <3>1. PICK i \in 1 .. Len(a) : e = a[i]
      BY DEF Elems
    <3>2. i \in 1 .. Len(l) \/ i = Len(l) + 1
      BY <1>1 DEF a
    <3> QED BY <1>1, <3>1, <3>2 DEF Elems, a
  <2>2. ASSUME NEW e \in Elems(l) PROVE e \in Elems(a)
    <3>1. PICK i \in 1 .. Len(l) : e = l[i]
      BY DEF Elems
    <3>2. i \in 1 .. Len(a) /\ a[i] = e
      BY <1>1, <3>1 DEF a
    <3> QED BY <3>2 DEF Elems
  <2>3. x \in Elems(a)
    <3>1. Len(l) + 1 \in 1 .. Len(a) /\ a[Len(l) + 1] = x
      BY <1>1 DEF a
    <3> QED BY <3>1 DEF Elems
  <2> QED BY <2>1, <2>2, <2>3
<1>3. ASSUME Distinct(l), x \notin Elems(l) PROVE Distinct(a)
  <2>1. \A i \in 1 .. Len(a) : i \in 1 .. Len(l) \/ i = Len(l) + 1
    BY <1>1 DEF a
  <2>2. \A i \in 1 .. Len(l) : a[i] = l[i] /\ a[i] # x
    BY <1>1, <1>3 DEF a, Elems
  <2>3. a[Len(l) + 1] = x
    BY <1>1 DEF a
  <2>4. ASSUME NEW i \in 1 .. Len(a), NEW j \in 1 .. Len(a), a[i] = a[j] PROVE i = j
    <3>1. CASE i \in 1 .. Len(l) /\ j \in 1 .. Len(l)
      BY <1>3, <2>2, <2>4, <3>1 DEF Distinct
    <3> QED BY <2>1, <2>2, <2>3, <2>4, <3>1
  <2> QED BY <2>4 DEF Distinct
<1> QED BY <1>1, <1>2, <1>3 DEF a

LEMMA TailLemma ==
    ASSUME NEW S, NEW l \in Seq(S), l # << >>
    PROVE  /\ Head(l) = l[1] /\ Head(l) \in S /\ Tail(l) \in Seq(S)
           /\ Len(Tail(l)) = Len(l) - 1 /\ Len(l) \in Nat \ {0}
           /\ \A i \in 1 .. Len(l) - 1 : Tail(l)[i] = l[i + 1]
           /\ Elems(l) = Elems(Tail(l)) \cup {Head(l)}
           /\ Distinct(l) => Distinct(Tail(l)) /\ Head(l) \notin Elems(Tail(l))
<1>1. /\ Head(l) = l[1] /\ Tail(l) \in Seq(S)
      /\ Len(Tail(l)) = Len(l) - 1 /\ Len(l) \in Nat \ {0}
      /\ \A i \in 1 .. Len(l) - 1 : Tail(l)[i] = l[i + 1]
  OBVIOUS
<1>2. Head(l) \in S
  BY <1>1
<1> DEFINE t == Tail(l)
           h == Head(l)
<1> HIDE DEF t, h
<1>3. \A e : e \in Elems(l) <=> e \in Elems(t) \/ e = h
  <2>1. ASSUME NEW e \in Elems(l) PROVE e \in Elems(t) \/ e = h
    <3>1. PICK i \in 1 .. Len(l) : e = l[i]
      BY DEF Elems
    <3>2. CASE i = 1
      BY <1>1, <3>1, <3>2 DEF h
    <3>3. CASE i # 1
      <4>1. i - 1 \in 1 .. Len(t) /\ t[i - 1] = e
        BY <1>1, <3>1, <3>3 DEF t
      <4> QED BY <4>1 DEF Elems
    <3> QED BY <3>2, <3>3
  <2>2. ASSUME NEW e \in Elems(t) PROVE e \in Elems(l)
    <3>1. PICK i \in 1 .. Len(t) : e = t[i]
      BY DEF Elems
    <3>2. i + 1 \in 1 .. Len(l) /\ l[i + 1] = e
      BY <1>1, <3>1 DEF t
    <3> QED BY <3>2 DEF Elems
  <2>3. h \in Elems(l)
    <3>1. 1 \in 1 .. Len(l)
      BY <1>1
    <3> QED BY <1>1, <3>1 DEF Elems, h
  <2> QED BY <2>1, <2>2, <2>3
<1>4. ASSUME Distinct(l) PROVE Distinct(t) /\ h \notin Elems(t)
  <2>1. \A i \in 1 .. Len(t) : i + 1 \in 1 .. Len(l) /\ t[i] = l[i + 1] /\ i + 1 # 1
    BY <1>1 DEF t
  <2>2. 1 \in 1 .. Len(l) /\ h = l[1]
    BY <1>1 DEF h
  <2>3. ASSUME NEW i \in 1 .. Len(t), NEW j \in 1 .. Len(t), t[i] = t[j] PROVE i = j
    <3>1. l[i + 1] = l[j + 1]
      BY <2>1, <2>3
    <3>2. i + 1 = j + 1
      BY <1>4, <2>1, <3>1 DEF Distinct
    <3> QED BY <3>2
  <2>4. ASSUME NEW i \in 1 .. Len(t), h = t[i] PROVE FALSE
    <3>1. l[i + 1] = l[1]
      BY <2>1, <2>2, <2>4
    <3>2. i + 1 = 1
      BY <1>4, <2>1, <2>2, <3>1 DEF Distinct
    <3> QED BY <2>1, <3>2
  <2> QED BY <2>3, <2>4 DEF Distinct, Elems
<1> QED BY <1>1, <1>2, <1>3, <1>4 DEF t, h

LEMMA ConsLemma ==
    ASSUME NEW S, NEW l \in Seq(S), NEW x \in S
    PROVE  /\ <<x>> \o l \in Seq(S) /\ Len(<<x>> \o l) = Len(l) + 1 /\ Len(l) \in Nat
           /\ (<<x>> \o l)[1] = x
           /\ \A i \in 1 .. Len(l) : (<<x>> \o l)[i + 1] = l[i]
           /\ Elems(<<x>> \o l) = Elems(l) \cup {x}
           /\ Distinct(l) /\ x \notin Elems(l) => Distinct(<<x>> \o l)
<1> DEFINE a == <<x>> \o l
<1>1. /\ a \in Seq(S) /\ Len(a) = Len(l) + 1 /\ Len(l) \in Nat
      /\ a[1] = x
      /\ \A i \in 1 .. Len(l) : a[i + 1] = l[i]
  OBVIOUS
<1>2. a # << >> /\ Head(a) = x
  BY <1>1
<1>3. Tail(a) = l
  OBVIOUS
<1> HIDE DEF a
<1>4. Elems(a) = Elems(Tail(a)) \cup {Head(a)}
  BY <1>1, <1>2, TailLemma
<1>5. ASSUME Distinct(l), x \notin Elems(l) PROVE Distinct(a)
  <2>1. ASSUME NEW i \in 1 .. Len(a), i # 1
        PROVE  i - 1 \in 1 .. Len(l) /\ a[i] = l[i - 1]
    <3>1. i - 1 \in 1 .. Len(l) /\ (i - 1) + 1 = i
      BY <1>1, <2>1
    <3> QED BY <1>1, <3>1
  <2>2. \A i \in 1 .. Len(l) : l[i] # x
    BY <1>5 DEF Elems
  <2>3. ASSUME NEW i \in 1 .. Len(a), NEW j \in 1 .. Len(a), a[i] = a[j] PROVE i = j
    <3>1. CASE i # 1 /\ j # 1
      <4>1. i - 1 = j - 1
        BY <1>5, <2>1, <2>3, <3>1 DEF Distinct
      <4> QED BY <4>1
    <3>2. CASE i = 1 \/ j = 1
      BY <1>1, <2>1, <2>2, <2>3, <3>2
    <3> QED BY <3>1, <3>2
  <2> QED BY <2>3 DEF Distinct
<1> QED BY <1>1, <1>2, <1>3, <1>4, <1>5 DEF a

LEMMA WithoutLemma ==
    ASSUME NEW S, NEW l \in Seq(S), NEW k \in 1 .. Len(l)
    PROVE  /\ Without(l, k) \in Seq(S) /\ Len(Without(l, k)) = Len(l) - 1 /\ Len(l) \in Nat
           /\ \A i \in 1 .. Len(l) - 1 : Without(l, k)[i] = IF i < k THEN l[i] ELSE l[i + 1]
           /\ \A j \in 1 .. Len(l) : j # k => l[j] \in Elems(Without(l, k))
           /\ Elems(Without(l, k)) \subseteq Elems(l)
           /\ Distinct(l) => Distinct(Without(l, k)) /\ l[k] \notin Elems(Without(l, k))
<1> DEFINE a == SubSeq(l, 1, k - 1)
           b == SubSeq(l, k + 1, Len(l))
           w == Without(l, k)
<1>1. /\ Len(l) \in Nat /\ k \in Nat /\ 1 <= k /\ k <= Len(l)
  OBVIOUS
<1>2. a \in Seq(S) /\ Len(a) = k - 1 /\ \A i \in 1 .. k - 1 : a[i] = l[i]
  BY <1>1
<1>3. b \in Seq(S) /\ Len(b) = Len(l) - k /\ \A i \in 1 .. Len(l) - k : b[i] = l[i + k]
  BY <1>1
<1>4. w = a \o b
  BY DEF Without
<1> HIDE DEF a, b
<1>5. w \in Seq(S) /\ Len(w) = Len(l) - 1
  <2>1. a \o b \in Seq(S) /\ Len(a \o b) = Len(a) + Len(b)
    BY <1>2, <1>3, ConcatProperties
  <2> QED BY <1>1, <1>2, <1>3, <1>4, <2>1
<1>6. ASSUME NEW i \in 1 .. Len(l) - 1
      PROVE  w[i] = IF i < k THEN l[i] ELSE l[i + 1]
  <2>1. CASE i < k
    BY <1>1, <1>2, <1>3, <1>4, <2>1
  <2>2. CASE i >= k
    <3>1. w[i] = b[i - (k - 1)]
      BY <1>1, <1>2, <1>3, <1>4, <2>2
    <3>2. i - (k - 1) \in 1 .. Len(l) - k /\ i - (k - 1) + k = i + 1
      BY <1>1, <2>2
    <3> QED BY <1>1, <1>3, <2>2, <3>1, <3>2
  <2> QED BY <1>1, <2>1, <2>2
<1> HIDE DEF w
<1>7. ASSUME NEW j \in 1 .. Len(l), j # k PROVE l[j] \in Elems(w)
  <2>1. CASE j < k
    <3>1. j \in 1 .. Len(w) /\ w[j] = l[j]
      BY <1>1, <1>5, <1>6, <2>1
    <3> QED BY <3>1 DEF Elems
  <2>2. CASE j > k
    <3>1. j - 1 \in 1 .. Len(w) /\ w[j - 1] = l[j]
      BY <1>1, <1>5, <1>6, <2>2
    <3> QED BY <3>1 DEF Elems
  <2> QED BY <1>1, <1>7, <2>1, <2>2
<1>8. \A i \in 1 .. Len(w) : \E j \in 1 .. Len(l) : j # k /\ w[i] = l[j] /\ j = IF i < k THEN i ELSE i + 1
  BY <1>1, <1>5, <1>6
<1>9. Elems(w) \subseteq Elems(l)
  BY <1>8 DEF Elems
<1>10. ASSUME Distinct(l) PROVE Distinct(w) /\ l[k] \notin Elems(w)
  <2>1. l[k] \notin Elems(w)
    BY <1>8, <1>10 DEF Elems, Distinct
  <2>2. ASSUME NEW i \in 1 .. Len(w), NEW j \in 1 .. Len(w), w[i] = w[j] PROVE i = j
    BY <1>1, <1>5, <1>8, <1>10, <2>2 DEF Distinct
  <2> QED BY <2>1, <2>2 DEF Distinct
<1> QED BY <1>1, <1>5, <1>6, <1>7, <1>9, <1>10 DEF w

LEMMA SurfaceLemma ==
    /\ None \notin Frames /\ None \notin VppFrames /\ None \notin Surfaces /\ None \notin Outputs
    /\ Frames \subseteq Surfaces /\ VppFrames \subseteq Surfaces
    /\ \A s \in Frames : s \notin VppFrames
<1>1. Surfaces \subseteq Nat
  BY PoolAssumption DEF Surfaces, Frames, VppFrames
<1>2. Outputs \subseteq [surf : Nat, frame : Nat]
  BY <1>1 DEF Outputs
<1> QED BY <1>1, <1>2, PoolAssumption DEF Surfaces, Frames, VppFrames

\* A nonempty set of positions has a first one, which First returns.
LEMMA FirstLemma ==
    ASSUME NEW S, S \subseteq Nat, S # {}
    PROVE  First(S) \in S /\ \A j \in S : First(S) <= j
<1> DEFINE R == {r \in Nat \X Nat : r[1] < r[2]}
<1>1. IsWellFoundedOn(R, Nat)
  <2>1. R = OpToRel(<, Nat)
    BY Zenon DEF OpToRel
  <2> QED BY <2>1, NatLessThanWellFounded
<1>2. PICK t \in S : \A u \in S : ~(<<u, t>> \in R)
  <2> HIDE DEF R
  <2> QED BY <1>1, WFMin
<1>3. \A u \in S : t <= u
  <2>1. ASSUME NEW u \in S PROVE ~(u < t)
    <3>1. u \in Nat /\ t \in Nat
      OBVIOUS
    <3>2. u < t => <<u, t>> \in R
      BY <3>1
    <3> QED BY <1>2, <3>2
  <2> QED BY <2>1
<1> QED BY <1>3 DEF First

\* A surface leaves the head of the free list to become the current one.
LEMMA TakeLemma ==
    ASSUME NEW all, None \notin all, NEW free, NEW used, NEW cur, Parts(all, free, used, cur)
    PROVE  LET f == Left(free, cur)
               c == Take(free, cur)
           IN  /\ Parts(all, f, used, c)
               /\ \A s \in Elems(f) \cup ({c} \ {None}) : s = cur \/ s \in Elems(free)
<1> DEFINE f == Left(free, cur)
           c == Take(free, cur)
<1>0. /\ free \in Seq(all) /\ used \in Seq(all) /\ Distinct(free) /\ Distinct(used)
      /\ \A s \in Elems(free) : s \notin Elems(used)
      /\ \A s \in all : s = cur \/ s \in Elems(free) \/ s \in Elems(used)
  BY DEF Parts
<1>1. CASE cur = None /\ free # << >>
  <2>1. f = Tail(free) /\ c = Head(free)
    BY <1>1 DEF Left, Take
  <2>2. /\ c \in all /\ f \in Seq(all) /\ Distinct(f) /\ c \notin Elems(f)
        /\ Elems(free) = Elems(f) \cup {c}
    BY <1>0, <1>1, <2>1, TailLemma
  <2> HIDE DEF f, c
  <2>3. Parts(all, f, used, c)
    BY <1>0, <1>1, <2>2 DEF Parts
  <2> QED BY <2>2, <2>3 DEF f, c
<1>2. CASE ~(cur = None /\ free # << >>)
  <2>1. f = free /\ c = cur
    BY <1>2 DEF Left, Take
  <2> QED BY <2>1
<1> QED BY <1>1, <1>2

\* The current surface goes to the used list.
LEMMA UseLemma ==
    ASSUME NEW all, None \notin all, NEW free, NEW used, NEW cur, Parts(all, free, used, cur), cur # None
    PROVE  Parts(all, free, Append(used, cur), None)
<1> DEFINE u == Append(used, cur)
<1>1. /\ free \in Seq(all) /\ used \in Seq(all) /\ Distinct(free) /\ Distinct(used) /\ cur \in all
      /\ \A s \in Elems(free) : s \notin Elems(used)
      /\ cur \notin Elems(free) /\ cur \notin Elems(used)
      /\ \A s \in all : s = cur \/ s \in Elems(free) \/ s \in Elems(used)
  BY DEF Parts
<1>2. u \in Seq(all) /\ Elems(u) = Elems(used) \cup {cur} /\ Distinct(u)
  BY <1>1, AppendLemma
<1> HIDE DEF u
<1>3. None \notin Elems(free) /\ None \notin Elems(u)
  BY <1>1, <1>2 DEF Elems
<1>4. Parts(all, free, u, None)
  BY <1>1, <1>2, <1>3 DEF Parts
<1> QED BY <1>4 DEF u

\* A pass of SyncFrameSurfaces moves one idle surface, if there is one.
LEMMA SyncLemma ==
    ASSUME NEW all, None \notin all, all \subseteq Surfaces,
           NEW free, NEW used, NEW cur, Parts(all, free, used, cur)
    PROVE  LET f == Freed(used) \o free
               u == StillUsed(used)
           IN  /\ Parts(all, f, u, cur)
               /\ \A s \in Elems(f) : s \in Elems(free) \/ Idle(s)
               /\ \A s \in Elems(used) : ~Idle(s) => s \in Elems(u)
<1> DEFINE f == Freed(used) \o free
           u == StillUsed(used)
           k == First(Unlocked(used))
<1>1. /\ free \in Seq(all) /\ used \in Seq(all) /\ Distinct(free) /\ Distinct(used)
      /\ cur \in all \cup {None}
      /\ \A s \in Elems(free) : s \notin Elems(used)
      /\ cur \notin Elems(free) /\ cur \notin Elems(used)
      /\ \A s \in all : s = cur \/ s \in Elems(free) \/ s \in Elems(used)
  BY DEF Parts
<1>2. CASE Unlocked(used) = {}
  <2>1. f = free /\ u = used
    BY <1>1, <1>2, ConcatEmptySeq DEF Freed, StillUsed
  <2> HIDE DEF f, u
  <2> QED BY <2>1 DEF f, u
<1>3. CASE Unlocked(used) # {}
  <2>1. k \in 1 .. Len(used) /\ Idle(used[k])
    <3>1. Unlocked(used) \subseteq Nat
      BY DEF Unlocked
    <3>2. k \in Unlocked(used)
      BY <1>3, <3>1, FirstLemma
    <3> QED BY <3>2 DEF Unlocked, Idle
  <2>2. f = <<used[k]>> \o free /\ u = Without(used, k)
    BY <1>3 DEF Freed, StillUsed
  <2>3. used[k] \in all /\ used[k] \in Elems(used)
    BY <1>1, <2>1 DEF Elems
  <2> HIDE DEF k
  <2>4. /\ Without(used, k) \in Seq(all) /\ Distinct(Without(used, k))
        /\ used[k] \notin Elems(Without(used, k)) /\ Elems(Without(used, k)) \subseteq Elems(used)
        /\ \A j \in 1 .. Len(used) : j # k => used[j] \in Elems(Without(used, k))
    BY <1>1, <2>1, WithoutLemma
  <2>5. used[k] \notin Elems(free)
    BY <1>1, <2>3
  <2>6. /\ <<used[k]>> \o free \in Seq(all) /\ Distinct(<<used[k]>> \o free)
        /\ Elems(<<used[k]>> \o free) = Elems(free) \cup {used[k]}
    BY <1>1, <2>3, <2>5, ConsLemma
  <2>7. /\ u \in Seq(all) /\ Distinct(u) /\ used[k] \notin Elems(u) /\ Elems(u) \subseteq Elems(used)
        /\ \A j \in 1 .. Len(used) : j # k => used[j] \in Elems(u)
        /\ f \in Seq(all) /\ Distinct(f) /\ Elems(f) = Elems(free) \cup {used[k]}
    BY <2>2, <2>4, <2>6
  <2> HIDE DEF f, u
  <2>8. \A e \in Elems(used) : e = used[k] \/ e \in Elems(u)
    <3>1. ASSUME NEW e \in Elems(used) PROVE e = used[k] \/ e \in Elems(u)
      <4>1. PICK j \in 1 .. Len(used) : e = used[j]
        BY DEF Elems
      <4> QED BY <2>7, <4>1
    <3> QED BY <3>1
  <2>9. Parts(all, f, u, cur)
    BY <1>1, <2>3, <2>7, <2>8 DEF Parts
  <2> QED BY <2>1, <2>7, <2>8, <2>9 DEF f, u
<1> QED BY <1>2, <1>3

LEMMA SeqLemma ==
    ASSUME NEW A, NEW B, A \subseteq B, NEW l \in Seq(A)
    PROVE  l \in Seq(B)
<1>1. Len(l) \in Nat /\ l \in [1 .. Len(l) -> A]
  OBVIOUS
<1>2. l \in [1 .. Len(l) -> B]
  BY <1>1
<1> QED BY <1>1, <1>2, SeqDef

-----------------------------------------------------------------------------
(***************************************************************************)
(* Lists of outputs                                                        *)
(***************************************************************************)

LEMMA AppendOutLemma ==
    ASSUME NEW l \in Seq(Outputs), NEW x \in Outputs
    PROVE  /\ \A s : Has(Append(l, x), s) <=> (Has(l, s) \/ x.surf = s)
           /\ OneEach(l) /\ ~Has(l, x.surf) => OneEach(Append(l, x))
<1> DEFINE a == Append(l, x)
<1>1. /\ Len(a) = Len(l) + 1 /\ Len(l) \in Nat
      /\ \A i \in 1 .. Len(l) : a[i] = l[i]
      /\ a[Len(l) + 1] = x
  BY AppendLemma
<1> HIDE DEF a
<1>2. /\ \A i \in 1 .. Len(a) : i \in 1 .. Len(l) \/ i = Len(l) + 1
      /\ \A i \in 1 .. Len(l) : i \in 1 .. Len(a)
      /\ Len(l) + 1 \in 1 .. Len(a)
  BY <1>1
<1>3. ASSUME NEW s PROVE Has(a, s) <=> (Has(l, s) \/ x.surf = s)
  BY <1>1, <1>2 DEF Has
<1>4. ASSUME OneEach(l), ~Has(l, x.surf) PROVE OneEach(a)
  <2>1. \A i \in 1 .. Len(l) : a[i].surf = l[i].surf /\ a[i].surf # x.surf
    BY <1>1, <1>4 DEF Has
  <2>2. ASSUME NEW i \in 1 .. Len(a), NEW j \in 1 .. Len(a), a[i].surf = a[j].surf PROVE i = j
    <3>1. CASE i \in 1 .. Len(l) /\ j \in 1 .. Len(l)
      <4>1. l[i].surf = l[j].surf
        BY <2>1, <2>2, <3>1
      <4> QED BY <1>4, <3>1, <4>1 DEF OneEach
    <3>2. CASE i \in 1 .. Len(l) /\ j = Len(l) + 1
      BY <1>1, <2>1, <2>2, <3>2
    <3>3. CASE j \in 1 .. Len(l) /\ i = Len(l) + 1
      BY <1>1, <2>1, <2>2, <3>3
    <3> QED BY <1>2, <3>1, <3>2, <3>3
  <2> QED BY <2>2 DEF OneEach
<1> QED BY <1>3, <1>4 DEF a

LEMMA TailOutLemma ==
    ASSUME NEW l \in Seq(Outputs), l # << >>
    PROVE  /\ \A s : Has(l, s) <=> (Has(Tail(l), s) \/ Head(l).surf = s)
           /\ OneEach(l) => OneEach(Tail(l)) /\ ~Has(Tail(l), Head(l).surf)
<1> DEFINE t == Tail(l)
           h == Head(l)
<1>1. /\ h = l[1] /\ Len(t) = Len(l) - 1 /\ Len(l) \in Nat \ {0}
      /\ \A i \in 1 .. Len(l) - 1 : t[i] = l[i + 1]
  BY TailLemma
<1> HIDE DEF t, h
<1>2. /\ \A i \in 1 .. Len(t) : i + 1 \in 1 .. Len(l) /\ t[i] = l[i + 1] /\ i + 1 # 1
      /\ 1 \in 1 .. Len(l)
      /\ \A i \in 1 .. Len(l) : i = 1 \/ i - 1 \in 1 .. Len(t)
      /\ \A i \in 1 .. Len(l) : i # 1 => l[i] = t[i - 1]
  BY <1>1
<1>3. ASSUME NEW s PROVE Has(l, s) <=> (Has(t, s) \/ h.surf = s)
  <2>1. Has(l, s) => Has(t, s) \/ h.surf = s
    BY <1>1, <1>2 DEF Has
  <2>2. Has(t, s) => Has(l, s)
    BY <1>2 DEF Has
  <2>3. h.surf = s => Has(l, s)
    BY <1>1, <1>2 DEF Has
  <2> QED BY <2>1, <2>2, <2>3
<1>4. ASSUME OneEach(l) PROVE OneEach(t) /\ ~Has(t, h.surf)
  <2>1. ASSUME NEW i \in 1 .. Len(t), NEW j \in 1 .. Len(t), t[i].surf = t[j].surf PROVE i = j
    <3>1. l[i + 1].surf = l[j + 1].surf
      BY <1>2, <2>1
    <3>2. i + 1 = j + 1
      BY <1>2, <1>4, <3>1 DEF OneEach
    <3> QED BY <3>2
  <2>2. ASSUME NEW i \in 1 .. Len(t), t[i].surf = h.surf PROVE FALSE
    <3>1. l[i + 1].surf = l[1].surf
      BY <1>1, <1>2, <2>2
    <3>2. i + 1 = 1
      BY <1>2, <1>4, <3>1 DEF OneEach
    <3> QED BY <1>2, <3>2
  <2> QED BY <2>1, <2>2 DEF OneEach, Has
<1> QED BY <1>3, <1>4 DEF t, h

-----------------------------------------------------------------------------
(***************************************************************************)
(* Steps that leave a part of the state alone                              *)
(***************************************************************************)

LEMMA PoolFrame ==
    ASSUME PoolInv, mode' = mode, main'.cur = main.cur, main'.vcur = main.vcur,
           pool'.free = pool.free, pool'.used = pool.used,
           pool'.vfree = pool.vfree, pool'.vused = pool.vused,
           \A s \in Elems(pool.free) \cup Elems(pool.vfree) \cup ({main.cur, main.vcur} \ {None}) :
              Idle(s) => Idle(s)'
    PROVE  PoolInv'
<1>1. Parts(Frames, pool'.free, pool'.used, main'.cur)
  BY DEF PoolInv
<1>2. VppAll' = VppAll
  BY DEF VppAll
<1>3. Parts(VppAll', pool'.vfree, pool'.vused, main'.vcur)
  BY <1>2 DEF PoolInv
<1>4. ASSUME NEW s \in Elems(pool'.free) \cup Elems(pool'.vfree) \cup ({main'.cur, main'.vcur} \ {None})
      PROVE  Idle(s)'
  <2>1. s \in Elems(pool.free) \cup Elems(pool.vfree) \cup ({main.cur, main.vcur} \ {None})
    BY <1>4
  <2> QED BY <2>1 DEF PoolInv
<1> QED BY <1>1, <1>3, <1>4 DEF PoolInv

LEMMA FlightFrame ==
    ASSUME FlightInv, IntactInv, surf' = surf, pool'.out = pool.out, pool'.deliv = pool.deliv,
           dlv'.x = dlv.x, Current' = Current
    PROVE  FlightInv' /\ IntactInv'
<1>1. FlightInv'
  BY DEF FlightInv
<1>2. IntactInv'
  BY DEF IntactInv
<1> QED BY <1>1, <1>2

LEMMA OrderFrame ==
    ASSUME OrderInv, pool'.out = pool.out, pool'.deliv = pool.deliv, dlv'.x = dlv.x,
           Current' = Current, cnt'.synced = cnt.synced, main'.n = main.n, dec' = dec,
           \A i \in 1 .. Len(dec) : surf'[dec[i]].frame = surf[dec[i]].frame,
           shown' = shown, restarts' = restarts, Over => Over', Failed => Failed'
    PROVE  OrderInv'
<1>1. \A D : Delivered(D)' = Delivered(D)
  BY DEF Delivered
<1>2. ASSUME NEW D, Numbered(D) PROVE Numbered(D)'
  BY <1>1, <1>2 DEF Numbered
<1>3. FirstRun'
  BY <1>1, <1>2 DEF FirstRun, OrderInv
<1> QED BY <1>2, <1>3 DEF OrderInv

LEMMA QuietLemma ==
    ASSUME StateInv, mode' = mode, pool' = pool, surf' = surf, dec' = dec,
           shown' = shown, restarts' = restarts, cnt'.synced = cnt.synced, dlv'.x = dlv.x,
           main'.cur = main.cur, main'.vcur = main.vcur, main'.curOut = main.curOut,
           main'.stale = main.stale, main'.n = main.n, Over => Over', Failed => Failed',
           TypeInv', ControlInv'
    PROVE  StateInv'
<1>1. Current' = Current
  BY DEF Current
<1>2. PoolInv'
  BY PoolFrame DEF StateInv, Idle
<1>3. FlightInv' /\ IntactInv'
  BY <1>1, FlightFrame DEF StateInv
<1>4. KeptInv'
  BY DEF StateInv, KeptInv
<1>5. OrderInv'
  BY <1>1, OrderFrame DEF StateInv
<1> QED BY <1>2, <1>3, <1>4, <1>5 DEF StateInv

-----------------------------------------------------------------------------
(***************************************************************************)
(* Steps that only move a thread on                                        *)
(***************************************************************************)

LEMMA NamesLemma ==
    /\ "top" \in Pcs /\ "sync" \in Pcs /\ "post" \in Pcs /\ "wait" \in Pcs
    /\ "decode" \in Pcs /\ "final" \in Pcs /\ "asleep" \in Pcs /\ "end" \in Pcs
    /\ "surf" \in Pcs /\ "join" \in Pcs /\ "done" \in Pcs /\ "crash" \in Pcs
    /\ "ok" \in Sts /\ "more" \in Sts /\ "moresurf" \in Sts /\ "notfound" \in Sts
    /\ "unknown" \in Sts /\ "error" \in Sts /\ "lost" \in Sts /\ "working" \in Sts
    /\ "stuck" \in Calls /\ "busy" \in Calls /\ "drain" \in Calls
BY DEF Pcs, Sts, Calls

LEMMA LocalsLemma ==
    ASSUME NEW K \in Locals, NEW p \in Pcs, NEW s \in Sts
    PROVE  [K EXCEPT !.pc = p] \in Locals /\ [K EXCEPT !.pc = p, !.sts = s] \in Locals
<1>1. [K EXCEPT !.pc = p] \in Locals
  BY Zenon DEF Locals
<1>2. [K EXCEPT !.pc = p, !.sts = s] \in Locals
  BY Zenon DEF Locals
<1> QED BY <1>1, <1>2

LEMMA ReturnedLemma ==
    ASSUME NEW K \in Locals, NEW r \in Sts
    PROVE  LET R == Returned(K, r)
           IN  /\ R \in Locals
               /\ R.cur = K.cur /\ R.vcur = K.vcur /\ R.curOut = K.curOut
               /\ R.stale = K.stale /\ R.n = K.n /\ R.ret = K.ret
               /\ R.pc \in {"wait", "end", "decode", "sync", "final", "top"}
               /\ R.pc = "decode" => K.ret = "busy"
               /\ R.pc = "sync" => K.ret = "drain"
               /\ R.sts = "unknown" => K.sts = "unknown" \/ (r = "unknown" /\ R.pc \in {"top", "final"})
               /\ r = "unknown" => R.sts = "unknown"
<1> DEFINE R == Returned(K, r)
<1>1. \/ R = [K EXCEPT !.pc = "wait"] /\ r = "more"
      \/ R = [K EXCEPT !.pc = "end", !.sts = "notfound"] /\ r = "more"
      \/ R = [K EXCEPT !.pc = "decode"] /\ K.ret = "busy" /\ r \in {"ok", "more"}
      \/ R = [K EXCEPT !.pc = "sync"] /\ K.ret = "drain" /\ r = "ok"
      \/ R = [K EXCEPT !.pc = "final", !.sts = IF r = "more" THEN "ok" ELSE r]
      \/ R = [K EXCEPT !.pc = "top", !.sts = r]
  BY DEF Returned
<1>2. R \in Locals
  <2>1. \A p \in Pcs, s \in Sts : [K EXCEPT !.pc = p] \in Locals /\ [K EXCEPT !.pc = p, !.sts = s] \in Locals
    BY LocalsLemma
  <2>2. (IF r = "more" THEN "ok" ELSE r) \in Sts
    BY NamesLemma
  <2> HIDE DEF R
  <2>3. /\ [K EXCEPT !.pc = "wait"] \in Locals
        /\ [K EXCEPT !.pc = "end", !.sts = "notfound"] \in Locals
        /\ [K EXCEPT !.pc = "decode"] \in Locals
        /\ [K EXCEPT !.pc = "sync"] \in Locals
    BY <2>1, NamesLemma
  <2>4. [K EXCEPT !.pc = "final", !.sts = IF r = "more" THEN "ok" ELSE r] \in Locals
    BY <2>1, <2>2, NamesLemma
  <2>5. [K EXCEPT !.pc = "top", !.sts = r] \in Locals
    BY <2>1, NamesLemma
  <2> QED BY <1>1, <2>3, <2>4, <2>5
<1> HIDE DEF R
<1> QED BY <1>1, <1>2 DEF Locals, R

LEMMA QuietSteps ==
    ASSUME StateInv,
           \/ LoopTop \/ NoOutput \/ UsesFreedMemory \/ Post \/ AwaitDelivery
           \/ FinalCheck \/ FinalWait \/ EndOfStream \/ DeviceBusy \/ DecodeFails
           \/ NewParameters \/ LeaveLoop \/ Return \/ WaitExpires \/ CountOutput
           \/ SignalDelivered \/ UNCHANGED vars
    PROVE  StateInv'
<1> USE DEF StateInv, TypeInv, Over, Failed
<1>1. CASE LoopTop
  <2>1. \/ main' = [main EXCEPT !.pc = "end"]
        \/ main' = [main EXCEPT !.pc = "surf", !.sts = "ok", !.pos = @ + 1, !.has = TRUE]
           /\ main.sts # "unknown"
        \/ main' = [main EXCEPT !.pc = "surf", !.sts = "ok", !.bs = FALSE] /\ main.sts # "unknown"
        \/ main' = [main EXCEPT !.pc = "surf"] /\ main.sts # "unknown"
    BY <1>1 DEF LoopTop, GoesOn
  <2>2. main' \in Locals
    <3>2. main.pos + 1 \in Nat
      BY DEF Locals
    <3>3. /\ [main EXCEPT !.pc = "surf", !.sts = "ok", !.pos = main.pos + 1, !.has = TRUE] \in Locals
          /\ [main EXCEPT !.pc = "surf", !.sts = "ok", !.bs = FALSE] \in Locals
          /\ [main EXCEPT !.pc = "surf"] \in Locals
          /\ [main EXCEPT !.pc = "end"] \in Locals
      BY <3>2, NamesLemma, Zenon DEF Locals
    <3> QED BY <2>1, <3>3
  <2>3. /\ main'.cur = main.cur /\ main'.vcur = main.vcur /\ main'.curOut = main.curOut
        /\ main'.stale = main.stale /\ main'.n = main.n /\ main'.pc \in {"end", "surf"}
        /\ main'.pc = "surf" => main.sts # "unknown"
        /\ main'.sts # main.sts => main.sts # "unknown" /\ main'.sts = "ok"
    BY <2>1 DEF Locals
  <2>4. ControlInv'
    BY <1>1, <2>2, <2>3 DEF LoopTop, ControlInv
  <2> QED BY <1>1, <2>2, <2>3, <2>4, QuietLemma DEF LoopTop
<1>2. CASE NoOutput
  <2>1. main' = Returned(main, "more") /\ main \in Locals /\ main.pc = "sync" /\ "more" \in Sts
    BY <1>2, NamesLemma DEF NoOutput
  <2>2. /\ main' \in Locals
        /\ main'.cur = main.cur /\ main'.vcur = main.vcur /\ main'.curOut = main.curOut
        /\ main'.stale = main.stale /\ main'.n = main.n /\ main'.ret = main.ret
        /\ main'.pc \in {"wait", "end", "decode", "sync", "final", "top"}
        /\ main'.pc = "decode" => main.ret = "busy"
        /\ main'.pc = "sync" => main.ret = "drain"
        /\ main'.sts = "unknown" => main.sts = "unknown"
    BY <2>1, ReturnedLemma
  <2>3. main.sts # "unknown" /\ main'.sts # "unknown"
    BY <2>1, <2>2 DEF ControlInv
  <2>4. ControlInv'
    BY <1>2, <2>1, <2>2, <2>3 DEF NoOutput, ControlInv
  <2> QED BY <1>2, <2>1, <2>2, <2>3, <2>4, QuietLemma DEF NoOutput
<1>3. CASE UsesFreedMemory
  <2>1. main' \in Locals
    BY <1>3, LocalsLemma, NamesLemma DEF UsesFreedMemory
  <2>2. ControlInv'
    BY <1>3, <2>1 DEF UsesFreedMemory, ControlInv, Locals
  <2> QED BY <1>3, <2>1, <2>2, QuietLemma DEF UsesFreedMemory, Locals
<1>4. CASE Post
  <2>1. main' = Returned(main, "ok") /\ main \in Locals /\ main.pc = "post" /\ "ok" \in Sts
    BY <1>4, NamesLemma DEF Post
  <2>2. /\ main' \in Locals
        /\ main'.cur = main.cur /\ main'.vcur = main.vcur /\ main'.curOut = main.curOut
        /\ main'.stale = main.stale /\ main'.n = main.n /\ main'.ret = main.ret
        /\ main'.pc \in {"wait", "end", "decode", "sync", "final", "top"}
        /\ main'.pc = "decode" => main.ret = "busy"
        /\ main'.pc = "sync" => main.ret = "drain"
        /\ main'.sts = "unknown" => main.sts = "unknown"
    BY <2>1, ReturnedLemma
  <2>3. main.sts # "unknown" /\ main'.sts # "unknown"
    BY <2>1, <2>2 DEF ControlInv
  <2>4. comm' \in Comm
        /\ comm'.sem = comm.sem + 1 /\ comm'.err = comm.err /\ comm'.stop = comm.stop
    <3>1. comm.sem + 1 \in Nat
      BY DEF Comm
    <3>2. [comm EXCEPT !.ev = FALSE, !.sem = comm.sem + 1] \in Comm
      BY <3>1, Zenon DEF Comm
    <3> QED BY <1>4, <3>2 DEF Post, Comm
  <2>5. ControlInv'
    BY <1>4, <2>1, <2>2, <2>3, <2>4 DEF Post, ControlInv, Comm
  <2> QED BY <1>4, <2>1, <2>2, <2>3, <2>4, <2>5, QuietLemma DEF Post
<1>5. CASE AwaitDelivery
  <2>1. /\ main' \in Locals /\ main.sts # "unknown"
        /\ comm' \in Comm
    BY <1>5, LocalsLemma, NamesLemma DEF AwaitDelivery, ControlInv, Comm
  <2>2. ControlInv'
    BY <1>5, <2>1 DEF AwaitDelivery, ControlInv, Locals, Comm, Dlv
  <2> QED BY <1>5, <2>1, <2>2, QuietLemma DEF AwaitDelivery, Locals, Comm, Dlv
<1>6. CASE FinalCheck
  <2>1. main' \in Locals /\ main'.pc \in {"end", "asleep", "crash"}
    <3>1. PICK p \in {"end", "asleep", "crash"} : main' = [main EXCEPT !.pc = p]
      BY <1>6 DEF FinalCheck
    <3>2. p \in Pcs
      BY NamesLemma
    <3> QED BY <3>1, <3>2, LocalsLemma DEF Locals
  <2>2. ControlInv'
    BY <1>6, <2>1 DEF FinalCheck, ControlInv, Locals
  <2> QED BY <1>6, <2>1, <2>2, QuietLemma DEF FinalCheck, Locals
<1>7. CASE FinalWait
  <2>1. main' \in Locals /\ comm' \in Comm
    BY <1>7, LocalsLemma, NamesLemma DEF FinalWait, Comm
  <2>2. ControlInv'
    BY <1>7, <2>1 DEF FinalWait, ControlInv, Locals, Comm, Dlv
  <2> QED BY <1>7, <2>1, <2>2, QuietLemma DEF FinalWait, Locals, Comm, Dlv
<1>8. CASE EndOfStream
  <2>1. main' \in Locals
    <3>1. [main EXCEPT !.pc = "sync", !.ret = "drain"] \in Locals
      BY NamesLemma, Zenon DEF Locals
    <3> QED BY <1>8, <3>1 DEF EndOfStream
  <2>2. ControlInv'
    BY <1>8, <2>1 DEF EndOfStream, ControlInv, Locals
  <2> QED BY <1>8, <2>1, <2>2, QuietLemma DEF EndOfStream, Locals
<1>9. CASE DeviceBusy
  <2>1. main' \in Locals
    <3>1. [main EXCEPT !.pc = "sync", !.ret = "busy"] \in Locals
      BY NamesLemma, Zenon DEF Locals
    <3> QED BY <1>9, <3>1 DEF DeviceBusy
  <2>2. ControlInv'
    BY <1>9, <2>1 DEF DeviceBusy, ControlInv, Locals
  <2> QED BY <1>9, <2>1, <2>2, QuietLemma DEF DeviceBusy, Locals
<1>10. CASE DecodeFails
  <2>1. PICK r \in {"error", "lost"} : main' = [main EXCEPT !.pc = "top", !.sts = r]
    BY <1>10 DEF DecodeFails
  <2>2. main' \in Locals /\ main.sts # "unknown"
    BY <1>10, <2>1, LocalsLemma, NamesLemma DEF DecodeFails, ControlInv
  <2>3. ControlInv'
    BY <1>10, <2>1, <2>2 DEF DecodeFails, ControlInv, Locals
  <2> QED BY <1>10, <2>1, <2>2, <2>3, QuietLemma DEF DecodeFails, Locals
<1>11. CASE NewParameters
  <2>1. main' \in Locals /\ main.sts # "unknown"
    <3>1. [main EXCEPT !.pc = "top", !.bs = FALSE, !.incompat = TRUE, !.sts = "ok"] \in Locals
      BY NamesLemma, Zenon DEF Locals
    <3> QED BY <1>11, <3>1 DEF NewParameters, ControlInv
  <2>2. ControlInv'
    BY <1>11, <2>1 DEF NewParameters, ControlInv, Locals
  <2> QED BY <1>11, <2>1, <2>2, QuietLemma DEF NewParameters, Locals
<1>12. CASE LeaveLoop
  <2>1. PICK r \in Sts \cup {"incompat"} : main' = [main EXCEPT !.pc = "join", !.res = r]
    <3>1. (IF cnt.output = NFrames THEN "ok" ELSE main.sts) \in Sts
      BY NamesLemma DEF Locals
    <3> QED BY <1>12, <3>1 DEF LeaveLoop
  <2>2. main' \in Locals
    <3>1. [main EXCEPT !.pc = "join", !.res = r] \in Locals
      BY NamesLemma, Zenon DEF Locals
    <3> QED BY <2>1, <3>1
  <2>3. /\ comm' \in Comm
        /\ comm'.err = comm.err
        /\ comm' = comm \/ comm'.stop
    <3>1. comm.sem + 1 \in Nat
      BY DEF Comm
    <3>2. [comm EXCEPT !.stop = TRUE, !.sem = comm.sem + 1] \in Comm
      BY <3>1, Zenon DEF Comm
    <3> QED BY <1>12, <3>2 DEF LeaveLoop, Comm
  <2>4. ControlInv'
    BY <1>12, <2>1, <2>2, <2>3 DEF LeaveLoop, ControlInv, Locals, Comm, Dlv
  <2> QED BY <1>12, <2>1, <2>2, <2>3, <2>4, QuietLemma DEF LeaveLoop, Locals
<1>13. CASE Return
  <2>1. main' \in Locals
    BY <1>13, LocalsLemma, NamesLemma DEF Return
  <2>2. ControlInv'
    BY <1>13, <2>1 DEF Return, ControlInv, Locals
  <2> QED BY <1>13, <2>1, <2>2, QuietLemma DEF Return, Locals
<1>14. CASE WaitExpires
  <2>1. main.pc = "wait" /\ main' = [main EXCEPT !.pc = "top", !.sts = "working"]
        /\ UNCHANGED <<mode, pool, surf, dlv, comm, cnt, dec, shown, faults, restarts>>
    BY <1>14 DEF WaitExpires
  <2>2. main' \in Locals /\ main.sts # "unknown"
    BY <2>1, LocalsLemma, NamesLemma DEF ControlInv
  <2>3. ControlInv'
    BY <2>1, <2>2 DEF ControlInv, Locals
  <2> QED BY <2>1, <2>2, <2>3, QuietLemma DEF Locals
<1>15. CASE CountOutput
  <2>1. /\ dlv' \in Dlv /\ dlv'.x = dlv.x /\ dlv'.pc = "signal"
        /\ cnt' \in Cnt /\ cnt'.synced = cnt.synced
    <3>1. cnt.output + 1 \in Nat
      BY DEF Cnt
    <3>2. [cnt EXCEPT !.output = cnt.output + 1] \in Cnt /\ [dlv EXCEPT !.pc = "signal"] \in Dlv
      BY <3>1, Zenon DEF Cnt, Dlv
    <3> QED BY <1>15, <3>2 DEF CountOutput, Cnt, Dlv
  <2>2. ControlInv'
    BY <1>15, <2>1 DEF CountOutput, ControlInv, Comm, Dlv
  <2> QED BY <1>15, <2>1, <2>2, QuietLemma DEF CountOutput
<1>16. CASE SignalDelivered
  <2>1. /\ dlv' \in Dlv /\ dlv'.x = dlv.x /\ dlv'.pc = "loop"
        /\ comm' \in Comm
        /\ comm'.sem = comm.sem /\ comm'.err = comm.err /\ comm'.stop = comm.stop
    BY <1>16 DEF SignalDelivered, Comm, Dlv
  <2>2. ControlInv'
    BY <1>16, <2>1 DEF SignalDelivered, ControlInv, Comm, Dlv
  <2> QED BY <1>16, <2>1, <2>2, QuietLemma DEF SignalDelivered
<1>17. CASE UNCHANGED vars
  <2>1. ControlInv' /\ TypeInv'
    BY <1>17 DEF vars, ControlInv
  <2> QED BY <1>17, <2>1, QuietLemma DEF vars
<1> QED BY <1>1, <1>2, <1>3, <1>4, <1>5, <1>6, <1>7, <1>8, <1>9, <1>10, <1>11, <1>12,
           <1>13, <1>14, <1>15, <1>16, <1>17

-----------------------------------------------------------------------------
(***************************************************************************)
(* Surfaces for the decoder                                                *)
(***************************************************************************)

LEMMA VppAllLemma ==
    /\ VppAll \subseteq Surfaces /\ None \notin VppAll /\ \A s \in Frames : s \notin VppAll
BY SurfaceLemma DEF VppAll

\* What Parts says of the members of the lists.
LEMMA PartsLemma ==
    ASSUME NEW all, all \subseteq Surfaces, NEW free, NEW used, NEW cur, Parts(all, free, used, cur)
    PROVE  /\ free \in Seq(Surfaces) /\ used \in Seq(Surfaces) /\ cur \in Surfaces \cup {None}
           /\ Elems(free) \subseteq all /\ Elems(used) \subseteq all /\ cur \in all \cup {None}
<1>1. free \in Seq(all) /\ used \in Seq(all) /\ cur \in all \cup {None}
  BY DEF Parts
<1>2. free \in Seq(Surfaces) /\ used \in Seq(Surfaces)
  BY <1>1, SeqLemma
<1>3. Elems(free) \subseteq all /\ Elems(used) \subseteq all
  BY <1>1 DEF Elems
<1> QED BY <1>1, <1>2, <1>3

LEMMA GetSurfacesStep ==
    ASSUME StateInv, GetSurfaces
    PROVE  StateInv'
<1> DEFINE f0 == Freed(pool.used) \o pool.free
           u == StillUsed(pool.used)
           g0 == Freed(pool.vused) \o pool.vfree
           w == StillUsed(pool.vused)
           P == SyncFrameSurfaces(pool)
           f == Left(f0, main.cur)
           c == Take(f0, main.cur)
           g == Left(g0, main.vcur)
           v == Take(g0, main.vcur)
           q == IF c = None \/ (mode.vpp /\ v = None) \/ P.count = AsyncDepth THEN "sync" ELSE "decode"
<1>0. /\ mode \in [work : Modes, vpp : BOOLEAN] /\ pool \in Pool /\ main \in Locals
      /\ surf' = surf /\ dlv' = dlv /\ comm' = comm /\ cnt' = cnt /\ dec' = dec /\ mode' = mode
      /\ shown' = shown /\ restarts' = restarts
      /\ main.pc = "surf"
  BY DEF StateInv, TypeInv, GetSurfaces
<1>1. P = [pool EXCEPT !.free = f0, !.used = u, !.vfree = g0, !.vused = w]
  BY <1>0 DEF SyncFrameSurfaces, Pool
<1>2. P.free = f0 /\ P.vfree = g0
  BY <1>0, <1>1 DEF Pool
<1>3. /\ pool' = [P EXCEPT !.free = f, !.vfree = g]
      /\ main' = [main EXCEPT !.cur = c, !.vcur = v, !.ret = "stuck", !.pc = q]
  BY <1>2 DEF GetSurfaces
<1>4. /\ Parts(Frames, f0, u, main.cur)
      /\ \A s \in Elems(f0) : s \in Elems(pool.free) \/ Idle(s)
      /\ \A s \in Elems(pool.used) : ~Idle(s) => s \in Elems(u)
  BY SyncLemma, SurfaceLemma DEF StateInv, PoolInv
<1>5. /\ Parts(VppAll, g0, w, main.vcur)
      /\ \A s \in Elems(g0) : s \in Elems(pool.vfree) \/ Idle(s)
  BY SyncLemma, VppAllLemma DEF StateInv, PoolInv
<1>6. /\ Parts(Frames, f, u, c)
      /\ \A s \in Elems(f) \cup ({c} \ {None}) : s = main.cur \/ s \in Elems(f0)
  <2> HIDE DEF f0, u
  <2> QED BY <1>4, TakeLemma, SurfaceLemma
<1>7. /\ Parts(VppAll, g, w, v)
      /\ \A s \in Elems(g) \cup ({v} \ {None}) : s = main.vcur \/ s \in Elems(g0)
  <2> HIDE DEF g0, w
  <2> QED BY <1>5, TakeLemma, VppAllLemma
<1>8. /\ f0 \in Seq(Surfaces) /\ u \in Seq(Surfaces) /\ g0 \in Seq(Surfaces) /\ w \in Seq(Surfaces)
      /\ f \in Seq(Surfaces) /\ g \in Seq(Surfaces)
      /\ c \in Surfaces \cup {None} /\ v \in Surfaces \cup {None}
      /\ Elems(f) \subseteq Surfaces /\ Elems(g) \subseteq Surfaces
  <2> HIDE DEF f0, u, g0, w, f, g, c, v
  <2> QED BY <1>4, <1>5, <1>6, <1>7, PartsLemma, SurfaceLemma, VppAllLemma
<1>9. q \in {"sync", "decode"} /\ (q = "decode" => c # None /\ (mode.vpp => v # None))
  OBVIOUS
<1> HIDE DEF f0, u, g0, w, f, g, c, v, q, P
<1>10. P \in Pool
  <2>1. [pool EXCEPT !.free = f0, !.used = u, !.vfree = g0, !.vused = w] \in Pool
    BY <1>0, <1>8, Zenon DEF Pool
  <2> QED BY <1>1, <2>1
<1>11. /\ pool' \in Pool /\ pool'.free = f /\ pool'.used = u /\ pool'.vfree = g /\ pool'.vused = w
       /\ pool'.out = pool.out /\ pool'.deliv = pool.deliv
  <2>1. [P EXCEPT !.free = f, !.vfree = g] \in Pool
    BY <1>8, <1>10, Zenon DEF Pool
  <2>2. P.used = u /\ P.vused = w /\ P.out = pool.out /\ P.deliv = pool.deliv
    BY <1>0, <1>1 DEF Pool
  <2> QED BY <1>3, <1>10, <2>1, <2>2 DEF Pool
<1>12. /\ main' \in Locals /\ main'.cur = c /\ main'.vcur = v /\ main'.ret = "stuck" /\ main'.pc = q
       /\ main'.curOut = main.curOut /\ main'.stale = main.stale /\ main'.n = main.n
       /\ main'.sts = main.sts
  <2>1. q \in Pcs
    BY <1>9, NamesLemma
  <2>2. [main EXCEPT !.cur = c, !.vcur = v, !.ret = "stuck", !.pc = q] \in Locals
    BY <1>0, <1>8, <2>1, NamesLemma, Zenon DEF Locals
  <2> QED BY <1>0, <1>3, <2>2 DEF Locals
<1>13. TypeInv'
  BY <1>0, <1>11, <1>12 DEF StateInv, TypeInv
<1>14. PoolInv'
  <2>1. \A s : Idle(s)' <=> Idle(s)
    BY <1>0 DEF Idle
  <2>2. ASSUME NEW s \in Elems(f) \cup Elems(g) \cup ({c, v} \ {None}) PROVE Idle(s)
    <3>1. s \in Elems(f) \cup ({c} \ {None}) \/ s \in Elems(g) \cup ({v} \ {None})
      BY <2>2
    <3>2. s \in {main.cur, main.vcur} \/ s \in Elems(f0) \/ s \in Elems(g0)
      BY <1>6, <1>7, <3>1
    <3>3. s # None
      BY <1>8, <2>2, SurfaceLemma
    <3>4. s \in Elems(pool.free) \cup Elems(pool.vfree) \cup ({main.cur, main.vcur} \ {None}) \/ Idle(s)
      BY <1>4, <1>5, <3>2, <3>3
    <3> QED BY <3>4 DEF StateInv, PoolInv
  <2>3. VppAll' = VppAll
    BY <1>0 DEF VppAll
  <2> QED BY <1>6, <1>7, <1>11, <1>12, <2>1, <2>2, <2>3 DEF PoolInv
<1>15. KeptInv'
  <2>1. ASSUME NEW i \in 1 .. Len(dec) PROVE dec[i] \in Elems(u)
    BY <1>4 DEF StateInv, KeptInv, Idle
  <2> QED BY <1>0, <1>11, <2>1 DEF StateInv, KeptInv
<1>16. Current' = Current
  BY <1>12 DEF Current
<1>17. FlightInv' /\ IntactInv'
  BY <1>0, <1>11, <1>16, FlightFrame DEF StateInv
<1>18. ControlInv'
  BY <1>0, <1>9, <1>11, <1>12 DEF StateInv, ControlInv
<1>19. OrderInv'
  <2>1. (Over => Over') /\ (Failed => Failed')
    BY <1>0, <1>12 DEF Over, Failed
  <2> QED BY <1>0, <1>11, <1>12, <1>16, <2>1, OrderFrame DEF StateInv
<1> QED BY <1>13, <1>14, <1>15, <1>17, <1>18, <1>19 DEF StateInv

-----------------------------------------------------------------------------
(***************************************************************************)
(* The oldest output is synchronised                                       *)
(***************************************************************************)

Bit(b) == IF b THEN 1 ELSE 0

LEMMA PopLemma ==
    ASSUME StateInv, Oldest # None, ~DanglingOutput
    PROVE  /\ ~main.stale /\ Current = main.curOut
           /\ Oldest \in Outputs
           /\ Popped \in Pool
           /\ Popped.free = pool.free /\ Popped.used = pool.used
           /\ Popped.vfree = pool.vfree /\ Popped.vused = pool.vused
           /\ Popped.deliv = pool.deliv /\ Popped.wild = pool.wild
           /\ OneEach(Popped.out)
           /\ \A s \in Surfaces :
                Bit(Has(pool.out, s)) + Holds(main.curOut, s) = Bit(Has(Popped.out, s)) + Holds(Oldest, s)
           /\ surf[Oldest.surf].frame = Oldest.frame
           /\ \A i \in 1 .. Len(Popped.out) : surf[Popped.out[i].surf].frame = Popped.out[i].frame
           /\ Len(Popped.out) \in Nat
           /\ \A D \in Int : Numbered(D) =>
                /\ Oldest.frame = D + cnt.synced + 1
                /\ \A i \in 1 .. Len(Popped.out) : Popped.out[i].frame = D + cnt.synced + 1 + i
                /\ One(Current) + Len(pool.out) = 1 + Len(Popped.out)
<1>0. pool \in Pool /\ main \in Locals /\ cnt \in Cnt /\ FlightInv /\ IntactInv
  BY DEF StateInv, TypeInv
<1>1. ~main.stale /\ Current = main.curOut
  BY DEF DanglingOutput, Current
<1>2. pool.out \in Seq(Outputs) /\ OneEach(pool.out) /\ main.curOut \in Outputs \cup {None}
  BY <1>0 DEF Pool, Locals, FlightInv
<1>3. CASE ~(main.curOut = None /\ pool.out # << >>)
  <2>1. Oldest = main.curOut /\ Popped = pool /\ main.curOut # None
    BY <1>3 DEF Oldest, Popped
  <2>2. One(Current) = 1 /\ Len(pool.out) \in Nat
    BY <1>1, <1>2, <2>1 DEF One
  <2>3. ASSUME NEW D \in Int, Numbered(D)
        PROVE  /\ Oldest.frame = D + cnt.synced + 1
               /\ \A i \in 1 .. Len(pool.out) : pool.out[i].frame = D + cnt.synced + 1 + i
    BY <1>1, <2>1, <2>2, <2>3 DEF Numbered
  <2>4. surf[Oldest.surf].frame = Oldest.frame
        /\ \A i \in 1 .. Len(pool.out) : surf[pool.out[i].surf].frame = pool.out[i].frame
    BY <1>0, <1>1, <2>1 DEF IntactInv
  <2> QED BY <1>0, <1>1, <1>2, <2>1, <2>2, <2>3, <2>4
<1>4. CASE main.curOut = None /\ pool.out # << >>
  <2>1. Oldest = Head(pool.out) /\ Popped = [pool EXCEPT !.out = Tail(@), !.count = @ - 1]
    BY <1>4 DEF Oldest, Popped
  <2> DEFINE t == Tail(pool.out)
             h == Head(pool.out)
  <2>2. /\ h = pool.out[1] /\ h \in Outputs /\ t \in Seq(Outputs)
        /\ Len(t) = Len(pool.out) - 1 /\ Len(pool.out) \in Nat \ {0}
        /\ \A i \in 1 .. Len(pool.out) - 1 : t[i] = pool.out[i + 1]
    BY <1>2, <1>4, TailLemma
  <2>3. /\ \A s : Has(pool.out, s) <=> (Has(t, s) \/ h.surf = s)
        /\ OneEach(t) /\ ~Has(t, h.surf)
    BY <1>2, <1>4, TailOutLemma
  <2>4. /\ Popped \in Pool /\ Popped.out = t
        /\ Popped.free = pool.free /\ Popped.used = pool.used
        /\ Popped.vfree = pool.vfree /\ Popped.vused = pool.vused
        /\ Popped.deliv = pool.deliv /\ Popped.wild = pool.wild
    <3>1. pool.count - 1 \in Int
      BY <1>0 DEF Pool
    <3> HIDE DEF t
    <3>2. [pool EXCEPT !.out = t, !.count = pool.count - 1] \in Pool
      BY <1>0, <2>2, <3>1, Zenon DEF Pool
    <3>3. Popped = [pool EXCEPT !.out = t, !.count = pool.count - 1]
      BY <1>0, <2>1 DEF Pool, t
    <3> QED BY <1>0, <3>2, <3>3 DEF Pool
  <2> HIDE DEF t, h
  <2>5. Oldest = h
    BY <2>1 DEF h
  <2>6. h # None
    BY <2>2, SurfaceLemma
  <2>7. \A s \in Surfaces :
           Bit(Has(pool.out, s)) + Holds(main.curOut, s) = Bit(Has(t, s)) + Holds(h, s)
    <3>1. ASSUME NEW s \in Surfaces
          PROVE  Bit(Has(pool.out, s)) + Holds(main.curOut, s) = Bit(Has(t, s)) + Holds(h, s)
      <4>1. CASE h.surf = s
        BY <1>4, <2>3, <2>6, <4>1 DEF Bit, Holds
      <4>2. CASE h.surf # s
        <5>1. Has(pool.out, s) <=> Has(t, s)
          BY <2>3, <4>2
        <5> QED BY <1>4, <2>6, <4>2, <5>1 DEF Bit, Holds
      <4> QED BY <4>1, <4>2
    <3> QED BY <3>1
  <2>8. surf[h.surf].frame = h.frame
        /\ \A i \in 1 .. Len(t) : surf[t[i].surf].frame = t[i].frame
    <3>1. \A i \in 1 .. Len(pool.out) : surf[pool.out[i].surf].frame = pool.out[i].frame
      BY <1>0 DEF IntactInv
    <3>2. 1 \in 1 .. Len(pool.out) /\ \A i \in 1 .. Len(t) : i + 1 \in 1 .. Len(pool.out)
      BY <2>2
    <3> QED BY <2>2, <3>1, <3>2
  <2>9. ASSUME NEW D \in Int, Numbered(D)
        PROVE  /\ h.frame = D + cnt.synced + 1
               /\ \A i \in 1 .. Len(t) : t[i].frame = D + cnt.synced + 1 + i
    <3>1. One(Current) = 0 /\ cnt.synced \in Nat
      BY <1>0, <1>1, <1>4 DEF One, Cnt
    <3>2. \A i \in 1 .. Len(pool.out) : pool.out[i].frame = D + cnt.synced + 0 + i
      BY <2>9, <3>1 DEF Numbered
    <3>3. 1 \in 1 .. Len(pool.out) /\ \A i \in 1 .. Len(t) : i + 1 \in 1 .. Len(pool.out)
      BY <2>2
    <3>4. h.frame = D + cnt.synced + 1
      BY <2>2, <3>1, <3>2, <3>3
    <3>5. ASSUME NEW i \in 1 .. Len(t) PROVE t[i].frame = D + cnt.synced + 1 + i
      <4>1. t[i].frame = D + cnt.synced + 0 + (i + 1)
        BY <2>2, <3>2, <3>3
      <4>2. i \in Int /\ D \in Int
        OBVIOUS
      <4>3. D + cnt.synced + 0 + (i + 1) = D + cnt.synced + 1 + i
        BY <3>1, <4>2
      <4> QED BY <4>1, <4>3
    <3> QED BY <3>4, <3>5
  <2>10. One(Current) + Len(pool.out) = 1 + Len(t) /\ Len(t) \in Nat
    BY <1>1, <1>4, <2>2 DEF One
  <2> QED BY <1>1, <2>2, <2>3, <2>4, <2>5, <2>7, <2>8, <2>9, <2>10
<1> QED BY <1>3, <1>4

LEMMA SyncFailsStep ==
    ASSUME StateInv, SyncFails
    PROVE  StateInv'
<1> DEFINE x == Oldest
           P == Popped
<1>0. /\ mode \in [work : Modes, vpp : BOOLEAN] /\ pool \in Pool /\ main \in Locals /\ cnt \in Cnt
      /\ surf' = surf /\ dlv' = dlv /\ comm' = comm /\ cnt' = cnt /\ dec' = dec /\ mode' = mode
      /\ shown' = shown /\ restarts' = restarts /\ pool' = P
      /\ main.pc = "sync" /\ x # None /\ ~DanglingOutput
  BY DEF StateInv, TypeInv, SyncFails
<1>1. PICK r \in {"error", "lost"} : main' = Returned([main EXCEPT !.curOut = x], r)
  BY DEF SyncFails
<1>2. /\ ~main.stale /\ Current = main.curOut /\ x \in Outputs /\ P \in Pool
      /\ P.free = pool.free /\ P.used = pool.used /\ P.vfree = pool.vfree /\ P.vused = pool.vused
      /\ P.deliv = pool.deliv /\ OneEach(P.out)
      /\ \A s \in Surfaces : Bit(Has(pool.out, s)) + Holds(main.curOut, s) = Bit(Has(P.out, s)) + Holds(x, s)
      /\ surf[x.surf].frame = x.frame
      /\ \A i \in 1 .. Len(P.out) : surf[P.out[i].surf].frame = P.out[i].frame
  BY <1>0, PopLemma
<1>3. \A D \in Int : Numbered(D) =>
        /\ x.frame = D + cnt.synced + 1
        /\ \A i \in 1 .. Len(P.out) : P.out[i].frame = D + cnt.synced + 1 + i
        /\ One(Current) + Len(pool.out) = 1 + Len(P.out)
  BY <1>0, PopLemma
<1> HIDE DEF x, P
<1>4. /\ main' \in Locals /\ main'.cur = main.cur /\ main'.vcur = main.vcur
      /\ main'.curOut = x /\ main'.stale = FALSE /\ main'.n = main.n /\ main'.ret = main.ret
      /\ main'.pc \in {"wait", "end", "decode", "sync", "final", "top"}
      /\ main'.pc = "decode" => main.ret = "busy"
      /\ main'.pc = "sync" => main.ret = "drain"
      /\ main'.sts # "unknown"
  <2>1. r \in Sts /\ r # "unknown"
    BY NamesLemma
  <2> DEFINE K == [main EXCEPT !.curOut = x]
  <2>2. K \in Locals
    BY <1>0, <1>2, Zenon DEF Locals
  <2>3. /\ K.cur = main.cur /\ K.vcur = main.vcur /\ K.curOut = x /\ K.stale = main.stale
        /\ K.n = main.n /\ K.ret = main.ret /\ K.sts = main.sts
    BY <1>0 DEF Locals
  <2>4. main.sts # "unknown"
    BY <1>0 DEF StateInv, ControlInv
  <2> HIDE DEF K
  <2>5. main' = Returned(K, r)
    BY <1>1 DEF K
  <2>6. main' \in Locals /\ main'.cur = K.cur /\ main'.vcur = K.vcur /\ main'.curOut = K.curOut
        /\ main'.stale = K.stale /\ main'.n = K.n /\ main'.ret = K.ret
        /\ main'.pc \in {"wait", "end", "decode", "sync", "final", "top"}
        /\ (main'.pc = "decode" => K.ret = "busy")
        /\ (main'.pc = "sync" => K.ret = "drain")
        /\ (main'.sts = "unknown" => K.sts = "unknown" \/ (r = "unknown" /\ main'.pc \in {"top", "final"}))
    BY <2>1, <2>2, <2>5, ReturnedLemma
  <2> QED BY <1>2, <2>1, <2>3, <2>4, <2>6
<1>5. TypeInv'
  BY <1>0, <1>2, <1>4 DEF StateInv, TypeInv
<1>6. PoolInv'
  BY <1>0, <1>2, <1>4, PoolFrame DEF StateInv, Idle
<1>7. KeptInv'
  BY <1>0, <1>2 DEF StateInv, KeptInv
<1>8. Current' = x
  BY <1>4 DEF Current
<1>9. FlightInv'
  <2>1. ASSUME NEW s \in Surfaces
        PROVE  /\ surf[s].render = Bit(Has(P.out, s)) + Bit(Has(pool.deliv, s)) + Holds(dlv.x, s) + Holds(x, s)
               /\ surf[s].render <= 1
    <3>1. /\ surf[s].render = Bit(Has(pool.out, s)) + Bit(Has(pool.deliv, s)) + Holds(dlv.x, s) + Holds(main.curOut, s)
          /\ surf[s].render <= 1
      BY <1>2 DEF StateInv, FlightInv, Bit
    <3>2. Bit(Has(pool.out, s)) + Holds(main.curOut, s) = Bit(Has(P.out, s)) + Holds(x, s)
      BY <1>2
    <3>3. Bit(Has(pool.out, s)) \in Int /\ Bit(Has(P.out, s)) \in Int /\ Bit(Has(pool.deliv, s)) \in Int
          /\ Holds(main.curOut, s) \in Int /\ Holds(x, s) \in Int /\ Holds(dlv.x, s) \in Int
      BY DEF Bit, Holds
    <3> QED BY <3>1, <3>2, <3>3
  <2> QED BY <1>0, <1>2, <1>8, <2>1 DEF StateInv, FlightInv, Bit
<1>10. IntactInv'
  BY <1>0, <1>2, <1>8 DEF StateInv, IntactInv
<1>11. ControlInv'
  BY <1>0, <1>2, <1>4 DEF StateInv, ControlInv
<1>12. OrderInv'
  <2>1. One(Current') = 1 /\ x # None
    BY <1>0, <1>8 DEF One
  <2>2. ~Over /\ cnt \in Cnt /\ main \in Locals
    BY <1>0 DEF Over
  <2>3. \A D : Delivered(D)' = Delivered(D)
    BY <1>0, <1>2 DEF Delivered
  <2>4. ASSUME NEW D \in Int, Numbered(D) PROVE Numbered(D)'
    <3>1. /\ x.frame = D + cnt.synced + 1
          /\ \A i \in 1 .. Len(P.out) : P.out[i].frame = D + cnt.synced + 1 + i
          /\ One(Current) + Len(pool.out) = 1 + Len(P.out)
      BY <1>3, <2>4
    <3>2. D + cnt.synced + 1 + Len(P.out) = main.n - Len(dec)
      <4>1. One(Current) \in Int /\ Len(pool.out) \in Int /\ Len(P.out) \in Int
        BY <1>0, <1>2 DEF One, Pool
      <4>2. D + cnt.synced + One(Current) + Len(pool.out) = main.n - Len(dec)
        BY <2>2, <2>4 DEF Numbered
      <4>3. cnt.synced \in Int
        BY <2>2 DEF Cnt
      <4>4. One(Current) + Len(pool.out) = 1 + Len(P.out)
        BY <3>1
      <4>5. D + cnt.synced + One(Current) + Len(pool.out) = D + cnt.synced + 1 + Len(P.out)
        <5> DEFINE o == One(Current)
                   l == Len(pool.out)
                   k == Len(P.out)
                   c == cnt.synced
        <5>1. o \in Int /\ l \in Int /\ k \in Int /\ c \in Int /\ o + l = 1 + k
          BY <4>1, <4>3, <4>4
        <5> HIDE DEF o, l, k, c
        <5>2. D + c + o + l = D + c + 1 + k
          BY <5>1
        <5> QED BY <5>2 DEF o, l, k, c
      <4> QED BY <4>2, <4>5
    <3>3. main.n - Len(dec) \in Int
      BY <2>2 DEF StateInv, TypeInv, Locals
    <3> QED BY <1>0, <1>2, <1>4, <1>8, <2>1, <2>3, <2>4, <3>1, <3>2, <3>3 DEF Numbered
  <2>5. FirstRun'
    <3>1. Failed' => Failed
      BY <1>0, <1>4 DEF Failed
    <3>2. Failed => Failed'
      BY <1>0 DEF Failed, StateInv, ControlInv
    <3> QED BY <1>0, <2>3, <2>4, <3>2 DEF FirstRun, StateInv, OrderInv
  <2> QED BY <2>4, <2>5 DEF StateInv, OrderInv
<1> QED BY <1>5, <1>6, <1>7, <1>9, <1>10, <1>11, <1>12 DEF StateInv

\* The output goes to the delivering thread.
LEMMA SyncToScreenStep ==
    ASSUME StateInv, SyncOutputSurface, mode.work = "render"
    PROVE  StateInv'
<1> DEFINE x == Oldest
           P == Popped
           d == Append(pool.deliv, x)
<1>0. /\ mode \in [work : Modes, vpp : BOOLEAN] /\ pool \in Pool /\ main \in Locals /\ cnt \in Cnt
      /\ comm \in Comm /\ dlv \in Dlv
      /\ surf' = surf /\ dlv' = dlv /\ comm' = comm /\ dec' = dec /\ mode' = mode
      /\ shown' = shown /\ restarts' = restarts
      /\ main.pc = "sync" /\ x # None /\ ~DanglingOutput
  BY DEF StateInv, TypeInv, SyncOutputSurface
<1>1. /\ pool' = [P EXCEPT !.deliv = Append(@, x)]
      /\ cnt' = [cnt EXCEPT !.synced = cnt.synced + 1]
      /\ main' = [main EXCEPT !.pc = "post", !.curOut = None]
  BY DEF SyncOutputSurface
<1>2. /\ ~main.stale /\ Current = main.curOut /\ x \in Outputs /\ P \in Pool
      /\ P.free = pool.free /\ P.used = pool.used /\ P.vfree = pool.vfree /\ P.vused = pool.vused
      /\ P.deliv = pool.deliv /\ OneEach(P.out)
      /\ \A s \in Surfaces : Bit(Has(pool.out, s)) + Holds(main.curOut, s) = Bit(Has(P.out, s)) + Holds(x, s)
      /\ surf[x.surf].frame = x.frame
      /\ \A i \in 1 .. Len(P.out) : surf[P.out[i].surf].frame = P.out[i].frame
  BY <1>0, PopLemma
<1>3. \A D \in Int : Numbered(D) =>
        /\ x.frame = D + cnt.synced + 1
        /\ \A i \in 1 .. Len(P.out) : P.out[i].frame = D + cnt.synced + 1 + i
        /\ One(Current) + Len(pool.out) = 1 + Len(P.out)
  BY <1>0, PopLemma
<1> HIDE DEF x, P
<1>4. /\ main' \in Locals /\ main'.cur = main.cur /\ main'.vcur = main.vcur
      /\ main'.curOut = None /\ main'.n = main.n /\ main'.ret = main.ret
      /\ main'.pc = "post" /\ main'.sts = main.sts /\ main.sts # "unknown"
  <2>1. [main EXCEPT !.pc = "post", !.curOut = None] \in Locals
    BY <1>0, NamesLemma, Zenon DEF Locals
  <2>2. main.sts # "unknown"
    BY <1>0 DEF StateInv, ControlInv
  <2> QED BY <1>0, <1>1, <2>1, <2>2 DEF Locals
<1>5. /\ d \in Seq(Outputs) /\ Len(d) = Len(pool.deliv) + 1 /\ Len(pool.deliv) \in Nat
      /\ \A i \in 1 .. Len(pool.deliv) : d[i] = pool.deliv[i]
      /\ d[Len(pool.deliv) + 1] = x
      /\ \A s : Has(d, s) <=> (Has(pool.deliv, s) \/ x.surf = s)
      /\ OneEach(pool.deliv) /\ ~Has(pool.deliv, x.surf) => OneEach(d)
  <2>1. pool.deliv \in Seq(Outputs)
    BY <1>0 DEF Pool
  <2> QED BY <1>2, <2>1, AppendLemma, AppendOutLemma
<1> HIDE DEF d
<1>6. /\ pool' \in Pool /\ pool'.deliv = d /\ pool'.out = P.out
      /\ pool'.free = pool.free /\ pool'.used = pool.used
      /\ pool'.vfree = pool.vfree /\ pool'.vused = pool.vused
  <2>1. [P EXCEPT !.deliv = d] \in Pool
    BY <1>2, <1>5, Zenon DEF Pool
  <2>2. pool' = [P EXCEPT !.deliv = d]
    BY <1>1, <1>2 DEF Pool, d
  <2> QED BY <1>2, <2>1, <2>2 DEF Pool
<1>7. cnt' \in Cnt /\ cnt'.synced = cnt.synced + 1 /\ cnt.synced \in Nat
  BY <1>0, <1>1 DEF Cnt
<1>8. TypeInv'
  BY <1>0, <1>4, <1>6, <1>7 DEF StateInv, TypeInv
<1>9. PoolInv'
  BY <1>0, <1>4, <1>6, PoolFrame DEF StateInv, Idle
<1>10. KeptInv'
  BY <1>0, <1>6 DEF StateInv, KeptInv
<1>11. Current' = None
  BY <1>4 DEF Current
<1>12. x.surf \in Surfaces
  BY <1>2 DEF Outputs
<1>13. \A s \in Surfaces :
          /\ surf[s].render = Bit(Has(P.out, s)) + Bit(Has(pool.deliv, s)) + Holds(dlv.x, s) + Holds(x, s)
          /\ surf[s].render <= 1
  <2>1. ASSUME NEW s \in Surfaces
        PROVE  /\ surf[s].render = Bit(Has(P.out, s)) + Bit(Has(pool.deliv, s)) + Holds(dlv.x, s) + Holds(x, s)
               /\ surf[s].render <= 1
    <3>1. /\ surf[s].render = Bit(Has(pool.out, s)) + Bit(Has(pool.deliv, s)) + Holds(dlv.x, s) + Holds(main.curOut, s)
          /\ surf[s].render <= 1
      BY <1>2 DEF StateInv, FlightInv, Bit
    <3>2. Bit(Has(pool.out, s)) + Holds(main.curOut, s) = Bit(Has(P.out, s)) + Holds(x, s)
      BY <1>2
    <3>3. Bit(Has(pool.out, s)) \in Int /\ Bit(Has(P.out, s)) \in Int /\ Bit(Has(pool.deliv, s)) \in Int
          /\ Holds(main.curOut, s) \in Int /\ Holds(x, s) \in Int /\ Holds(dlv.x, s) \in Int
      BY DEF Bit, Holds
    <3> DEFINE o == Bit(Has(pool.out, s))
               p == Bit(Has(P.out, s))
               l == Bit(Has(pool.deliv, s))
               y == Holds(dlv.x, s)
               k == Holds(main.curOut, s)
               z == Holds(x, s)
    <3> HIDE DEF o, p, l, y, k, z
    <3>4. o \in Int /\ p \in Int /\ l \in Int /\ y \in Int /\ k \in Int /\ z \in Int /\ o + k = p + z
      BY <3>2, <3>3 DEF o, p, l, y, k, z
    <3>5. o + l + y + k = p + l + y + z
      BY <3>4
    <3> QED BY <3>1, <3>5 DEF o, p, l, y, k, z
  <2> QED BY <2>1
<1>14. FlightInv'
  <2>1. ~Has(pool.deliv, x.surf)
    <3>1. Holds(x, x.surf) = 1
      BY <1>0 DEF Holds
    <3>2. Bit(Has(P.out, x.surf)) \in {0, 1} /\ Holds(dlv.x, x.surf) \in {0, 1}
          /\ Bit(Has(pool.deliv, x.surf)) \in {0, 1}
      BY DEF Holds, Bit
    <3>3. Bit(Has(P.out, x.surf)) + Bit(Has(pool.deliv, x.surf)) + Holds(dlv.x, x.surf) + Holds(x, x.surf) <= 1
      BY <1>12, <1>13
    <3>4. Bit(Has(pool.deliv, x.surf)) = 0
      BY <3>1, <3>2, <3>3
    <3> QED BY <3>4 DEF Bit
  <2>2. OneEach(d)
    BY <1>5, <2>1 DEF StateInv, FlightInv
  <2>3. ASSUME NEW s \in Surfaces
        PROVE  /\ surf[s].render = Bit(Has(P.out, s)) + Bit(Has(d, s)) + Holds(dlv.x, s) + Holds(None, s)
               /\ surf[s].render <= 1
    <3>1. /\ surf[s].render = Bit(Has(P.out, s)) + Bit(Has(pool.deliv, s)) + Holds(dlv.x, s) + Holds(x, s)
          /\ surf[s].render <= 1
      BY <1>13
    <3>2. Bit(Has(pool.deliv, s)) + Holds(x, s) = Bit(Has(d, s)) + Holds(None, s)
      <4>1. CASE x.surf = s
        BY <1>0, <1>5, <2>1, <4>1 DEF Bit, Holds
      <4>2. CASE x.surf # s
        <5>1. Has(pool.deliv, s) <=> Has(d, s)
          BY <1>5, <4>2
        <5> QED BY <4>2, <5>1 DEF Bit, Holds
      <4> QED BY <4>1, <4>2
    <3>3. Bit(Has(P.out, s)) \in Int /\ Bit(Has(pool.deliv, s)) \in Int /\ Bit(Has(d, s)) \in Int
          /\ Holds(None, s) \in Int /\ Holds(x, s) \in Int /\ Holds(dlv.x, s) \in Int
      BY DEF Bit, Holds
    <3> DEFINE p == Bit(Has(P.out, s))
               l == Bit(Has(pool.deliv, s))
               m == Bit(Has(d, s))
               y == Holds(dlv.x, s)
               k == Holds(None, s)
               z == Holds(x, s)
    <3> HIDE DEF p, l, m, y, k, z
    <3>4. p \in Int /\ l \in Int /\ m \in Int /\ y \in Int /\ k \in Int /\ z \in Int /\ l + z = m + k
      BY <3>2, <3>3 DEF p, l, m, y, k, z
    <3>5. p + l + y + z = p + m + y + k
      BY <3>4
    <3> QED BY <3>1, <3>5 DEF p, l, m, y, k, z
  <2> QED BY <1>0, <1>2, <1>6, <1>11, <2>2, <2>3 DEF FlightInv, Bit
<1>15. IntactInv'
  <2>1. \A i \in 1 .. Len(d) : i \in 1 .. Len(pool.deliv) \/ i = Len(pool.deliv) + 1
    BY <1>5
  <2>2. \A i \in 1 .. Len(d) : surf[d[i].surf].frame = d[i].frame
    BY <1>2, <1>5, <2>1 DEF StateInv, IntactInv
  <2> QED BY <1>0, <1>2, <1>6, <1>11, <2>2 DEF StateInv, IntactInv
<1>16. ControlInv'
  <2>1. ~comm.stop => comm.sem + 1 <= Len(d)
    BY <1>0, <1>5 DEF StateInv, ControlInv, Comm
  <2> QED BY <1>0, <1>4, <1>6, <2>1 DEF StateInv, ControlInv
<1>17. OrderInv'
  <2>1. One(Current') = 0 /\ One(Current) \in Int /\ One(dlv.x) \in Int
    BY <1>11 DEF One
  <2>2. ~Over /\ main.n - Len(dec) \in Int
    BY <1>0 DEF Over, StateInv, TypeInv, Locals
  <2>3. \A D \in Int : Delivered(D)' = Delivered(D)
    <3> DEFINE l == Len(pool.deliv)
               c == cnt.synced
               y == One(dlv.x)
    <3>1. l \in Int /\ c \in Int /\ y \in Int /\ Len(d) = l + 1
      BY <1>5, <1>7, <2>1
    <3> HIDE DEF l, c, y
    <3>2. \A D \in Int : D + (c + 1) - (l + 1) - y = D + c - l - y
      BY <3>1
    <3> QED BY <1>0, <1>6, <1>7, <3>1, <3>2 DEF Delivered, l, c, y
  <2>4. ASSUME NEW D \in Int, Numbered(D) PROVE Numbered(D)'
    <3>1. /\ x.frame = D + cnt.synced + 1
          /\ \A i \in 1 .. Len(P.out) : P.out[i].frame = D + cnt.synced + 1 + i
          /\ One(Current) + Len(pool.out) = 1 + Len(P.out)
      BY <1>3, <2>4
    <3>2. D + (cnt.synced + 1) + 0 + Len(P.out) = main.n - Len(dec)
      <4> DEFINE o == One(Current)
                 l == Len(pool.out)
                 k == Len(P.out)
                 c == cnt.synced
                 m == main.n - Len(dec)
      <4>1. o \in Int /\ l \in Int /\ k \in Int /\ c \in Int /\ o + l = 1 + k
        BY <1>0, <1>2, <1>7, <2>1, <3>1 DEF Pool
      <4>2. D + c + o + l = m
        BY <2>2, <2>4 DEF Numbered
      <4> HIDE DEF o, l, k, c, m
      <4>3. D + (c + 1) + 0 + k = m
        BY <4>1, <4>2
      <4> QED BY <4>3 DEF k, c, m
    <3>3. dlv.x # None => dlv.x.frame = Delivered(D) + 1
      BY <2>4 DEF Numbered
    <3>4. \A i \in 1 .. Len(d) : d[i].frame = D + (cnt.synced + 1) - Len(d) + i
      <4> DEFINE l == Len(pool.deliv)
                 c == cnt.synced
      <4>1. l \in Int /\ c \in Int /\ Len(d) = l + 1
        BY <1>5, <1>7
      <4>2. \A i \in 1 .. l : d[i].frame = D + c - l + i
        BY <1>5, <2>4 DEF Numbered
      <4>3. d[l + 1].frame = D + c + 1
        BY <1>5, <3>1
      <4> HIDE DEF l, c
      <4>4. ASSUME NEW i \in 1 .. l + 1 PROVE d[i].frame = D + (c + 1) - (l + 1) + i
        <5>1. CASE i \in 1 .. l
          BY <4>1, <4>2, <5>1
        <5>2. CASE i = l + 1
          BY <4>1, <4>3, <5>2
        <5> QED BY <4>1, <5>1, <5>2
      <4> QED BY <4>1, <4>4 DEF c
    <3>5. \A i \in 1 .. Len(P.out) : P.out[i].frame = D + (cnt.synced + 1) + 0 + i
      BY <1>7, <3>1
    <3>6. \A i \in 1 .. Len(dec) : surf[dec[i]].frame = main.n - Len(dec) + i
      BY <2>4 DEF Numbered
    <3>7. \A i \in 1 .. Len(shown) : shown[i] <= Delivered(D) /\ (i > 1 => shown[i] > shown[i - 1])
      BY <2>4 DEF Numbered
    <3>8. Delivered(D)' = Delivered(D)
      BY <2>3
    <3>9. D + (cnt.synced + 1) + 0 + Len(P.out) <= main.n - Len(dec)
      BY <2>2, <3>2
    <3> QED BY <1>0, <1>4, <1>6, <1>7, <1>11, <2>1, <3>2, <3>3, <3>4, <3>5, <3>6, <3>7, <3>8, <3>9 DEF Numbered
  <2>5. FirstRun'
    <3>1. Failed => Failed'
      BY <1>0, <1>4 DEF Failed
    <3> QED BY <1>0, <2>3, <2>4, <3>1 DEF FirstRun, StateInv, OrderInv
  <2> QED BY <2>4, <2>5 DEF StateInv, OrderInv
<1> QED BY <1>8, <1>9, <1>10, <1>14, <1>15, <1>16, <1>17 DEF StateInv

\* The output is written and returned, or returned because it could not be written.
LEMMA ReturnStep ==
    ASSUME StateInv, mode.work # "render", main.pc = "sync", Oldest # None, ~DanglingOutput,
           pool' = Popped, surf' = ReturnSurface(surf, Oldest),
           mode' = mode, dlv' = dlv, comm' = comm, dec' = dec, restarts' = restarts,
           cnt' \in Cnt, cnt'.synced = cnt.synced + 1,
           NEW r \in {"ok", "unknown"}, main' = Returned([main EXCEPT !.curOut = None], r),
           r = "ok" => shown' = Append(shown, surf[Oldest.surf].frame),
           r = "unknown" => shown' = shown /\ mode.work = "file"
    PROVE  StateInv'
<1> DEFINE x == Oldest
           P == Popped
<1>0. /\ mode \in [work : Modes, vpp : BOOLEAN] /\ pool \in Pool /\ main \in Locals /\ cnt \in Cnt
      /\ surf \in [Surfaces -> [locked : BOOLEAN, render : Int, frame : Nat]]
      /\ dlv \in Dlv /\ shown \in Seq(Nat) /\ dec \in Seq(Frames)
      /\ x # None /\ ~DanglingOutput /\ pool' = P
  BY DEF StateInv, TypeInv
<1>2. /\ ~main.stale /\ Current = main.curOut /\ x \in Outputs /\ P \in Pool
      /\ P.free = pool.free /\ P.used = pool.used /\ P.vfree = pool.vfree /\ P.vused = pool.vused
      /\ P.deliv = pool.deliv /\ OneEach(P.out)
      /\ \A s \in Surfaces : Bit(Has(pool.out, s)) + Holds(main.curOut, s) = Bit(Has(P.out, s)) + Holds(x, s)
      /\ surf[x.surf].frame = x.frame
      /\ \A i \in 1 .. Len(P.out) : surf[P.out[i].surf].frame = P.out[i].frame
  BY <1>0, PopLemma
<1>3. \A D \in Int : Numbered(D) =>
        /\ x.frame = D + cnt.synced + 1
        /\ \A i \in 1 .. Len(P.out) : P.out[i].frame = D + cnt.synced + 1 + i
        /\ One(Current) + Len(pool.out) = 1 + Len(P.out)
  BY <1>0, PopLemma
<1>4. x.surf \in Surfaces /\ x.frame \in Nat
  BY <1>2 DEF Outputs
<1>5. /\ surf' \in [Surfaces -> [locked : BOOLEAN, render : Int, frame : Nat]]
      /\ \A s \in Surfaces : /\ surf'[s].locked = surf[s].locked /\ surf'[s].frame = surf[s].frame
                             /\ surf'[s].render = surf[s].render - Holds(x, s)
  <2>1. surf' = [surf EXCEPT ![x.surf] = [surf[x.surf] EXCEPT !.render = surf[x.surf].render - 1]]
    BY DEF ReturnSurface
  <2> HIDE DEF x
  <2>2. [surf[x.surf] EXCEPT !.render = surf[x.surf].render - 1] \in [locked : BOOLEAN, render : Int, frame : Nat]
    <3>1. surf[x.surf] \in [locked : BOOLEAN, render : Int, frame : Nat] /\ surf[x.surf].render - 1 \in Int
      BY <1>0, <1>4
    <3> QED BY <3>1, Zenon
  <2>3. surf' \in [Surfaces -> [locked : BOOLEAN, render : Int, frame : Nat]]
    BY <1>0, <1>4, <2>1, <2>2
  <2>4. ASSUME NEW s \in Surfaces
        PROVE  /\ surf'[s].locked = surf[s].locked /\ surf'[s].frame = surf[s].frame
               /\ surf'[s].render = surf[s].render - Holds(x, s)
    <3>1. CASE s = x.surf
      BY <1>0, <1>4, <2>1, <3>1 DEF Holds
    <3>2. CASE s # x.surf
      BY <1>0, <1>4, <2>1, <3>2 DEF Holds
    <3> QED BY <3>1, <3>2
  <2> QED BY <2>3, <2>4
<1> HIDE DEF x, P
<1>6. /\ main' \in Locals /\ main'.cur = main.cur /\ main'.vcur = main.vcur
      /\ main'.curOut = None /\ main'.stale = FALSE /\ main'.n = main.n /\ main'.ret = main.ret
      /\ main'.pc \in {"wait", "end", "decode", "sync", "final", "top"}
      /\ main'.pc = "decode" => main.ret = "busy"
      /\ main'.pc = "sync" => main.ret = "drain"
      /\ main'.sts = "unknown" => r = "unknown" /\ main'.pc \in {"top", "final"}
      /\ r = "unknown" => main'.sts = "unknown"
      /\ main.sts # "unknown"
  <2>1. r \in Sts
    BY NamesLemma
  <2> DEFINE K == [main EXCEPT !.curOut = None]
  <2>2. K \in Locals
    BY <1>0, <1>2, Zenon DEF Locals
  <2>3. /\ K.cur = main.cur /\ K.vcur = main.vcur /\ K.curOut = None /\ K.stale = main.stale
        /\ K.n = main.n /\ K.ret = main.ret /\ K.sts = main.sts
    BY <1>0 DEF Locals
  <2>4. main.sts # "unknown"
    BY <1>0 DEF StateInv, ControlInv
  <2> HIDE DEF K
  <2>5. main' = Returned(K, r)
    BY <1>2 DEF K
  <2>6. main' \in Locals /\ main'.cur = K.cur /\ main'.vcur = K.vcur /\ main'.curOut = K.curOut
        /\ main'.stale = K.stale /\ main'.n = K.n /\ main'.ret = K.ret
        /\ main'.pc \in {"wait", "end", "decode", "sync", "final", "top"}
        /\ (main'.pc = "decode" => K.ret = "busy")
        /\ (main'.pc = "sync" => K.ret = "drain")
        /\ (main'.sts = "unknown" => K.sts = "unknown" \/ (r = "unknown" /\ main'.pc \in {"top", "final"}))
        /\ (r = "unknown" => main'.sts = "unknown")
    BY <2>1, <2>2, <2>5, ReturnedLemma
  <2> QED BY <1>2, <2>1, <2>3, <2>4, <2>6
<1>7. pool.deliv = << >> /\ dlv.x = None /\ ~comm.err
  BY <1>0 DEF StateInv, ControlInv
<1>8. Current' = None
  BY <1>6 DEF Current
<1>9. /\ shown' \in Seq(Nat)
      /\ r = "ok" => /\ Len(shown') = Len(shown) + 1
                     /\ \A i \in 1 .. Len(shown) : shown'[i] = shown[i]
                     /\ shown'[Len(shown) + 1] = x.frame
  <2>1. r = "ok" => shown' = Append(shown, x.frame)
    BY <1>2 DEF x
  <2>2. r = "unknown" => shown' = shown
    OBVIOUS
  <2>3. CASE r = "ok"
    <3>1. shown \in Seq(Nat) /\ x.frame \in Nat
      BY <1>0, <1>4
    <3> DEFINE a == Append(shown, x.frame)
    <3>2. /\ a \in Seq(Nat) /\ Len(a) = Len(shown) + 1
          /\ \A i \in 1 .. Len(shown) : a[i] = shown[i]
          /\ a[Len(shown) + 1] = x.frame
      <4> DEFINE y == x.frame
      <4> HIDE DEF y
      <4>1. shown \in Seq(Nat) /\ y \in Nat /\ a = Append(shown, y)
        BY <3>1 DEF y
      <4> HIDE DEF a
      <4> QED BY <4>1, AppendLemma DEF y
    <3>3. shown' = a
      BY <2>1, <2>3
    <3> HIDE DEF a
    <3> QED BY <2>3, <3>2, <3>3
  <2>4. CASE r = "unknown"
    BY <1>0, <2>2, <2>4
  <2> QED BY <2>3, <2>4
<1>10. TypeInv'
  BY <1>0, <1>2, <1>5, <1>6, <1>9 DEF StateInv, TypeInv
<1>11. \A s \in Surfaces :
          /\ surf'[s].render = Bit(Has(P.out, s)) + Bit(Has(pool.deliv, s)) + Holds(dlv.x, s)
          /\ surf'[s].render <= 1
          /\ Holds(x, s) \in {0, 1} /\ surf[s].render >= Holds(x, s)
  <2>1. ASSUME NEW s \in Surfaces
        PROVE  /\ surf'[s].render = Bit(Has(P.out, s)) + Bit(Has(pool.deliv, s)) + Holds(dlv.x, s)
               /\ surf'[s].render <= 1
               /\ Holds(x, s) \in {0, 1} /\ surf[s].render >= Holds(x, s)
    <3>1. /\ surf[s].render = Bit(Has(pool.out, s)) + Bit(Has(pool.deliv, s)) + Holds(dlv.x, s) + Holds(main.curOut, s)
          /\ surf[s].render <= 1
      BY <1>2 DEF StateInv, FlightInv, Bit
    <3>2. Bit(Has(pool.out, s)) + Holds(main.curOut, s) = Bit(Has(P.out, s)) + Holds(x, s)
      BY <1>2
    <3>3. Bit(Has(pool.out, s)) \in {0, 1} /\ Bit(Has(P.out, s)) \in {0, 1} /\ Bit(Has(pool.deliv, s)) \in {0, 1}
          /\ Holds(main.curOut, s) \in {0, 1} /\ Holds(x, s) \in {0, 1} /\ Holds(dlv.x, s) \in {0, 1}
      BY DEF Bit, Holds
    <3> DEFINE o == Bit(Has(pool.out, s))
               p == Bit(Has(P.out, s))
               l == Bit(Has(pool.deliv, s))
               y == Holds(dlv.x, s)
               k == Holds(main.curOut, s)
               z == Holds(x, s)
               e == surf[s].render
    <3> HIDE DEF o, p, l, y, k, z, e
    <3>4. /\ o \in {0, 1} /\ p \in {0, 1} /\ l \in {0, 1} /\ y \in {0, 1} /\ k \in {0, 1} /\ z \in {0, 1}
          /\ o + k = p + z /\ e = o + l + y + k /\ e <= 1
      BY <3>1, <3>2, <3>3 DEF o, p, l, y, k, z, e
    <3>5. e - z = p + l + y /\ e - z <= 1 /\ e >= z
      BY <3>4
    <3> QED BY <1>5, <3>3, <3>5 DEF p, l, y, z, e
  <2> QED BY <2>1
<1>12. \A s \in Surfaces : Idle(s) => Idle(s)'
  <2>1. ASSUME NEW s \in Surfaces, Idle(s) PROVE Idle(s)'
    <3>1. ~surf[s].locked /\ surf[s].render = 0
      BY <2>1 DEF Idle
    <3>2. Holds(x, s) = 0
      BY <1>11, <3>1
    <3>3. surf'[s].render = 0 /\ ~surf'[s].locked
      BY <1>5, <3>1, <3>2
    <3> QED BY <3>3 DEF Idle
  <2> QED BY <2>1
<1>13. PoolInv'
  <2>1. \A s \in Elems(pool.free) \cup Elems(pool.vfree) \cup ({main.cur, main.vcur} \ {None}) : s \in Surfaces
    <3>1. pool.free \in Seq(Surfaces) /\ pool.vfree \in Seq(Surfaces)
          /\ main.cur \in Surfaces \cup {None} /\ main.vcur \in Surfaces \cup {None}
      BY <1>0 DEF Pool, Locals
    <3>2. Elems(pool.free) \subseteq Surfaces /\ Elems(pool.vfree) \subseteq Surfaces
      BY <3>1 DEF Elems
    <3> QED BY <3>1, <3>2
  <2> QED BY <1>0, <1>2, <1>6, <1>12, <2>1, PoolFrame DEF StateInv
<1>14. KeptInv'
  <2>1. ASSUME NEW i \in 1 .. Len(dec)
        PROVE  surf'[dec[i]].locked /\ surf'[dec[i]].render = 0
    <3>1. surf[dec[i]].locked /\ surf[dec[i]].render = 0
      BY DEF StateInv, KeptInv
    <3>2. dec[i] \in Surfaces
      BY <1>0, SurfaceLemma
    <3> QED BY <1>5, <1>11, <3>1, <3>2
  <2> QED BY <1>0, <1>2, <2>1 DEF StateInv, KeptInv
<1>15. FlightInv'
  <2>1. \A s \in Surfaces :
           /\ surf'[s].render = Bit(Has(P.out, s)) + Bit(Has(pool.deliv, s)) + Holds(dlv.x, s) + Holds(None, s)
           /\ surf'[s].render <= 1
    <3>1. \A s : Holds(None, s) = 0 /\ Bit(Has(P.out, s)) \in Int /\ Bit(Has(pool.deliv, s)) \in Int
                 /\ Holds(dlv.x, s) \in Int
      BY DEF Holds, Bit
    <3> QED BY <1>11, <3>1
  <2> QED BY <1>0, <1>2, <1>8, <2>1 DEF StateInv, FlightInv, Bit
<1>16. IntactInv'
  <2>1. \A i \in 1 .. Len(P.out) : surf'[P.out[i].surf].frame = P.out[i].frame
    <3>1. \A i \in 1 .. Len(P.out) : P.out[i].surf \in Surfaces
      <4>1. P.out \in Seq(Outputs)
        BY <1>2 DEF Pool
      <4>2. \A i \in 1 .. Len(P.out) : P.out[i] \in Outputs
        BY <4>1
      <4> QED BY <4>2 DEF Outputs
    <3> QED BY <1>2, <1>5, <3>1
  <2>2. \A i \in 1 .. Len(P.deliv) : surf'[P.deliv[i].surf].frame = P.deliv[i].frame
    BY <1>2, <1>7
  <2> QED BY <1>0, <1>7, <1>8, <2>1, <2>2 DEF IntactInv
<1>17. ControlInv'
  BY <1>0, <1>2, <1>6, <1>7 DEF StateInv, ControlInv
<1>18. OrderInv'
  <2>1. One(Current') = 0 /\ One(Current) \in Int /\ One(dlv.x) = 0 /\ Len(pool.deliv) = 0 /\ cnt.synced \in Int
    BY <1>0, <1>7, <1>8 DEF One, Cnt
  <2>2. ~Over /\ main.n - Len(dec) \in Int
    BY <1>0 DEF Over, StateInv, TypeInv, Locals
  <2>3. \A D \in Int : Delivered(D) = D + cnt.synced /\ Delivered(D)' = D + cnt.synced + 1
    <3>1. dlv'.x = dlv.x /\ pool'.deliv = pool.deliv
      BY <1>0, <1>2
    <3>2. \A D \in Int : Delivered(D) = D + cnt.synced
      BY <2>1 DEF Delivered
    <3>3. \A D \in Int : Delivered(D)' = D + (cnt.synced + 1) - 0 - 0
      BY <2>1, <3>1 DEF Delivered
    <3> QED BY <2>1, <3>2, <3>3
  <2>4. ASSUME NEW D \in Int, Numbered(D) PROVE Numbered(D)'
    <3>1. /\ x.frame = D + cnt.synced + 1
          /\ \A i \in 1 .. Len(P.out) : P.out[i].frame = D + cnt.synced + 1 + i
          /\ One(Current) + Len(pool.out) = 1 + Len(P.out)
      BY <1>3, <2>4
    <3>2. D + (cnt.synced + 1) + 0 + Len(P.out) = main.n - Len(dec)
      <4> DEFINE o == One(Current)
                 l == Len(pool.out)
                 k == Len(P.out)
                 c == cnt.synced
                 m == main.n - Len(dec)
      <4>1. o \in Int /\ l \in Int /\ k \in Int /\ c \in Int /\ o + l = 1 + k
        BY <1>0, <1>2, <2>1, <3>1 DEF Pool
      <4>2. D + c + o + l = m
        BY <2>2, <2>4 DEF Numbered
      <4> HIDE DEF o, l, k, c, m
      <4>3. D + (c + 1) + 0 + k = m
        BY <4>1, <4>2
      <4> QED BY <4>3 DEF k, c, m
    <3>3. \A i \in 1 .. Len(P.out) : P.out[i].frame = D + (cnt.synced + 1) + 0 + i
      BY <2>1, <3>1
    <3>4. \A i \in 1 .. Len(dec) : surf'[dec[i]].frame = main.n - Len(dec) + i
      <4>1. \A i \in 1 .. Len(dec) : dec[i] \in Surfaces
        BY <1>0, SurfaceLemma
      <4> QED BY <1>5, <2>4, <4>1 DEF Numbered
    <3>5. \A i \in 1 .. Len(shown) : shown[i] <= D + cnt.synced /\ (i > 1 => shown[i] > shown[i - 1])
      BY <2>3, <2>4 DEF Numbered
    <3>6. \A i \in 1 .. Len(shown') :
             shown'[i] <= D + cnt.synced + 1 /\ (i > 1 => shown'[i] > shown'[i - 1])
      <4> DEFINE c == D + cnt.synced
                 k == Len(shown)
      <4>0. c \in Int /\ k \in Nat /\ \A i \in 1 .. k : shown[i] \in Int
        BY <1>0, <2>1
      <4>1. \A i \in 1 .. k : shown[i] <= c /\ (i > 1 => shown[i] > shown[i - 1])
        BY <3>5
      <4>2. x.frame = c + 1
        BY <3>1
      <4> HIDE DEF c, k
      <4>3. CASE r = "ok"
        <5>1. Len(shown') = k + 1 /\ (\A i \in 1 .. k : shown'[i] = shown[i]) /\ shown'[k + 1] = c + 1
          BY <1>9, <4>2, <4>3 DEF k
        <5>2. ASSUME NEW i \in 1 .. k + 1 PROVE shown'[i] <= c + 1 /\ (i > 1 => shown'[i] > shown'[i - 1])
          <6>1. CASE i \in 1 .. k
            <7>1. i > 1 => i - 1 \in 1 .. k
              BY <4>0, <6>1
            <7> QED BY <4>0, <4>1, <5>1, <6>1, <7>1
          <6>2. CASE i = k + 1
            <7>1. i > 1 => i - 1 \in 1 .. k /\ i - 1 = k
              BY <4>0, <6>2
            <7>2. i > 1 => shown'[i - 1] <= c /\ shown'[i - 1] \in Int
              BY <4>0, <4>1, <5>1, <7>1
            <7> QED BY <4>0, <5>1, <6>2, <7>2
          <6> QED BY <4>0, <6>1, <6>2
        <5> QED BY <5>1, <5>2 DEF c
      <4>4. CASE r = "unknown"
        <5>1. shown' = shown
          BY <4>4
        <5>2. \A i \in 1 .. k : shown[i] <= c + 1
          BY <4>0, <4>1
        <5> QED BY <4>1, <5>1, <5>2 DEF c, k
      <4> QED BY <4>3, <4>4
    <3>7. D + (cnt.synced + 1) + 0 + Len(P.out) <= main.n - Len(dec)
      BY <2>2, <3>2
    <3>8. Len(P.deliv) = 0
      BY <1>2, <2>1
    <3>9. dlv'.x = None /\ cnt'.synced = cnt.synced + 1 /\ main'.n = main.n /\ dec' = dec /\ pool' = P
      BY <1>0, <1>6, <1>7
    <3>10. \A i \in 1 .. Len(shown') :
              shown'[i] <= Delivered(D)' /\ (i > 1 => shown'[i] > shown'[i - 1])
      BY <2>3, <3>6
    <3>11. \A i \in 1 .. Len(P.deliv) : P.deliv[i].frame = D + (cnt.synced + 1) - Len(P.deliv) + i
      BY <3>8
    <3> QED BY <1>8, <2>1, <3>2, <3>3, <3>4, <3>7, <3>9, <3>10, <3>11 DEF Numbered
  <2>5. FirstRun'
    <3> SUFFICES ASSUME restarts = 0
                 PROVE  /\ Numbered(0)'
                        /\ \A i \in 1 .. Len(shown') : shown'[i] = i
                        /\ ~Failed' => Len(shown') = Delivered(0)'
      BY DEF FirstRun
    <3>1. Numbered(0) /\ (\A i \in 1 .. Len(shown) : shown[i] = i) /\ (~Failed => Len(shown) = Delivered(0))
      BY DEF StateInv, OrderInv, FirstRun
    <3>2. ~Failed
      BY <1>6, <1>7 DEF Failed
    <3>3. Len(shown) = cnt.synced
      BY <2>1, <2>3, <3>1, <3>2
    <3>4. x.frame = cnt.synced + 1
      BY <1>3, <2>1, <3>1
    <3>5. CASE r = "ok"
      <4>1. Len(shown') = cnt.synced + 1 /\ \A i \in 1 .. Len(shown') : shown'[i] = i
        BY <1>9, <2>1, <3>1, <3>3, <3>4, <3>5, SMTT(20)
      <4>2. Delivered(0)' = cnt.synced + 1
        BY <2>1, <2>3
      <4> QED BY <2>4, <3>1, <4>1, <4>2
    <3>6. CASE r = "unknown"
      <4>1. shown' = shown /\ Failed'
        BY <1>6, <3>6 DEF Failed
      <4> QED BY <2>4, <3>1, <4>1
    <3> QED BY <3>5, <3>6
  <2> QED BY <2>4, <2>5 DEF StateInv, OrderInv
<1> QED BY <1>10, <1>13, <1>14, <1>15, <1>16, <1>17, <1>18 DEF StateInv

LEMMA SyncSteps ==
    ASSUME StateInv, SyncOutputSurface \/ WriteFails
    PROVE  StateInv'
<1>0. cnt \in Cnt /\ cnt.synced + 1 \in Nat
  BY DEF StateInv, TypeInv, Cnt
<1>1. CASE SyncOutputSurface /\ mode.work = "render"
  BY <1>1, SyncToScreenStep
<1>2. CASE SyncOutputSurface /\ mode.work # "render"
  <2>1. /\ main.pc = "sync" /\ Oldest # None /\ ~DanglingOutput
        /\ pool' = Popped /\ surf' = ReturnSurface(surf, Oldest)
        /\ mode' = mode /\ dlv' = dlv /\ comm' = comm /\ dec' = dec /\ restarts' = restarts
        /\ cnt' = [synced |-> cnt.synced + 1, output |-> cnt.synced + 1]
        /\ main' = Returned([main EXCEPT !.curOut = None], "ok")
        /\ shown' = Append(shown, surf[Oldest.surf].frame)
    BY <1>2 DEF SyncOutputSurface
  <2>2. cnt' \in Cnt /\ cnt'.synced = cnt.synced + 1
    BY <1>0, <2>1 DEF Cnt
  <2> QED BY <1>2, <2>1, <2>2, ReturnStep
<1>3. CASE WriteFails
  <2>1. /\ main.pc = "sync" /\ Oldest # None /\ ~DanglingOutput /\ mode.work = "file"
        /\ pool' = Popped /\ surf' = ReturnSurface(surf, Oldest)
        /\ mode' = mode /\ dlv' = dlv /\ comm' = comm /\ dec' = dec /\ restarts' = restarts
        /\ cnt' = [cnt EXCEPT !.synced = cnt.synced + 1]
        /\ main' = Returned([main EXCEPT !.curOut = None], "unknown")
        /\ shown' = shown
    BY <1>3 DEF WriteFails
  <2>2. cnt' \in Cnt /\ cnt'.synced = cnt.synced + 1
    BY <1>0, <2>1 DEF Cnt
  <2> QED BY <2>1, <2>2, ReturnStep
<1> QED BY <1>1, <1>2, <1>3

-----------------------------------------------------------------------------
(***************************************************************************)
(* The runtime, and the delivering thread                                  *)
(***************************************************************************)

LEMMA RuntimeUnlocksStep ==
    ASSUME StateInv, RuntimeUnlocks
    PROVE  StateInv'
<1>0. /\ surf \in [Surfaces -> [locked : BOOLEAN, render : Int, frame : Nat]]
      /\ mode' = mode /\ pool' = pool /\ main' = main /\ dlv' = dlv /\ comm' = comm /\ cnt' = cnt
      /\ dec' = dec /\ shown' = shown /\ restarts' = restarts
      /\ dec \in Seq(Frames) /\ pool \in Pool /\ dlv \in Dlv /\ main \in Locals
  BY DEF StateInv, TypeInv, RuntimeUnlocks
<1>1. PICK s \in Frames : /\ \A i \in 1 .. Len(dec) : dec[i] # s
                          /\ surf' = [surf EXCEPT ![s].locked = FALSE]
  BY DEF RuntimeUnlocks
<1>2. s \in Surfaces
  BY SurfaceLemma
<1>3. /\ surf' \in [Surfaces -> [locked : BOOLEAN, render : Int, frame : Nat]]
      /\ \A t \in Surfaces : /\ surf'[t].render = surf[t].render /\ surf'[t].frame = surf[t].frame
                             /\ t # s => surf'[t].locked = surf[t].locked
                             /\ surf'[t].locked => surf[t].locked
  <2>1. [surf[s] EXCEPT !.locked = FALSE] \in [locked : BOOLEAN, render : Int, frame : Nat]
    <3>1. surf[s] \in [locked : BOOLEAN, render : Int, frame : Nat]
      BY <1>0, <1>2
    <3> QED BY <3>1, Zenon
  <2>2. surf' = [surf EXCEPT ![s] = [surf[s] EXCEPT !.locked = FALSE]]
    BY <1>1
  <2>3. surf' \in [Surfaces -> [locked : BOOLEAN, render : Int, frame : Nat]]
    BY <1>0, <1>2, <2>1, <2>2
  <2>4. ASSUME NEW t \in Surfaces
        PROVE  /\ surf'[t].render = surf[t].render /\ surf'[t].frame = surf[t].frame
               /\ t # s => surf'[t].locked = surf[t].locked
               /\ surf'[t].locked => surf[t].locked
    <3>1. CASE t = s
      BY <1>0, <2>2, <3>1
    <3>2. CASE t # s
      BY <1>0, <2>2, <3>2
    <3> QED BY <3>1, <3>2
  <2> QED BY <2>3, <2>4
<1>4. Current' = Current
  BY <1>0 DEF Current
<1>5. TypeInv'
  BY <1>0, <1>3 DEF StateInv, TypeInv
<1>6. PoolInv'
  <2>1. \A t \in Surfaces : Idle(t) => Idle(t)'
    BY <1>3 DEF Idle
  <2>2. \A t \in Elems(pool.free) \cup Elems(pool.vfree) \cup ({main.cur, main.vcur} \ {None}) : t \in Surfaces
    <3>1. pool.free \in Seq(Surfaces) /\ pool.vfree \in Seq(Surfaces)
          /\ main.cur \in Surfaces \cup {None} /\ main.vcur \in Surfaces \cup {None}
      BY <1>0 DEF Pool, Locals
    <3>2. Elems(pool.free) \subseteq Surfaces /\ Elems(pool.vfree) \subseteq Surfaces
      BY <3>1 DEF Elems
    <3> QED BY <3>1, <3>2
  <2> QED BY <1>0, <2>1, <2>2, PoolFrame DEF StateInv
<1>7. \A i \in 1 .. Len(dec) : dec[i] \in Surfaces /\ dec[i] # s
  BY <1>0, <1>1, SurfaceLemma
<1>8. KeptInv'
  BY <1>0, <1>3, <1>7 DEF StateInv, KeptInv
<1>9. FlightInv'
  <2>1. \A t \in Surfaces : surf'[t].render = surf[t].render
    BY <1>3
  <2> QED BY <1>0, <1>4, <2>1 DEF StateInv, FlightInv
<1>10. IntactInv'
  <2>1. /\ \A i \in 1 .. Len(pool.out) : pool.out[i].surf \in Surfaces
        /\ \A i \in 1 .. Len(pool.deliv) : pool.deliv[i].surf \in Surfaces
        /\ \A x \in {dlv.x, Current} \ {None} : x.surf \in Surfaces
    <3>1. pool.out \in Seq(Outputs) /\ pool.deliv \in Seq(Outputs)
          /\ dlv.x \in Outputs \cup {None} /\ Current \in Outputs \cup {None}
      BY <1>0 DEF Pool, Dlv, Locals, Current
    <3>2. /\ \A i \in 1 .. Len(pool.out) : pool.out[i] \in Outputs
          /\ \A i \in 1 .. Len(pool.deliv) : pool.deliv[i] \in Outputs
          /\ \A x \in {dlv.x, Current} \ {None} : x \in Outputs
      BY <3>1
    <3> QED BY <3>2 DEF Outputs
  <2> QED BY <1>0, <1>3, <1>4, <2>1 DEF StateInv, IntactInv
<1>11. ControlInv'
  BY <1>0 DEF StateInv, ControlInv
<1>12. OrderInv'
  <2>1. (Over => Over') /\ (Failed => Failed')
    BY <1>0 DEF Over, Failed
  <2>2. \A i \in 1 .. Len(dec) : surf'[dec[i]].frame = surf[dec[i]].frame
    BY <1>3, <1>7
  <2> QED BY <1>0, <1>4, <2>1, <2>2, OrderFrame DEF StateInv
<1> QED BY <1>5, <1>6, <1>8, <1>9, <1>10, <1>11, <1>12 DEF StateInv

LEMMA DeliverNextStep ==
    ASSUME StateInv, DeliverNext
    PROVE  StateInv'
<1>0. /\ dlv \in Dlv /\ comm \in Comm /\ pool \in Pool /\ main \in Locals /\ cnt \in Cnt
      /\ mode' = mode /\ surf' = surf /\ main' = main /\ cnt' = cnt
      /\ dec' = dec /\ shown' = shown /\ restarts' = restarts
      /\ dlv.pc = "loop"
  BY DEF StateInv, TypeInv, DeliverNext
<1>1. CASE comm.stop /\ dlv' = [dlv EXCEPT !.pc = "off"] /\ UNCHANGED <<comm, pool>>
  <2>1. dlv' \in Dlv /\ dlv'.x = dlv.x /\ dlv'.pc = "off" /\ comm' = comm /\ pool' = pool
    BY <1>0, <1>1 DEF Dlv
  <2>2. TypeInv' /\ ControlInv'
    BY <1>0, <2>1 DEF StateInv, TypeInv, ControlInv
  <2>3. (Over => Over') /\ (Failed => Failed')
    BY <1>0, <2>1 DEF Over, Failed
  <2> QED BY <1>0, <2>1, <2>2, <2>3, QuietLemma
<1>2. CASE ~comm.stop /\ comm.sem > 0 /\ comm.err
           /\ comm' = [comm EXCEPT !.sem = @ - 1] /\ UNCHANGED <<dlv, pool>>
  <2>1. comm' \in Comm /\ comm'.sem = comm.sem - 1 /\ comm'.err = comm.err /\ comm'.stop = comm.stop
        /\ dlv' = dlv /\ pool' = pool
    <3>1. comm.sem - 1 \in Nat
      BY <1>0, <1>2 DEF Comm
    <3>2. [comm EXCEPT !.sem = comm.sem - 1] \in Comm
      BY <1>0, <3>1, Zenon DEF Comm
    <3> QED BY <1>0, <1>2, <3>2 DEF Comm
  <2>2. TypeInv' /\ ControlInv'
    BY <1>0, <2>1 DEF StateInv, TypeInv, ControlInv, Comm
  <2>3. (Over => Over') /\ (Failed => Failed')
    BY <1>0, <2>1 DEF Over, Failed
  <2> QED BY <1>0, <2>1, <2>2, <2>3, QuietLemma
<1>3. CASE /\ ~comm.stop /\ comm.sem > 0 /\ ~comm.err
           /\ dlv' = [pc |-> "show", x |-> Head(pool.deliv)]
           /\ pool' = [pool EXCEPT !.deliv = Tail(@)]
           /\ comm' = [comm EXCEPT !.sem = @ - 1]
  <2> DEFINE t == Tail(pool.deliv)
             h == Head(pool.deliv)
  <2>1. pool.deliv \in Seq(Outputs) /\ pool.deliv # << >> /\ dlv.x = None
        /\ comm.sem + (IF main.pc = "post" THEN 1 ELSE 0) <= Len(pool.deliv)
    <3>1. pool.deliv \in Seq(Outputs) /\ dlv.x = None
          /\ comm.sem + (IF main.pc = "post" THEN 1 ELSE 0) <= Len(pool.deliv)
      BY <1>0, <1>3 DEF StateInv, ControlInv, Pool
    <3>2. Len(pool.deliv) # 0
      <4>1. (IF main.pc = "post" THEN 1 ELSE 0) \in {0, 1}
        OBVIOUS
      <4> QED BY <1>0, <1>3, <3>1, <4>1 DEF Comm
    <3> QED BY <3>1, <3>2
  <2>2. /\ h = pool.deliv[1] /\ h \in Outputs /\ t \in Seq(Outputs)
        /\ Len(t) = Len(pool.deliv) - 1 /\ Len(pool.deliv) \in Nat \ {0}
        /\ \A i \in 1 .. Len(pool.deliv) - 1 : t[i] = pool.deliv[i + 1]
        /\ \A s : Has(pool.deliv, s) <=> (Has(t, s) \/ h.surf = s)
        /\ OneEach(t) /\ ~Has(t, h.surf)
    BY <2>1, TailLemma, TailOutLemma DEF StateInv, FlightInv
  <2> HIDE DEF t, h
  <2>3. h # None /\ h.surf \in Surfaces /\ h.frame \in Nat
    BY <2>2, SurfaceLemma DEF Outputs
  <2>4. /\ comm' \in Comm /\ comm'.sem = comm.sem - 1 /\ comm'.err = comm.err /\ comm'.stop = comm.stop
    <3>1. comm.sem - 1 \in Nat
      BY <1>0, <1>3 DEF Comm
    <3>2. [comm EXCEPT !.sem = comm.sem - 1] \in Comm
      BY <1>0, <3>1, Zenon DEF Comm
    <3> QED BY <1>0, <1>3, <3>2 DEF Comm
  <2>5. /\ dlv' \in Dlv /\ dlv'.x = h /\ dlv'.pc = "show"
    BY <1>3, <2>2 DEF Dlv, h
  <2>6. /\ pool' \in Pool /\ pool'.deliv = t /\ pool'.out = pool.out
        /\ pool'.free = pool.free /\ pool'.used = pool.used
        /\ pool'.vfree = pool.vfree /\ pool'.vused = pool.vused
    <3>1. [pool EXCEPT !.deliv = t] \in Pool
      BY <1>0, <2>2, Zenon DEF Pool
    <3>2. pool' = [pool EXCEPT !.deliv = t]
      BY <1>3 DEF t
    <3> QED BY <1>0, <3>1, <3>2 DEF Pool
  <2>7. TypeInv'
    BY <1>0, <2>4, <2>5, <2>6 DEF StateInv, TypeInv
  <2>8. PoolInv'
    BY <1>0, <2>6, PoolFrame DEF StateInv, Idle
  <2>9. KeptInv'
    BY <1>0, <2>6 DEF StateInv, KeptInv
  <2>10. Current' = Current
    BY <1>0 DEF Current
  <2>11. FlightInv'
    <3>1. ASSUME NEW s \in Surfaces
          PROVE  surf[s].render = Bit(Has(pool.out, s)) + Bit(Has(t, s)) + Holds(h, s) + Holds(Current, s)
                 /\ surf[s].render <= 1
      <4>1. surf[s].render = Bit(Has(pool.out, s)) + Bit(Has(pool.deliv, s)) + Holds(dlv.x, s) + Holds(Current, s)
            /\ surf[s].render <= 1
        BY DEF StateInv, FlightInv, Bit
      <4>2. Bit(Has(pool.deliv, s)) + Holds(dlv.x, s) = Bit(Has(t, s)) + Holds(h, s)
        <5>1. CASE h.surf = s
          BY <2>1, <2>2, <2>3, <5>1 DEF Bit, Holds
        <5>2. CASE h.surf # s
          <6>1. Has(pool.deliv, s) <=> Has(t, s)
            BY <2>2, <5>2
          <6> QED BY <2>1, <5>2, <6>1 DEF Bit, Holds
        <5> QED BY <5>1, <5>2
      <4> DEFINE o == Bit(Has(pool.out, s))
                 l == Bit(Has(pool.deliv, s))
                 m == Bit(Has(t, s))
                 y == Holds(dlv.x, s)
                 k == Holds(Current, s)
                 z == Holds(h, s)
      <4>3. o \in Int /\ l \in Int /\ m \in Int /\ y \in Int /\ k \in Int /\ z \in Int
        BY DEF Bit, Holds
      <4>4. l + y = m + z
        BY <4>2
      <4> HIDE DEF o, l, m, y, k, z
      <4>5. o + l + y + k = o + m + z + k
        BY <4>3, <4>4
      <4> QED BY <4>1, <4>5 DEF o, l, m, y, k, z
    <3> QED BY <1>0, <2>2, <2>5, <2>6, <2>10, <3>1 DEF StateInv, FlightInv, Bit
  <2>12. IntactInv'
    <3>1. \A i \in 1 .. Len(t) : i + 1 \in 1 .. Len(pool.deliv) /\ t[i] = pool.deliv[i + 1]
      BY <2>2
    <3>2. 1 \in 1 .. Len(pool.deliv)
      BY <2>2
    <3>3. surf[h.surf].frame = h.frame /\ \A i \in 1 .. Len(t) : surf[t[i].surf].frame = t[i].frame
      BY <2>2, <3>1, <3>2, SMTT(20) DEF StateInv, IntactInv
    <3> QED BY <1>0, <2>5, <2>6, <2>10, <3>3 DEF StateInv, IntactInv
  <2>13. ControlInv'
    <3>1. comm'.sem + (IF main'.pc = "post" THEN 1 ELSE 0) <= Len(t)
      <4> DEFINE b == IF main.pc = "post" THEN 1 ELSE 0
      <4>1. b \in Int /\ comm.sem \in Int /\ comm.sem + b <= Len(pool.deliv)
        BY <1>0, <2>1 DEF Comm
      <4> HIDE DEF b
      <4>2. comm.sem - 1 + b <= Len(t)
        BY <2>2, <4>1
      <4> QED BY <1>0, <2>4, <4>2 DEF b
    <3>2. mode.work = "render"
      BY <1>0 DEF StateInv, ControlInv
    <3> QED BY <1>0, <1>3, <2>3, <2>4, <2>5, <2>6, <3>1, <3>2 DEF StateInv, ControlInv
  <2>14. OrderInv'
    <3>1. One(h) = 1 /\ One(dlv.x) = 0 /\ cnt.synced \in Int
      BY <1>0, <2>1, <2>3 DEF One, Cnt
    <3>2. \A D \in Int : Delivered(D)' = Delivered(D)
      <4> DEFINE l == Len(pool.deliv)
                 c == cnt.synced
      <4>1. l \in Int /\ c \in Int /\ Len(t) = l - 1
        BY <2>2, <3>1
      <4> HIDE DEF l, c
      <4>2. \A D \in Int : D + c - (l - 1) - 1 = D + c - l - 0
        BY <4>1
      <4> QED BY <1>0, <2>5, <2>6, <3>1, <4>1, <4>2 DEF Delivered, l, c
    <3>3. ASSUME NEW D \in Int, Numbered(D) PROVE Numbered(D)'
      <4> DEFINE l == Len(pool.deliv)
                 c == cnt.synced
      <4>1. l \in Int /\ c \in Int /\ Len(t) = l - 1 /\ 1 \in 1 .. l
        BY <2>2, <3>1
      <4>2. \A i \in 1 .. l : pool.deliv[i].frame = D + c - l + i
        BY <3>3 DEF Numbered
      <4>3. Delivered(D) = D + c - l - 0
        BY <3>1 DEF Delivered
      <4>4. \A i \in 1 .. Len(t) : i + 1 \in 1 .. l /\ t[i] = pool.deliv[i + 1]
        BY <2>2
      <4> HIDE DEF l, c
      <4>5. h.frame = Delivered(D) + 1
        BY <2>2, <4>1, <4>2, <4>3
      <4>6. \A i \in 1 .. Len(t) : t[i].frame = D + c - Len(t) + i
        <5>1. ASSUME NEW i \in 1 .. Len(t) PROVE t[i].frame = D + c - Len(t) + i
          <6>1. t[i].frame = D + c - l + (i + 1)
            BY <4>2, <4>4
          <6>2. D + c - l + (i + 1) = D + c - (l - 1) + i
            <7>1. i \in Int /\ D \in Int
              OBVIOUS
            <7> QED BY <4>1, <7>1
          <6> QED BY <4>1, <6>1, <6>2
        <5> QED BY <5>1
      <4>7. Delivered(D)' = Delivered(D)
        BY <3>2
      <4> QED BY <1>0, <2>5, <2>6, <2>10, <3>3, <4>5, <4>6, <4>7 DEF Numbered, Over, c
    <3>4. Failed => Failed'
      BY <1>0, <2>4 DEF Failed
    <3>5. FirstRun'
      BY <1>0, <3>2, <3>3, <3>4 DEF FirstRun, StateInv, OrderInv
    <3> QED BY <3>3, <3>5 DEF StateInv, OrderInv
  <2> QED BY <2>7, <2>8, <2>9, <2>11, <2>12, <2>13, <2>14 DEF StateInv
<1> QED BY <1>1, <1>2, <1>3 DEF DeliverNext

LEMMA DeliverOutputStep ==
    ASSUME StateInv, DeliverOutput
    PROVE  StateInv'
<1> DEFINE x == dlv.x
<1>0. /\ dlv \in Dlv /\ comm \in Comm /\ pool \in Pool /\ main \in Locals /\ cnt \in Cnt
      /\ surf \in [Surfaces -> [locked : BOOLEAN, render : Int, frame : Nat]]
      /\ shown \in Seq(Nat) /\ dec \in Seq(Frames)
      /\ mode' = mode /\ pool' = pool /\ main' = main /\ cnt' = cnt
      /\ dec' = dec /\ restarts' = restarts
      /\ dlv.pc = "show" /\ dlv' = [pc |-> "count", x |-> None]
      /\ surf' = ReturnSurface(surf, x)
  BY DEF StateInv, TypeInv, DeliverOutput
<1>1. x # None /\ ~comm.err /\ mode.work = "render" /\ main.sts # "unknown"
  BY <1>0 DEF StateInv, ControlInv
<1>2. x \in Outputs /\ x.surf \in Surfaces /\ x.frame \in Nat
  <2>1. x \in Outputs
    BY <1>0, <1>1 DEF Dlv
  <2> QED BY <2>1 DEF Outputs
<1>3. surf[x.surf].frame = x.frame
  BY <1>1 DEF StateInv, IntactInv
<1>4. \/ shown' = Append(shown, x.frame) /\ comm' = comm
      \/ shown' = shown /\ comm' = [comm EXCEPT !.err = TRUE]
  BY <1>3 DEF DeliverOutput
<1> HIDE DEF x
<1>5. /\ surf' \in [Surfaces -> [locked : BOOLEAN, render : Int, frame : Nat]]
      /\ \A s \in Surfaces : /\ surf'[s].locked = surf[s].locked /\ surf'[s].frame = surf[s].frame
                             /\ surf'[s].render = surf[s].render - Holds(x, s)
  <2>1. surf' = [surf EXCEPT ![x.surf] = [surf[x.surf] EXCEPT !.render = surf[x.surf].render - 1]]
    BY <1>0 DEF ReturnSurface
  <2>2. [surf[x.surf] EXCEPT !.render = surf[x.surf].render - 1] \in [locked : BOOLEAN, render : Int, frame : Nat]
    <3>1. surf[x.surf] \in [locked : BOOLEAN, render : Int, frame : Nat] /\ surf[x.surf].render - 1 \in Int
      BY <1>0, <1>2
    <3> QED BY <3>1, Zenon
  <2>3. surf' \in [Surfaces -> [locked : BOOLEAN, render : Int, frame : Nat]]
    BY <1>0, <1>2, <2>1, <2>2
  <2>4. ASSUME NEW s \in Surfaces
        PROVE  /\ surf'[s].locked = surf[s].locked /\ surf'[s].frame = surf[s].frame
               /\ surf'[s].render = surf[s].render - Holds(x, s)
    <3>1. CASE s = x.surf
      BY <1>0, <1>1, <1>2, <2>1, <3>1 DEF Holds
    <3>2. CASE s # x.surf
      BY <1>0, <1>2, <2>1, <3>2 DEF Holds
    <3> QED BY <3>1, <3>2
  <2> QED BY <2>3, <2>4
<1>6. dlv' \in Dlv /\ dlv'.x = None /\ dlv'.pc = "count"
  BY <1>0 DEF Dlv
<1>7. comm' \in Comm /\ comm'.sem = comm.sem /\ comm'.stop = comm.stop
  BY <1>0, <1>4 DEF Comm
<1>8. shown' = Append(shown, x.frame) =>
        /\ Len(shown') = Len(shown) + 1
        /\ \A i \in 1 .. Len(shown) : shown'[i] = shown[i]
        /\ shown'[Len(shown) + 1] = x.frame
  <2> DEFINE y == x.frame
  <2>1. y \in Nat /\ shown \in Seq(Nat)
    BY <1>0, <1>2
  <2> HIDE DEF y
  <2>2. ASSUME shown' = Append(shown, y)
        PROVE  /\ Len(shown') = Len(shown) + 1
               /\ \A i \in 1 .. Len(shown) : shown'[i] = shown[i]
               /\ shown'[Len(shown) + 1] = y
    BY <2>1, <2>2, AppendLemma
  <2> QED BY <2>2 DEF y
<1>9. shown' \in Seq(Nat)
  <2>1. Append(shown, x.frame) \in Seq(Nat)
    BY <1>0, <1>2
  <2> QED BY <1>0, <1>4, <2>1
<1>10. TypeInv'
  BY <1>0, <1>5, <1>6, <1>7, <1>9 DEF StateInv, TypeInv
<1>11. Current' = Current
  BY <1>0 DEF Current
<1>12. \A s \in Surfaces :
          /\ surf'[s].render = Bit(Has(pool.out, s)) + Bit(Has(pool.deliv, s)) + Holds(None, s) + Holds(Current, s)
          /\ surf'[s].render <= 1
          /\ Holds(x, s) \in {0, 1} /\ surf[s].render >= Holds(x, s)
  <2>1. ASSUME NEW s \in Surfaces
        PROVE  /\ surf'[s].render = Bit(Has(pool.out, s)) + Bit(Has(pool.deliv, s)) + Holds(None, s) + Holds(Current, s)
               /\ surf'[s].render <= 1
               /\ Holds(x, s) \in {0, 1} /\ surf[s].render >= Holds(x, s)
    <3>1. /\ surf[s].render = Bit(Has(pool.out, s)) + Bit(Has(pool.deliv, s)) + Holds(x, s) + Holds(Current, s)
          /\ surf[s].render <= 1
      BY DEF StateInv, FlightInv, Bit, x
    <3> DEFINE o == Bit(Has(pool.out, s))
               l == Bit(Has(pool.deliv, s))
               y == Holds(x, s)
               k == Holds(Current, s)
               e == surf[s].render
    <3>2. o \in {0, 1} /\ l \in {0, 1} /\ y \in {0, 1} /\ k \in {0, 1} /\ Holds(None, s) = 0
      BY DEF Bit, Holds
    <3>3. e = o + l + y + k /\ e <= 1
      BY <3>1
    <3>4. surf'[s].render = e - y
      BY <1>5
    <3> HIDE DEF o, l, y, k, e
    <3>5. e - y = o + l + 0 + k /\ e - y <= 1 /\ e >= y
      BY <3>2, <3>3
    <3> QED BY <3>2, <3>4, <3>5 DEF o, l, y, k, e
  <2> QED BY <2>1
<1>13. PoolInv'
  <2>1. ASSUME NEW s \in Surfaces, Idle(s) PROVE Idle(s)'
    <3>1. ~surf[s].locked /\ surf[s].render = 0
      BY <2>1 DEF Idle
    <3>2. Holds(x, s) = 0
      BY <1>12, <3>1
    <3>3. surf'[s].render = 0 /\ ~surf'[s].locked
      BY <1>5, <3>1, <3>2
    <3> QED BY <3>3 DEF Idle
  <2>2. \A s \in Elems(pool.free) \cup Elems(pool.vfree) \cup ({main.cur, main.vcur} \ {None}) : s \in Surfaces
    <3>1. pool.free \in Seq(Surfaces) /\ pool.vfree \in Seq(Surfaces)
          /\ main.cur \in Surfaces \cup {None} /\ main.vcur \in Surfaces \cup {None}
      BY <1>0 DEF Pool, Locals
    <3>2. Elems(pool.free) \subseteq Surfaces /\ Elems(pool.vfree) \subseteq Surfaces
      BY <3>1 DEF Elems
    <3> QED BY <3>1, <3>2
  <2> QED BY <1>0, <2>1, <2>2, PoolFrame DEF StateInv
<1>14. \A i \in 1 .. Len(dec) : dec[i] \in Surfaces
  BY <1>0, SurfaceLemma
<1>15. KeptInv'
  <2>1. ASSUME NEW i \in 1 .. Len(dec)
        PROVE  surf'[dec[i]].locked /\ surf'[dec[i]].render = 0
    <3>1. surf[dec[i]].locked /\ surf[dec[i]].render = 0
      BY DEF StateInv, KeptInv
    <3> QED BY <1>5, <1>12, <1>14, <3>1
  <2> QED BY <1>0, <2>1 DEF StateInv, KeptInv
<1>16. FlightInv'
  BY <1>0, <1>6, <1>11, <1>12 DEF StateInv, FlightInv, Bit
<1>17. IntactInv'
  <2>1. /\ \A i \in 1 .. Len(pool.out) : pool.out[i].surf \in Surfaces
        /\ \A i \in 1 .. Len(pool.deliv) : pool.deliv[i].surf \in Surfaces
        /\ \A y \in {Current} \ {None} : y.surf \in Surfaces
    <3>1. pool.out \in Seq(Outputs) /\ pool.deliv \in Seq(Outputs) /\ Current \in Outputs \cup {None}
      BY <1>0 DEF Pool, Locals, Current
    <3>2. /\ \A i \in 1 .. Len(pool.out) : pool.out[i] \in Outputs
          /\ \A i \in 1 .. Len(pool.deliv) : pool.deliv[i] \in Outputs
          /\ \A y \in {Current} \ {None} : y \in Outputs
      BY <3>1
    <3> QED BY <3>2 DEF Outputs
  <2> QED BY <1>0, <1>5, <1>6, <1>11, <2>1 DEF StateInv, IntactInv
<1>18. ControlInv'
  BY <1>0, <1>1, <1>6, <1>7 DEF StateInv, ControlInv
<1>19. OrderInv'
  <2>1. One(x) = 1 /\ One(None) = 0 /\ cnt.synced \in Int /\ Len(pool.deliv) \in Int
    BY <1>0, <1>1 DEF One, Cnt, Pool
  <2>2. \A D \in Int : Delivered(D) \in Int /\ Delivered(D)' = Delivered(D) + 1
    <3> DEFINE l == Len(pool.deliv)
               c == cnt.synced
    <3>1. l \in Int /\ c \in Int
      BY <2>1
    <3> HIDE DEF l, c
    <3>2. \A D \in Int : D + c - l - 1 \in Int /\ D + c - l - 0 = (D + c - l - 1) + 1
      BY <3>1
    <3>3. \A D \in Int : Delivered(D) = D + c - l - 1
      BY <2>1 DEF Delivered, l, c, x
    <3>4. \A D \in Int : Delivered(D)' = D + c - l - 0
      BY <1>0, <1>6, <2>1 DEF Delivered, l, c
    <3> QED BY <3>2, <3>3, <3>4
  <2>3. ASSUME NEW D \in Int, Numbered(D) PROVE Numbered(D)'
    <3>1. x.frame = Delivered(D) + 1
      BY <1>1, <2>3 DEF Numbered, x
    <3>2. \A i \in 1 .. Len(shown') : shown'[i] <= Delivered(D)' /\ (i > 1 => shown'[i] > shown'[i - 1])
      <4> DEFINE c == Delivered(D)
                 k == Len(shown)
      <4>0. c \in Int /\ k \in Nat /\ (\A i \in 1 .. k : shown[i] \in Int) /\ Delivered(D)' = c + 1
        <5>1. \A i \in 1 .. Len(shown) : shown[i] \in Nat
          BY <1>0
        <5>2. c \in Int /\ Delivered(D)' = c + 1
          BY <2>2
        <5>3. k \in Nat
          BY <1>0
        <5> QED BY <5>1, <5>2, <5>3
      <4>1. \A i \in 1 .. k : shown[i] <= c /\ (i > 1 => shown[i] > shown[i - 1])
        BY <2>3 DEF Numbered
      <4>2. x.frame = c + 1
        BY <3>1
      <4> HIDE DEF c
      <4>3. CASE shown' = Append(shown, x.frame)
        <5>1. Len(shown') = k + 1 /\ (\A i \in 1 .. k : shown'[i] = shown[i]) /\ shown'[k + 1] = c + 1
          BY <1>8, <4>2, <4>3
        <5> HIDE DEF k
        <5>2. ASSUME NEW i \in 1 .. k + 1 PROVE shown'[i] <= c + 1 /\ (i > 1 => shown'[i] > shown'[i - 1])
          <6>1. CASE i \in 1 .. k
            <7>1. i > 1 => i - 1 \in 1 .. k
              BY <4>0, <6>1
            <7> QED BY <4>0, <4>1, <5>1, <6>1, <7>1
          <6>2. CASE i = k + 1
            <7>1. i > 1 => i - 1 \in 1 .. k /\ i - 1 = k
              BY <4>0, <6>2
            <7>2. i > 1 => shown'[i - 1] <= c /\ shown'[i - 1] \in Int
              BY <4>0, <4>1, <5>1, <7>1
            <7> QED BY <4>0, <5>1, <6>2, <7>2
          <6> QED BY <4>0, <6>1, <6>2
        <5> QED BY <4>0, <5>1, <5>2
      <4>4. CASE shown' = shown
        <5>1. \A i \in 1 .. k : shown[i] <= c + 1
          BY <4>0, <4>1
        <5> QED BY <4>0, <4>1, <4>4, <5>1
      <4> QED BY <1>4, <4>3, <4>4
    <3>3. \A i \in 1 .. Len(dec) : surf'[dec[i]].frame = main.n - Len(dec) + i
      BY <1>5, <1>14, <2>3 DEF Numbered
    <3> QED BY <1>0, <1>6, <1>11, <2>3, <3>2, <3>3 DEF Numbered, Over
  <2>4. FirstRun'
    <3> SUFFICES ASSUME restarts = 0
                 PROVE  /\ Numbered(0)'
                        /\ \A i \in 1 .. Len(shown') : shown'[i] = i
                        /\ ~Failed' => Len(shown') = Delivered(0)'
      BY <1>0 DEF FirstRun
    <3>1. Numbered(0) /\ (\A i \in 1 .. Len(shown) : shown[i] = i) /\ (~Failed => Len(shown) = Delivered(0))
      BY DEF StateInv, OrderInv, FirstRun
    <3>2. Len(shown) = Delivered(0) /\ x.frame = Delivered(0) + 1
      BY <1>1, <3>1 DEF Failed, Numbered, x
    <3>3. CASE shown' = Append(shown, x.frame)
      <4>1. Len(shown') = Len(shown) + 1 /\ \A i \in 1 .. Len(shown') : shown'[i] = i
        BY <1>0, <1>8, <3>1, <3>2, <3>3
      <4> QED BY <2>2, <2>3, <3>1, <3>2, <4>1
    <3>4. CASE shown' = shown /\ comm' = [comm EXCEPT !.err = TRUE]
      <4>1. Failed'
        BY <1>0, <3>4 DEF Failed, Comm
      <4> QED BY <2>3, <3>1, <3>4, <4>1
    <3> QED BY <1>4, <3>3, <3>4
  <2> QED BY <2>3, <2>4 DEF StateInv, OrderInv
<1> QED BY <1>10, <1>13, <1>15, <1>16, <1>17, <1>18, <1>19 DEF StateInv

-----------------------------------------------------------------------------
(***************************************************************************)
(* A new start                                                             *)
(***************************************************************************)

LEMMA AllocLemma ==
    ASSUME mode \in [work : Modes, vpp : BOOLEAN], NEW k \in Int, NEW w \in BOOLEAN
    PROVE  LET P == AllocBuffers(k, w)
           IN  /\ P \in Pool
               /\ Parts(Frames, P.free, P.used, None)
               /\ Parts(VppAll, P.vfree, P.vused, None)
               /\ Elems(P.free) \cup Elems(P.vfree) \subseteq Surfaces
               /\ P.out = << >> /\ P.deliv = << >>
<1> DEFINE P == AllocBuffers(k, w)
           f == [i \in 1 .. NumSurfaces |-> i]
           g == [i \in 1 .. NumVpp |-> NumSurfaces + i]
           v == IF mode.vpp THEN g ELSE << >>
<1>1. P = [free |-> f, used |-> << >>, vfree |-> v, vused |-> << >>,
           out |-> << >>, count |-> k, deliv |-> << >>, wild |-> w]
  BY DEF AllocBuffers
<1>2. f \in Seq(Frames) /\ Len(f) = NumSurfaces /\ \A i \in 1 .. NumSurfaces : f[i] = i
  BY PoolAssumption DEF Frames
<1>3. g \in Seq(VppFrames) /\ Len(g) = NumVpp /\ \A i \in 1 .. NumVpp : g[i] = NumSurfaces + i
  BY PoolAssumption DEF VppFrames
<1> HIDE DEF f, g
<1>4. /\ << >> \in Seq(Frames) /\ << >> \in Seq(VppAll) /\ Distinct(<< >>) /\ Elems(<< >>) = {}
  <2>1. Len(<< >>) = 0
    OBVIOUS
  <2> QED BY <2>1 DEF Distinct, Elems
<1>5. Parts(Frames, f, << >>, None)
  <2>1. Distinct(f)
    BY <1>2 DEF Distinct
  <2>2. Elems(f) = Frames
    BY <1>2 DEF Elems, Frames
  <2> QED BY <1>2, <1>4, <2>1, <2>2, SurfaceLemma DEF Parts
<1>6. Parts(VppAll, v, << >>, None)
  <2>1. CASE mode.vpp
    <3>1. Distinct(g)
      BY <1>3, PoolAssumption DEF Distinct
    <3>2. Elems(g) = VppFrames
      <4>1. Elems(g) \subseteq VppFrames
        BY <1>3 DEF Elems
      <4>2. ASSUME NEW s \in VppFrames PROVE s \in Elems(g)
        <5>1. s - NumSurfaces \in 1 .. NumVpp /\ NumSurfaces + (s - NumSurfaces) = s
          BY PoolAssumption DEF VppFrames
        <5>2. g[s - NumSurfaces] = s
          BY <1>3, <5>1
        <5> QED BY <1>3, <5>1, <5>2 DEF Elems
      <4> QED BY <4>1, <4>2
    <3>3. VppAll = VppFrames /\ v = g
      BY <2>1 DEF VppAll
    <3> HIDE DEF v
    <3> QED BY <1>3, <1>4, <3>1, <3>2, <3>3, SurfaceLemma DEF Parts
  <2>2. CASE ~mode.vpp
    <3>1. VppAll = {} /\ v = << >>
      BY <2>2 DEF VppAll
    <3> HIDE DEF v
    <3> QED BY <1>4, <3>1 DEF Parts
  <2> QED BY <2>1, <2>2
<1> HIDE DEF v
<1>7. /\ f \in Seq(Surfaces) /\ v \in Seq(Surfaces) /\ << >> \in Seq(Surfaces) /\ << >> \in Seq(Outputs)
      /\ Elems(f) \subseteq Surfaces /\ Elems(v) \subseteq Surfaces
  <2>1. f \in Seq(Surfaces) /\ Elems(f) \subseteq Surfaces
    BY <1>5, PartsLemma, SurfaceLemma
  <2>2. v \in Seq(Surfaces) /\ Elems(v) \subseteq Surfaces
    BY <1>6, PartsLemma, VppAllLemma
  <2> QED BY <2>1, <2>2
<1>8. P \in Pool
  BY <1>1, <1>7 DEF Pool
<1> QED BY <1>1, <1>5, <1>6, <1>7, <1>8

LEMMA NewSurfacesLemma ==
    /\ NewSurfaces \in [Surfaces -> [locked : BOOLEAN, render : Int, frame : Nat]]
    /\ \A s \in Surfaces : ~NewSurfaces[s].locked /\ NewSurfaces[s].render = 0
BY DEF NewSurfaces, Surfaces

\* What Init and ResetDecoder have in common.
LEMMA StartLemma ==
    ASSUME mode \in [work : Modes, vpp : BOOLEAN], NEW k \in Int, NEW w \in BOOLEAN,
           mode' = mode, pool' = AllocBuffers(k, w), surf' = NewSurfaces,
           main' \in Locals, main'.cur = None, main'.vcur = None, Current' = None,
           dec' = << >>, dlv'.x = None
    PROVE  PoolInv' /\ KeptInv' /\ FlightInv' /\ IntactInv'
<1> DEFINE P == AllocBuffers(k, w)
<1>1. /\ P \in Pool
      /\ Parts(Frames, P.free, P.used, None)
      /\ Parts(VppAll, P.vfree, P.vused, None)
      /\ Elems(P.free) \cup Elems(P.vfree) \subseteq Surfaces
      /\ P.out = << >> /\ P.deliv = << >>
  BY AllocLemma
<1> HIDE DEF P
<1>2. pool' = P
  BY DEF P
<1>3. \A s \in Surfaces : Idle(s)' /\ surf'[s].render = 0
  BY NewSurfacesLemma DEF Idle
<1>4. PoolInv'
  <2>1. VppAll' = VppAll
    BY DEF VppAll
  <2> QED BY <1>1, <1>2, <1>3, <2>1 DEF PoolInv
<1>5. KeptInv'
  BY DEF KeptInv, Distinct
<1>6. FlightInv'
  <2>1. \A s : ~Has(P.out, s) /\ ~Has(P.deliv, s) /\ Holds(None, s) = 0
    BY <1>1 DEF Has, Holds
  <2>2. OneEach(P.out) /\ OneEach(P.deliv)
    BY <1>1 DEF OneEach
  <2> QED BY <1>2, <1>3, <2>1, <2>2 DEF FlightInv
<1>7. IntactInv'
  BY <1>1, <1>2 DEF IntactInv
<1> QED BY <1>4, <1>5, <1>6, <1>7

LEMMA ResetStep ==
    ASSUME StateInv, ResetDecoder
    PROVE  StateInv'
<1>0. /\ mode \in [work : Modes, vpp : BOOLEAN] /\ pool \in Pool /\ main \in Locals /\ comm \in Comm
      /\ dlv \in Dlv /\ cnt \in Cnt /\ shown \in Seq(Nat) /\ restarts \in Nat
      /\ surf \in [Surfaces -> [locked : BOOLEAN, render : Int, frame : Nat]] /\ dec \in Seq(Frames)
  BY DEF StateInv, TypeInv
<1>1. /\ pool' = AllocBuffers(pool.count, pool.wild \/ pool.deliv # << >>)
      /\ surf' = NewSurfaces /\ dec' = << >> /\ restarts' = restarts + 1
      /\ main' = RunStart(main.pos, main.has, main.pos, main.curOut, main.n)
      /\ dlv' = [dlv EXCEPT !.pc = IF mode.work = "render" THEN "loop" ELSE "off"]
      /\ comm' = [comm EXCEPT !.ev = FALSE, !.sem = 0]
      /\ mode' = mode /\ cnt' = cnt /\ shown' = shown
      /\ main.pc = "join" /\ dlv.pc = "off"
  BY DEF ResetDecoder
<1>2. /\ main' \in Locals /\ main'.cur = None /\ main'.vcur = None /\ main'.n = main.n
      /\ main'.curOut = main.curOut /\ main'.stale = (main.curOut # None)
      /\ main'.pc = "top" /\ main'.sts = "ok"
  BY <1>0, <1>1, NamesLemma DEF RunStart, Locals
<1>3. Current' = None
  BY <1>2 DEF Current
<1>4. dlv.x = None
  BY <1>1 DEF StateInv, ControlInv
<1>5. dlv' \in Dlv /\ dlv'.x = None
      /\ dlv'.pc = IF mode.work = "render" THEN "loop" ELSE "off"
  <2>1. [dlv EXCEPT !.pc = "loop"] \in Dlv /\ [dlv EXCEPT !.pc = "off"] \in Dlv
    BY <1>0, Zenon DEF Dlv
  <2> QED BY <1>0, <1>1, <1>4, <2>1 DEF Dlv
<1>6. comm' \in Comm /\ comm'.sem = 0 /\ comm'.err = comm.err /\ comm'.stop = comm.stop
  <2>1. 0 \in Nat
    OBVIOUS
  <2>2. [comm EXCEPT !.ev = FALSE, !.sem = 0] \in Comm
    BY <1>0, <2>1, Zenon DEF Comm
  <2> QED BY <1>0, <1>1, <2>2 DEF Comm
<1>7. /\ pool.count \in Int /\ (pool.wild \/ pool.deliv # << >>) \in BOOLEAN
  BY <1>0 DEF Pool
<1>8. pool' \in Pool /\ pool'.out = << >> /\ pool'.deliv = << >>
  BY <1>0, <1>1, <1>7, AllocLemma
<1>9. PoolInv' /\ KeptInv' /\ FlightInv' /\ IntactInv'
  BY <1>0, <1>1, <1>2, <1>3, <1>5, <1>7, StartLemma
<1>10. TypeInv'
  <2>1. << >> \in Seq(Frames) /\ restarts + 1 \in Nat
    BY <1>0
  <2> QED BY <1>0, <1>1, <1>2, <1>5, <1>6, <1>8, <2>1, NewSurfacesLemma DEF TypeInv
<1>11. ControlInv'
  BY <1>0, <1>1, <1>2, <1>5, <1>6, <1>8 DEF StateInv, ControlInv, Dlv
<1>12. OrderInv'
  <2>1. PICK D \in Int : Numbered(D)
    BY DEF StateInv, OrderInv
  <2>2. \A i \in 1 .. Len(shown) : shown[i] <= main.n /\ (i > 1 => shown[i] > shown[i - 1])
    <3> DEFINE l == Len(pool.deliv)
               o == Len(pool.out)
               k == Len(dec)
               c == cnt.synced
               y == One(Current)
               z == One(dlv.x)
               m == main.n
    <3>1. l \in Nat /\ o \in Nat /\ k \in Nat /\ c \in Nat /\ y \in Nat /\ z \in Nat /\ m \in Nat
      BY <1>0, SMTT(20) DEF One, Cnt, Locals, Pool
    <3>2. D + c + y + o <= m - k
      BY <2>1 DEF Numbered
    <3>3. Delivered(D) = D + c - l - z
      BY DEF Delivered
    <3> HIDE DEF l, o, k, c, y, z, m
    <3>4. Delivered(D) \in Int /\ Delivered(D) <= m
      BY <3>1, <3>2, <3>3
    <3>5. \A i \in 1 .. Len(shown) : shown[i] <= Delivered(D) /\ (i > 1 => shown[i] > shown[i - 1])
      BY <2>1 DEF Numbered
    <3>6. \A i \in 1 .. Len(shown) : shown[i] \in Int
      BY <1>0
    <3> QED BY <3>1, <3>4, <3>5, <3>6 DEF m
  <2>3. main.n \in Nat /\ cnt.synced \in Nat
    BY <1>0 DEF Locals, Cnt
  <2>4. PICK E \in Int : E = main.n - cnt.synced
    BY <2>3
  <2>5. E + cnt.synced = main.n /\ main.n \in Nat /\ cnt.synced \in Nat
    BY <2>3, <2>4
  <2>6. One(None) = 0 /\ Len(<< >>) = 0
    BY DEF One
  <2>7. Delivered(E)' = main.n
    <3>1. cnt'.synced = cnt.synced /\ One(dlv'.x) = 0 /\ Len(pool'.deliv) = 0
      BY <1>1, <1>5, <1>8, <2>6
    <3>2. Delivered(E)' = E + cnt.synced - 0 - 0
      BY <3>1 DEF Delivered
    <3> QED BY <2>5, <3>2
  <2>8. Numbered(E)'
    <3>1. /\ cnt'.synced = cnt.synced /\ One(Current') = 0 /\ dlv'.x = None /\ main'.n = main.n
          /\ Len(pool'.deliv) = 0 /\ Len(pool'.out) = 0 /\ Len(dec') = 0 /\ shown' = shown
      BY <1>1, <1>2, <1>3, <1>5, <1>8, <2>6
    <3>2. E + cnt.synced + 0 + 0 = main.n - 0
      BY <2>5
    <3>3. E + cnt.synced + 0 + 0 <= main.n - 0
      BY <2>5
    <3>4. \A i \in 1 .. Len(shown) : shown[i] <= Delivered(E)' /\ (i > 1 => shown[i] > shown[i - 1])
      BY <2>2, <2>7
    <3> QED BY <1>3, <3>1, <3>2, <3>3, <3>4 DEF Numbered
  <2>9. restarts' # 0
    BY <1>0, <1>1
  <2>10. FirstRun'
    BY <2>9 DEF FirstRun
  <2> QED BY <2>8, <2>10 DEF OrderInv
<1> QED BY <1>9, <1>10, <1>11, <1>12 DEF StateInv

LEMMA InitLemma == Init => StateInv
<1> SUFFICES ASSUME Init PROVE StateInv
  OBVIOUS
<1>0. /\ mode \in [work : Modes, vpp : BOOLEAN] /\ pool = AllocBuffers(0, FALSE)
      /\ surf = NewSurfaces /\ main = RunStart(1, TRUE, None, None, 0)
      /\ dlv = [pc |-> IF mode.work = "render" THEN "loop" ELSE "off", x |-> None]
      /\ comm = [ev |-> FALSE, sem |-> 0, err |-> FALSE, stop |-> FALSE]
      /\ cnt = [synced |-> 0, output |-> 0] /\ dec = << >> /\ shown = << >> /\ restarts = 0
  <2>1. mode \in [work : Modes, vpp : BOOLEAN]
    BY PoolAssumption DEF Init
  <2> QED BY <2>1 DEF Init
<1>1. /\ main \in Locals /\ main.cur = None /\ main.vcur = None /\ main.n = 0
      /\ main.curOut = None /\ ~main.stale /\ main.pc = "top" /\ main.sts = "ok"
  BY <1>0, NamesLemma DEF RunStart, Locals
<1> DEFINE P == AllocBuffers(0, FALSE)
<1>2. /\ P \in Pool
      /\ Parts(Frames, P.free, P.used, None)
      /\ Parts(VppAll, P.vfree, P.vused, None)
      /\ Elems(P.free) \cup Elems(P.vfree) \subseteq Surfaces
      /\ P.out = << >> /\ P.deliv = << >>
  BY <1>0, 0 \in Int, FALSE \in BOOLEAN, AllocLemma
<1> HIDE DEF P
<1>3. pool = P /\ Current = None
  BY <1>0, <1>1 DEF P, Current
<1>4. \A s \in Surfaces : Idle(s) /\ surf[s].render = 0
  BY <1>0, NewSurfacesLemma DEF Idle
<1>5. /\ dlv.x = None /\ comm.sem = 0 /\ ~comm.err /\ ~comm.stop /\ cnt.synced = 0
      /\ dlv.pc = IF mode.work = "render" THEN "loop" ELSE "off"
      /\ pool.out = << >> /\ pool.deliv = << >>
  <2>1. dlv.x = None /\ dlv.pc = IF mode.work = "render" THEN "loop" ELSE "off"
    BY <1>0
  <2>2. comm.sem = 0 /\ comm.err = FALSE /\ comm.stop = FALSE
    BY <1>0
  <2>3. cnt.synced = 0
    BY <1>0
  <2>4. pool.out = << >> /\ pool.deliv = << >>
    BY <1>2, <1>3
  <2> QED BY <2>1, <2>2, <2>3, <2>4
<1>6. TypeInv
  <2>1. << >> \in Seq(Frames) /\ << >> \in Seq(Nat) /\ dlv \in Dlv /\ comm \in Comm /\ cnt \in Cnt
    BY <1>0 DEF Dlv, Comm, Cnt
  <2> QED BY <1>0, <1>1, <1>2, <1>3, <2>1, NewSurfacesLemma DEF TypeInv
<1>7. PoolInv
  BY <1>1, <1>2, <1>3, <1>4 DEF PoolInv
<1>8. KeptInv
  BY <1>0 DEF KeptInv, Distinct
<1>9. FlightInv
  <2>1. \A s : ~Has(P.out, s) /\ ~Has(P.deliv, s) /\ Holds(None, s) = 0
    BY <1>2 DEF Has, Holds
  <2>2. OneEach(P.out) /\ OneEach(P.deliv)
    BY <1>2 DEF OneEach
  <2> QED BY <1>5, <1>3, <1>4, <2>1, <2>2 DEF FlightInv
<1>10. IntactInv
  BY <1>5, <1>3 DEF IntactInv
<1>11. ControlInv
  BY <1>5, <1>1 DEF ControlInv
<1>12. OrderInv
  <2>1. One(None) = 0 /\ Len(<< >>) = 0
    BY DEF One
  <2>2. Delivered(0) = 0
    <3>1. One(dlv.x) = 0 /\ Len(pool.deliv) = 0 /\ cnt.synced = 0
      BY <1>5, <2>1
    <3>2. Delivered(0) = 0 + 0 - 0 - 0
      BY <3>1 DEF Delivered
    <3> QED BY <3>2
  <2>3. Numbered(0)
    <3>1. /\ cnt.synced = 0 /\ One(Current) = 0 /\ dlv.x = None /\ main.n = 0 /\ Current = None
          /\ Len(pool.deliv) = 0 /\ Len(pool.out) = 0 /\ Len(dec) = 0 /\ Len(shown) = 0
      BY <1>0, <1>5, <1>1, <1>3, <2>1
    <3>2. 0 + 0 + 0 + 0 = 0 - 0 /\ 0 + 0 + 0 + 0 <= 0 - 0
      OBVIOUS
    <3> QED BY <3>1, <3>2 DEF Numbered
  <2> QED BY <1>0, <2>1, <2>2, <2>3 DEF OrderInv, FirstRun
<1> QED BY <1>6, <1>7, <1>8, <1>9, <1>10, <1>11, <1>12 DEF StateInv

-----------------------------------------------------------------------------
(***************************************************************************)
(* Decoding                                                                *)
(***************************************************************************)

SurfType == [Surfaces -> [locked : BOOLEAN, render : Int, frame : Nat]]

\* A surface without a render lock is the output of no frame.
LEMMA IdleLemma ==
    ASSUME StateInv, NEW s \in Surfaces, surf[s].render = 0
    PROVE  /\ ~Has(pool.out, s) /\ ~Has(pool.deliv, s)
           /\ Holds(dlv.x, s) = 0 /\ Holds(Current, s) = 0
<1>1. 0 = Bit(Has(pool.out, s)) + Bit(Has(pool.deliv, s)) + Holds(dlv.x, s) + Holds(Current, s)
  BY DEF StateInv, FlightInv, Bit
<1> DEFINE a == Bit(Has(pool.out, s))
           b == Bit(Has(pool.deliv, s))
           c == Holds(dlv.x, s)
           d == Holds(Current, s)
<1>2. a \in {0, 1} /\ b \in {0, 1} /\ c \in {0, 1} /\ d \in {0, 1}
  BY DEF Bit, Holds
<1>3. 0 = a + b + c + d
  BY <1>1
<1>4. a = 0 /\ b = 0 /\ c = 0 /\ d = 0
  <2> HIDE DEF a, b, c, d
  <2> QED BY <1>2, <1>3
<1> QED BY <1>4 DEF Bit

\* The surfaces S and the frames q kept in the decoder after a call that left
\* m frames decoded, before any output of it.
Staged(S, q, m) ==
    /\ S \in SurfType
    /\ \A s \in Surfaces : S[s].render = surf[s].render /\ (s # main.cur => S[s] = surf[s])
    /\ q \in Seq(Frames) /\ Distinct(q)
    /\ \A i \in 1 .. Len(q) :
         /\ q[i] \in Elems(pool.used) \/ q[i] = main.cur
         /\ S[q[i]].locked /\ S[q[i]].render = 0
         /\ S[q[i]].frame = m - Len(q) + i
    /\ m \in Nat /\ m - Len(q) = main.n - Len(dec)

LEMMA WorkLemma ==
    ASSUME StateInv, main.pc = "decode"
    PROVE  /\ main.cur \in Frames /\ main.cur # None /\ Idle(main.cur)
           /\ main.cur \notin Elems(pool.free) /\ main.cur \notin Elems(pool.used)
           /\ Parts(Frames, pool.free, Append(pool.used, main.cur), None)
           /\ Elems(Append(pool.used, main.cur)) = Elems(pool.used) \cup {main.cur}
           /\ Append(pool.used, main.cur) \in Seq(Surfaces)
<1>1. main.cur # None
  BY DEF StateInv, ControlInv
<1>2. Parts(Frames, pool.free, pool.used, main.cur)
  BY DEF StateInv, PoolInv
<1>3. main.cur \in Frames /\ main.cur \notin Elems(pool.free) /\ main.cur \notin Elems(pool.used)
      /\ pool.used \in Seq(Frames)
  BY <1>1, <1>2 DEF Parts
<1>4. Idle(main.cur)
  BY <1>1 DEF StateInv, PoolInv
<1>5. Parts(Frames, pool.free, Append(pool.used, main.cur), None)
  BY <1>1, <1>2, UseLemma, SurfaceLemma
<1> DEFINE c == main.cur
           l == pool.used
<1>6. l \in Seq(Frames) /\ c \in Frames
  BY <1>3
<1> HIDE DEF c, l
<1>7. Elems(Append(l, c)) = Elems(l) \cup {c}
  BY <1>6, AppendLemma
<1>8. Append(pool.used, main.cur) \in Seq(Surfaces)
  <2>1. pool.used \in Seq(Surfaces) /\ main.cur \in Surfaces
    BY <1>2, <1>3, PartsLemma, SurfaceLemma
  <2> QED BY <2>1
<1> QED BY <1>1, <1>3, <1>4, <1>5, <1>7, <1>8 DEF c, l

LEMMA StagedOldLemma ==
    ASSUME StateInv
    PROVE  Staged(surf, dec, main.n)
<1>1. surf \in SurfType /\ dec \in Seq(Frames) /\ main.n \in Nat
  BY DEF StateInv, TypeInv, SurfType, Locals
<1>2. \A i \in 1 .. Len(dec) : surf[dec[i]].frame = main.n - Len(dec) + i
  BY DEF StateInv, OrderInv, Numbered
<1> QED BY <1>1, <1>2 DEF Staged, StateInv, KeptInv

LEMMA StagedNewLemma ==
    ASSUME StateInv, main.pc = "decode"
    PROVE  Staged([surf EXCEPT ![main.cur].locked = TRUE, ![main.cur].frame = main.n + 1],
                  Append(dec, main.cur), main.n + 1)
<1> DEFINE c == main.cur
           m == main.n + 1
           r == [surf[c] EXCEPT !.locked = TRUE, !.frame = m]
           S == [surf EXCEPT ![c].locked = TRUE, ![c].frame = m]
           q == Append(dec, c)
<1>1. surf \in SurfType /\ dec \in Seq(Frames) /\ main.n \in Nat /\ m \in Nat
  BY DEF StateInv, TypeInv, SurfType, Locals
<1>2. c \in Frames /\ c \in Surfaces /\ Idle(c) /\ c \notin Elems(pool.used)
  BY WorkLemma, SurfaceLemma
<1>3. surf[c] \in [locked : BOOLEAN, render : Int, frame : Nat]
  BY <1>1, <1>2 DEF SurfType
<1>4. Staged(surf, dec, main.n)
  BY StagedOldLemma
<1>5. S = [surf EXCEPT ![c] = r]
  BY <1>1, <1>2, <1>3 DEF SurfType
<1> HIDE DEF c, m, S
<1>6. r \in [locked : BOOLEAN, render : Int, frame : Nat] /\ r.locked /\ r.frame = m /\ r.render = surf[c].render
  <2>1. r \in [locked : BOOLEAN, render : Int, frame : Nat]
    BY <1>1, <1>3, Zenon
  <2> QED BY <1>3, <2>1
<1> HIDE DEF r
<1>7. S \in SurfType /\ S[c] = r /\ \A s \in Surfaces : s # c => S[s] = surf[s]
  BY <1>1, <1>2, <1>5, <1>6 DEF SurfType
<1>8. \A i \in 1 .. Len(dec) : dec[i] # c /\ dec[i] \in Surfaces
  <2>1. \A i \in 1 .. Len(dec) : dec[i] \in Elems(pool.used) /\ dec[i] \in Frames
    BY <1>1 DEF StateInv, KeptInv
  <2> QED BY <1>2, <2>1, SurfaceLemma
<1>9. /\ q \in Seq(Frames) /\ Len(q) = Len(dec) + 1 /\ Len(dec) \in Nat
      /\ \A i \in 1 .. Len(dec) : q[i] = dec[i]
      /\ q[Len(dec) + 1] = c
      /\ Distinct(q)
  <2>1. c \notin Elems(dec) /\ Distinct(dec)
    BY <1>8 DEF Elems, StateInv, KeptInv
  <2> QED BY <1>1, <1>2, <2>1, AppendLemma
<1> HIDE DEF q
<1>10. m - Len(q) = main.n - Len(dec)
  BY <1>1, <1>9 DEF m
<1>11. ASSUME NEW i \in 1 .. Len(q)
       PROVE  /\ q[i] \in Elems(pool.used) \/ q[i] = main.cur
              /\ S[q[i]].locked /\ S[q[i]].render = 0
              /\ S[q[i]].frame = m - Len(q) + i
  <2>1. CASE i \in 1 .. Len(dec)
    <3>1. /\ dec[i] \in Elems(pool.used) \/ dec[i] = main.cur
          /\ surf[dec[i]].locked /\ surf[dec[i]].render = 0
          /\ surf[dec[i]].frame = main.n - Len(dec) + i
      BY <1>4, <2>1 DEF Staged
    <3> QED BY <1>7, <1>8, <1>9, <1>10, <2>1, <3>1
  <2>2. CASE i = Len(dec) + 1
    <3>1. q[i] = c /\ m = m - Len(q) + i
      BY <1>1, <1>9, <2>2
    <3>2. surf[c].render = 0
      BY <1>2 DEF Idle
    <3> QED BY <1>6, <1>7, <3>1, <3>2 DEF c
  <2> QED BY <1>9, <2>1, <2>2
<1>12. \A s \in Surfaces : S[s].render = surf[s].render /\ (s # main.cur => S[s] = surf[s])
  BY <1>2, <1>6, <1>7 DEF c
<1>13. Staged(S, q, m)
  BY <1>1, <1>7, <1>9, <1>10, <1>11, <1>12 DEF Staged
<1> QED BY <1>13 DEF S, q, m, c

\* The work surface is moved, and the decoder keeps the frames q.
LEMMA KeepStep ==
    ASSUME StateInv, main.pc = "decode", NEW S, NEW q, NEW m, Staged(S, q, m),
           surf' = S, dec' = q, pool' = UsedNow(pool),
           mode' = mode, dlv' = dlv, comm' = comm, cnt' = cnt, shown' = shown, restarts' = restarts,
           main' \in Locals, main'.pc = "top", main'.cur = None, main'.n = m, main'.vcur = main.vcur,
           main'.curOut = main.curOut, main'.stale = main.stale, main'.sts # "unknown"
    PROVE  StateInv'
<1>0. /\ mode \in [work : Modes, vpp : BOOLEAN] /\ pool \in Pool /\ main \in Locals /\ comm \in Comm
      /\ dlv \in Dlv /\ cnt \in Cnt
  BY DEF StateInv, TypeInv
<1> DEFINE u == Append(pool.used, main.cur)
<1>1. /\ main.cur \in Frames /\ main.cur # None /\ Idle(main.cur)
      /\ main.cur \notin Elems(pool.free) /\ main.cur \notin Elems(pool.used)
      /\ Parts(Frames, pool.free, u, None)
      /\ Elems(u) = Elems(pool.used) \cup {main.cur}
      /\ u \in Seq(Surfaces)
  BY WorkLemma
<1>2. pool' = [pool EXCEPT !.used = u]
  BY DEF UsedNow
<1> HIDE DEF u
<1>3. /\ pool' \in Pool /\ pool'.used = u /\ pool'.free = pool.free /\ pool'.vfree = pool.vfree
      /\ pool'.vused = pool.vused /\ pool'.out = pool.out /\ pool'.deliv = pool.deliv
  <2>1. [pool EXCEPT !.used = u] \in Pool
    BY <1>0, <1>1, Zenon DEF Pool
  <2> QED BY <1>0, <1>2, <2>1 DEF Pool
<1>4. /\ S \in SurfType
      /\ \A s \in Surfaces : S[s].render = surf[s].render /\ (s # main.cur => S[s] = surf[s])
      /\ q \in Seq(Frames) /\ Distinct(q) /\ m \in Nat /\ m - Len(q) = main.n - Len(dec)
      /\ \A i \in 1 .. Len(q) :
           /\ q[i] \in Elems(pool.used) \/ q[i] = main.cur
           /\ S[q[i]].locked /\ S[q[i]].render = 0
           /\ S[q[i]].frame = m - Len(q) + i
  BY DEF Staged
<1>5. TypeInv'
  BY <1>0, <1>3, <1>4 DEF StateInv, TypeInv, SurfType
<1>6. Current' = Current
  BY DEF Current
<1>7. PoolInv'
  <2>1. VppAll' = VppAll /\ Parts(VppAll, pool.vfree, pool.vused, main.vcur)
    BY DEF VppAll, StateInv, PoolInv
  <2>2. ASSUME NEW s \in Elems(pool.free) \cup Elems(pool.vfree) \cup ({main.vcur} \ {None}) PROVE Idle(s)'
    <3>1. Parts(Frames, pool.free, pool.used, main.cur)
      BY DEF StateInv, PoolInv
    <3>2. Elems(pool.free) \subseteq Frames /\ Elems(pool.vfree) \subseteq VppAll /\ main.vcur \in VppAll \cup {None}
      BY <2>1, <3>1, PartsLemma, VppAllLemma, SurfaceLemma
    <3>3. s \in Surfaces /\ s # main.cur
      BY <1>1, <2>2, <3>2, VppAllLemma, SurfaceLemma
    <3>4. Idle(s)
      BY <2>2 DEF StateInv, PoolInv
    <3> QED BY <1>4, <3>3, <3>4 DEF Idle
  <2> QED BY <1>1, <1>3, <2>1, <2>2 DEF PoolInv
<1>8. KeptInv'
  BY <1>1, <1>3, <1>4 DEF KeptInv
<1>9. FlightInv'
  <2>1. \A s \in Surfaces : surf'[s].render = surf[s].render
    BY <1>4
  <2> QED BY <1>3, <1>6, <2>1 DEF StateInv, FlightInv
<1>10. IntactInv'
  <2>1. main.cur \in Surfaces /\ surf[main.cur].render = 0
    BY <1>1, SurfaceLemma DEF Idle
  <2>2. ~Has(pool.out, main.cur) /\ ~Has(pool.deliv, main.cur)
        /\ Holds(dlv.x, main.cur) = 0 /\ Holds(Current, main.cur) = 0
    BY <2>1, IdleLemma
  <2>3. /\ \A i \in 1 .. Len(pool.out) : pool.out[i].surf \in Surfaces /\ pool.out[i].surf # main.cur
        /\ \A i \in 1 .. Len(pool.deliv) : pool.deliv[i].surf \in Surfaces /\ pool.deliv[i].surf # main.cur
        /\ \A x \in {dlv.x, Current} \ {None} : x.surf \in Surfaces /\ x.surf # main.cur
    <3>1. pool.out \in Seq(Outputs) /\ pool.deliv \in Seq(Outputs)
          /\ dlv.x \in Outputs \cup {None} /\ Current \in Outputs \cup {None}
      BY <1>0 DEF Pool, Dlv, Locals, Current
    <3>2. /\ \A i \in 1 .. Len(pool.out) : pool.out[i] \in Outputs
          /\ \A i \in 1 .. Len(pool.deliv) : pool.deliv[i] \in Outputs
          /\ \A x \in {dlv.x, Current} \ {None} : x \in Outputs
      BY <3>1
    <3>3. \A x \in Outputs : x.surf \in Surfaces
      BY DEF Outputs
    <3> QED BY <2>2, <3>2, <3>3 DEF Has, Holds
  <2>4. \A s \in Surfaces : s # main.cur => surf'[s].frame = surf[s].frame
    BY <1>4
  <2>5. \A i \in 1 .. Len(pool'.out) : surf'[pool'.out[i].surf].frame = pool'.out[i].frame
    BY <1>3, <2>3, <2>4 DEF StateInv, IntactInv
  <2>6. \A i \in 1 .. Len(pool'.deliv) : surf'[pool'.deliv[i].surf].frame = pool'.deliv[i].frame
    BY <1>3, <2>3, <2>4 DEF StateInv, IntactInv
  <2>7. \A x \in {dlv'.x, Current'} \ {None} : surf'[x.surf].frame = x.frame
    BY <1>6, <2>3, <2>4 DEF StateInv, IntactInv
  <2> QED BY <2>5, <2>6, <2>7 DEF IntactInv
<1>11. ControlInv'
  BY <1>0, <1>3 DEF StateInv, ControlInv
<1>12. OrderInv'
  <2>1. \A D : Delivered(D)' = Delivered(D)
    BY <1>3 DEF Delivered
  <2>2. ~Over /\ ~Over'
    BY DEF Over
  <2>3. ASSUME NEW D \in Int, Numbered(D) PROVE Numbered(D)'
    <3>1. /\ D + cnt.synced + One(Current) + Len(pool.out) = m - Len(q)
          /\ D + cnt.synced + One(Current) + Len(pool.out) <= m - Len(q)
      BY <1>4, <2>2, <2>3 DEF Numbered
    <3>2. \A i \in 1 .. Len(q) : S[q[i]].frame = m - Len(q) + i
      BY <1>4
    <3> QED BY <1>3, <1>6, <2>1, <2>3, <3>1, <3>2 DEF Numbered
  <2>4. FirstRun'
    <3>1. Failed => Failed'
      BY DEF Failed, StateInv, ControlInv
    <3> QED BY <2>1, <2>3, <3>1 DEF FirstRun, StateInv, OrderInv
  <2> QED BY <2>3, <2>4 DEF StateInv, OrderInv
<1> QED BY <1>5, <1>7, <1>8, <1>9, <1>10, <1>11, <1>12 DEF StateInv

\* A frame comes out of the decoder.
LEMMA OutStep ==
    ASSUME StateInv, main.pc = "decode", NEW S, NEW q, NEW m, Staged(S, q, m), q # << >>,
           Output(UsedNow(pool), S, Head(q)), dec' = Tail(q),
           mode' = mode, dlv' = dlv, comm' = comm, cnt' = cnt, shown' = shown, restarts' = restarts,
           main' \in Locals, main'.pc = "top", main'.cur = None, main'.n = m,
           main'.vcur = (IF mode.vpp THEN None ELSE main.vcur),
           main'.curOut = main.curOut, main'.stale = main.stale, main'.sts # "unknown"
    PROVE  StateInv'
<1> DEFINE u == Append(pool.used, main.cur)
           h == Head(q)
           t == Tail(q)
           o == IF mode.vpp THEN main.vcur ELSE h
           f == S[h].frame
           w == IF mode.vpp THEN Append(pool.vused, o) ELSE pool.vused
           x == [surf |-> o, frame |-> f]
           p == Append(pool.out, x)
           r == [S[o] EXCEPT !.render = @ + 1, !.frame = f]
<1>0. /\ mode \in [work : Modes, vpp : BOOLEAN] /\ pool \in Pool /\ main \in Locals /\ comm \in Comm
      /\ dlv \in Dlv /\ cnt \in Cnt
  BY DEF StateInv, TypeInv
<1>1. /\ main.cur \in Frames /\ main.cur # None /\ Idle(main.cur)
      /\ main.cur \notin Elems(pool.free) /\ main.cur \notin Elems(pool.used)
      /\ Parts(Frames, pool.free, u, None)
      /\ Elems(u) = Elems(pool.used) \cup {main.cur}
      /\ u \in Seq(Surfaces)
  BY WorkLemma
<1>2. /\ surf' = [S EXCEPT ![o].render = @ + 1, ![o].frame = f]
      /\ pool' = [UsedNow(pool) EXCEPT !.vused = IF mode.vpp THEN Append(@, o) ELSE @,
                                       !.out = Append(@, x), !.count = @ + 1]
  BY DEF Output
<1>3. /\ S \in SurfType
      /\ \A s \in Surfaces : S[s].render = surf[s].render /\ (s # main.cur => S[s] = surf[s])
      /\ q \in Seq(Frames) /\ Distinct(q) /\ m \in Nat /\ m - Len(q) = main.n - Len(dec)
      /\ \A i \in 1 .. Len(q) :
           /\ q[i] \in Elems(pool.used) \/ q[i] = main.cur
           /\ S[q[i]].locked /\ S[q[i]].render = 0
           /\ S[q[i]].frame = m - Len(q) + i
  BY DEF Staged
<1>4. /\ h = q[1] /\ h \in Frames /\ t \in Seq(Frames) /\ dec' = t
      /\ Len(t) = Len(q) - 1 /\ Len(q) \in Nat \ {0}
      /\ \A i \in 1 .. Len(q) - 1 : t[i] = q[i + 1]
      /\ Distinct(t) /\ h \notin Elems(t)
  BY <1>3, TailLemma
<1> HIDE DEF h, t, u
<1>5. /\ h \in Elems(u) /\ S[h].render = 0 /\ f = m - Len(q) + 1 /\ f \in Nat
  <2>1. 1 \in 1 .. Len(q)
    BY <1>4
  <2>2. /\ q[1] \in Elems(pool.used) \/ q[1] = main.cur
        /\ S[q[1]].locked /\ S[q[1]].render = 0
        /\ S[q[1]].frame = m - Len(q) + 1
    BY <1>3, <2>1
  <2>3. h \in Surfaces
    BY <1>4, SurfaceLemma
  <2>4. S[h].frame \in Nat
    BY <1>3, <2>3 DEF SurfType
  <2> QED BY <1>1, <1>4, <2>2, <2>4
<1> HIDE DEF f
\* The surface of the output is on a used list and nobody's output.
<1>6. /\ Parts(VppAll, pool.vfree, w, main'.vcur)
      /\ o \in Surfaces /\ S[o].render = 0 /\ o \notin Elems(t)
      /\ o \notin Elems(pool.free) /\ o \notin Elems(pool.vfree) /\ o # main'.vcur
      /\ w \in Seq(Surfaces)
  <2>1. Parts(VppAll, pool.vfree, pool.vused, main.vcur)
    BY DEF StateInv, PoolInv
  <2>2. \A s \in Elems(pool.free) : s \notin Elems(u)
    BY <1>1 DEF Parts
  <2>3. CASE mode.vpp
    <3>1. main.vcur # None
      BY <2>3 DEF StateInv, ControlInv
    <3>2. o = main.vcur /\ w = Append(pool.vused, main.vcur) /\ main'.vcur = None
      BY <2>3
    <3>3. Parts(VppAll, pool.vfree, w, None)
      <4> HIDE DEF w
      <4> QED BY <2>1, <3>1, <3>2, UseLemma, VppAllLemma
    <3>4. main.vcur \in VppAll /\ main.vcur \notin Elems(pool.vfree) /\ pool.vused \in Seq(VppAll)
      BY <2>1, <3>1 DEF Parts
    <3>5. main.vcur \in Surfaces /\ main.vcur \notin Frames
      BY <3>4, VppAllLemma
    <3>6. main.vcur # main.cur /\ S[main.vcur].render = 0
      <4>1. Idle(main.vcur)
        BY <3>1 DEF StateInv, PoolInv
      <4> QED BY <1>1, <1>3, <3>5, <4>1 DEF Idle
    <3>7. main.vcur \notin Elems(t)
      BY <1>4, <3>5 DEF Elems
    <3>8. main.vcur \notin Elems(pool.free)
      <4>1. Parts(Frames, pool.free, pool.used, main.cur)
        BY DEF StateInv, PoolInv
      <4>2. Elems(pool.free) \subseteq Frames
        BY <4>1, PartsLemma, SurfaceLemma
      <4> QED BY <3>5, <4>2
    <3>9. w \in Seq(Surfaces)
      <4>1. pool.vused \in Seq(Surfaces)
        BY <2>1, PartsLemma, VppAllLemma
      <4> QED BY <3>2, <3>5, <4>1
    <3> HIDE DEF o, w
    <3> QED BY <3>1, <3>2, <3>3, <3>4, <3>5, <3>6, <3>7, <3>8, <3>9
  <2>4. CASE ~mode.vpp
    <3>1. o = h /\ w = pool.vused /\ main'.vcur = main.vcur
      BY <2>4
    <3>2. h \in Surfaces /\ h \notin VppAll
      BY <1>4, VppAllLemma, SurfaceLemma
    <3>3. Elems(pool.vfree) \subseteq VppAll /\ main.vcur \in VppAll \cup {None} /\ pool.vused \in Seq(Surfaces)
      BY <2>1, PartsLemma, VppAllLemma
    <3>4. h # None
      BY <3>2, SurfaceLemma
    <3>5. h \notin Elems(pool.free)
      BY <1>5, <2>2
    <3>6. o = h /\ w \in Seq(Surfaces)
      BY <3>1, <3>3
    <3> HIDE DEF o, w
    <3> QED BY <1>4, <1>5, <2>1, <3>1, <3>2, <3>3, <3>4, <3>5, <3>6
  <2> QED BY <1>0, <2>3, <2>4
<1> HIDE DEF o
<1>7. /\ surf' \in SurfType
      /\ surf'[o].render = 1 /\ surf'[o].frame = f
      /\ \A s \in Surfaces : s # o => surf'[s] = S[s]
  <2>1. S[o] \in [locked : BOOLEAN, render : Int, frame : Nat]
    BY <1>3, <1>6 DEF SurfType
  <2>2. S[o].render + 1 = 1 /\ 1 \in Int
    BY <1>6
  <2>3. r = [S[o] EXCEPT !.render = 1, !.frame = f]
    BY <2>1, <2>2
  <2>4. [S[o] EXCEPT !.render = 1, !.frame = f] \in [locked : BOOLEAN, render : Int, frame : Nat]
    BY <1>5, <2>1, <2>2, Zenon
  <2>5. surf' = [S EXCEPT ![o] = r]
    BY <1>2, <1>3, <1>6, <2>1 DEF SurfType
  <2>6. r \in [locked : BOOLEAN, render : Int, frame : Nat] /\ r.render = 1 /\ r.frame = f
    BY <2>1, <2>3, <2>4
  <2> HIDE DEF r
  <2> QED BY <1>3, <1>6, <2>5, <2>6 DEF SurfType
<1>8. x \in Outputs /\ x.surf = o /\ x.frame = f /\ x # None
  <2>1. x \in Outputs /\ x.surf = o /\ x.frame = f
    BY <1>5, <1>6 DEF Outputs
  <2> HIDE DEF x
  <2> QED BY <2>1, SurfaceLemma
<1>9. pool.out \in Seq(Outputs) /\ OneEach(pool.out)
  BY <1>0 DEF Pool, StateInv, FlightInv
<1>10. surf[o].render = 0 /\ ~Has(pool.out, o) /\ ~Has(pool.deliv, o) /\ Holds(dlv.x, o) = 0 /\ Holds(Current, o) = 0
  <2>1. surf[o].render = 0
    BY <1>3, <1>6
  <2> QED BY <1>6, <2>1, IdleLemma
<1> HIDE DEF x
<1>11. /\ p \in Seq(Outputs) /\ Len(p) = Len(pool.out) + 1 /\ Len(pool.out) \in Nat
       /\ \A i \in 1 .. Len(pool.out) : p[i] = pool.out[i]
       /\ p[Len(pool.out) + 1] = x
       /\ \A s : Has(p, s) <=> (Has(pool.out, s) \/ o = s)
       /\ OneEach(p)
  BY <1>8, <1>9, <1>10, AppendLemma, AppendOutLemma
<1>12. /\ pool' \in Pool /\ pool'.used = u /\ pool'.free = pool.free /\ pool'.vfree = pool.vfree
       /\ pool'.vused = w /\ pool'.out = p /\ pool'.deliv = pool.deliv
  <2> DEFINE Q == UsedNow(pool)
  <2>1. Q = [pool EXCEPT !.used = u]
    BY DEF UsedNow, u
  <2>2. [pool EXCEPT !.used = u] \in Pool
    BY <1>0, <1>1, Zenon DEF Pool
  <2>3. Q \in Pool /\ Q.used = u /\ Q.free = pool.free /\ Q.vfree = pool.vfree
        /\ Q.vused = pool.vused /\ Q.out = pool.out /\ Q.deliv = pool.deliv /\ Q.count + 1 \in Int
    BY <1>0, <2>1, <2>2 DEF Pool
  <2>4. pool' = [Q EXCEPT !.vused = w, !.out = p, !.count = Q.count + 1]
    BY <1>2, <2>3
  <2> HIDE DEF Q, w, p
  <2>5. [Q EXCEPT !.vused = w, !.out = p, !.count = Q.count + 1] \in Pool
    BY <1>6, <1>11, <2>3, Zenon DEF Pool
  <2> QED BY <2>3, <2>4, <2>5 DEF Pool
<1> HIDE DEF w, p
<1>13. TypeInv'
  BY <1>0, <1>4, <1>7, <1>12 DEF StateInv, TypeInv, SurfType
<1>14. Current' = Current
  BY DEF Current
<1>15. PoolInv'
  <2>1. VppAll' = VppAll
    BY DEF VppAll
  <2>2. ASSUME NEW s \in Elems(pool.free) \cup Elems(pool.vfree) \cup ({main'.vcur} \ {None}) PROVE Idle(s)'
    <3>1. Parts(Frames, pool.free, pool.used, main.cur)
      BY DEF StateInv, PoolInv
    <3>2. Elems(pool.free) \subseteq Frames /\ Elems(pool.vfree) \subseteq VppAll /\ main'.vcur \in VppAll \cup {None}
      BY <1>6, <3>1, PartsLemma, VppAllLemma, SurfaceLemma
    <3>3. s \in Surfaces /\ s # main.cur /\ s # o
      BY <1>1, <1>6, <2>2, <3>2, VppAllLemma, SurfaceLemma
    <3>4. Idle(s)
      <4>1. main'.vcur = None \/ main'.vcur = main.vcur
        BY <1>0
      <4> QED BY <2>2, <4>1 DEF StateInv, PoolInv
    <3> QED BY <1>3, <1>7, <3>3, <3>4 DEF Idle
  <2> QED BY <1>1, <1>6, <1>12, <2>1, <2>2 DEF PoolInv
<1>16. ASSUME NEW i \in 1 .. Len(t)
       PROVE  /\ t[i] \in Elems(u) /\ surf'[t[i]].locked /\ surf'[t[i]].render = 0
              /\ surf'[t[i]].frame = m - Len(t) + i
  <2>1. i + 1 \in 1 .. Len(q) /\ t[i] = q[i + 1]
    BY <1>4
  <2>2. /\ t[i] \in Elems(u)
        /\ S[t[i]].locked /\ S[t[i]].render = 0
        /\ S[t[i]].frame = m - Len(q) + (i + 1)
    BY <1>1, <1>3, <2>1
  <2>3. t[i] \in Surfaces /\ t[i] # o
    BY <1>4, <1>6, SurfaceLemma DEF Elems
  <2>4. m - Len(q) + (i + 1) = m - Len(t) + i
    <3>1. i \in Int /\ m \in Int /\ Len(q) \in Int
      BY <1>3, <1>4
    <3> DEFINE l == Len(q)
    <3> HIDE DEF l
    <3>2. l \in Int /\ Len(t) = l - 1
      BY <1>4, <3>1 DEF l
    <3>3. m - l + (i + 1) = m - (l - 1) + i
      BY <3>1, <3>2
    <3> QED BY <3>2, <3>3 DEF l
  <2> QED BY <1>7, <2>2, <2>3, <2>4
<1>17. KeptInv'
  BY <1>4, <1>12, <1>16 DEF KeptInv
<1>18. FlightInv'
  <2>1. ASSUME NEW s \in Surfaces
        PROVE  surf'[s].render = Bit(Has(p, s)) + Bit(Has(pool.deliv, s)) + Holds(dlv.x, s) + Holds(Current, s)
               /\ surf'[s].render <= 1
    <3>1. CASE s = o
      <4>1. Has(p, s)
        BY <1>11, <3>1
      <4>2. Bit(Has(p, s)) = 1 /\ Bit(Has(pool.deliv, s)) = 0
        BY <1>10, <3>1, <4>1 DEF Bit
      <4> QED BY <1>7, <1>10, <3>1, <4>2
    <3>2. CASE s # o
      <4>1. Has(p, s) <=> Has(pool.out, s)
        BY <1>11, <3>2
      <4>2. surf'[s].render = surf[s].render
        BY <1>3, <1>7, <3>2
      <4>3. surf[s].render = Bit(Has(pool.out, s)) + Bit(Has(pool.deliv, s)) + Holds(dlv.x, s) + Holds(Current, s)
            /\ surf[s].render <= 1
        BY DEF StateInv, FlightInv, Bit
      <4>4. Bit(Has(p, s)) = Bit(Has(pool.out, s))
        BY <4>1 DEF Bit
      <4> QED BY <4>2, <4>3, <4>4
    <3> QED BY <3>1, <3>2
  <2> QED BY <1>11, <1>12, <1>14, <2>1 DEF StateInv, FlightInv, Bit
<1>19. IntactInv'
  <2>1. main.cur \in Surfaces /\ surf[main.cur].render = 0
    BY <1>1, SurfaceLemma DEF Idle
  <2>2. ~Has(pool.out, main.cur) /\ ~Has(pool.deliv, main.cur)
        /\ Holds(dlv.x, main.cur) = 0 /\ Holds(Current, main.cur) = 0
    BY <2>1, IdleLemma
  <2>3. /\ \A i \in 1 .. Len(pool.out) :
             pool.out[i].surf \in Surfaces /\ pool.out[i].surf # main.cur /\ pool.out[i].surf # o
        /\ \A i \in 1 .. Len(pool.deliv) :
             pool.deliv[i].surf \in Surfaces /\ pool.deliv[i].surf # main.cur /\ pool.deliv[i].surf # o
        /\ \A y \in {dlv.x, Current} \ {None} : y.surf \in Surfaces /\ y.surf # main.cur /\ y.surf # o
    <3>1. pool.out \in Seq(Outputs) /\ pool.deliv \in Seq(Outputs)
          /\ dlv.x \in Outputs \cup {None} /\ Current \in Outputs \cup {None}
      BY <1>0 DEF Pool, Dlv, Locals, Current
    <3>2. /\ \A i \in 1 .. Len(pool.out) : pool.out[i] \in Outputs
          /\ \A i \in 1 .. Len(pool.deliv) : pool.deliv[i] \in Outputs
          /\ \A y \in {dlv.x, Current} \ {None} : y \in Outputs
      BY <3>1
    <3>3. \A y \in Outputs : y.surf \in Surfaces
      BY DEF Outputs
    <3> QED BY <1>10, <2>2, <3>2, <3>3 DEF Has, Holds
  <2>4. \A s \in Surfaces : s # main.cur /\ s # o => surf'[s].frame = surf[s].frame
    BY <1>3, <1>7
  <2>5. \A i \in 1 .. Len(p) : surf'[p[i].surf].frame = p[i].frame
    <3>1. ASSUME NEW i \in 1 .. Len(p) PROVE surf'[p[i].surf].frame = p[i].frame
      <4>1. CASE i \in 1 .. Len(pool.out)
        BY <1>11, <2>3, <2>4, <4>1, SMTT(20) DEF StateInv, IntactInv
      <4>2. CASE i = Len(pool.out) + 1
        BY <1>7, <1>8, <1>11, <4>2
      <4> QED BY <1>11, <4>1, <4>2
    <3> QED BY <3>1
  <2>6. \A i \in 1 .. Len(pool.deliv) : surf'[pool.deliv[i].surf].frame = pool.deliv[i].frame
    BY <2>3, <2>4 DEF StateInv, IntactInv
  <2>7. \A y \in {dlv.x, Current} \ {None} : surf'[y.surf].frame = y.frame
    BY <2>3, <2>4 DEF StateInv, IntactInv
  <2> QED BY <1>12, <1>14, <2>5, <2>6, <2>7 DEF IntactInv
<1>20. ControlInv'
  BY <1>0, <1>12 DEF StateInv, ControlInv
<1>21. OrderInv'
  <2>1. \A D : Delivered(D)' = Delivered(D)
    BY <1>12 DEF Delivered
  <2>2. ~Over /\ ~Over'
    BY DEF Over
  <2>3. cnt.synced \in Int /\ One(Current) \in Int /\ Len(q) \in Int /\ m \in Int
    BY <1>0, <1>3, <1>4 DEF One, Cnt
  <2>4. ASSUME NEW D \in Int, Numbered(D) PROVE Numbered(D)'
    <3> DEFINE c == cnt.synced
               y == One(Current)
               l == Len(pool.out)
               k == Len(q)
    <3>0. c \in Int /\ y \in Int /\ l \in Int /\ k \in Int /\ m \in Int
      BY <1>11, <2>3
    <3>1. D + c + y + l = m - k
      BY <1>3, <2>2, <2>4 DEF Numbered
    <3>2. Len(t) = k - 1 /\ Len(p) = l + 1 /\ f = m - k + 1
      BY <1>4, <1>5, <1>11
    <3>3. \A i \in 1 .. l : p[i].frame = D + c + y + i
      BY <1>11, <2>4 DEF Numbered
    <3>4. p[l + 1].frame = f
      BY <1>8, <1>11
    <3> HIDE DEF c, y, l, k
    <3>5. D + c + y + (l + 1) = m - (k - 1) /\ D + c + y + (l + 1) <= m - (k - 1)
      BY <3>0, <3>1
    <3>6. ASSUME NEW i \in 1 .. Len(p) PROVE p[i].frame = D + c + y + i
      <4>1. CASE i \in 1 .. l
        BY <3>3, <4>1
      <4>2. CASE i = l + 1
        <5>1. m - k + 1 = D + c + y + (l + 1)
          BY <3>0, <3>1
        <5> QED BY <3>2, <3>4, <4>2, <5>1
      <4> QED BY <3>0, <3>2, <4>1, <4>2
    <3>7. \A i \in 1 .. Len(t) : surf'[t[i]].frame = m - Len(t) + i
      BY <1>16
    <3>8. D + c + y + Len(p) = m - Len(t) /\ D + c + y + Len(p) <= m - Len(t)
      BY <3>2, <3>5
    <3>9. dec' = t /\ pool'.out = p
      BY <1>12 DEF t
    <3> QED BY <1>12, <1>14, <2>1, <2>4, <3>6, <3>7, <3>8, <3>9 DEF Numbered, c, y
  <2>5. FirstRun'
    <3>1. Failed => Failed'
      BY DEF Failed, StateInv, ControlInv
    <3> QED BY <2>1, <2>4, <3>1 DEF FirstRun, StateInv, OrderInv
  <2> QED BY <2>4, <2>5 DEF StateInv, OrderInv
<1> QED BY <1>13, <1>15, <1>17, <1>18, <1>19, <1>20, <1>21 DEF StateInv

\* The locals after a call of DecodeFrameAsync.
LEMMA DecodedLocalsLemma ==
    ASSUME main \in Locals
    PROVE  LET L == Decoded(main)
           IN  /\ L \in Locals /\ L.pc = "top" /\ L.cur = None /\ L.vcur = main.vcur
               /\ L.n = main.n /\ L.curOut = main.curOut /\ L.stale = main.stale /\ L.ret = main.ret
<1>1. Decoded(main) = [main EXCEPT !.pc = "top", !.cur = None]
  BY DEF Decoded
<1>2. [main EXCEPT !.pc = "top", !.cur = None] \in Locals
  <2>1. "top" \in Pcs /\ None \in Surfaces \cup {None}
    BY NamesLemma
  <2> QED BY <2>1, Zenon DEF Locals
<1> QED BY <1>1, <1>2 DEF Locals

LEMMA VppFailsStep ==
    ASSUME StateInv, VppFails
    PROVE  StateInv'
<1> DEFINE u == Append(pool.used, main.cur)
           t == Tail(dec)
           K == [Decoded(main) EXCEPT !.pc = "end", !.sts = "error"]
<1>0. /\ mode \in [work : Modes, vpp : BOOLEAN] /\ pool \in Pool /\ main \in Locals /\ comm \in Comm
      /\ dlv \in Dlv /\ cnt \in Cnt /\ dec \in Seq(Frames)
      /\ main.pc = "decode" /\ dec # << >> /\ dec' = t
      /\ mode' = mode /\ dlv' = dlv /\ comm' = comm /\ cnt' = cnt /\ shown' = shown
      /\ restarts' = restarts /\ surf' = surf
  BY DEF StateInv, TypeInv, VppFails
<1>1. /\ main.cur # None /\ main.cur \in Surfaces
      /\ Parts(Frames, pool.free, u, None)
      /\ Elems(u) = Elems(pool.used) \cup {main.cur}
      /\ u \in Seq(Surfaces)
  BY <1>0, WorkLemma, SurfaceLemma
<1>2. main' = K
  BY DEF VppFails
<1>3. /\ K \in Locals /\ K.pc = "end" /\ K.sts = "error" /\ K.cur = None /\ K.vcur = main.vcur
      /\ K.n = main.n /\ K.curOut = main.curOut /\ K.stale = main.stale /\ K.ret = main.ret
  <2> DEFINE L == Decoded(main)
  <2>1. /\ L \in Locals /\ L.cur = None /\ L.vcur = main.vcur
        /\ L.n = main.n /\ L.curOut = main.curOut /\ L.stale = main.stale /\ L.ret = main.ret
    BY <1>0, DecodedLocalsLemma
  <2>2. "end" \in Pcs /\ "error" \in Sts
    BY NamesLemma
  <2> HIDE DEF L
  <2>3. [L EXCEPT !.pc = "end", !.sts = "error"] \in Locals
    BY <2>1, <2>2, LocalsLemma
  <2>4. LET M == [L EXCEPT !.pc = "end", !.sts = "error"]
        IN  /\ M.pc = "end" /\ M.sts = "error" /\ M.cur = None /\ M.vcur = main.vcur
            /\ M.n = main.n /\ M.curOut = main.curOut /\ M.stale = main.stale /\ M.ret = main.ret
    BY <2>1, <2>3 DEF Locals
  <2> QED BY <2>3, <2>4 DEF L
<1> HIDE DEF K
<1>4. /\ t \in Seq(Frames) /\ Len(t) = Len(dec) - 1 /\ Len(dec) \in Nat \ {0}
      /\ \A i \in 1 .. Len(dec) - 1 : t[i] = dec[i + 1]
      /\ Distinct(t)
  BY <1>0, TailLemma DEF StateInv, KeptInv
<1> HIDE DEF t
<1>5. pool' = [pool EXCEPT !.used = u]
  BY DEF VppFails, UsedNow
<1> HIDE DEF u
<1>6. /\ pool' \in Pool /\ pool'.used = u /\ pool'.free = pool.free /\ pool'.vfree = pool.vfree
      /\ pool'.vused = pool.vused /\ pool'.out = pool.out /\ pool'.deliv = pool.deliv
  <2>1. [pool EXCEPT !.used = u] \in Pool
    BY <1>0, <1>1, Zenon DEF Pool
  <2> QED BY <1>0, <1>5, <2>1 DEF Pool
<1>7. TypeInv'
  BY <1>0, <1>2, <1>3, <1>4, <1>6 DEF StateInv, TypeInv
<1>8. Current' = Current
  BY <1>2, <1>3 DEF Current
<1>9. PoolInv'
  <2>1. VppAll' = VppAll /\ Parts(VppAll, pool.vfree, pool.vused, main.vcur)
    BY <1>0 DEF VppAll, StateInv, PoolInv
  <2>2. \A s : Idle(s)' <=> Idle(s)
    BY <1>0 DEF Idle
  <2>3. \A s \in Elems(pool.free) \cup Elems(pool.vfree) \cup ({main.vcur} \ {None}) : Idle(s)
    BY DEF StateInv, PoolInv
  <2> QED BY <1>1, <1>2, <1>3, <1>6, <2>1, <2>2, <2>3 DEF PoolInv
<1>10. ASSUME NEW i \in 1 .. Len(t)
       PROVE  i + 1 \in 1 .. Len(dec) /\ t[i] = dec[i + 1]
  BY <1>4
<1>11. KeptInv'
  <2>1. \A i \in 1 .. Len(t) : t[i] \in Elems(u) /\ surf[t[i]].locked /\ surf[t[i]].render = 0
    BY <1>1, <1>10 DEF StateInv, KeptInv
  <2> QED BY <1>0, <1>4, <1>6, <2>1 DEF KeptInv
<1>12. FlightInv' /\ IntactInv'
  BY <1>0, <1>6, <1>8, FlightFrame DEF StateInv
<1>13. ControlInv'
  BY <1>0, <1>2, <1>3, <1>6 DEF StateInv, ControlInv
<1>14. OrderInv'
  <2>1. \A D : Delivered(D)' = Delivered(D)
    BY <1>0, <1>6 DEF Delivered
  <2>2. Over'
    BY <1>2, <1>3 DEF Over
  <2>3. ASSUME NEW D \in Int, Numbered(D) PROVE Numbered(D)'
    <3> DEFINE c == cnt.synced
               y == One(Current)
               l == Len(pool.out)
               k == Len(dec)
               m == main.n
    <3>1. c \in Int /\ y \in Int /\ l \in Int /\ k \in Int /\ m \in Int
      BY <1>0, <1>4 DEF One, Cnt, Pool, Locals
    <3>2. D + c + y + l <= m - k
      BY <2>3 DEF Numbered
    <3>3. \A i \in 1 .. k : surf[dec[i]].frame = m - k + i
      BY <2>3 DEF Numbered
    <3>4. k = Len(t) + 1 /\ Len(t) \in Int
      BY <1>4
    <3>5. \A i \in 1 .. Len(t) : i + 1 \in 1 .. k /\ t[i] = dec[i + 1] /\ i \in Int
      BY <1>10
    <3> HIDE DEF c, y, l, k, m
    <3>6. D + c + y + l <= m - Len(t)
      BY <3>1, <3>2, <3>4
    <3>7. ASSUME NEW i \in 1 .. Len(t) PROVE surf[t[i]].frame = m - Len(t) + i
      <4>1. surf[t[i]].frame = m - k + (i + 1)
        BY <3>3, <3>5
      <4> DEFINE z == Len(t)
      <4>2. z \in Int /\ k = z + 1 /\ i \in Int
        BY <3>4, <3>5
      <4> HIDE DEF z
      <4>3. m - k + (i + 1) = m - z + i
        BY <3>1, <4>2
      <4> QED BY <4>1, <4>3 DEF z
    <3> QED BY <1>0, <1>2, <1>3, <1>6, <1>8, <2>1, <2>2, <2>3, <3>6, <3>7 DEF Numbered, c, y, l, m
  <2>4. FirstRun'
    <3>1. Failed => Failed'
      BY <1>0, <1>2 DEF Failed, StateInv, ControlInv
    <3> QED BY <1>0, <2>1, <2>3, <3>1 DEF FirstRun, StateInv, OrderInv
  <2> QED BY <2>3, <2>4 DEF StateInv, OrderInv
<1> QED BY <1>7, <1>9, <1>11, <1>12, <1>13, <1>14 DEF StateInv

LEMMA NeedsDataStep ==
    ASSUME StateInv, NeedsData
    PROVE  StateInv'
<1>1. /\ main \in Locals /\ "more" \in Sts /\ main.pc = "decode"
      /\ Staged(surf, dec, main.n)
  BY NamesLemma, StagedOldLemma DEF StateInv, TypeInv, NeedsData
<1> DEFINE L == Decoded(main)
<1>2. /\ L \in Locals /\ L.pc = "top" /\ L.cur = None /\ L.vcur = main.vcur
      /\ L.n = main.n /\ L.curOut = main.curOut /\ L.stale = main.stale
  BY <1>1, DecodedLocalsLemma
<1>3. main' = [L EXCEPT !.sts = "more"]
  BY DEF NeedsData
<1> HIDE DEF L
<1>4. [L EXCEPT !.sts = "more"] \in Locals
  BY <1>1, <1>2, Zenon DEF Locals
<1>5. /\ main' \in Locals /\ main'.pc = "top" /\ main'.cur = None /\ main'.vcur = main.vcur
      /\ main'.n = main.n /\ main'.curOut = main.curOut /\ main'.stale = main.stale
      /\ main'.sts # "unknown"
  BY <1>2, <1>3, <1>4 DEF Locals
<1>6. /\ surf' = surf /\ dec' = dec /\ pool' = UsedNow(pool)
      /\ mode' = mode /\ dlv' = dlv /\ comm' = comm /\ cnt' = cnt /\ shown' = shown /\ restarts' = restarts
  BY DEF NeedsData
<1> QED BY <1>1, <1>5, <1>6, KeepStep

\* The locals after an output, which uses the VPP surface up.
LEMMA OutputLocalsLemma ==
    ASSUME main \in Locals, NEW L \in Locals,
           L.pc = "top", L.cur = None, L.vcur = main.vcur,
           L.curOut = main.curOut, L.stale = main.stale,
           main' = [L EXCEPT !.sts = "ok", !.vcur = IF mode.vpp THEN None ELSE @]
    PROVE  /\ main' \in Locals /\ main'.pc = "top" /\ main'.cur = None
           /\ main'.vcur = (IF mode.vpp THEN None ELSE main.vcur)
           /\ main'.n = L.n /\ main'.curOut = main.curOut /\ main'.stale = main.stale
           /\ main'.sts # "unknown"
<1> DEFINE v == IF mode.vpp THEN None ELSE main.vcur
<1>1. v \in Surfaces \cup {None} /\ "ok" \in Sts
  BY NamesLemma DEF Locals
<1>2. main' = [L EXCEPT !.sts = "ok", !.vcur = v]
  OBVIOUS
<1> HIDE DEF v
<1>3. [L EXCEPT !.sts = "ok", !.vcur = v] \in Locals
  BY <1>1, ZenonT(30) DEF Locals
<1>4. /\ main' \in Locals /\ main'.pc = "top" /\ main'.cur = None /\ main'.vcur = v
      /\ main'.n = L.n /\ main'.curOut = main.curOut /\ main'.stale = main.stale
      /\ main'.sts # "unknown"
  BY <1>2, <1>3 DEF Locals
<1> QED BY <1>4 DEF v

LEMMA FlushFrameStep ==
    ASSUME StateInv, FlushFrame
    PROVE  StateInv'
<1>1. /\ main \in Locals /\ main.pc = "decode" /\ dec # << >>
      /\ Staged(surf, dec, main.n)
  BY StagedOldLemma DEF StateInv, TypeInv, FlushFrame
<1>2. LET L == Decoded(main)
      IN  /\ L \in Locals /\ L.pc = "top" /\ L.cur = None /\ L.vcur = main.vcur
          /\ L.n = main.n /\ L.curOut = main.curOut /\ L.stale = main.stale
  BY <1>1, DecodedLocalsLemma
<1>3. main' = [Decoded(main) EXCEPT !.sts = "ok", !.vcur = IF mode.vpp THEN None ELSE @]
  BY DEF FlushFrame
<1>4. /\ main' \in Locals /\ main'.pc = "top" /\ main'.cur = None
      /\ main'.vcur = (IF mode.vpp THEN None ELSE main.vcur)
      /\ main'.n = main.n /\ main'.curOut = main.curOut /\ main'.stale = main.stale
      /\ main'.sts # "unknown"
  BY <1>1, <1>2, <1>3, OutputLocalsLemma
<1>5. /\ Output(UsedNow(pool), surf, Head(dec)) /\ dec' = Tail(dec)
      /\ mode' = mode /\ dlv' = dlv /\ comm' = comm /\ cnt' = cnt /\ shown' = shown /\ restarts' = restarts
  BY DEF FlushFrame
<1> QED BY <1>1, <1>4, <1>5, OutStep

LEMMA DecodeFrameStep ==
    ASSUME StateInv, DecodeFrame
    PROVE  StateInv'
<1> DEFINE q == Append(dec, main.cur)
           f == main.n + 1
           S == [surf EXCEPT ![main.cur].locked = TRUE, ![main.cur].frame = f]
           K == [Decoded(main) EXCEPT !.n = f, !.has = FALSE]
<1>1. /\ main \in Locals /\ main.pc = "decode" /\ f \in Nat /\ main.n \in Nat
      /\ mode' = mode /\ dlv' = dlv /\ comm' = comm /\ cnt' = cnt /\ shown' = shown /\ restarts' = restarts
  BY DEF StateInv, TypeInv, DecodeFrame, Locals
<1>2. Staged(S, q, f)
  BY <1>1, StagedNewLemma
<1>3. q # << >>
  <2>1. dec \in Seq(Frames) /\ main.cur \in Frames
    BY <1>1, WorkLemma DEF StateInv, TypeInv
  <2> QED BY <2>1
<1>4. \/ /\ Output(UsedNow(pool), S, Head(q)) /\ dec' = Tail(q)
         /\ main' = [K EXCEPT !.sts = "ok", !.vcur = IF mode.vpp THEN None ELSE @]
      \/ /\ surf' = S /\ pool' = UsedNow(pool) /\ dec' = q
         /\ main' = [K EXCEPT !.sts = "moresurf"]
  <2>1. \E q0 \in {q} : \E f0 \in {f} :
        \E S0 \in {[surf EXCEPT ![main.cur].locked = TRUE, ![main.cur].frame = f0]} :
        \E K0 \in {[Decoded(main) EXCEPT !.n = f0, !.has = FALSE]} :
           IF Len(q0) > DecDelay
           THEN /\ Output(UsedNow(pool), S0, Head(q0)) /\ dec' = Tail(q0)
                /\ main' = [K0 EXCEPT !.sts = "ok", !.vcur = IF mode.vpp THEN None ELSE @]
           ELSE /\ surf' = S0 /\ pool' = UsedNow(pool) /\ dec' = q0
                /\ main' = [K0 EXCEPT !.sts = "moresurf"]
    BY Zenon DEF DecodeFrame
  <2>2. \E S0 \in {S} : \E K0 \in {K} :
           IF Len(q) > DecDelay
           THEN /\ Output(UsedNow(pool), S0, Head(q)) /\ dec' = Tail(q)
                /\ main' = [K0 EXCEPT !.sts = "ok", !.vcur = IF mode.vpp THEN None ELSE @]
           ELSE /\ surf' = S0 /\ pool' = UsedNow(pool) /\ dec' = q
                /\ main' = [K0 EXCEPT !.sts = "moresurf"]
    <3> HIDE DEF q, f
    <3> QED BY <2>1, Zenon
  <2> HIDE DEF q, f, S, K
  <2> QED BY <2>2
<1>5. /\ K \in Locals /\ K.pc = "top" /\ K.cur = None /\ K.vcur = main.vcur
      /\ K.n = f /\ K.curOut = main.curOut /\ K.stale = main.stale
  <2> DEFINE L == Decoded(main)
  <2>1. /\ L \in Locals /\ L.pc = "top" /\ L.cur = None /\ L.vcur = main.vcur
        /\ L.curOut = main.curOut /\ L.stale = main.stale
    BY <1>1, DecodedLocalsLemma
  <2> HIDE DEF L, f
  <2>2. [L EXCEPT !.n = f, !.has = FALSE] \in Locals
    BY <1>1, <2>1, ZenonT(30) DEF Locals
  <2>3. LET M == [L EXCEPT !.n = f, !.has = FALSE]
        IN  /\ M.pc = "top" /\ M.cur = None /\ M.vcur = main.vcur
            /\ M.n = f /\ M.curOut = main.curOut /\ M.stale = main.stale
    BY <2>1, <2>2 DEF Locals
  <2> QED BY <2>2, <2>3 DEF L
<1> HIDE DEF q, f, S, K
<1>6. CASE /\ Output(UsedNow(pool), S, Head(q)) /\ dec' = Tail(q)
           /\ main' = [K EXCEPT !.sts = "ok", !.vcur = IF mode.vpp THEN None ELSE @]
  <2>1. /\ main' \in Locals /\ main'.pc = "top" /\ main'.cur = None
        /\ main'.vcur = (IF mode.vpp THEN None ELSE main.vcur)
        /\ main'.n = f /\ main'.curOut = main.curOut /\ main'.stale = main.stale
        /\ main'.sts # "unknown"
    BY <1>1, <1>5, <1>6, OutputLocalsLemma
  <2> QED BY <1>1, <1>2, <1>3, <1>6, <2>1, OutStep
<1>7. CASE /\ surf' = S /\ pool' = UsedNow(pool) /\ dec' = q
           /\ main' = [K EXCEPT !.sts = "moresurf"]
  <2>1. [K EXCEPT !.sts = "moresurf"] \in Locals
    <3>1. "moresurf" \in Sts
      BY NamesLemma
    <3> QED BY <1>5, <3>1, Zenon DEF Locals
  <2>2. /\ main' \in Locals /\ main'.pc = "top" /\ main'.cur = None /\ main'.vcur = main.vcur
        /\ main'.n = f /\ main'.curOut = main.curOut /\ main'.stale = main.stale
        /\ main'.sts # "unknown"
    BY <1>5, <1>7, <2>1 DEF Locals
  <2> QED BY <1>1, <1>2, <1>7, <2>2, KeepStep
<1> QED BY <1>4, <1>6, <1>7

-----------------------------------------------------------------------------
(***************************************************************************)
(* Every step                                                              *)
(***************************************************************************)

LEMMA StepLemma == StateInv /\ [Next]_vars => StateInv'
<1> SUFFICES ASSUME StateInv, [Next]_vars PROVE StateInv'
  OBVIOUS
<1>1. CASE \/ LoopTop \/ NoOutput \/ UsesFreedMemory \/ Post \/ AwaitDelivery
           \/ FinalCheck \/ FinalWait \/ EndOfStream \/ DeviceBusy \/ DecodeFails
           \/ NewParameters \/ LeaveLoop \/ Return \/ WaitExpires \/ CountOutput
           \/ SignalDelivered \/ UNCHANGED vars
  BY <1>1, QuietSteps
<1>2. CASE GetSurfaces
  BY <1>2, GetSurfacesStep
<1>3. CASE SyncOutputSurface \/ WriteFails
  BY <1>3, SyncSteps
<1>4. CASE SyncFails
  BY <1>4, SyncFailsStep
<1>5. CASE DecodeFrame
  BY <1>5, DecodeFrameStep
<1>6. CASE NeedsData
  BY <1>6, NeedsDataStep
<1>7. CASE FlushFrame
  BY <1>7, FlushFrameStep
<1>8. CASE VppFails
  BY <1>8, VppFailsStep
<1>9. CASE ResetDecoder
  BY <1>9, ResetStep
<1>10. CASE DeliverNext
  BY <1>10, DeliverNextStep
<1>11. CASE DeliverOutput
  BY <1>11, DeliverOutputStep
<1>12. CASE RuntimeUnlocks
  BY <1>12, RuntimeUnlocksStep
<1> QED BY <1>1, <1>2, <1>3, <1>4, <1>5, <1>6, <1>7, <1>8, <1>9, <1>10, <1>11, <1>12
        DEF Next, Progress, MainThread, DeliverThread, Failure, Finished

LEMMA InvLemma == Spec => []StateInv
<1>1. Init => StateInv
  BY InitLemma
<1>2. StateInv /\ [Next]_vars => StateInv'
  BY StepLemma
<1> QED BY <1>1, <1>2, PTL DEF Spec

-----------------------------------------------------------------------------
(***************************************************************************)
(* What follows                                                            *)
(***************************************************************************)

LEMMA PlacesLemma ==
    ASSUME NEW s, NEW r
    PROVE  r \in Places(s) <=>
             \E k \in 1 .. 4 : \E i \in 1 .. Len(Lists[k]) : r = <<k, i>> /\ Lists[k][i] = s
<1> DEFINE All == UNION {{k} \X (1 .. Len(Lists[k])) : k \in 1 .. 4}
<1>1. r \in All <=> \E k \in 1 .. 4 : \E i \in 1 .. Len(Lists[k]) : r = <<k, i>>
  OBVIOUS
<1>2. r \in Places(s) <=> r \in All /\ Lists[r[1]][r[2]] = s
  BY DEF Places
<1> HIDE DEF All
<1>3. ASSUME NEW k \in 1 .. 4, NEW i \in 1 .. Len(Lists[k]), r = <<k, i>>
      PROVE  r[1] = k /\ r[2] = i
  BY <1>3
<1> QED BY <1>1, <1>2, <1>3

\* The surface s is of the decoder or of VPP, and so on its two lists only.
LEMMA PlaceLemma ==
    ASSUME NEW a \in {1, 3}, NEW all, NEW cur, NEW s \in all,
           Parts(all, Lists[a], Lists[a + 1], cur),
           \A k \in 1 .. 4 : k \in {a, a + 1} \/ s \notin Elems(Lists[k])
    PROVE  Cardinality(Places(s)) = IF s = cur THEN 0 ELSE 1
<1>1. a \in 1 .. 4 /\ a + 1 \in 1 .. 4
  OBVIOUS
<1>2. \A k \in 1 .. 4 : \A i \in 1 .. Len(Lists[k]) : Lists[k][i] \in Elems(Lists[k])
  BY DEF Elems
<1>3. CASE s = cur
  <2>1. \A r : r \notin Places(s)
    BY <1>1, <1>2, <1>3, PlacesLemma DEF Parts
  <2>2. Places(s) = {}
    BY <2>1
  <2> QED BY <1>3, <2>2, FS_EmptySet
<1>4. ASSUME NEW k \in {a, a + 1}, s # cur, s \in Elems(Lists[k])
      PROVE  Cardinality(Places(s)) = 1
  <2>1. PICK i \in 1 .. Len(Lists[k]) : s = Lists[k][i]
    BY <1>4 DEF Elems
  <2>2. \A r : r \in Places(s) <=> r = <<k, i>>
    <3>1. <<k, i>> \in Places(s)
      BY <1>1, <2>1, PlacesLemma
    <3>2. ASSUME NEW r \in Places(s) PROVE r = <<k, i>>
      <4>1. PICK h \in 1 .. 4 : \E j \in 1 .. Len(Lists[h]) : r = <<h, j>> /\ Lists[h][j] = s
        BY PlacesLemma
      <4>2. PICK j \in 1 .. Len(Lists[h]) : r = <<h, j>> /\ Lists[h][j] = s
        BY <4>1
      <4>3. s \in Elems(Lists[h])
        BY <1>2, <4>2
      <4>4. h = k
        BY <1>4, <4>3 DEF Parts
      <4>5. Distinct(Lists[k])
        BY DEF Parts
      <4>6. j = i
        BY <2>1, <4>2, <4>4, <4>5 DEF Distinct
      <4> QED BY <4>2, <4>4, <4>6
    <3> QED BY <3>1, <3>2
  <2>3. Places(s) = {<<k, i>>}
    BY <2>2
  <2> QED BY <2>3, FS_Singleton
<1>5. CASE s # cur
  <2>1. s \in Elems(Lists[a]) \/ s \in Elems(Lists[a + 1])
    BY <1>5 DEF Parts
  <2> QED BY <1>4, <1>5, <2>1
<1> QED BY <1>3, <1>5

LEMMA AccountingLemma == StateInv => SurfaceAccounting
<1> SUFFICES ASSUME StateInv PROVE SurfaceAccounting
  OBVIOUS
<1>1. /\ Lists[1] = pool.free /\ Lists[2] = pool.used
      /\ Lists[3] = pool.vfree /\ Lists[4] = pool.vused
  BY DEF Lists
<1>2. /\ Parts(Frames, pool.free, pool.used, main.cur)
      /\ Parts(VppAll, pool.vfree, pool.vused, main.vcur)
  BY DEF StateInv, PoolInv
<1>3. /\ Elems(pool.free) \subseteq Frames /\ Elems(pool.used) \subseteq Frames
      /\ main.cur \in Frames \cup {None}
      /\ Elems(pool.vfree) \subseteq VppAll /\ Elems(pool.vused) \subseteq VppAll
      /\ main.vcur \in VppAll \cup {None}
  BY <1>2, PartsLemma, SurfaceLemma, VppAllLemma
<1>4. \A s \in Frames : s # None /\ s \notin VppAll
  BY SurfaceLemma, VppAllLemma
<1>5. \A k \in 1 .. 4 : k = 1 \/ k = 2 \/ k = 3 \/ k = 4
  OBVIOUS
<1>6. ASSUME NEW s \in Frames
      PROVE  Cardinality(Places(s)) + (IF s \in {main.cur, main.vcur} THEN 1 ELSE 0) = 1
  <2>1. s \notin Elems(pool.vfree) /\ s \notin Elems(pool.vused) /\ s # main.vcur
    BY <1>3, <1>4
  <2>2. \A k \in 1 .. 4 : k \in {1, 1 + 1} \/ s \notin Elems(Lists[k])
    BY <1>1, <1>5, <2>1
  <2>3. Parts(Frames, Lists[1], Lists[1 + 1], main.cur)
    BY <1>1, <1>2
  <2>4. Cardinality(Places(s)) = IF s = main.cur THEN 0 ELSE 1
    BY <2>2, <2>3, PlaceLemma
  <2> QED BY <2>1, <2>4
<1>7. ASSUME mode.vpp, NEW s \in VppFrames
      PROVE  Cardinality(Places(s)) + (IF s \in {main.cur, main.vcur} THEN 1 ELSE 0) = 1
  <2>0. VppAll = VppFrames
    BY <1>7 DEF VppAll
  <2>1. s \notin Elems(pool.free) /\ s \notin Elems(pool.used) /\ s # main.cur
    BY <1>3, <1>4, <2>0, VppAllLemma
  <2>2. \A k \in 1 .. 4 : k \in {3, 3 + 1} \/ s \notin Elems(Lists[k])
    BY <1>1, <1>5, <2>1
  <2>3. Parts(VppFrames, Lists[3], Lists[3 + 1], main.vcur)
    BY <1>1, <1>2, <2>0
  <2>4. Cardinality(Places(s)) = IF s = main.vcur THEN 0 ELSE 1
    BY <2>2, <2>3, PlaceLemma
  <2> QED BY <2>1, <2>4
<1>8. ASSUME NEW s \in (Elems(pool.free) \cup {main.cur}) \ {None}
      PROVE  ~surf[s].locked /\ surf[s].render = 0
  BY DEF StateInv, PoolInv, Idle
<1> QED BY <1>6, <1>7, <1>8 DEF SurfaceAccounting

LEMMA TimesLemma ==
    ASSUME NEW l, OneEach(l), NEW s
    PROVE  Times(l, s) = Bit(Has(l, s))
<1> DEFINE I == {i \in 1 .. Len(l) : l[i].surf = s}
<1>1. CASE Has(l, s)
  <2>1. PICK i \in 1 .. Len(l) : l[i].surf = s
    BY <1>1 DEF Has
  <2>2. I = {i}
    BY <2>1 DEF OneEach
  <2> QED BY <1>1, <2>2, FS_Singleton DEF Times, Bit
<1>2. CASE ~Has(l, s)
  <2>1. I = {}
    BY <1>2 DEF Has
  <2> QED BY <1>2, <2>1, FS_EmptySet DEF Times, Bit
<1> QED BY <1>1, <1>2

LEMMA LocksLemma == StateInv => RenderLocks
<1> SUFFICES ASSUME StateInv, NEW s \in Surfaces
             PROVE  surf[s].render =
                      Times(pool.out, s) + Times(pool.deliv, s) + Holds(dlv.x, s)
                      + (IF main.stale THEN 0 ELSE Holds(main.curOut, s))
  BY DEF RenderLocks, Surfaces
<1>1. surf[s].render = Bit(Has(pool.out, s)) + Bit(Has(pool.deliv, s)) + Holds(dlv.x, s) + Holds(Current, s)
  BY DEF StateInv, FlightInv, Bit
<1>2. Times(pool.out, s) = Bit(Has(pool.out, s)) /\ Times(pool.deliv, s) = Bit(Has(pool.deliv, s))
  BY TimesLemma DEF StateInv, FlightInv
<1>3. Holds(Current, s) = IF main.stale THEN 0 ELSE Holds(main.curOut, s)
  BY DEF Current, Holds
<1> QED BY <1>1, <1>2, <1>3

LEMMA IntactLemma == StateInv => FrameIntact
<1> SUFFICES ASSUME StateInv, NEW x \in InFlight PROVE surf[x.surf].frame = x.frame
  BY DEF FrameIntact
<1>1. IntactInv
  BY DEF StateInv
<1>2. CASE x \in Elems(pool.out) \/ x \in Elems(pool.deliv)
  BY <1>1, <1>2 DEF IntactInv, Elems
<1>3. CASE x \in {dlv.x, Current} \ {None}
  BY <1>1, <1>3 DEF IntactInv
<1> QED BY <1>2, <1>3 DEF InFlight, Current

\* TypeInv, the type invariant: the lists of CBuffering hold surfaces of the
\* pools and outputs, the locals of RunDecoding are what they are declared as.
THEOREM TypeTheorem == Spec => []TypeInv
<1>1. StateInv => TypeInv
  BY DEF StateInv
<1> QED BY <1>1, InvLemma, PTL

\* SurfaceAccounting: through errors, resets and the passes of
\* SyncFrameSurfaces that stop at the first surface, no surface is lost and
\* none is given out twice.
THEOREM SurfaceAccountingTheorem == Spec => []SurfaceAccounting
BY AccountingLemma, InvLemma, PTL

\* RenderLocks: render_lock counts the undelivered outputs of a surface,
\* wherever the two threads have them.
THEOREM RenderLocksTheorem == Spec => []RenderLocks
BY LocksLemma, InvLemma, PTL

\* FrameIntact: no surface is decoded into before its frame was delivered.
THEOREM FrameIntactTheorem == Spec => []FrameIntact
BY IntactLemma, InvLemma, PTL

\* InOrder: frames are delivered in order, each once, and without a gap up to
\* a failure to deliver or a reset.
THEOREM InOrderTheorem == Spec => []InOrder
<1>1. StateInv => InOrder
  <2> SUFFICES ASSUME StateInv, NEW i \in 1 .. Len(shown)
               PROVE  /\ i > 1 => shown[i] > shown[i - 1]
                      /\ restarts = 0 => shown[i] = i
    BY DEF InOrder
  <2>1. PICK D \in Int : Numbered(D)
    BY DEF StateInv, OrderInv
  <2>2. i > 1 => shown[i] > shown[i - 1]
    BY <2>1 DEF Numbered
  <2>3. restarts = 0 => shown[i] = i
    BY DEF StateInv, OrderInv, FirstRun
  <2> QED BY <2>2, <2>3
<1> QED BY <1>1, InvLemma, PTL
=============================================================================
