----------------------- MODULE Dispatcher_order_proof -----------------------
(***************************************************************************)
(* Proofs about the order, the numbering and the filtering of the list of  *)
(* implementations, on top of what Dispatcher_proof says of each operation *)
(* (the list stays a list, entries and descriptions are kept).  Sorting is *)
(* followed through its four stable passes to the priority rules; every    *)
(* call is then shown to leave an up-to-date list sorted, numbered without *)
(* gaps and filtered.  The last part is about loaders without low latency. *)
(***************************************************************************)
EXTENDS Dispatcher_proof

-----------------------------------------------------------------------------
(***************************************************************************)
(* Sorting                                                                 *)
(***************************************************************************)

\* Positions in a list are numbers, and distinct.
LEMMA PositionLemma ==
    ASSUME NEW p, IsList(p)
    PROVE  /\ \A x \in DOMAIN p : p[x] \in 1 .. Cardinality(DOMAIN p) /\ p[x] \in Int
           /\ \A x, y \in DOMAIN p : p[x] = p[y] => x = y
<1>1. Cardinality(DOMAIN p) \in Nat
  BY FS_CardinalityType DEF IsList
<1> QED BY <1>1 DEF IsList, IsInjectiveOn

\* Numbering follows the list.
LEMMA CountOrderLemma ==
    ASSUME NEW p, IsList(p), NEW T, T \subseteq DOMAIN p, NEW x \in T, NEW y \in T
    PROVE  CountBefore(p, T, x) < CountBefore(p, T, y) <=> p[x] < p[y]
<1> DEFINE B(z) == {t \in T : p[t] < p[z]}
<1>1. \A z \in T : p[z] \in Int
  BY PositionLemma
<1>2. \A z \in T : IsFiniteSet(B(z)) /\ Cardinality(B(z)) \in Nat
  <2>1. IsFiniteSet(T)
    BY FS_Subset DEF IsList
  <2> QED BY <2>1, FS_Subset, FS_CardinalityType
<1>3. ASSUME NEW a \in T, NEW b \in T, p[a] < p[b]
      PROVE  Cardinality(B(a)) < Cardinality(B(b))
  <2>1. B(a) \subseteq B(b) /\ B(a) # B(b)
    <3>1. a \in B(b) /\ a \notin B(a)
      BY <1>1, <1>3
    <3>2. B(a) \subseteq B(b)
      BY <1>1, <1>3
    <3> QED BY <3>1, <3>2
  <2> HIDE DEF B
  <2>2. Cardinality(B(a)) <= Cardinality(B(b)) /\ Cardinality(B(a)) # Cardinality(B(b))
    BY <1>2, <2>1, FS_Subset
  <2> QED BY <1>2, <2>2
<1>4. p[x] = p[y] => B(x) = B(y)
  OBVIOUS
<1> HIDE DEF B
<1>5. Cardinality(B(x)) < Cardinality(B(y)) <=> p[x] < p[y]
  BY <1>1, <1>2, <1>3, <1>4
<1> QED BY <1>5 DEF B, CountBefore

\* The keys of the four sorts, from the least to the most important.
SortKeys(S, k1, k2, k3, k4) ==
    /\ k1 \in [S -> Int] /\ k2 \in [S -> Int] /\ k3 \in [S -> Int] /\ k4 \in [S -> Int]

\* Stable sorts compose: the last key decides first.
LEMMA FourSortsLemma ==
    ASSUME NEW p, IsList(p), NEW S, S = DOMAIN p, NEW k1, NEW k2, NEW k3, NEW k4,
           SortKeys(S, k1, k2, k3, k4), NEW x \in S, NEW y \in S
    PROVE  LET r == SortBy(SortBy(SortBy(SortBy(p, k1), k2), k3), k4)
           IN  r[x] <= r[y] <=>
                 \/ k4[x] < k4[y]
                 \/ /\ k4[x] = k4[y]
                    /\ \/ k3[x] < k3[y]
                       \/ /\ k3[x] = k3[y]
                          /\ \/ k2[x] < k2[y]
                             \/ /\ k2[x] = k2[y]
                                /\ \/ k1[x] < k1[y]
                                   \/ k1[x] = k1[y] /\ p[x] <= p[y]
<1> DEFINE p1 == SortBy(p, k1)
           p2 == SortBy(p1, k2)
           p3 == SortBy(p2, k3)
           p4 == SortBy(p3, k4)
<1>0. k1 \in [S -> Int] /\ k2 \in [S -> Int] /\ k3 \in [S -> Int] /\ k4 \in [S -> Int]
  BY DEF SortKeys
<1>1. /\ IsList(p1) /\ DOMAIN p1 = S
      /\ p1[x] <= p1[y] <=> k1[x] < k1[y] \/ (k1[x] = k1[y] /\ p[x] <= p[y])
  BY <1>0, SortByLemma
<1> HIDE DEF p1
<1>2. /\ IsList(p2) /\ DOMAIN p2 = S
      /\ p2[x] <= p2[y] <=> k2[x] < k2[y] \/ (k2[x] = k2[y] /\ p1[x] <= p1[y])
  BY <1>0, <1>1, SortByLemma
<1> HIDE DEF p2
<1>3. /\ IsList(p3) /\ DOMAIN p3 = S
      /\ p3[x] <= p3[y] <=> k3[x] < k3[y] \/ (k3[x] = k3[y] /\ p2[x] <= p2[y])
  BY <1>0, <1>2, SortByLemma
<1> HIDE DEF p3
<1>4. p4[x] <= p4[y] <=> k4[x] < k4[y] \/ (k4[x] = k4[y] /\ p3[x] <= p3[y])
  BY <1>0, <1>3, SortByLemma
<1> HIDE DEF p4
<1>5. p4[x] <= p4[y] <=>
                 \/ k4[x] < k4[y]
                 \/ /\ k4[x] = k4[y]
                    /\ \/ k3[x] < k3[y]
                       \/ /\ k3[x] = k3[y]
                          /\ \/ k2[x] < k2[y]
                             \/ /\ k2[x] = k2[y]
                                /\ \/ k1[x] < k1[y]
                                   \/ k1[x] = k1[y] /\ p[x] <= p[y]
  BY <1>1, <1>2, <1>3, <1>4
<1> QED BY <1>5 DEF p1, p2, p3, p4

\* The keys that decide between two entries with descriptions are numbers.
LEMMA KeyTypeLemma ==
    ASSUME NEW L, Core(L), NEW x \in DOMAIN L.impls, x.lib \in DOMAIN L.libs, L.impls[x].known
    PROVE  L.libs[x.lib].prio \in Int /\ Desc(x).ApiVersion \in Int /\ Desc(x).Impl \in Int
<1>1. LibsType(L.libs, L.lpos) /\ ImplsType(L.impls, L.ipos)
  BY DEF Core, CtxType
<1>2. x \in ImplIds
  BY <1>1 DEF ImplsType
<1>3. L.libs[x.lib].prio \in Int
  BY <1>1 DEF LibsType, LibRecords
<1>4. x.lib.name \in Names /\ x.num \in DOMAIN Runtime[x.lib.name].caps
  BY <1>1, <1>2 DEF ImplsType, ImplIds, LibIds
<1>5. IsDescription(Desc(x))
  BY <1>4, RuntimeAssumption DEF Desc
<1> QED BY <1>3, <1>5 DEF IsDescription

\* The four sorts order two entries by the priority rules, and entries
\* between which the rules do not decide as they were.
LEMMA RankedOrderLemma ==
    ASSUME NEW L, Core(L), ~HasFreedImpl(L), ~NullCompared(L),
           NEW x \in Compared(L), NEW y \in Compared(L)
    PROVE  /\ L.impls[x].known /\ L.impls[y].known /\ Worse(L, x, y)
                => Ranked(L)[y] < Ranked(L)[x]
           /\ ~Worse(L, x, y) /\ L.ipos[x] < L.ipos[y] => Ranked(L)[x] < Ranked(L)[y]
<1> DEFINE S  == Compared(L)
           p0 == Keep(L.ipos, S)
           k1 == [z \in S |-> L.libs[z.lib].prio]
           k2 == [z \in S |-> -Desc(z).ApiVersion]
           k3 == [z \in S |->
                    IF Desc(z).AccelerationMode = MFX_ACCEL_MODE_VIA_HDDLUNITE THEN 1 ELSE 0]
           k4 == [z \in S |-> -Desc(z).Impl]
           R  == SortBy(SortBy(SortBy(SortBy(p0, k1), k2), k3), k4)
           version(z) == Desc(z).ApiVersion
           impl(z) == Desc(z).Impl
           prio(z) == L.libs[z.lib].prio
           vsi(z)  == Desc(z).AccelerationMode = MFX_ACCEL_MODE_VIA_HDDLUNITE
<1>1. /\ IsList(L.ipos) /\ DOMAIN L.ipos = DOMAIN L.impls /\ S \subseteq DOMAIN L.impls
      /\ \A z \in S : z.lib \in DOMAIN L.libs
  BY DEF Core, CtxType, ImplsType, Compared, HasFreedImpl
<1>2. /\ IsList(p0) /\ DOMAIN p0 = S
      /\ \A a, b \in S : p0[a] <= p0[b] <=> L.ipos[a] <= L.ipos[b]
  <2> HIDE DEF S
  <2>1. DOMAIN L.ipos \cap S = S
    BY <1>1
  <2> QED BY <1>1, <2>1, KeepLemma
<1>3. Ranked(L) = IF Cardinality(S) < 2 THEN p0 ELSE R
  BY DEF Ranked
<1>4. prio(x) # LIB_PRIORITY_SPECIAL /\ prio(y) # LIB_PRIORITY_SPECIAL
  BY <1>1 DEF Compared, Special
<1>5. Worse(L, x, y) <=>
        \/ impl(x) < impl(y)
        \/ /\ impl(x) = impl(y)
           /\ \/ vsi(x) /\ ~vsi(y)
              \/ /\ vsi(x) <=> vsi(y)
                 /\ \/ version(x) < version(y)
                    \/ version(x) = version(y) /\ prio(x) > prio(y)
  BY <1>4 DEF Worse
<1>6. L.ipos[x] \in Int /\ L.ipos[y] \in Int /\ (L.ipos[x] = L.ipos[y] => x = y)
  BY <1>1, PositionLemma
<1>7. CASE Cardinality(S) < 2
  <2>1. x = y
    <3>1. IsFiniteSet(S) /\ Cardinality(S) \in Nat
      BY <1>2, FS_CardinalityType DEF IsList
    <3>2. {x, y} \subseteq S /\ (x # y => Cardinality({x, y}) = 2)
      <4>1. Cardinality({x}) = 1 /\ IsFiniteSet({x})
        BY FS_Singleton
      <4>2. x # y => Cardinality({x} \cup {y}) = 2
        BY <4>1, FS_AddElement
      <4>3. {x, y} = {x} \cup {y}
        OBVIOUS
      <4> QED BY <4>2, <4>3
    <3>3. Cardinality({x, y}) <= Cardinality(S)
      BY <3>1, <3>2, FS_Subset
    <3> QED BY <1>7, <3>1, <3>2, <3>3
  <2>2. L.impls[x].known => ~Worse(L, x, x)
    <3> SUFFICES ASSUME L.impls[x].known PROVE ~Worse(L, x, x)
      OBVIOUS
    <3>1. prio(x) \in Int /\ version(x) \in Int /\ impl(x) \in Int
      BY <1>1, KeyTypeLemma
    <3> HIDE DEF prio, version, impl, vsi
    <3> QED BY <1>5, <2>1, <3>1
  <2> QED BY <1>6, <2>1, <2>2
<1>8. CASE ~(Cardinality(S) < 2)
  <2>1. Ranked(L) = R
    BY <1>3, <1>8
  <2>2. \A z \in S : prio(z) \in Int /\ version(z) \in Int /\ impl(z) \in Int
    <3>1. Cardinality(S) \in Nat
      BY <1>2, FS_CardinalityType DEF IsList
    <3>2. \A z \in S : L.impls[z].known
      BY <1>8, <3>1 DEF NullCompared
    <3> QED BY <1>1, <3>2, KeyTypeLemma
  <2>3. k1 = [z \in S |-> prio(z)] /\ k2 = [z \in S |-> -version(z)] /\ k4 = [z \in S |-> -impl(z)]
    OBVIOUS
  <2>4. k3 = [z \in S |-> IF vsi(z) THEN 1 ELSE 0]
    OBVIOUS
  <2> HIDE DEF S, p0, k1, k2, k3, k4, prio, version, impl, vsi
  <2>5. k1 \in [S -> Int] /\ k2 \in [S -> Int] /\ k4 \in [S -> Int]
    BY <2>2, <2>3
  <2>6. k3 \in [S -> Int]
    BY <2>4
  <2>7. SortKeys(S, k1, k2, k3, k4)
    BY <2>5, <2>6 DEF SortKeys
  <2>8. x \in S /\ y \in S
    BY DEF S
  <2>9. R[x] <= R[y] <=>
                 \/ k4[x] < k4[y]
                 \/ /\ k4[x] = k4[y]
                    /\ \/ k3[x] < k3[y]
                       \/ /\ k3[x] = k3[y]
                          /\ \/ k2[x] < k2[y]
                             \/ /\ k2[x] = k2[y]
                                /\ \/ k1[x] < k1[y]
                                   \/ k1[x] = k1[y] /\ p0[x] <= p0[y]
    BY <1>2, <2>7, <2>8, FourSortsLemma
  <2>10. R[x] \in Int /\ R[y] \in Int /\ (R[x] = R[y] => x = y)
    <3>1. IsList(R) /\ DOMAIN R = S
      BY <2>1, RankedLemma DEF S
    <3> HIDE DEF R
    <3> QED BY <2>8, <3>1, PositionLemma
  <2>11. /\ k1[x] = prio(x) /\ k1[y] = prio(y) /\ k2[x] = -version(x) /\ k2[y] = -version(y)
         /\ k4[x] = -impl(x) /\ k4[y] = -impl(y)
    BY <2>3, <2>8
  <2>12. k3[x] = (IF vsi(x) THEN 1 ELSE 0) /\ k3[y] = (IF vsi(y) THEN 1 ELSE 0)
    BY <2>4, <2>8
  <2>13. p0[x] <= p0[y] <=> L.ipos[x] <= L.ipos[y]
    BY <1>2, <2>8
  <2>14. /\ prio(x) \in Int /\ version(x) \in Int /\ impl(x) \in Int
         /\ prio(y) \in Int /\ version(y) \in Int /\ impl(y) \in Int
    BY <2>2, <2>8
  <2> HIDE DEF R
  <2>15. Worse(L, x, y) => R[y] < R[x]
    BY <1>5, <2>9, <2>10, <2>11, <2>12, <2>13, <2>14
  <2>16. ~Worse(L, x, y) /\ L.ipos[x] < L.ipos[y] => R[x] < R[y]
    BY <1>5, <1>6, <2>9, <2>10, <2>11, <2>12, <2>13, <2>14
  <2> QED BY <2>1, <2>15, <2>16
<1> QED BY <1>7, <1>8

\* The whole list: the entries of ONEVPL_PRIORITY_PATH are in front.
LEMMA SortedOrderLemma ==
    ASSUME NEW L, Core(L), ~HasFreedImpl(L), ~NullCompared(L),
           NEW x \in DOMAIN L.impls, NEW y \in DOMAIN L.impls
    PROVE  LET p == SortedList(L)
           IN  /\ L.impls[x].known /\ L.impls[y].known /\ Worse(L, x, y) => p[y] < p[x]
               /\ ~Worse(L, x, y) /\ L.ipos[x] < L.ipos[y] => p[x] < p[y]
<1> DEFINE sp == Keep(L.ipos, Special(L))
           rk == Ranked(L)
           p  == SortedList(L)
           m  == Cardinality(DOMAIN sp)
<1>1. IsList(L.ipos) /\ DOMAIN L.ipos = DOMAIN L.impls /\ Special(L) \subseteq DOMAIN L.impls
  BY DEF Core, CtxType, ImplsType, Special
<1>2. /\ IsList(sp) /\ DOMAIN sp = Special(L)
      /\ \A a, b \in Special(L) : sp[a] <= sp[b] <=> L.ipos[a] <= L.ipos[b]
  <2>1. DOMAIN L.ipos \cap Special(L) = Special(L)
    BY <1>1
  <2> QED BY <1>1, <2>1, KeepLemma
<1>3. IsList(rk) /\ DOMAIN rk = Compared(L)
  BY RankedLemma
<1>4. /\ \A z \in Special(L) : p[z] = sp[z]
      /\ \A z \in Compared(L) : p[z] = m + rk[z]
  <2>1. p = PushBack(sp, rk)
    BY DEF SortedList
  <2>2. DOMAIN sp \cap DOMAIN rk = {}
    BY <1>2, <1>3 DEF Compared
  <2> HIDE DEF sp, rk, p
  <2>3. /\ \A z \in DOMAIN sp : PushBack(sp, rk)[z] = sp[z]
        /\ \A z \in DOMAIN rk : PushBack(sp, rk)[z] = Cardinality(DOMAIN sp) + rk[z]
    BY <1>2, <1>3, <2>2, PushBackLemma
  <2> QED BY <1>2, <1>3, <2>1, <2>3
<1>5. m \in Nat
  BY <1>2, FS_CardinalityType DEF IsList
<1>6. /\ \A z \in Special(L) : sp[z] \in 1 .. m
      /\ \A z \in Compared(L) : rk[z] \in Int /\ rk[z] >= 1
  <2>1. \A z \in Special(L) : sp[z] \in 1 .. m
    BY <1>2, PositionLemma
  <2>2. \A z \in Compared(L) : rk[z] \in 1 .. Cardinality(DOMAIN rk) /\ rk[z] \in Int
    <3> HIDE DEF rk
    <3> QED BY <1>3, PositionLemma
  <2> QED BY <2>1, <2>2
<1>7. \A z \in DOMAIN L.impls : z \in Special(L) \/ z \in Compared(L)
  BY DEF Compared
<1>8. \A z \in DOMAIN L.impls : z \in Special(L) <=> L.libs[z.lib].prio = LIB_PRIORITY_SPECIAL
  BY DEF Special
<1>9. L.ipos[x] \in Int /\ L.ipos[y] \in Int
  BY <1>1, PositionLemma
<1> HIDE DEF p, sp, m
<1>10. CASE x \in Special(L) /\ y \in Special(L)
  <2>1. ~Worse(L, x, y)
    BY <1>8, <1>10 DEF Worse
  <2> QED BY <1>2, <1>4, <1>5, <1>6, <1>9, <1>10, <2>1 DEF p
<1>11. CASE x \in Special(L) /\ y \in Compared(L)
  <2>1. ~Worse(L, x, y)
    BY <1>8, <1>11 DEF Worse, Compared
  <2>2. p[x] < p[y]
    <3> HIDE DEF rk
    <3> QED BY <1>4, <1>5, <1>6, <1>11
  <2> QED BY <2>1, <2>2 DEF p
<1>12. CASE x \in Compared(L) /\ y \in Special(L)
  <2>1. Worse(L, x, y)
    BY <1>8, <1>12 DEF Worse, Compared
  <2>2. p[y] < p[x]
    <3> HIDE DEF rk
    <3> QED BY <1>4, <1>5, <1>6, <1>12
  <2> QED BY <2>1, <2>2 DEF p
<1>13. CASE x \in Compared(L) /\ y \in Compared(L)
  <2>1. /\ L.impls[x].known /\ L.impls[y].known /\ Worse(L, x, y) => rk[y] < rk[x]
        /\ ~Worse(L, x, y) /\ L.ipos[x] < L.ipos[y] => rk[x] < rk[y]
    BY <1>13, RankedOrderLemma
  <2> HIDE DEF rk
  <2>2. (rk[x] < rk[y] => p[x] < p[y]) /\ (rk[y] < rk[x] => p[y] < p[x])
    BY <1>4, <1>5, <1>6, <1>13
  <2> QED BY <2>1, <2>2 DEF p
<1> QED BY <1>7, <1>10, <1>11, <1>12, <1>13

-----------------------------------------------------------------------------
(***************************************************************************)
(* PrioritizeImplList and UpdateValidImplList                              *)
(***************************************************************************)

\* M is the list of L in the order of the rules, with the old order between
\* entries they do not distinguish.
Sorts(L, M) ==
    \A x, y \in DOMAIN L.impls :
        /\ L.impls[x].known /\ L.impls[y].known /\ Worse(L, x, y) => M.ipos[y] < M.ipos[x]
        /\ ~Worse(L, x, y) /\ L.ipos[x] < L.ipos[y] => M.ipos[x] < M.ipos[y]

\* The valid entries of L, T, are numbered in the order of its list.
Numbers(L, T) ==
    /\ Valid(L.impls) = T
    /\ \A x \in T : L.impls[x].idx = CountBefore(L.ipos, T, x)

\* Sorting and renumbering that does not run into a fault.
LEMMA PrioritizeOrderLemma ==
    ASSUME NEW L, Core(L), PrioritizeImplList(L).fault = "none"
    PROVE  LET M == PrioritizeImplList(L)
           IN  ~HasFreedImpl(L) /\ Sorts(L, M) /\ Numbers(M, Valid(L.impls))
<1> DEFINE p == SortedList(L)
           new == Reindex(L.impls, p)
           T == Valid(L.impls)
           M == PrioritizeImplList(L)
<1>1. ~HasFreedImpl(L) /\ ~NullCompared(L)
  <2>1. Fault(L, "freed").fault # "none" /\ Fault(L, "null").fault # "none"
    BY FaultLemma DEF Faults
  <2> QED BY <2>1 DEF PrioritizeImplList
<1>2. M = [L EXCEPT !.ipos = p, !.impls = new]
  BY <1>1 DEF PrioritizeImplList
<1>3. IsList(p) /\ DOMAIN p = DOMAIN L.impls
  BY <1>1, SortedListLemma
<1>4. \A x, y \in DOMAIN L.impls :
        /\ L.impls[x].known /\ L.impls[y].known /\ Worse(L, x, y) => p[y] < p[x]
        /\ ~Worse(L, x, y) /\ L.ipos[x] < L.ipos[y] => p[x] < p[y]
  BY <1>1, SortedOrderLemma
<1> HIDE DEF p
<1>5. new = [x \in DOMAIN L.impls |->
                [known |-> L.impls[x].known,
                 idx |-> IF L.impls[x].idx >= 0 THEN CountBefore(p, T, x) ELSE -1]]
  BY TableLemma DEF Reindex
<1> HIDE DEF new
<1>6. DOMAIN new = DOMAIN L.impls
      /\ \A x \in DOMAIN new : new[x].idx = IF L.impls[x].idx >= 0 THEN CountBefore(p, T, x) ELSE -1
  BY <1>5
<1>7. T \subseteq DOMAIN L.impls
  BY DEF Valid
<1>8. Numbered(new, p, T)
  BY <1>3, <1>6, <1>7 DEF Numbered, Valid
<1>9. Valid(new) = T
  <2>1. L.next \in Nat /\ Cardinality(DOMAIN p) <= L.next
    BY <1>3 DEF Core, CtxType, IndexInv
  <2> HIDE DEF T
  <2> QED BY <1>3, <1>8, <2>1, NumberingLemma
<1>10. M.ipos = p /\ M.impls = new
  <2>1. IsCtx(L)
    BY DEF Core
  <2> QED BY <1>2, <2>1 DEF IsCtx, Fields
<1> HIDE DEF M
<1>11. Sorts(L, M)
  BY <1>4, <1>10 DEF Sorts
<1>12. Numbers(M, T)
  BY <1>8, <1>9, <1>10 DEF Numbers, Numbered
<1> QED BY <1>1, <1>11, <1>12 DEF M

\* Applying the filters leaves the entries that match valid, and all of them
\* sorted and numbered.
LEMMA UpdateOrderLemma ==
    ASSUME NEW L, Core(L), UpdateValidImplList(L).fault = "none"
    PROVE  LET M == UpdateValidImplList(L)
           IN  /\ ~HasFreedImpl(L) /\ ~HasFreedImpl(M) /\ M.needUpdate = FALSE
               /\ Sorts(L, M)
               /\ Numbers(M, {x \in Valid(L.impls) :
                                L.impls[x].known /\ ValidateConfig(L.cfgs, Desc(x))})
<1> DEFINE ok == {x \in Valid(L.impls) : L.impls[x].known /\ ValidateConfig(L.cfgs, Desc(x))}
           new == Table([x \in DOMAIN L.impls |->
                [known |-> L.impls[x].known,
                 idx   |-> IF x \in ok THEN CountBefore(L.ipos, ok, x) ELSE -1]])
           N == [L EXCEPT !.impls = new]
           P == PrioritizeImplList(N)
           M == UpdateValidImplList(L)
<1>1. M = [P EXCEPT !.needUpdate = FALSE]
  BY DEF UpdateValidImplList
<1>2. ok \subseteq DOMAIN L.impls
  BY DEF Valid
<1> HIDE DEF ok
<1>3. new = [x \in DOMAIN L.impls |->
                [known |-> L.impls[x].known,
                 idx   |-> IF x \in ok THEN CountBefore(L.ipos, ok, x) ELSE -1]]
  BY TableLemma
<1> HIDE DEF new
<1>4. /\ DOMAIN new = DOMAIN L.impls
      /\ \A x \in DOMAIN new :
           /\ new[x] = [known |-> new[x].known, idx |-> new[x].idx]
           /\ new[x].known = L.impls[x].known
           /\ new[x].idx = IF x \in ok THEN CountBefore(L.ipos, ok, x) ELSE -1
  BY <1>3
<1>5. /\ ImplsType(L.impls, L.ipos) /\ L.next \in Nat /\ Cardinality(DOMAIN L.impls) <= L.next
      /\ IsCtx(L)
  BY DEF Core, CtxType, IndexInv
<1>6. IsList(L.ipos) /\ DOMAIN L.ipos = DOMAIN L.impls
  BY <1>5 DEF ImplsType
<1>7. IndexInv(new, L.next) /\ Valid(new) = ok /\ \A x \in DOMAIN new : new[x].idx \in Int
  <2>1. Numbered(new, L.ipos, ok)
    BY <1>2, <1>4, <1>6 DEF Numbered
  <2>2. Cardinality(DOMAIN L.ipos) <= L.next
    BY <1>5, <1>6
  <2> QED BY <1>5, <1>6, <2>1, <2>2, NumberingLemma
<1>8. \A x \in DOMAIN new : /\ new[x].known \in BOOLEAN
                            /\ new[x].known => x.num \in DOMAIN Runtime[x.lib.name].caps
  BY <1>4, <1>5 DEF ImplsType, ImplRecords
<1>9. ImplsType(new, L.ipos)
  BY <1>4, <1>5, <1>6, <1>7, <1>8, ImplsTypeLemma
<1>10. /\ Core(N) /\ SameFlags(L, N) /\ SameLibs(L, N)
       /\ N.impls = new /\ N.ipos = L.ipos /\ N.next = L.next
  <2>1. IsCtx(N)
    BY <1>5 DEF IsCtx
  <2>2. /\ SameFlags(L, N) /\ SameLibs(L, N) /\ N.fault = L.fault
        /\ N.impls = new /\ N.ipos = L.ipos /\ N.next = L.next
    BY <1>5 DEF IsCtx, Fields, SameFlags, SameLibs
  <2>3. L.fault \in Faults
    BY DEF Core, CtxType
  <2> HIDE DEF N
  <2>4. Core(N)
    BY <1>5, <1>7, <1>9, <2>1, <2>2, <2>3, CoreImplsLemma
  <2> QED BY <2>2, <2>4
<1> HIDE DEF N
<1>11. Core(P) /\ SameLibs(N, P) /\ SameEntries(N, P)
  BY <1>10, PrioritizeLemma
<1>12. IsCtx(P)
  BY <1>11 DEF Core
<1> HIDE DEF P
<1>13. /\ SameLibs(P, M) /\ SameImpls(P, M) /\ M.fault = P.fault /\ M.needUpdate = FALSE
  BY <1>1, <1>12 DEF IsCtx, Fields, SameLibs, SameImpls
<1>14. ~HasFreedImpl(N) /\ Sorts(N, P) /\ Numbers(P, Valid(N.impls))
  BY <1>10, <1>13, PrioritizeOrderLemma DEF P
<1> HIDE DEF M
<1>15. Sorts(L, M)
  <2>1. \A x, y : Worse(N, x, y) <=> Worse(L, x, y)
    BY <1>10 DEF Worse, SameLibs
  <2> QED BY <1>4, <1>10, <1>13, <1>14, <2>1 DEF Sorts, SameImpls
<1>16. Numbers(M, ok)
  BY <1>7, <1>10, <1>13, <1>14 DEF Numbers, SameImpls
<1>17. ~HasFreedImpl(L) /\ ~HasFreedImpl(M)
  BY <1>4, <1>10, <1>11, <1>13, <1>14 DEF HasFreedImpl, SameLibs, SameEntries, SameImpls
<1> QED BY <1>13, <1>15, <1>16, <1>17 DEF M, ok

\* What an update establishes, whatever the list was before.
LEMMA UpdatedLemma ==
    ASSUME NEW L, Core(L), ~L.needFull, LibInv(L), UpdateValidImplList(L).fault = "none"
    PROVE  LET M == UpdateValidImplList(L)
           IN  LibInv(M) /\ SortedInv(M) /\ DenseInv(M) /\ MatchInv(M) /\ M.needUpdate = FALSE
<1> DEFINE M == UpdateValidImplList(L)
           ok == {x \in Valid(L.impls) : L.impls[x].known /\ ValidateConfig(L.cfgs, Desc(x))}
<1>1. /\ Core(M) /\ SameLibs(L, M) /\ SameEntries(L, M)
      /\ M.low = L.low /\ M.cfgs = L.cfgs /\ M.needFull = L.needFull /\ M.needLow = L.needLow
  BY UpdateLemma
<1>2. ~HasFreedImpl(M) /\ M.needUpdate = FALSE /\ Sorts(L, M) /\ Numbers(M, ok)
  BY UpdateOrderLemma
<1>3. ok \subseteq DOMAIN L.impls
  BY DEF Valid
<1>4. \A x \in ok : L.impls[x].known /\ ValidateConfig(L.cfgs, Desc(x))
  OBVIOUS
<1> HIDE DEF M, ok
<1>5. LibInv(M)
  BY <1>1 DEF LibInv, SameLibs, SameEntries
<1>6. IsList(M.ipos) /\ DOMAIN M.ipos = DOMAIN M.impls
  BY <1>1 DEF Core, CtxType, ImplsType
<1>7. SortedInv(M)
  <2>1. \A x, y : Worse(M, x, y) <=> Worse(L, x, y)
    BY <1>1 DEF Worse, SameLibs
  <2>2. \A x, y \in DOMAIN M.impls :
          M.impls[x].known /\ M.impls[y].known /\ Worse(M, x, y) => M.ipos[y] < M.ipos[x]
    BY <1>1, <1>2, <2>1 DEF SameEntries, Sorts
  <2>3. ASSUME NEW x \in ok, NEW y \in ok, M.impls[x].idx < M.impls[y].idx
        PROVE  M.ipos[x] < M.ipos[y]
    <3>1. CountBefore(M.ipos, ok, x) < CountBefore(M.ipos, ok, y)
      BY <1>2, <2>3 DEF Numbers
    <3>2. ok \subseteq DOMAIN M.ipos
      BY <1>1, <1>3, <1>6 DEF SameEntries
    <3> QED BY <1>6, <3>1, <3>2, CountOrderLemma
  <2> QED BY <1>2, <2>2, <2>3 DEF SortedInv, Numbers
<1>8. DenseInv(M)
  BY <1>1, <1>2 DEF DenseInv, Numbers
<1>9. MatchInv(M)
  BY <1>1, <1>2, <1>3, <1>4 DEF MatchInv, Numbers, SameEntries
<1> QED BY <1>2, <1>5, <1>7, <1>8, <1>9 DEF M

\* The order of two entries that are valid before and after.
Stable(L, M) ==
    \A x, y \in Valid(L.impls) \cap Valid(M.impls) :
        L.impls[x].idx < L.impls[y].idx => M.impls[x].idx < M.impls[y].idx

\* Updating a sorted list reorders nothing.
LEMMA UpdateStableLemma ==
    ASSUME NEW L, Core(L), ~L.needFull, SortedInv(L), UpdateValidImplList(L).fault = "none"
    PROVE  Stable(L, UpdateValidImplList(L))
<1> DEFINE M == UpdateValidImplList(L)
           ok == {x \in Valid(L.impls) : L.impls[x].known /\ ValidateConfig(L.cfgs, Desc(x))}
<1>1. Core(M) /\ SameEntries(L, M)
  BY UpdateLemma
<1>2. Sorts(L, M) /\ Numbers(M, ok)
  BY UpdateOrderLemma
<1>3. ok \subseteq Valid(L.impls) /\ ok \subseteq DOMAIN L.impls /\ \A x \in ok : L.impls[x].known
  BY DEF Valid
<1>4. IsList(M.ipos) /\ DOMAIN M.ipos = DOMAIN L.impls
  BY <1>1 DEF Core, CtxType, ImplsType, SameEntries
<1>5. IsList(L.ipos) /\ DOMAIN L.ipos = DOMAIN L.impls
  BY DEF Core, CtxType, ImplsType
<1> HIDE DEF M, ok
<1>6. ASSUME NEW x \in ok, NEW y \in ok, L.impls[x].idx < L.impls[y].idx
      PROVE  M.impls[x].idx < M.impls[y].idx
  <2>1. L.ipos[x] < L.ipos[y]
    BY <1>3, <1>6 DEF SortedInv
  <2>2. ~Worse(L, x, y)
    <3>1. L.ipos[x] \in Int /\ L.ipos[y] \in Int
      BY <1>3, <1>5, PositionLemma
    <3> QED BY <1>3, <2>1, <3>1 DEF SortedInv
  <2>3. M.ipos[x] < M.ipos[y]
    BY <1>2, <1>3, <2>1, <2>2 DEF Sorts
  <2>4. CountBefore(M.ipos, ok, x) < CountBefore(M.ipos, ok, y)
    BY <1>3, <1>4, <2>3, CountOrderLemma
  <2> QED BY <1>2, <2>4 DEF Numbers
<1> QED BY <1>2, <1>3, <1>6 DEF Stable, Numbers, M

-----------------------------------------------------------------------------
(***************************************************************************)
(* Loading, querying and filtering                                         *)
(***************************************************************************)

\* A full load and query lists what LibInv says, and asks for an update when
\* it succeeds.
LEMMA FullLoadOrderLemma ==
    ASSUME NEW L, Core(L), PhaseInv(L), L.needFull, LibInv(L), NEW bad
    PROVE  LET M == FullLoadAndQuery(L, bad)
           IN  /\ LibInv(M) /\ M.cfgs = L.cfgs /\ M.needLow = L.needLow
               /\ L.needUpdate => M.needUpdate
               /\ ~M.needFull => M.needUpdate
<1> DEFINE K == [L EXCEPT !.low = FALSE]
           B == BuildListOfCandidateLibs(K)
           C == CheckValidLibraries(B, bad)
           Q == QueryLibraryCaps(C)
           R == [Q EXCEPT !.needFull = FALSE, !.needUpdate = TRUE]
           F == Fault(L, "freed")
           M == FullLoadAndQuery(L, bad)
           G(N) == /\ LibInv(N) /\ N.cfgs = L.cfgs /\ N.needLow = L.needLow
                   /\ N.needUpdate = L.needUpdate /\ N.needFull = L.needFull
<1>1. M = F \/ M = C \/ (M = Q /\ DOMAIN Q.impls = {}) \/ M = R
  BY DEF FullLoadAndQuery, QueryLoaded, NoteFullQuery
<1>2. IsCtx(L)
  BY DEF Core
<1>3. IsCtx(K)
  BY <1>2 DEF IsCtx
<1>4. /\ SameImpls(L, K) /\ SameLibs(L, K) /\ K.fault = L.fault /\ K.low = FALSE
      /\ K.live = L.live /\ K.needUpdate = L.needUpdate
      /\ K.needFull = L.needFull /\ K.needLow = L.needLow /\ K.cfgs = L.cfgs
  BY <1>2 DEF IsCtx, Fields, SameImpls, SameLibs
<1> HIDE DEF K
<1>5. Core(K) /\ G(K)
  BY <1>3, <1>4 DEF Core, CtxType, SameImpls, SameLibs, LibInv
<1>6. /\ Core(B) /\ SameFlags(K, B) /\ SameImpls(K, B)
      /\ \A i \in DOMAIN B.libs :
           \/ i \in DOMAIN K.libs /\ B.libs[i] = K.libs[i]
           \/ /\ i.origin = "search" /\ B.libs[i].type = "none"
              /\ ~B.libs[i].freed /\ ~HasFreedLib(K)
  BY <1>5, BuildLemma
<1> HIDE DEF B
<1>7. G(B)
  BY <1>5, <1>6 DEF SameFlags, SameImpls, LibInv
<1>8. /\ Core(C) /\ SameFlags(B, C) /\ SameImpls(B, C)
      /\ \A i \in DOMAIN C.libs :
           /\ i \in DOMAIN B.libs /\ C.libs[i].freed = B.libs[i].freed
           /\ C.libs[i].type = "MSDK" => Runtime[i.name].session
  BY <1>6, CheckLemma
<1> HIDE DEF C
<1>9. G(C)
  BY <1>7, <1>8 DEF SameFlags, SameImpls, LibInv
<1>10. C.impls = L.impls /\ C.low = FALSE
  BY <1>4, <1>6, <1>8 DEF SameImpls, SameFlags
<1>11. \A x \in DOMAIN C.impls : x.low # C.low
  <2>1. \A x \in DOMAIN L.impls : x.low \in BOOLEAN
    BY DEF Core, CtxType, ImplsType, ImplIds
  <2> QED BY <1>10, <2>1 DEF PhaseInv
<1>12. /\ Core(Q) /\ SameFlags(C, Q) /\ Keeps(C, Q)
       /\ \A x \in DOMAIN Q.impls \ DOMAIN C.impls :
            /\ x.low = C.low /\ x.lib \in DOMAIN Q.libs /\ ~HasFreedLib(C)
            /\ ~C.low => Q.impls[x].known
       /\ \A i \in DOMAIN Q.libs : i \in DOMAIN C.libs /\ Q.libs[i] = C.libs[i]
  BY <1>8, <1>11, QueryLemma
<1> HIDE DEF Q
<1>13. G(Q)
  <2>1. ASSUME NEW x \in DOMAIN Q.impls, Q.needLow
        PROVE  x.lib.origin = "search"
    <3>1. CASE x \in DOMAIN C.impls
      BY <1>9, <1>12, <2>1, <3>1 DEF LibInv, SameFlags
    <3>2. CASE x \notin DOMAIN C.impls
      <4>1. x.lib \in DOMAIN C.libs /\ ~C.libs[x.lib].freed
        BY <1>12, <3>2 DEF HasFreedLib
      <4>2. x.lib.origin \in {"search", "low"}
        BY <1>8, <4>1 DEF Core, CtxType, LibsType, LibIds
      <4>3. x.lib.origin # "low"
        BY <1>9, <1>12, <2>1, <4>1 DEF LibInv, SameFlags
      <4> QED BY <4>2, <4>3
    <3> QED BY <3>1, <3>2
  <2>2. ASSUME NEW x \in DOMAIN Q.impls, ~x.low PROVE Q.impls[x].known
    <3>1. CASE x \in DOMAIN C.impls
      BY <1>9, <1>12, <2>2, <3>1 DEF LibInv, Keeps
    <3>2. CASE x \notin DOMAIN C.impls
      BY <1>10, <1>12, <3>2
    <3> QED BY <3>1, <3>2
  <2> QED BY <1>9, <1>12, <2>1, <2>2 DEF LibInv, SameFlags
<1>14. /\ LibInv(R) /\ R.cfgs = L.cfgs /\ R.needLow = L.needLow /\ R.needUpdate = TRUE
  <2>1. IsCtx(Q)
    BY <1>12 DEF Core
  <2>2. R.libs = Q.libs /\ R.impls = Q.impls /\ R.needLow = Q.needLow /\ R.cfgs = Q.cfgs
        /\ R.needUpdate = TRUE
    BY <2>1 DEF IsCtx, Fields
  <2> HIDE DEF R
  <2> QED BY <1>13, <2>2 DEF LibInv
<1>15. SameFlags(L, F) /\ SameImpls(L, F) /\ SameLibs(L, F)
  BY FaultLemma DEF Faults
<1> HIDE DEF F, R
<1>16. G(F)
  BY <1>15 DEF SameFlags, SameImpls, SameLibs, LibInv
<1> HIDE DEF M
<1>17. CASE M = F \/ M = C \/ M = Q
  BY <1>9, <1>13, <1>16, <1>17 DEF M
<1>18. CASE M = R
  BY <1>14, <1>18 DEF M
<1> QED BY <1>1, <1>17, <1>18

\* What is known of the list of a loader, besides Core.
Ranks(L) == LibInv(L) /\ SortedInv(L) /\ DenseInv(L) /\ MatchInv(L)

\* The full query leaves the list up to date, and an up-to-date list as it is.
LEMMA FullQueryOrderLemma ==
    ASSUME NEW L, Core(L), PhaseInv(L), Ranks(L), NEW bad, FullQuery(L, bad).L.fault = "none"
    PROVE  LET R == FullQuery(L, bad)
           IN  /\ Ranks(R.L) /\ R.L.cfgs = L.cfgs
               /\ R.ok => ~R.L.needUpdate
               /\ ~L.needUpdate => R.L = L
               /\ ~L.needFull => Stable(L, R.L)
<1> DEFINE Q == IF L.needFull THEN FullLoadAndQuery(L, bad) ELSE L
           U == UpdateValidImplList(Q)
           R == FullQuery(L, bad)
<1>1. /\ R.L.fault = "none"
      /\ \/ Q.needFull /\ R.L = Q /\ ~R.ok
         \/ ~Q.needFull /\ Q.needUpdate /\ R.L = U
         \/ ~Q.needFull /\ ~Q.needUpdate /\ R.L = Q
  BY DEF FullQuery, Filtered
<1>2. Core(Q)
  BY FullLoadLemma
<1>3. /\ LibInv(Q) /\ Q.cfgs = L.cfgs
      /\ ~L.needFull => Q = L
      /\ L.needFull => ~L.needUpdate \/ Q.needUpdate
      /\ L.needFull /\ ~Q.needFull => Q.needUpdate
  BY FullLoadOrderLemma DEF Ranks
<1>4. L.needFull => L.needUpdate
  BY DEF Ranks, DenseInv
<1> HIDE DEF Q, R
<1>5. CASE Q.needFull /\ R.L = Q /\ ~R.ok
  <2>1. Ranks(Q)
    BY <1>3, <1>4, <1>5 DEF Ranks, SortedInv, DenseInv, MatchInv
  <2>2. ~L.needUpdate => Q = L
    BY <1>3, <1>4
  <2>3. ~L.needFull => Stable(L, Q)
    BY <1>3 DEF Stable
  <2> QED BY <1>3, <1>5, <2>1, <2>2, <2>3 DEF R
<1>6. CASE ~Q.needFull /\ ~Q.needUpdate /\ R.L = Q
  <2>1. Q = L
    BY <1>3, <1>6
  <2> QED BY <1>6, <2>1 DEF R, Stable
<1>7. CASE ~Q.needFull /\ Q.needUpdate /\ R.L = U
  <2>1. Ranks(U) /\ U.needUpdate = FALSE
    BY <1>1, <1>2, <1>3, <1>7, UpdatedLemma DEF Ranks
  <2>2. U.cfgs = L.cfgs
    BY <1>2, <1>3, UpdateLemma
  <2>3. L.needUpdate
    BY <1>3, <1>4, <1>7
  <2>4. ASSUME ~L.needFull PROVE Stable(L, U)
    <3>1. Q = L
      BY <1>3, <2>4
    <3> QED BY <1>1, <1>7, <2>4, <3>1, UpdateStableLemma DEF Ranks
  <2> HIDE DEF U
  <2> QED BY <1>7, <2>1, <2>2, <2>3, <2>4 DEF R
<1> QED BY <1>1, <1>5, <1>6, <1>7

\* The order of the indices is the order of the list.
Ordered(L) ==
    \A x, y \in Valid(L.impls) :
        L.impls[x].idx < L.impls[y].idx => L.ipos[x] < L.ipos[y]

\* Appending entries without description leaves the numbering as it is.
LEMMA AppendsLemma ==
    ASSUME NEW L, NEW M, Core(L), Core(M), NEW new, Appends(L, M, new), L.low,
           M.needUpdate = L.needUpdate, M.needFull = L.needFull
    PROVE  /\ DenseInv(L) => DenseInv(M)
           /\ Ordered(L) => Ordered(M)
           /\ Stable(L, M)
           /\ \A i : Lookup(L, i) \subseteq Lookup(M, i)
<1> DEFINE old == DOMAIN L.impls
<1>1. /\ DOMAIN M.impls = old \cup new /\ old \cap new = {}
      /\ \A x \in old : M.impls[x] = L.impls[x] /\ M.ipos[x] = L.ipos[x]
      /\ \A x \in new : ~M.impls[x].known /\ M.impls[x].idx >= L.next
      /\ \A x \in new : \A y \in old : M.ipos[y] < M.ipos[x]
      /\ \A x, y \in new : M.impls[x].idx < M.impls[y].idx => M.ipos[x] < M.ipos[y]
  BY DEF Appends
<1>2. /\ \A x \in old : M.impls[x].idx \in Int /\ M.impls[x].idx < L.next
      /\ L.next \in Nat
  <2>1. \A x \in old : L.impls[x].idx \in Int
    BY DEF Core, CtxType, ImplsType, ImplRecords
  <2>2. \A x \in old : L.impls[x].idx < L.next
    BY DEF Core, IndexInv
  <2>3. L.next \in Nat
    BY DEF Core, CtxType
  <2> QED BY <1>1, <2>1, <2>2, <2>3
<1>3. /\ \A x \in old \cup new : M.ipos[x] \in Int
      /\ \A x \in new : M.impls[x].idx \in Int
  <2>1. /\ IsList(M.ipos) /\ DOMAIN M.ipos = DOMAIN M.impls
        /\ \A x \in DOMAIN M.impls : M.impls[x].idx \in Int
    BY DEF Core, CtxType, ImplsType, ImplRecords
  <2> QED BY <1>1, <2>1, PositionLemma
<1>4. Valid(L.impls) = {x \in old : M.impls[x].idx >= 0}
  BY <1>1 DEF Valid
<1>5. \A x \in old : x \in Valid(M.impls) <=> x \in Valid(L.impls)
  BY <1>1, <1>4 DEF Valid
<1>6. Valid(M.impls) \subseteq old \cup new /\ Valid(L.impls) \subseteq old
  BY <1>1 DEF Valid
<1> HIDE DEF old
<1>7. DenseInv(L) => DenseInv(M)
  <2>1. ASSUME NEW x \in Valid(M.impls), M.impls[x].known
        PROVE  x \in Valid(L.impls) /\ L.impls[x].known /\ M.impls[x].idx = L.impls[x].idx
               /\ CountBefore(M.ipos, Valid(M.impls), x) = CountBefore(L.ipos, Valid(L.impls), x)
    <3>1. x \in old
      BY <1>1, <1>6, <2>1
    <3>2. {y \in Valid(M.impls) : M.ipos[y] < M.ipos[x]} = {y \in Valid(L.impls) : L.ipos[y] < L.ipos[x]}
      <4>1. ASSUME NEW y \in Valid(M.impls), M.ipos[y] < M.ipos[x]
            PROVE  y \in Valid(L.impls) /\ L.ipos[y] < L.ipos[x]
        <5>1. y \in old
          BY <1>1, <1>3, <1>6, <3>1, <4>1
        <5> QED BY <1>1, <1>5, <3>1, <4>1, <5>1
      <4>2. ASSUME NEW y \in Valid(L.impls), L.ipos[y] < L.ipos[x]
            PROVE  y \in Valid(M.impls) /\ M.ipos[y] < M.ipos[x]
        BY <1>1, <1>5, <1>6, <3>1, <4>2
      <4> QED BY <4>1, <4>2
    <3> QED BY <1>1, <1>5, <2>1, <3>1, <3>2 DEF CountBefore
  <2> QED BY <2>1 DEF DenseInv
<1>8. Ordered(L) => Ordered(M)
  <2> SUFFICES ASSUME Ordered(L), NEW x \in Valid(M.impls), NEW y \in Valid(M.impls),
                      M.impls[x].idx < M.impls[y].idx
               PROVE  M.ipos[x] < M.ipos[y]
    BY DEF Ordered
  <2>1. CASE x \in old /\ y \in old
    BY <1>1, <1>5, <2>1 DEF Ordered
  <2>2. CASE x \in old /\ y \in new
    BY <1>1, <2>2
  <2>3. CASE x \in new /\ y \in old
    BY <1>1, <1>2, <1>3, <2>3
  <2>4. CASE x \in new /\ y \in new
    BY <1>1, <2>4
  <2> QED BY <1>6, <2>1, <2>2, <2>3, <2>4
<1>9. Stable(L, M)
  BY <1>1, <1>6 DEF Stable
<1>10. ASSUME NEW i, NEW x \in Lookup(L, i) PROVE x \in Lookup(M, i)
  <2>1. /\ x \in old /\ L.impls[x].idx = Signed(i)
        /\ \A y \in old : L.impls[y].idx = Signed(i) => L.ipos[x] <= L.ipos[y]
    BY DEF Lookup, old
  <2>2. ASSUME NEW y \in DOMAIN M.impls, M.impls[y].idx = Signed(i)
        PROVE  M.ipos[x] <= M.ipos[y]
    BY <1>1, <1>3, <2>1, <2>2
  <2> QED BY <1>1, <2>1, <2>2 DEF Lookup
<1> QED BY <1>7, <1>8, <1>9, <1>10

\* The low-latency query appends to the list what it finds.
LEMMA LowQueryOrderLemma ==
    ASSUME Core(ld), PhaseInv(ld), Ranks(ld), ld.low, NEW bad, NEW late,
           LowQuery(bad, late).L.fault = "none"
    PROVE  LET R == LowQuery(bad, late)
           IN  /\ Ranks(R.L) /\ R.L.low /\ R.L.needUpdate = ld.needUpdate
               /\ R.L.cfgs = ld.cfgs \/ R.L.cfgs = RenamedImpl(ld.cfgs)
               /\ Stable(ld, R.L)
               /\ \A i : Lookup(ld, i) \subseteq Lookup(R.L, i)
<1> DEFINE V == LoadLibsLowLatency(ld, bad, late)
           Q == QueryLibraryCaps(V)
           R == LowQuery(bad, late)
           G(N) == /\ Ranks(N) /\ N.low /\ N.needUpdate = ld.needUpdate
                   /\ N.cfgs = ld.cfgs \/ N.cfgs = RenamedImpl(ld.cfgs)
                   /\ Stable(ld, N)
                   /\ \A i : Lookup(ld, i) \subseteq Lookup(N, i)
<1>1. \/ R.L = ld
      \/ ld.needLow /\ V.needLow /\ R.L = V
      \/ ld.needLow /\ ~V.needLow /\ R.L = Q
  BY DEF LowQuery, LowQueryLoaded
<1>2. /\ Core(V) /\ SameImpls(ld, V) /\ V.low = ld.low /\ V.needFull = ld.needFull
      /\ V.needUpdate = ld.needUpdate /\ SearchKept(ld, V)
      /\ V.needLow => V.cfgs = ld.cfgs /\ (LowFreed(ld) => LowFreed(V))
      /\ V.cfgs = ld.cfgs \/ (LowMSDK # {} /\ V.cfgs = RenamedImpl(ld.cfgs))
  <2>1. /\ Core(V) /\ SameImpls(ld, V) /\ V.low = ld.low /\ V.needFull = ld.needFull
        /\ V.needUpdate = ld.needUpdate /\ SearchKept(ld, V)
    BY LoadLowLemma, ZenonT(30)
  <2>2. /\ V.needLow => V.cfgs = ld.cfgs /\ (LowFreed(ld) => LowFreed(V))
        /\ V.cfgs = ld.cfgs \/ (LowMSDK # {} /\ V.cfgs = RenamedImpl(ld.cfgs))
    BY LoadLowLemma
  <2> HIDE DEF V
  <2> QED BY <2>1, <2>2
<1> HIDE DEF V
<1>3. ld.needLow => LowFreed(ld) /\ \A x \in DOMAIN ld.impls : x.lib.origin = "search"
  BY DEF Ranks, LibInv, LowFreed
<1>4. \A i \in DOMAIN V.libs : i.origin = "search" => i \in DOMAIN ld.libs /\ V.libs[i] = ld.libs[i]
  BY <1>2 DEF SearchKept
<1>5. G(ld)
  BY DEF Stable
<1>6. ASSUME ld.needLow, V.needLow PROVE G(V)
  <2>1. LibInv(V)
    BY <1>2, <1>3, <1>4, <1>6 DEF Ranks, LibInv, LowFreed, SameImpls
  <2>2. SortedInv(V)
    <3>1. ~HasFreedImpl(ld) => ~HasFreedImpl(V)
      BY <1>2 DEF HasFreedImpl, SearchKept, SameImpls
    <3>2. ASSUME ~ld.needFull, NEW x \in DOMAIN ld.impls, NEW y \in DOMAIN ld.impls
          PROVE  Worse(V, x, y) <=> Worse(ld, x, y)
      <4>1. V.libs[x.lib] = ld.libs[x.lib] /\ V.libs[y.lib] = ld.libs[y.lib]
        BY <1>2, <1>3, <1>6, <3>2 DEF Ranks, SortedInv, HasFreedImpl, SearchKept
      <4> QED BY <4>1 DEF Worse
    <3> QED BY <1>2, <3>1, <3>2 DEF Ranks, SortedInv, SameImpls
  <2>3. DenseInv(V)
    BY <1>2 DEF Ranks, DenseInv, SameImpls
  <2>4. MatchInv(V)
    BY <1>2, <1>6 DEF Ranks, MatchInv, SameImpls
  <2>5. Stable(ld, V) /\ \A i : Lookup(ld, i) \subseteq Lookup(V, i)
    BY <1>2 DEF Stable, Lookup, SameImpls
  <2> QED BY <1>2, <2>1, <2>2, <2>3, <2>4, <2>5 DEF Ranks
<1>7. ASSUME ld.needLow, ~V.needLow, Q.fault = "none" PROVE G(Q)
  <2>1. \A x \in DOMAIN V.impls : x.low # V.low
    <3>1. \A x \in DOMAIN V.impls : ~x.low
      BY <1>2, <1>7 DEF PhaseInv, SameImpls
    <3> QED BY <1>2, <3>1
  <2>2. /\ Core(Q) /\ SameFlags(V, Q)
        /\ \A x \in DOMAIN Q.impls \ DOMAIN V.impls : x.lib \in DOMAIN Q.libs /\ x.low = V.low
        /\ \A i \in DOMAIN Q.libs : i \in DOMAIN V.libs /\ Q.libs[i] = V.libs[i]
        /\ DOMAIN Q.libs = DOMAIN V.libs \ DroppedByQuery(V)
        /\ \E new : Appends(V, Q, new)
    BY <1>2, <1>7, <2>1, QueryLemma
  <2> HIDE DEF Q
  <2>3. PICK new : Appends(V, Q, new)
    BY <2>2
  <2>4. /\ DOMAIN Q.impls = DOMAIN ld.impls \cup new
        /\ \A x \in DOMAIN ld.impls : Q.impls[x] = ld.impls[x] /\ Q.ipos[x] = ld.ipos[x]
        /\ \A x \in new : ~Q.impls[x].known
        /\ V.low /\ Q.low /\ ~Q.needLow /\ Q.cfgs = V.cfgs
        /\ Q.needFull = ld.needFull /\ Q.needUpdate = ld.needUpdate
    BY <1>2, <1>7, <2>2, <2>3 DEF Appends, SameImpls, SameFlags
  <2>5. /\ DenseInv(V) => DenseInv(Q)
        /\ Ordered(V) => Ordered(Q)
        /\ Stable(V, Q)
        /\ \A i : Lookup(V, i) \subseteq Lookup(Q, i)
    BY <1>2, <2>2, <2>3, <2>4, AppendsLemma
  <2>6. ASSUME NEW x \in DOMAIN ld.impls, x.lib \in DOMAIN ld.libs
        PROVE  x.lib \in DOMAIN Q.libs /\ Q.libs[x.lib] = ld.libs[x.lib]
    <3> DEFINE i == x.lib
    <3>1. i.origin = "search" /\ i \in DOMAIN V.libs /\ V.libs[i] = ld.libs[i]
      BY <1>2, <1>3, <1>7, <2>6 DEF SearchKept
    <3>2. V.libs[i].type = "MSDK" => Runtime[i.name].session
      BY <2>6, <3>1 DEF Ranks, LibInv
    <3>3. V.libs[i].type = "MSDK" => NewImpls(V, i) # {}
      <4>1. V.libs[i].type = "MSDK" => NewImpls(V, i) =
              {[lib |-> i, num |-> n, low |-> V.low] : n \in {m \in {0} : Runtime[i.name].session}}
        BY <2>4 DEF NewImpls
      <4> QED BY <3>2, <4>1
    <3>4. i \notin DroppedByQuery(V)
      BY <2>4, <3>3 DEF DroppedByQuery
    <3> QED BY <2>2, <3>1, <3>4
  <2>7. LibInv(Q)
    <3>1. \A x \in DOMAIN Q.impls : ~x.low => x \in DOMAIN ld.impls
      BY <1>2, <2>2, <2>4 DEF SameImpls
    <3>2. \A x \in DOMAIN Q.impls : ~x.low => Q.impls[x].known
      BY <2>4, <3>1 DEF Ranks, LibInv
    <3> QED BY <1>4, <2>2, <2>4, <3>2 DEF Ranks, LibInv
  <2>8. SortedInv(Q)
    <3> SUFFICES ASSUME ~ld.needFull
                 PROVE  /\ ~HasFreedImpl(Q) /\ Ordered(Q)
                        /\ \A x, y \in DOMAIN Q.impls :
                             Q.impls[x].known /\ Q.impls[y].known /\ Worse(Q, x, y)
                               => Q.ipos[y] < Q.ipos[x]
      BY <2>4 DEF SortedInv, Ordered
    <3>1. \A x \in DOMAIN ld.impls : x.lib \in DOMAIN ld.libs
      BY DEF Ranks, SortedInv, HasFreedImpl
    <3>2. ~HasFreedImpl(Q)
      BY <1>2, <2>2, <2>6, <3>1 DEF HasFreedImpl, SameImpls
    <3>3. Ordered(Q)
      BY <1>2, <2>5 DEF Ordered, Ranks, SortedInv, SameImpls
    <3>4. ASSUME NEW x \in DOMAIN Q.impls, NEW y \in DOMAIN Q.impls,
                 Q.impls[x].known, Q.impls[y].known, Worse(Q, x, y)
          PROVE  Q.ipos[y] < Q.ipos[x]
      <4>1. x \in DOMAIN ld.impls /\ y \in DOMAIN ld.impls
        BY <2>4, <3>4
      <4>2. Worse(ld, x, y)
        BY <2>6, <3>1, <3>4, <4>1 DEF Worse
      <4> QED BY <2>4, <3>4, <4>1, <4>2 DEF Ranks, SortedInv
    <3> QED BY <3>2, <3>3, <3>4
  <2>9. DenseInv(Q)
    BY <1>2, <2>5 DEF Ranks, DenseInv, SameImpls
  <2>10. MatchInv(Q)
    <3> SUFFICES ASSUME ~ld.needUpdate, NEW x \in Valid(Q.impls), LowMSDK = {}, Q.impls[x].known
                 PROVE  ValidateConfig(Q.cfgs, Desc(x))
      BY <2>4 DEF MatchInv
    <3>1. x \in Valid(ld.impls) /\ ld.impls[x].known
      BY <2>4 DEF Valid
    <3> QED BY <1>2, <1>7, <2>4, <3>1 DEF Ranks, MatchInv
  <2>11. Stable(ld, Q) /\ \A i : Lookup(ld, i) \subseteq Lookup(Q, i)
    BY <1>2, <2>5 DEF Stable, Lookup, SameImpls
  <2> QED BY <1>2, <2>4, <2>7, <2>8, <2>9, <2>10, <2>11 DEF Ranks
<1>8. R.L.fault = "none"
  OBVIOUS
<1> HIDE DEF Q, R, G
<1>9. G(R.L)
  BY <1>1, <1>5, <1>6, <1>7, <1>8
<1> QED BY <1>9 DEF G, R

-----------------------------------------------------------------------------
(***************************************************************************)
(* Config objects                                                          *)
(***************************************************************************)

\* A config object maps every property to Unset or to a value it was given.
PropValues == {Unset, "mfxhw64"} \cup UNION {Values[p] : p \in DOMAIN Values}
Configs == [Props -> PropValues]

\* A property that is set, left alone or unset.
LEMMA SetPropertyLemma ==
    ASSUME NEW cfg \in Configs, NEW p, NEW v \in PropValues
    PROVE  /\ SetFilterProperty(cfg, p, v) \in Configs
           /\ SetPropStatus(p, v) # "NONE" =>
                \/ SetFilterProperty(cfg, p, v) = cfg
                \/ /\ p \in Props /\ v = NullPtr
                   /\ SetFilterProperty(cfg, p, v) = [cfg EXCEPT ![p] = Unset]
<1>1. \/ SetFilterProperty(cfg, p, v) = cfg
      \/ /\ p \in Props /\ v = NullPtr
         /\ SetFilterProperty(cfg, p, v) = [cfg EXCEPT ![p] = Unset]
      \/ /\ p \in Props /\ v # NullPtr /\ v # WrongType
         /\ SetFilterProperty(cfg, p, v) = [cfg EXCEPT ![p] = v]
  BY DEF SetFilterProperty
<1>2. p \in Props /\ v # NullPtr /\ v # WrongType => SetPropStatus(p, v) = "NONE"
  BY DEF SetPropStatus
<1>3. Unset \in PropValues
  BY DEF PropValues
<1>4. \A w \in PropValues : [cfg EXCEPT ![p] = w] \in Configs
  BY DEF Configs
<1> QED BY <1>1, <1>2, <1>3, <1>4

\* A config object without the property p matches what it matched with p.
LEMMA UnsetLemma ==
    ASSUME NEW cfg \in Configs, NEW p \in Props, NEW desc, CheckPropsGeneral(cfg, desc)
    PROVE  CheckPropsGeneral([cfg EXCEPT ![p] = Unset], desc)
<1> DEFINE new == [cfg EXCEPT ![p] = Unset]
<1>1. \A q \in Props : new[q] = cfg[q] \/ new[q] = Unset
  BY DEF Configs
<1>2. {"Impl", "VendorID", "AccelerationMode", "ImplName", "Keywords"} \subseteq Props
  BY DEF Props, FilterProps, PtrProps
<1> HIDE DEF new
<1>3. CheckPropsGeneral(new, desc)
  BY <1>1, <1>2 DEF CheckPropsGeneral
<1> QED BY <1>3 DEF new

\* A nonempty set of positions has a last one.
LEMMA LastPositionLemma ==
    ASSUME NEW n \in Nat, NEW S, S \subseteq 1 .. n, S # {}
    PROVE  \E c \in S : \A b \in S : b <= c
<1> DEFINE R == {r \in Nat \X Nat : r[1] < r[2]}
           T == {n - c : c \in S}
<1>1. IsWellFoundedOn(R, Nat)
  <2>1. R = OpToRel(<, Nat)
    BY Zenon DEF OpToRel
  <2> QED BY <2>1, NatLessThanWellFounded
<1>2. T \subseteq Nat /\ T # {}
  <2>1. \A c \in S : n - c \in Nat
    OBVIOUS
  <2>2. PICK c \in S : TRUE
    OBVIOUS
  <2>3. n - c \in T
    OBVIOUS
  <2> QED BY <2>1, <2>3
<1>3. PICK t \in T : \A u \in T : ~(<<u, t>> \in R)
  <2> HIDE DEF R, T
  <2> QED BY <1>1, <1>2, WFMin
<1>4. PICK c \in S : t = n - c
  <2>1. t \in {n - c : c \in S}
    BY <1>3
  <2> QED BY <2>1
<1>5. ASSUME NEW b \in S PROVE b <= c
  <2>1. n - b \in T
    OBVIOUS
  <2>3. n - b \in Nat /\ t \in Nat
    BY <1>2, <2>1
  <2>2. ~(n - b < t)
    BY <1>3, <2>1, <2>3
  <2> QED BY <1>4, <2>2
<1> QED BY <1>5

\* The config objects that set a property decide alone.
LEMMA LastSetLemma ==
    ASSUME NEW a, NEW b, NEW p, Len(a) \in Nat,
           \A c : c \in 1 .. Len(a) /\ a[c][p] # Unset <=> c \in 1 .. Len(b) /\ b[c][p] # Unset,
           \A c \in 1 .. Len(a) : a[c][p] # Unset => b[c][p] = a[c][p]
    PROVE  LastSet(b, p) = LastSet(a, p)
<1> DEFINE A == {c \in 1 .. Len(a) : a[c][p] # Unset}
           B == {c \in 1 .. Len(b) : b[c][p] # Unset}
<1>1. A = B
  OBVIOUS
<1>2. \A c \in A : b[c][p] = a[c][p]
  OBVIOUS
<1>3. /\ LastSet(a, p) = IF A = {} THEN Unset ELSE a[CHOOSE c \in A : \A d \in A : d <= c][p]
      /\ LastSet(b, p) = IF B = {} THEN Unset ELSE b[CHOOSE c \in B : \A d \in B : d <= c][p]
  BY DEF LastSet
<1>4. A \subseteq 1 .. Len(a)
  OBVIOUS
<1> HIDE DEF A, B
<1>5. A # {} => \E c \in A : \A d \in A : d <= c
  BY <1>4, LastPositionLemma
<1>6. A # {} => (CHOOSE c \in A : \A d \in A : d <= c) \in A
  BY <1>5
<1> QED BY <1>1, <1>2, <1>3, <1>6

\* A new config object does not filter.
LEMMA AppendConfigLemma ==
    ASSUME NEW cfgs \in Seq(Configs)
    PROVE  /\ Append(cfgs, EmptyConfig) \in Seq(Configs)
           /\ \A desc : ValidateConfig(cfgs, desc) => ValidateConfig(Append(cfgs, EmptyConfig), desc)
<1> DEFINE new == Append(cfgs, EmptyConfig)
<1>1. EmptyConfig \in Configs
  BY DEF EmptyConfig, Configs, PropValues
<1>2. /\ new \in Seq(Configs) /\ Len(cfgs) \in Nat /\ Len(new) = Len(cfgs) + 1
      /\ \A c \in 1 .. Len(cfgs) : new[c] = cfgs[c]
      /\ new[Len(cfgs) + 1] = EmptyConfig
  BY <1>1
<1> HIDE DEF new
<1>3. \A q \in Props : EmptyConfig[q] = Unset
  BY DEF EmptyConfig
<1>4. {"Impl", "VendorID", "AccelerationMode", "ImplName", "Keywords", "ApiVersion"} \subseteq Props
  BY DEF Props, FilterProps, PtrProps
<1>5. ASSUME NEW c \in 1 .. Len(new) PROVE c \in 1 .. Len(cfgs) \/ new[c] = EmptyConfig
  BY <1>2
<1>6. LastSet(new, "ApiVersion") = LastSet(cfgs, "ApiVersion")
  <2>1. \A c : c \in 1 .. Len(cfgs) /\ cfgs[c]["ApiVersion"] # Unset
                 <=> c \in 1 .. Len(new) /\ new[c]["ApiVersion"] # Unset
    <3>1. ASSUME NEW c \in 1 .. Len(cfgs) PROVE c \in 1 .. Len(new) /\ new[c] = cfgs[c]
      BY <1>2
    <3>2. ASSUME NEW c \in 1 .. Len(new), new[c]["ApiVersion"] # Unset PROVE c \in 1 .. Len(cfgs)
      BY <1>3, <1>4, <1>5, <3>2
    <3> QED BY <3>1, <3>2
  <2>2. \A c \in 1 .. Len(cfgs) : cfgs[c]["ApiVersion"] # Unset =>
                                    new[c]["ApiVersion"] = cfgs[c]["ApiVersion"]
    BY <1>2
  <2> QED BY <2>1, <2>2, LastSetLemma
<1>7. ASSUME NEW desc, ValidateConfig(cfgs, desc)
      PROVE  ValidateConfig(new, desc)
  <2>1. CheckPropsGeneral(EmptyConfig, desc)
    BY <1>3, <1>4 DEF CheckPropsGeneral
  <2>2. \A c \in 1 .. Len(new) : CheckPropsGeneral(new[c], desc)
    BY <1>2, <1>5, <1>7, <2>1 DEF ValidateConfig
  <2> QED BY <1>6, <1>7, <2>2 DEF ValidateConfig
<1> QED BY <1>2, <1>7 DEF new

\* A property set with an error return: it filters no more than before.
LEMMA SetConfigLemma ==
    ASSUME NEW cfgs \in Seq(Configs), NEW c \in DOMAIN cfgs,
           NEW p \in DOMAIN Values, NEW v \in Values[p]
    PROVE  LET new == [cfgs EXCEPT ![c] = SetFilterProperty(@, p, v)]
           IN  /\ new \in Seq(Configs)
               /\ SetPropStatus(p, v) # "NONE" =>
                    \A desc : ValidateConfig(cfgs, desc) => ValidateConfig(new, desc)
<1> DEFINE f == SetFilterProperty(cfgs[c], p, v)
           new == [cfgs EXCEPT ![c] = f]
<1>1. v \in PropValues /\ cfgs[c] \in Configs
  BY DEF PropValues
<1>2. /\ f \in Configs
      /\ SetPropStatus(p, v) # "NONE" =>
           \/ f = cfgs[c]
           \/ p \in Props /\ v = NullPtr /\ f = [cfgs[c] EXCEPT ![p] = Unset]
  BY <1>1, SetPropertyLemma
<1> HIDE DEF f
<1>3. /\ new \in Seq(Configs) /\ Len(new) = Len(cfgs) /\ Len(cfgs) \in Nat
      /\ DOMAIN cfgs = 1 .. Len(cfgs)
      /\ \A b \in 1 .. Len(cfgs) : new[b] = IF b = c THEN f ELSE cfgs[b]
  BY <1>2
<1> HIDE DEF new
<1>4. ASSUME SetPropStatus(p, v) # "NONE", NEW desc, ValidateConfig(cfgs, desc)
      PROVE  ValidateConfig(new, desc)
  <2>1. CASE f = cfgs[c]
    <3>1. \A b \in 1 .. Len(cfgs) : new[b] = cfgs[b]
      BY <1>3, <2>1
    <3>2. LastSet(new, "ApiVersion") = LastSet(cfgs, "ApiVersion")
      BY <1>3, <3>1, LastSetLemma
    <3> QED BY <1>3, <1>4, <3>1, <3>2 DEF ValidateConfig
  <2>2. CASE p \in Props /\ v = NullPtr /\ f = [cfgs[c] EXCEPT ![p] = Unset]
    <3>1. p \in PtrProps
      BY <2>2, ValuesAssumption
    <3>2. p # "ApiVersion"
      BY <3>1 DEF PtrProps
    <3>3. f["ApiVersion"] = cfgs[c]["ApiVersion"]
      BY <1>1, <2>2, <3>2 DEF Configs
    <3>4. \A b \in 1 .. Len(cfgs) : new[b]["ApiVersion"] = cfgs[b]["ApiVersion"]
      BY <1>3, <3>3
    <3>5. LastSet(new, "ApiVersion") = LastSet(cfgs, "ApiVersion")
      BY <1>3, <3>4, LastSetLemma
    <3>6. CheckPropsGeneral(cfgs[c], desc)
      BY <1>3, <1>4 DEF ValidateConfig
    <3>7. CheckPropsGeneral(f, desc)
      BY <1>1, <2>2, <3>6, UnsetLemma
    <3>8. \A b \in 1 .. Len(cfgs) : CheckPropsGeneral(new[b], desc)
      BY <1>3, <1>4, <3>7 DEF ValidateConfig
    <3> QED BY <1>3, <1>4, <3>5, <3>8 DEF ValidateConfig
  <2> QED BY <1>2, <1>4, <2>1, <2>2
<1>5. new \in Seq(Configs)
  BY <1>3
<1> QED BY <1>4, <1>5 DEF new, f

LEMMA RenamedImplLemma ==
    ASSUME NEW cfgs \in Seq(Configs) PROVE RenamedImpl(cfgs) \in Seq(Configs)
<1> DEFINE f(c) == SetFilterProperty(cfgs[c], "ImplName", "mfxhw64")
<1>1. Len(cfgs) \in Nat /\ DOMAIN cfgs = 1 .. Len(cfgs)
  OBVIOUS
<1>2. \A c \in 1 .. Len(cfgs) : f(c) \in Configs
  <2>1. "mfxhw64" \in PropValues
    BY DEF PropValues
  <2> QED BY <2>1, SetPropertyLemma
<1>3. RenamedImpl(cfgs) = [c \in 1 .. Len(cfgs) |-> f(c)]
  BY <1>1 DEF RenamedImpl
<1> HIDE DEF f
<1> QED BY <1>1, <1>2, <1>3

-----------------------------------------------------------------------------
(***************************************************************************)
(* The API calls                                                           *)
(***************************************************************************)

\* The index of a description still finds it, as FreshInv says.
FreshIn(h, L) == \A e \in h : e.fresh => ~L.needUpdate /\ e.impl \in Lookup(L, e.idx)

\* Two contexts with the same flags and lists have the same ranks.
LEMMA SameRanksLemma ==
    ASSUME NEW L, NEW M, SameFlags(L, M), SameImpls(L, M), SameLibs(L, M)
    PROVE  /\ Ranks(L) => Ranks(M)
           /\ Stable(L, M)
           /\ \A h : FreshIn(h, L) => FreshIn(h, M)
<1>1. /\ M.libs = L.libs /\ M.impls = L.impls /\ M.ipos = L.ipos /\ M.cfgs = L.cfgs
      /\ M.low = L.low /\ M.needUpdate = L.needUpdate
      /\ M.needFull = L.needFull /\ M.needLow = L.needLow
  BY DEF SameFlags, SameImpls, SameLibs
<1>2. \A x, y : Worse(M, x, y) <=> Worse(L, x, y)
  BY <1>1 DEF Worse
<1>3. HasFreedImpl(M) <=> HasFreedImpl(L)
  BY <1>1 DEF HasFreedImpl
<1>4. LibInv(L) => LibInv(M)
  BY <1>1 DEF LibInv
<1>5. SortedInv(L) => SortedInv(M)
  BY <1>1, <1>2, <1>3 DEF SortedInv
<1>6. DenseInv(L) => DenseInv(M)
  BY <1>1 DEF DenseInv
<1>7. MatchInv(L) => MatchInv(M)
  BY <1>1 DEF MatchInv
<1>8. Stable(L, M)
  BY <1>1 DEF Stable
<1>9. \A i : Lookup(M, i) = Lookup(L, i)
  BY <1>1 DEF Lookup
<1> QED BY <1>1, <1>4, <1>5, <1>6, <1>7, <1>8, <1>9 DEF Ranks, FreshIn

\* A loader that has listed nothing.
LEMMA NothingListedLemma ==
    ASSUME NEW L, DOMAIN L.libs = {}, DOMAIN L.impls = {}, L.needFull, L.needUpdate
    PROVE  Ranks(L)
  BY DEF Ranks, LibInv, SortedInv, DenseInv, MatchInv

LEMMA UnloadAllOrderLemma ==
    ASSUME NEW L, Core(L), L.needFull, Ranks(L)
    PROVE  LET U == UnloadAllLibraries(L) IN Ranks(U) /\ SameFlags(L, U)
<1>1. CASE HasFreedLib(L)
  <2>1. SameFlags(L, Fault(L, "freed")) /\ SameImpls(L, Fault(L, "freed")) /\ SameLibs(L, Fault(L, "freed"))
    BY FaultLemma DEF Faults
  <2> QED BY <1>1, <2>1, SameRanksLemma DEF UnloadAllLibraries
<1>2. CASE ~HasFreedLib(L)
  <2> DEFINE V == UnloadLibs(L, DOMAIN L.libs)
             U == [V EXCEPT !.impls = EmptyList, !.ipos = EmptyList, !.next = 0]
  <2>1. UnloadAllLibraries(L) = U
    BY <1>2 DEF UnloadAllLibraries
  <2>2. Core(V) /\ SameFlags(L, V) /\ DOMAIN V.libs = DOMAIN L.libs \ DOMAIN L.libs
    BY UnloadLibsLemma
  <2> HIDE DEF V
  <2>3. U.impls = EmptyList /\ U.libs = V.libs /\ SameFlags(V, U)
    BY <2>2 DEF Core, IsCtx, Fields, SameFlags
  <2>4. DOMAIN U.libs = {} /\ DOMAIN U.impls = {}
    BY <2>2, <2>3 DEF EmptyList
  <2>5. SameFlags(L, U)
    BY <2>2, <2>3 DEF SameFlags
  <2> HIDE DEF U
  <2>6. U.needFull /\ U.needUpdate
    <3>1. L.needUpdate
      BY DEF Ranks, DenseInv
    <3> QED BY <2>5, <3>1 DEF SameFlags
  <2> QED BY <2>1, <2>4, <2>5, <2>6, NothingListedLemma
<1> QED BY <1>1, <1>2

LEMMA NewLoaderOrderLemma ==
    ASSUME NEW dl, NEW live
    PROVE  LET M == NewLoader(dl, live)
           IN  /\ Ranks(M) /\ M.cfgs \in Seq(Configs) /\ Valid(M.impls) = {}
               /\ M.live = live
<1> DEFINE M == NewLoader(dl, live)
<1>1. /\ M.live = live /\ M.needUpdate = TRUE /\ M.needFull = TRUE
      /\ M.libs = EmptyList /\ M.impls = EmptyList /\ M.cfgs = << >>
  BY DEF NewLoader
<1> HIDE DEF M
<1>2. DOMAIN M.libs = {} /\ DOMAIN M.impls = {}
  BY <1>1 DEF EmptyList
<1>3. Ranks(M)
  BY <1>1, <1>2, NothingListedLemma
<1>4. M.cfgs \in Seq(Configs)
  BY <1>1
<1> QED BY <1>1, <1>2, <1>3, <1>4 DEF Valid, M

\* What a call leaves behind, as far as the loader is concerned.
Leaves(a, b) ==
    /\ Ranks(b) /\ b.cfgs \in Seq(Configs)
    /\ b.live /\ ~a.needFull => Stable(a, b)

LEMMA CommitOrderLemma ==
    ASSUME NEW a, NEW b, NEW c, IsCtx(a), Ranks(a), a.cfgs \in Seq(Configs), Commits(a, b, c),
           c.fault = "none" => Leaves(a, c)
    PROVE  /\ Leaves(a, b)
           /\ c.fault = "none" => b = c
           /\ c.fault # "none" => b.fault # "none" /\ \A h : FreshIn(h, a) => FreshIn(h, b)
<1>1. CASE c.fault = "none"
  BY <1>1 DEF Commits
<1>2. CASE c.fault # "none"
  <2>1. b = [a EXCEPT !.fault = c.fault]
    BY <1>2 DEF Commits
  <2>2. SameFlags(a, b) /\ SameImpls(a, b) /\ SameLibs(a, b) /\ b.fault = c.fault
    BY <2>1 DEF IsCtx, Fields, SameFlags, SameImpls, SameLibs
  <2>3. Ranks(b) /\ Stable(a, b) /\ \A h : FreshIn(h, a) => FreshIn(h, b)
    BY <2>2, SameRanksLemma
  <2>4. b.cfgs \in Seq(Configs)
    BY <2>2 DEF SameFlags
  <2> QED BY <1>2, <2>2, <2>3, <2>4 DEF Leaves
<1> QED BY <1>1, <1>2

\* The first entry with an index is one entry.
LEMMA LookupLemma ==
    ASSUME NEW L, Core(L), NEW i, NEW x \in Lookup(L, i), NEW y \in Lookup(L, i)
    PROVE  x = y
<1>1. IsList(L.ipos) /\ DOMAIN L.ipos = DOMAIN L.impls
  BY DEF Core, CtxType, ImplsType
<1>2. /\ x \in DOMAIN L.impls /\ y \in DOMAIN L.impls
      /\ L.ipos[x] <= L.ipos[y] /\ L.ipos[y] <= L.ipos[x]
  BY DEF Lookup
<1>3. L.ipos[x] \in Int /\ L.ipos[y] \in Int
  BY <1>1, <1>2, PositionLemma
<1>4. L.ipos[x] = L.ipos[y]
  BY <1>2, <1>3
<1> QED BY <1>1, <1>2, <1>4, PositionLemma

-----------------------------------------------------------------------------
(***************************************************************************)
(* The inductive invariant                                                 *)
(***************************************************************************)

\* The list, the descriptions the application holds, and the config objects.
ListInv == Ranks(ld) /\ FreshIn(held, ld) /\ ld.cfgs \in Seq(Configs)

\* What the last call promises if it was MFXCreateSession.
SessionInv == SessionIsEnumerated /\ (~ld.low => SessionMatchesFilters)

\* What a call preserves, and what it does to the order of the list.
Step == Leaves(ld, ld') /\ FreshIn(held', ld')

LEMMA EnumStepLemma ==
    ASSUME Inv, ListInv, NEW i \in Indices, MFXEnumImplementations(i)
    PROVE  Step
<1> DEFINE HeldPart(q, found) ==
             IF q.L.fault # "none" \/ found = {} THEN held' = held
             ELSE \E x \in found :
                    \/ held' = held
                    \/ q.L.impls[x].known /\ held' = {[idx |-> i, impl |-> x, fresh |-> TRUE]}
<1>1. PICK bad : LET q == EnumQuery(bad)
                 IN  /\ Commits(ld, ld', q.L)
                     /\ HeldPart(q, IF q.ok THEN Lookup(q.L, i) ELSE {})
  BY DEF MFXEnumImplementations, Commit, Commits
<1> DEFINE U == UnloadAllLibraries(ld)
           K == IF ld.needFull /\ ld.low /\ ~ld.needLow THEN U ELSE ld
           q == FullQuery(K, bad)
           found == IF q.ok THEN Lookup(q.L, i) ELSE {}
<1>2. Commits(ld, ld', q.L) /\ HeldPart(q, found)
  BY <1>1 DEF EnumQuery
<1>3. Core(ld) /\ PhaseInv(ld) /\ IsCtx(ld) /\ Ranks(ld) /\ ld.cfgs \in Seq(Configs)
  BY DEF Inv, Core, ListInv
<1>4. ld.needFull => Core(U) /\ Ranks(U) /\ PhaseInv(U) /\ U.cfgs = ld.cfgs /\ U.needFull
  <2>1. Core(U) /\ SameFlags(ld, U) /\ (U.impls = ld.impls \/ DOMAIN U.impls = {})
    BY <1>3, UnloadAllLemma
  <2>2. ld.needFull => Ranks(U)
    BY <1>3, UnloadAllOrderLemma
  <2> HIDE DEF U
  <2> QED BY <1>3, <2>1, <2>2 DEF SameFlags, PhaseInv
<1>5. /\ Core(K) /\ PhaseInv(K) /\ Ranks(K) /\ K.cfgs = ld.cfgs
      /\ ~ld.needFull => K = ld
  BY <1>3, <1>4
<1>6. ~ld.needUpdate => ~ld.needFull
  BY <1>3 DEF Ranks, DenseInv
<1> HIDE DEF K, U
<1>7. Core(q.L)
  BY <1>5, FullQueryLemma
<1>8. ASSUME q.L.fault = "none"
      PROVE  /\ Ranks(q.L) /\ q.L.cfgs = K.cfgs
             /\ q.ok => ~q.L.needUpdate
             /\ ~K.needUpdate => q.L = K
             /\ ~K.needFull => Stable(K, q.L)
  BY <1>5, <1>8, FullQueryOrderLemma
<1>9. found \subseteq Lookup(q.L, i) /\ (found # {} => q.ok)
  OBVIOUS
<1> HIDE DEF q, found
<1>10. q.L.fault = "none" => Leaves(ld, q.L)
  BY <1>3, <1>5, <1>8 DEF Leaves
<1>11. /\ Leaves(ld, ld')
       /\ q.L.fault = "none" => ld' = q.L
       /\ q.L.fault # "none" => ld'.fault # "none" /\ \A h : FreshIn(h, ld) => FreshIn(h, ld')
  BY <1>2, <1>3, <1>10, CommitOrderLemma
<1>12. FreshIn(held, ld')
  <2>1. CASE q.L.fault # "none"
    BY <1>11, <2>1 DEF ListInv
  <2>2. CASE q.L.fault = "none"
    BY <1>5, <1>6, <1>8, <1>11, <2>2 DEF ListInv, FreshIn
  <2> QED BY <2>1, <2>2
<1>13. FreshIn(held', ld')
  <2>1. CASE held' = held
    BY <1>12, <2>1
  <2>2. CASE held' # held
    <3>1. q.L.fault = "none" /\ found # {}
      BY <1>2, <2>2
    <3>2. PICK x \in found : held' = {[idx |-> i, impl |-> x, fresh |-> TRUE]}
      BY <1>2, <2>2, <3>1
    <3>3. ld' = q.L /\ ~ld'.needUpdate /\ x \in Lookup(ld', i)
      BY <1>8, <1>9, <1>11, <3>1
    <3> QED BY <3>2, <3>3 DEF FreshIn
  <2> QED BY <2>1, <2>2
<1> QED BY <1>11, <1>13 DEF Step

LEMMA SessionStepLemma ==
    ASSUME Inv, ListInv, NEW i \in Indices, MFXCreateSession(i)
    PROVE  Step /\ SessionInv'
<1>0. PICK bad, late :
        LET q == IF ld.low THEN LowQuery(bad, late) ELSE FullQuery(ld, bad)
            found == IF q.ok THEN Lookup(q.L, i) ELSE {}
        IN  /\ Commits(ld, ld', IF \E x \in found : x.lib \notin DOMAIN q.L.libs
                                THEN Fault(q.L, "freed") ELSE q.L)
            /\ IF q.L.fault # "none" \/ found = {}
               THEN ret'.sts = "NOT_FOUND"
               ELSE \E x \in found : ret'.idx = i /\ ret'.impl = x
  <2>1. PICK bad, late :
        \E Q \in {IF ld.low THEN LowQuery(bad, late) ELSE FullQuery(ld, bad)} :
        LET req == LastSet(Q.L.cfgs, "ApiVersion")
            found == IF Q.ok THEN Lookup(Q.L, i) ELSE {}
        IN  /\ Commit(IF \E x \in found : x.lib \notin DOMAIN Q.L.libs
                      THEN Fault(Q.L, "freed") ELSE Q.L)
            /\ IF Q.L.fault # "none" \/ found = {}
               THEN Return("MFXCreateSession", "NOT_FOUND", i, NoImpl)
               ELSE \E x \in found, init \in {"NONE", "DEVICE_FAILED"} :
                      Return("MFXCreateSession",
                             IF Q.L.low /\ req # Unset /\ ImplVersion(x) < req
                             THEN "NOT_FOUND" ELSE init, i, x)
    BY DEF MFXCreateSession
  <2> DEFINE q == IF ld.low THEN LowQuery(bad, late) ELSE FullQuery(ld, bad)
             found == IF q.ok THEN Lookup(q.L, i) ELSE {}
  <2>2. Commits(ld, ld', IF \E x \in found : x.lib \notin DOMAIN q.L.libs
                         THEN Fault(q.L, "freed") ELSE q.L)
    BY <2>1 DEF Commit, Commits
  <2>3. IF q.L.fault # "none" \/ found = {}
        THEN ret'.sts = "NOT_FOUND"
        ELSE \E x \in found : ret'.idx = i /\ ret'.impl = x
    BY <2>1 DEF Return
  <2> QED BY <2>2, <2>3
<1> DEFINE q == IF ld.low THEN LowQuery(bad, late) ELSE FullQuery(ld, bad)
           found == IF q.ok THEN Lookup(q.L, i) ELSE {}
           F == Fault(q.L, "freed")
           C == IF \E x \in found : x.lib \notin DOMAIN q.L.libs THEN F ELSE q.L
<1>1. /\ Commits(ld, ld', C)
      /\ q.L.fault # "none" \/ found = {} => ret'.sts = "NOT_FOUND"
      /\ ~(q.L.fault # "none" \/ found = {}) => \E x \in found : ret'.idx = i /\ ret'.impl = x
  BY <1>0
<1>2. Core(ld) /\ PhaseInv(ld) /\ IsCtx(ld) /\ Ranks(ld) /\ ld.cfgs \in Seq(Configs)
  BY DEF Inv, Core, ListInv
<1>3. Core(q.L)
  <2>1. CASE ld.low
    BY <1>2, <2>1, LowQueryLemma
  <2>2. CASE ~ld.low
    <3>1. q = FullQuery(ld, bad)
      BY <2>2
    <3> HIDE DEF q
    <3> QED BY <1>2, <3>1, FullQueryLemma
  <2> QED BY <2>1, <2>2
<1>4. ASSUME q.L.fault = "none"
      PROVE  /\ Ranks(q.L) /\ q.L.cfgs \in Seq(Configs)
             /\ ~ld.needFull => Stable(ld, q.L)
             /\ ~ld.needUpdate => ~q.L.needUpdate /\ \A j : Lookup(ld, j) \subseteq Lookup(q.L, j)
             /\ ~q.L.low /\ q.ok => ~q.L.needUpdate
  <2>1. CASE ld.low
    <3>1. q = LowQuery(bad, late)
      BY <2>1
    <3> HIDE DEF q
    <3>2. /\ Ranks(q.L) /\ q.L.low /\ q.L.needUpdate = ld.needUpdate
          /\ q.L.cfgs = ld.cfgs \/ q.L.cfgs = RenamedImpl(ld.cfgs)
          /\ Stable(ld, q.L)
          /\ \A j : Lookup(ld, j) \subseteq Lookup(q.L, j)
      BY <1>2, <1>4, <2>1, <3>1, LowQueryOrderLemma
    <3>3. q.L.cfgs \in Seq(Configs)
      BY <1>2, <3>2, RenamedImplLemma
    <3> QED BY <3>2, <3>3
  <2>2. CASE ~ld.low
    <3>1. q = FullQuery(ld, bad)
      BY <2>2
    <3> HIDE DEF q
    <3> QED BY <1>2, <1>4, <3>1, FullQueryOrderLemma
  <2> QED BY <2>1, <2>2
<1>5. found \subseteq Lookup(q.L, i) /\ (found # {} => q.ok)
  OBVIOUS
<1> HIDE DEF q
<1>6. F.fault # "none"
  BY <1>3, FaultLemma DEF Faults
<1> HIDE DEF F, found
<1>7. C.fault = "none" => C = q.L
  BY <1>6
<1> HIDE DEF C
<1>8. C.fault = "none" => Leaves(ld, C)
  BY <1>4, <1>7 DEF Leaves
<1>9. /\ Leaves(ld, ld')
      /\ C.fault = "none" => ld' = q.L
      /\ C.fault # "none" => ld'.fault # "none" /\ \A h : FreshIn(h, ld) => FreshIn(h, ld')
  BY <1>1, <1>2, <1>7, <1>8, CommitOrderLemma
<1>10. held' = held
  BY DEF MFXCreateSession
<1>11. FreshIn(held, ld')
  <2>1. CASE C.fault # "none"
    BY <1>9, <2>1 DEF ListInv
  <2>2. CASE C.fault = "none"
    BY <1>4, <1>7, <1>9, <2>2 DEF ListInv, FreshIn
  <2> QED BY <2>1, <2>2
<1>12. ASSUME ld'.fault = "none", ret'.sts = "NONE"
       PROVE  /\ ld' = q.L /\ Core(ld')
              /\ ret'.idx = i /\ ret'.impl \in Lookup(ld', i)
              /\ ~ld'.low => ~ld'.needUpdate
  <2>1. C.fault = "none" /\ ld' = q.L
    BY <1>9, <1>12
  <2>2. q.L.fault = "none" /\ found # {}
    BY <1>1, <1>12, <2>1
  <2> QED BY <1>1, <1>3, <1>4, <1>5, <2>1, <2>2
<1>13. SessionIsEnumerated'
  <2> SUFFICES ASSUME ld'.fault = "none", ret'.sts = "NONE",
                      NEW e \in held, e.fresh, e.idx = ret'.idx
               PROVE  e.impl = ret'.impl
    BY <1>10 DEF SessionIsEnumerated, Running
  <2>1. e.impl \in Lookup(ld', i)
    BY <1>11, <1>12 DEF FreshIn
  <2> QED BY <1>12, <2>1, LookupLemma
<1>14. ~ld'.low => SessionMatchesFilters'
  <2> SUFFICES ASSUME ~ld'.low, ld'.fault = "none", ret'.sts = "NONE", Signed(ret'.idx) >= 0
               PROVE  ValidateConfig(ld'.cfgs, Desc(ret'.impl))
    BY DEF SessionMatchesFilters, Running
  <2>1. ret'.impl \in Valid(ld'.impls)
    BY <1>12 DEF Lookup, Valid
  <2> QED BY <1>9, <1>12, <2>1 DEF Leaves, Ranks, MatchInv
<1> QED BY <1>9, <1>10, <1>11, <1>13, <1>14 DEF Step, SessionInv

\* A call that touches the config objects and the flags of the filters only.
LEMMA ConfigChangedLemma ==
    ASSUME NEW L, NEW M, Ranks(L), SameImpls(L, M), SameLibs(L, M),
           M.needFull = L.needFull, M.needLow = L.needLow,
           \/ M.needUpdate = TRUE
           \/ /\ M.needUpdate = L.needUpdate /\ M.low = L.low
              /\ \A desc : ValidateConfig(L.cfgs, desc) => ValidateConfig(M.cfgs, desc)
    PROVE  Ranks(M) /\ Stable(L, M) /\ \A i : Lookup(M, i) = Lookup(L, i)
<1>1. M.libs = L.libs /\ M.impls = L.impls /\ M.ipos = L.ipos
  BY DEF SameImpls, SameLibs
<1>2. \A x, y : Worse(M, x, y) <=> Worse(L, x, y)
  BY <1>1 DEF Worse
<1>3. HasFreedImpl(M) <=> HasFreedImpl(L)
  BY <1>1 DEF HasFreedImpl
<1>4. LibInv(M) /\ SortedInv(M)
  BY <1>1, <1>2, <1>3 DEF Ranks, LibInv, SortedInv
<1>5. DenseInv(M)
  BY <1>1 DEF Ranks, DenseInv
<1>6. MatchInv(M)
  BY <1>1 DEF Ranks, MatchInv
<1>7. Stable(L, M) /\ \A i : Lookup(M, i) = Lookup(L, i)
  BY <1>1 DEF Stable, Lookup
<1> QED BY <1>4, <1>5, <1>6, <1>7 DEF Ranks

LEMMA SetFilterStepLemma ==
    ASSUME Inv, ListInv, NEW c, NEW p \in DOMAIN Values, NEW v \in Values[p],
           MFXSetConfigFilterProperty(c, p, v)
    PROVE  Step
<1> DEFINE cfgs == [ld.cfgs EXCEPT ![c] = SetFilterProperty(@, p, v)]
           sts  == SetPropStatus(p, v)
           low  == CheckLowLatencyConfig(cfgs)
<1>1. \/ sts = "NONE" /\ ld' = [ld EXCEPT !.cfgs = cfgs, !.needUpdate = TRUE, !.low = low]
      \/ sts # "NONE" /\ ld' = [ld EXCEPT !.cfgs = cfgs]
  BY DEF MFXSetConfigFilterProperty
<1>2. held' = {[idx |-> e.idx, impl |-> e.impl, fresh |-> e.fresh /\ sts # "NONE"] : e \in held}
  BY DEF MFXSetConfigFilterProperty
<1>3. IsCtx(ld) /\ Ranks(ld) /\ ld.cfgs \in Seq(Configs) /\ FreshIn(held, ld)
  BY DEF Inv, Core, ListInv
<1>4. c \in DOMAIN ld.cfgs
  BY DEF MFXSetConfigFilterProperty
<1>5. /\ cfgs \in Seq(Configs)
      /\ sts # "NONE" => \A desc : ValidateConfig(ld.cfgs, desc) => ValidateConfig(cfgs, desc)
  BY <1>3, <1>4, SetConfigLemma
<1> HIDE DEF cfgs, sts, low
<1>6. /\ SameImpls(ld, ld') /\ SameLibs(ld, ld') /\ ld'.cfgs = cfgs
      /\ ld'.needFull = ld.needFull /\ ld'.needLow = ld.needLow
      /\ \/ sts = "NONE" /\ ld'.needUpdate = TRUE
         \/ sts # "NONE" /\ ld'.needUpdate = ld.needUpdate /\ ld'.low = ld.low
  <2>1. CASE sts = "NONE" /\ ld' = [ld EXCEPT !.cfgs = cfgs, !.needUpdate = TRUE, !.low = low]
    BY <1>3, <2>1 DEF IsCtx, Fields, SameImpls, SameLibs
  <2>2. CASE sts # "NONE" /\ ld' = [ld EXCEPT !.cfgs = cfgs]
    BY <1>3, <2>2 DEF IsCtx, Fields, SameImpls, SameLibs
  <2> QED BY <1>1, <2>1, <2>2
<1>7. Ranks(ld') /\ Stable(ld, ld') /\ \A i : Lookup(ld', i) = Lookup(ld, i)
  BY <1>3, <1>5, <1>6, ConfigChangedLemma
<1>8. FreshIn(held', ld')
  <2> SUFFICES ASSUME NEW e \in held', e.fresh
               PROVE  ~ld'.needUpdate /\ e.impl \in Lookup(ld', e.idx)
    BY DEF FreshIn
  <2>1. PICK d \in held : e = [idx |-> d.idx, impl |-> d.impl, fresh |-> d.fresh /\ sts # "NONE"]
    BY <1>2
  <2>2. e.impl = d.impl /\ e.idx = d.idx /\ d.fresh /\ sts # "NONE"
    BY <2>1
  <2> QED BY <1>3, <1>6, <1>7, <2>2 DEF FreshIn
<1> QED BY <1>5, <1>6, <1>7, <1>8 DEF Step, Leaves

LEMMA OtherStepsLemma ==
    ASSUME Inv, ListInv,
           \/ MFXLoad \/ MFXUnload \/ MFXCreateConfig
           \/ \E h \in {e.impl : e \in held} \cup {NoImpl} : MFXDispReleaseImplDescription(h)
    PROVE  Step
<1>1. Core(ld) /\ IsCtx(ld) /\ Ranks(ld) /\ ld.cfgs \in Seq(Configs) /\ FreshIn(held, ld)
  BY DEF Inv, Core, ListInv
<1>2. CASE MFXLoad
  <2>1. ld' = NewLoader(ld.dl, TRUE) /\ held' = {}
    BY <1>2 DEF MFXLoad
  <2>2. Ranks(ld') /\ ld'.cfgs \in Seq(Configs) /\ Valid(ld'.impls) = {}
    BY <2>1, NewLoaderOrderLemma
  <2> QED BY <2>1, <2>2 DEF Step, Leaves, Stable, FreshIn
<1>3. CASE MFXUnload
  <2> DEFINE U == UnloadAllLibraries(ld)
             N == NewLoader(U.dl, FALSE)
             C == IF U.fault = "none" THEN N ELSE U
  <2>1. Commits(ld, ld', C) /\ held' = {}
    BY <1>3 DEF MFXUnload, Commit, Commits
  <2>2. Ranks(N) /\ N.cfgs \in Seq(Configs) /\ N.live = FALSE
    BY NewLoaderOrderLemma
  <2> HIDE DEF U, N
  <2>3. C.fault = "none" => Leaves(ld, C)
    BY <2>2 DEF Leaves
  <2> HIDE DEF C
  <2>4. Leaves(ld, ld')
    BY <1>1, <2>1, <2>3, CommitOrderLemma
  <2> QED BY <2>1, <2>4 DEF Step, FreshIn
<1>4. CASE MFXCreateConfig
  <2> DEFINE cfgs == Append(ld.cfgs, EmptyConfig)
  <2>1. ld' = [ld EXCEPT !.cfgs = cfgs] /\ held' = held
    BY <1>4 DEF MFXCreateConfig
  <2>2. /\ cfgs \in Seq(Configs)
        /\ \A desc : ValidateConfig(ld.cfgs, desc) => ValidateConfig(cfgs, desc)
    BY <1>1, AppendConfigLemma
  <2> HIDE DEF cfgs
  <2>3. /\ SameImpls(ld, ld') /\ SameLibs(ld, ld') /\ ld'.cfgs = cfgs
        /\ ld'.needFull = ld.needFull /\ ld'.needLow = ld.needLow
        /\ ld'.low = ld.low /\ ld'.needUpdate = ld.needUpdate
    BY <1>1, <2>1 DEF IsCtx, Fields, SameImpls, SameLibs
  <2>4. Ranks(ld') /\ Stable(ld, ld') /\ \A i : Lookup(ld', i) = Lookup(ld, i)
    BY <1>1, <2>2, <2>3, ConfigChangedLemma
  <2> QED BY <1>1, <2>1, <2>2, <2>3, <2>4 DEF Step, Leaves, FreshIn
<1>5. ASSUME NEW h, MFXDispReleaseImplDescription(h)
      PROVE  Step
  <2> DEFINE F == Fault(ld, "hang")
  <2>1. (ld' = F \/ ld' = ld) /\ held' \subseteq held
    BY <1>5 DEF MFXDispReleaseImplDescription
  <2>2. SameFlags(ld, F) /\ SameImpls(ld, F) /\ SameLibs(ld, F)
    BY <1>1, FaultLemma DEF Faults
  <2> HIDE DEF F
  <2>3. SameFlags(ld, ld') /\ SameImpls(ld, ld') /\ SameLibs(ld, ld')
    BY <2>1, <2>2 DEF SameFlags, SameImpls, SameLibs
  <2>4. Ranks(ld') /\ Stable(ld, ld') /\ FreshIn(held, ld')
    BY <1>1, <2>3, SameRanksLemma
  <2>5. ld'.cfgs \in Seq(Configs)
    BY <1>1, <2>3 DEF SameFlags
  <2> QED BY <2>1, <2>4, <2>5 DEF Step, Leaves, FreshIn
<1> QED BY <1>2, <1>3, <1>4, <1>5

\* Every call of the API, and what it keeps.
LEMMA NextStepLemma ==
    ASSUME Inv, ListInv, SessionInv, [Next]_vars
    PROVE  Step /\ SessionInv'
<1>1. ASSUME NEW i \in Indices, MFXEnumImplementations(i) PROVE Step /\ SessionInv'
  <2>1. ret'.call = "MFXEnumImplementations"
    BY <1>1 DEF MFXEnumImplementations, Return
  <2> QED BY <1>1, <2>1, EnumStepLemma DEF SessionInv, SessionIsEnumerated, SessionMatchesFilters
<1>2. ASSUME NEW i \in Indices, MFXCreateSession(i) PROVE Step /\ SessionInv'
  BY <1>2, SessionStepLemma
<1>3. ASSUME NEW c \in 1 .. MaxConfigs, NEW p \in DOMAIN Values, NEW v \in Values[p],
             MFXSetConfigFilterProperty(c, p, v)
      PROVE  Step /\ SessionInv'
  <2>1. ret'.call = "MFXSetConfigFilterProperty"
    BY <1>3 DEF MFXSetConfigFilterProperty, Return
  <2> QED BY <1>3, <2>1, SetFilterStepLemma DEF SessionInv, SessionIsEnumerated, SessionMatchesFilters
<1>4. CASE \/ MFXLoad \/ MFXUnload \/ MFXCreateConfig
           \/ \E h \in {e.impl : e \in held} \cup {NoImpl} : MFXDispReleaseImplDescription(h)
  <2>1. ret'.call # "MFXCreateSession"
    <3>1. MFXLoad => ret'.call = "MFXLoad"
      BY DEF MFXLoad, Return
    <3>2. MFXUnload => ret'.call = "MFXUnload"
      <4>1. MFXUnload => Return("MFXUnload", "NONE", 0, NoImpl)
        BY DEF MFXUnload
      <4> QED BY <4>1 DEF Return
    <3>3. MFXCreateConfig => ret'.call = "MFXCreateConfig"
      BY DEF MFXCreateConfig, Return
    <3>4. \A h : MFXDispReleaseImplDescription(h) => ret'.call = "MFXDispReleaseImplDescription"
      BY DEF MFXDispReleaseImplDescription, Return
    <3> QED BY <1>4, <3>1, <3>2, <3>3, <3>4
  <2> QED BY <1>4, <2>1, OtherStepsLemma DEF SessionInv, SessionIsEnumerated, SessionMatchesFilters
<1>5. CASE UNCHANGED vars
  <2>1. ld' = ld /\ held' = held /\ ret' = ret
    BY <1>5 DEF vars
  <2>2. Step
    BY <2>1 DEF ListInv, Step, Leaves, Stable
  <2>3. SessionIsEnumerated' /\ (~ld'.low => SessionMatchesFilters')
    BY <2>1 DEF SessionInv, SessionIsEnumerated, SessionMatchesFilters, Running
  <2> QED BY <2>2, <2>3 DEF SessionInv
<1> QED BY <1>1, <1>2, <1>3, <1>4, <1>5 DEF Next

\* The whole inductive invariant.
AllInv == Inv /\ ListInv /\ SessionInv

LEMMA AllInvLemma == Spec => []AllInv
<1>1. Init => AllInv
  <2> SUFFICES ASSUME Init PROVE AllInv
    OBVIOUS
  <2>1. Inv
    BY InitLemma
  <2>2. ListInv
    BY NewLoaderOrderLemma DEF Init, ListInv, FreshIn
  <2>3. SessionInv
    BY DEF Init, SessionInv, SessionIsEnumerated, SessionMatchesFilters
  <2> QED BY <2>1, <2>2, <2>3 DEF AllInv
<1>2. AllInv /\ [Next]_vars => AllInv'
  <2> SUFFICES ASSUME Inv, ListInv, SessionInv, [Next]_vars PROVE AllInv'
    BY DEF AllInv
  <2>1. Inv'
    BY NextLemma
  <2>2. Step /\ SessionInv'
    BY NextStepLemma
  <2> QED BY <2>1, <2>2 DEF AllInv, ListInv, Step, Leaves
<1> QED BY <1>1, <1>2, PTL DEF Spec

-----------------------------------------------------------------------------
(***************************************************************************)
(* Theorems                                                                *)
(***************************************************************************)

\* IndInv, which a run checks on small instances, is an invariant of the
\* loader for every set of libraries and every sequence of API calls
\* (mfx_dispatcher_vpl.cpp).
THEOREM IndInvTheorem == Spec => []IndInv
<1>1. AllInv => IndInv
  BY DEF AllInv, Inv, ListInv, Core, IndInv, HeldIn, HeldInv, Ranks, RankInv, FreshIn, FreshInv
<1> QED BY <1>1, AllInvLemma, PTL

\* The application reaches every valid implementation that has a description
\* by counting up from 0: an up-to-date list is numbered without gaps and in
\* list order (UpdateValidImplList, PrioritizeImplList).
THEOREM DenseIndicesTheorem == Spec => []DenseIndices
<1>1. IndInv => DenseIndices
  BY DEF IndInv, RankInv, DenseInv, DenseIndices
<1> QED BY <1>1, IndInvTheorem, PTL

\* A smaller index never means a worse implementation, by the priority rules
\* that the four stable sorts and the splice of PrioritizeImplList stand for.
THEOREM PriorityOrderTheorem == Spec => []PriorityOrder
<1>1. IndInv => PriorityOrder
  <2> SUFFICES ASSUME IndInv, ~ld.needUpdate, NEW x \in Valid(ld.impls), NEW y \in Valid(ld.impls),
                      ld.impls[x].known, ld.impls[y].known, ld.impls[x].idx < ld.impls[y].idx,
                      Worse(ld, x, y)
               PROVE  FALSE
    BY DEF PriorityOrder
  <2>1. ~ld.needFull /\ x \in DOMAIN ld.impls /\ y \in DOMAIN ld.impls
    BY DEF IndInv, RankInv, DenseInv, Valid
  <2>2. ld.ipos[x] < ld.ipos[y] /\ ld.ipos[y] < ld.ipos[x]
    BY <2>1 DEF IndInv, RankInv, SortedInv
  <2>3. IsList(ld.ipos) /\ DOMAIN ld.ipos = DOMAIN ld.impls
    BY DEF IndInv, CtxType, ImplsType
  <2>4. ld.ipos[x] \in Int /\ ld.ipos[y] \in Int
    BY <2>1, <2>3, PositionLemma
  <2> QED BY <2>2, <2>4
<1> QED BY <1>1, IndInvTheorem, PTL

\* What MFXEnumImplementations reports matches every filter property, as
\* long as the low-latency query has not replaced the implementation name in
\* the config objects, which it does for the MSDK runtime only
\* (LoadLibsLowLatency).
THEOREM FilterSoundTheorem ==
    Spec => [](~ld.low \/ ld.needLow \/ LowMSDK = {} => FilterSound)
<1>1. IndInv => (~ld.low \/ ld.needLow \/ LowMSDK = {} => FilterSound)
  BY DEF IndInv, RankInv, MatchInv, FilterSound
<1> QED BY <1>1, IndInvTheorem, PTL

\* An application that enumerates and then creates a session gets the
\* implementation it has seen, unless it sets a filter in between.
THEOREM SessionIsEnumeratedTheorem == Spec => []SessionIsEnumerated
<1>1. AllInv => SessionIsEnumerated
  BY DEF AllInv, SessionInv
<1> QED BY <1>1, AllInvLemma, PTL

\* Without low latency, CreateSession never uses an implementation that a
\* filter excludes.
THEOREM SessionMatchesFiltersTheorem == Spec => [](~ld.low => SessionMatchesFilters)
<1>1. AllInv => (~ld.low => SessionMatchesFilters)
  BY DEF AllInv, SessionInv
<1> QED BY <1>1, AllInvLemma, PTL

\* No call changes which of two implementations that stay valid is preferred.
THEOREM StableRankingTheorem == Spec => StableRanking
<1> DEFINE Keeping == ld'.live /\ ~ld.needFull =>
               \A x, y \in Valid(ld.impls) \cap Valid(ld'.impls) :
                   ld.impls[x].idx < ld.impls[y].idx => ld'.impls[x].idx < ld'.impls[y].idx
<1>1. AllInv /\ [Next]_vars => Keeping
  <2> SUFFICES ASSUME Inv, ListInv, SessionInv, [Next]_vars PROVE Keeping
    BY DEF AllInv
  <2>1. Step
    BY NextStepLemma
  <2> QED BY <2>1 DEF Step, Leaves, Stable
<1>2. StableRanking <=> [][Keeping]_vars
  BY DEF StableRanking
<1> HIDE DEF Keeping
<1> QED BY <1>1, <1>2, AllInvLemma, PTL DEF Spec

-----------------------------------------------------------------------------
(***************************************************************************)
(* Loaders that find their runtimes with the full search alone: the        *)
(* low-latency search is not used, or finds nothing.  No call of such a    *)
(* loader crashes, every module handle has its LibInfo, and a device is    *)
(* offered by one runtime.  The operations are those of Dispatcher_proof,  *)
(* which says what they keep; here they are shown to run into no fault.    *)
(***************************************************************************)

\* The low-latency search has loaded nothing, and left nothing behind.
FullOnly(L) == L.needLow /\ NoneLow(L)

\* Every entry has a description and a library.
Described(L) == \A x \in DOMAIN L.impls : L.impls[x].known /\ x.lib \in DOMAIN L.libs

\* A VPL hardware entry excludes the MSDK entries of its device.
OneRuntime(L) ==
    \A x \in Valid(L.impls), t \in DOMAIN L.impls : Serves(L, t, x) => IsVPL(L, x)

\* A VPL runtime that reports its capabilities at all has an implementation
\* whose API version it exports all functions of.
RuntimesAnswer ==
    \A n \in Names :
        "MFXInitialize" \in Runtime[n].exports /\ Runtime[n].descOK =>
            \E i \in DOMAIN Runtime[n].caps : Runtime[n].caps[i].ApiVersion <= Runtime[n].complete

-----------------------------------------------------------------------------
(***************************************************************************)
(* Operations that run into no fault                                       *)
(***************************************************************************)

\* Without low latency nothing on the lists is freed or without description.
LEMMA QuietLemma ==
    ASSUME NEW L, PhaseInv(L), Ranks(L), FullOnly(L)
    PROVE  ~HasFreedLib(L) /\ Described(L) /\ (L.needFull => DOMAIN L.impls = {})
<1>1. ~HasFreedLib(L)
  BY DEF Ranks, LibInv, FullOnly, NoneLow, HasFreedLib
<1>2. \A x \in DOMAIN L.impls : ~x.low /\ ~L.needFull
  BY DEF PhaseInv, FullOnly
<1>3. \A x \in DOMAIN L.impls : L.impls[x].known
  BY <1>2 DEF Ranks, LibInv
<1>4. \A x \in DOMAIN L.impls : x.lib \in DOMAIN L.libs
  BY <1>2 DEF Ranks, SortedInv, HasFreedImpl
<1> QED BY <1>1, <1>2, <1>3, <1>4 DEF Described

LEMMA PrioritizeQuietLemma ==
    ASSUME NEW L, Core(L), Described(L)
    PROVE  LET M == PrioritizeImplList(L) IN M.fault = L.fault /\ Described(M)
<1> DEFINE p == SortedList(L)
           new == Reindex(L.impls, p)
           M == PrioritizeImplList(L)
<1>1. ~HasFreedImpl(L) /\ ~NullCompared(L)
  BY DEF Described, HasFreedImpl, NullCompared, Compared
<1>2. M = [L EXCEPT !.ipos = p, !.impls = new]
  BY <1>1 DEF PrioritizeImplList
<1>3. IsCtx(L)
  BY DEF Core
<1>4. SameLibs(L, M) /\ SameEntries(L, M)
  BY PrioritizeLemma
<1> HIDE DEF p, new
<1>5. M.fault = L.fault
  BY <1>2, <1>3 DEF IsCtx, Fields
<1> HIDE DEF M
<1>6. Described(M)
  BY <1>4 DEF Described, SameLibs, SameEntries
<1> QED BY <1>5, <1>6 DEF M

LEMMA UpdateQuietLemma ==
    ASSUME NEW L, Core(L), Described(L), L.fault = "none"
    PROVE  LET U == UpdateValidImplList(L)
           IN  /\ U.fault = "none" /\ Described(U) /\ Valid(U.impls) \subseteq Valid(L.impls)
               /\ OneRuntime(L) => OneRuntime(U)
<1> DEFINE ok == {x \in Valid(L.impls) : L.impls[x].known /\ ValidateConfig(L.cfgs, Desc(x))}
           new == Table([x \in DOMAIN L.impls |->
                [known |-> L.impls[x].known,
                 idx   |-> IF x \in ok THEN CountBefore(L.ipos, ok, x) ELSE -1]])
           N == [L EXCEPT !.impls = new]
           P == PrioritizeImplList(N)
           U == UpdateValidImplList(L)
<1>1. U = [P EXCEPT !.needUpdate = FALSE]
  BY DEF UpdateValidImplList
<1>2. /\ Core(U) /\ SameLibs(L, U) /\ SameEntries(L, U)
  BY UpdateLemma
<1>3. DOMAIN new = DOMAIN L.impls /\ \A x \in DOMAIN new : new[x].known = L.impls[x].known
  <2>1. new = [x \in DOMAIN L.impls |->
                [known |-> L.impls[x].known,
                 idx   |-> IF x \in ok THEN CountBefore(L.ipos, ok, x) ELSE -1]]
    BY TableLemma
  <2> HIDE DEF new
  <2> QED BY <2>1
<1>4. IsCtx(L)
  BY DEF Core
<1>5. N.impls = new /\ N.libs = L.libs /\ N.fault = "none" /\ IsCtx(N)
  <2>1. IsCtx(N)
    BY <1>4 DEF IsCtx
  <2> QED BY <1>4, <2>1 DEF IsCtx, Fields
<1> HIDE DEF new, ok, N
<1>6. ~HasFreedImpl(N) /\ ~NullCompared(N)
  BY <1>3, <1>5 DEF Described, HasFreedImpl, NullCompared, Compared
<1>7. P = [N EXCEPT !.ipos = SortedList(N), !.impls = Reindex(N.impls, SortedList(N))]
  BY <1>6 DEF PrioritizeImplList
<1>8. P.fault = "none" /\ IsCtx(P)
  <2>1. IsCtx(P)
    BY <1>5, <1>7 DEF IsCtx
  <2> QED BY <1>5, <1>7, <2>1 DEF IsCtx, Fields
<1> HIDE DEF P
<1>9. U.fault = "none"
  BY <1>1, <1>8 DEF IsCtx, Fields
<1>10. Valid(U.impls) \subseteq Valid(L.impls)
  <2>1. Numbers(U, ok)
    BY <1>9, UpdateOrderLemma DEF ok
  <2> QED BY <2>1 DEF Numbers, ok
<1> HIDE DEF U
<1>11. Described(U)
  BY <1>2 DEF Described, SameLibs, SameEntries
<1>12. OneRuntime(L) => OneRuntime(U)
  <2>1. U.libs = L.libs /\ DOMAIN U.impls = DOMAIN L.impls
    BY <1>2 DEF SameLibs, SameEntries
  <2> QED BY <1>10, <2>1 DEF OneRuntime, Serves, IsVPL
<1> QED BY <1>9, <1>10, <1>11, <1>12 DEF U

\* D3D9 has not been asked for.
NoD3D9(L) == LastSet(L.cfgs, "AccelerationMode") # MFX_ACCEL_MODE_VIA_D3D9

\* The pass that follows the full query.
LEMMA CompleteQuietLemma ==
    ASSUME NEW L, Core(L), Described(L), L.fault = "none"
    PROVE  LET M == CompleteFullQuery(L)
           IN  M.fault = "none" /\ Described(M) /\ (NoD3D9(L) => OneRuntime(M))
<1> DEFINE N == Completed(L)
           M == PrioritizeImplList(N)
<1>1. ~HasFreedImpl(L) /\ Missing(L) = {}
  BY DEF Described, HasFreedImpl, Missing
<1>2. CompleteFullQuery(L) = M
  BY <1>1 DEF CompleteFullQuery, Missing, Completed
<1>3. /\ Core(N) /\ SameLibs(L, N) /\ N.fault = "none"
      /\ DOMAIN N.impls = DOMAIN L.impls
      /\ \A x \in DOMAIN L.impls :
           /\ N.impls[x].known = TRUE
           /\ N.impls[x].idx = IF Superseded(L, x) THEN -1 ELSE L.impls[x].idx
  BY <1>1, CompletedLemma
<1> HIDE DEF N
<1>4. Described(N)
  BY <1>3 DEF Described, SameLibs
<1>5. M.fault = "none" /\ Described(M)
  BY <1>3, <1>4, PrioritizeQuietLemma
<1>6. Valid(M.impls) = Valid(N.impls)
  BY <1>3, <1>5, PrioritizeOrderLemma DEF Numbers
<1>7. SameLibs(N, M) /\ DOMAIN M.impls = DOMAIN N.impls
  BY <1>3, PrioritizeLemma DEF SameEntries
<1> HIDE DEF M
<1>8. ASSUME NoD3D9(L), NEW x \in Valid(M.impls), NEW t \in DOMAIN M.impls, Serves(M, t, x)
      PROVE  IsVPL(M, x)
  <2>1. x \in DOMAIN L.impls /\ t \in DOMAIN L.impls /\ N.impls[x].idx >= 0
    BY <1>3, <1>6, <1>7, <1>8 DEF Valid
  <2>2. ~Superseded(L, x)
    BY <1>3, <2>1
  <2>3. Serves(L, t, x) /\ (IsVPL(L, x) => IsVPL(M, x))
    BY <1>3, <1>7, <1>8 DEF Serves, IsVPL, SameLibs
  <2> QED BY <1>8, <2>1, <2>2, <2>3 DEF Superseded, NoD3D9, Described
<1> QED BY <1>2, <1>5, <1>8 DEF OneRuntime

\* The query of the libraries of the full search.
LEMMA QueryQuietLemma ==
    ASSUME NEW L, Core(L), ~HasFreedLib(L), L.fault = "none", L.low = FALSE,
           DOMAIN L.impls = {},
           \A i \in DOMAIN L.libs :
             \/ L.libs[i].type = "VPL" /\ "MFXInitialize" \in Runtime[i.name].exports
             \/ L.libs[i].type = "MSDK"
    PROVE  LET M == QueryLibraryCaps(L)
           IN  /\ M.fault = "none" /\ Described(M) /\ (NoD3D9(L) => OneRuntime(M))
               /\ RuntimesAnswer /\ DOMAIN M.impls = {} => DOMAIN M.libs = {}
<1> DEFINE drop == DroppedByQuery(L)
           new == ImplsOf(L, DOMAIN L.libs \ drop)
           Q == AddImpls(L, drop, new, L.next)
           M == QueryLibraryCaps(L)
<1>1. M = IF Q.low \/ DOMAIN Q.impls = {} THEN Q ELSE CompleteFullQuery(Q)
  BY DEF QueryLibraryCaps, AfterQuery, QueryEachLibrary
<1>2. NewEntries(L, new) /\ \A x \in new : x.lib \in DOMAIN L.libs \ drop
  BY QueriedLemma
<1>3. drop \subseteq DOMAIN L.libs
  BY DEF DroppedByQuery
<1>4. new = {} /\ RuntimesAnswer => DOMAIN L.libs \ drop = {}
  <2> SUFFICES ASSUME RuntimesAnswer, NEW i \in DOMAIN L.libs \ drop
               PROVE  new # {}
    OBVIOUS
  <2>1. NewImpls(L, i) \subseteq new
    BY DEF ImplsOf
  <2>2. CASE L.libs[i].type = "MSDK"
    BY <2>1, <2>2 DEF DroppedByQuery
  <2>3. CASE L.libs[i].type = "VPL" /\ "MFXInitialize" \in Runtime[i.name].exports
    <3> DEFINE r == Runtime[i.name]
    <3>1. r.descOK /\ i.name \in Names
      BY <2>3 DEF DroppedByQuery, Core, CtxType, LibsType, LibIds
    <3>2. PICK n \in DOMAIN r.caps : r.caps[n].ApiVersion <= r.complete
      BY <2>3, <3>1 DEF RuntimesAnswer
    <3>3. NewImpls(L, i) = {[lib |-> i, num |-> k, low |-> L.low] :
                              k \in {m \in DOMAIN r.caps : r.caps[m].ApiVersion <= r.complete}}
      BY <2>3 DEF NewImpls
    <3> HIDE DEF new, drop, r
    <3>4. [lib |-> i, num |-> n, low |-> L.low] \in NewImpls(L, i)
      BY <3>2, <3>3
    <3> QED BY <2>1, <3>4
  <2> QED BY <2>2, <2>3
<1> HIDE DEF new, drop
<1>5. /\ Core(Q) /\ SameFlags(L, Q) /\ Q.fault = L.fault
      /\ DOMAIN Q.libs = DOMAIN L.libs \ drop /\ Appends(L, Q, new)
  <2> HIDE DEF Q
  <2>1. Core(AddImpls(L, drop, new, L.next)) /\ SameFlags(L, AddImpls(L, drop, new, L.next))
    BY <1>2, <1>3, AddImplsLemma
  <2>2. /\ AddImpls(L, drop, new, L.next).fault = L.fault
        /\ DOMAIN AddImpls(L, drop, new, L.next).libs = DOMAIN L.libs \ drop
    BY <1>2, <1>3, AddImplsLemma, ZenonT(60)
  <2>3. Appends(L, AddImpls(L, drop, new, L.next), new)
    BY <1>2, <1>3, AddImplsLemma
  <2> QED BY <2>1, <2>2, <2>3 DEF Q
<1> HIDE DEF Q
<1>6. DOMAIN Q.impls = new /\ Described(Q) /\ Q.low = FALSE /\ (NoD3D9(L) => NoD3D9(Q))
  BY <1>2, <1>5 DEF Appends, Described, SameFlags, NoD3D9
<1>7. CASE DOMAIN Q.impls = {}
  <2>1. OneRuntime(Q)
    BY <1>7 DEF OneRuntime, Valid
  <2> QED BY <1>1, <1>4, <1>5, <1>6, <1>7, <2>1
<1>8. CASE DOMAIN Q.impls # {}
  <2> DEFINE C == CompleteFullQuery(Q)
  <2>1. M = C
    BY <1>1, <1>6, <1>8
  <2>2. C.fault = "none" /\ Described(C) /\ (NoD3D9(Q) => OneRuntime(C))
    BY <1>5, <1>6, CompleteQuietLemma
  <2>3. DOMAIN C.impls # {}
    BY <1>5, <1>8, CompleteLemma
  <2> HIDE DEF C, M
  <2> QED BY <1>6, <2>1, <2>2, <2>3 DEF M
<1> QED BY <1>7, <1>8

\* Loading and querying everything, for a loader that has listed nothing yet.
LEMMA FullLoadQuietLemma ==
    ASSUME NEW L, Core(L), PhaseInv(L), Ranks(L), FullOnly(L), L.needFull, L.fault = "none",
           NEW bad
    PROVE  LET M == FullLoadAndQuery(L, bad)
           IN  /\ M.fault = "none" /\ FullOnly(M) /\ Described(M) /\ M.live = L.live
               /\ NoD3D9(L) => OneRuntime(M)
               /\ DOMAIN L.libs = {} => \A n \in Names : Leaked(M, n) = Leaked(L, n)
               /\ RuntimesAnswer /\ M.needFull => DOMAIN M.libs = {}
<1> DEFINE K == [L EXCEPT !.low = FALSE]
           B == BuildListOfCandidateLibs(K)
           C == CheckValidLibraries(B, bad)
           Q == QueryLibraryCaps(C)
           R == [Q EXCEPT !.needFull = FALSE, !.needUpdate = TRUE]
           M == FullLoadAndQuery(L, bad)
           Good(N) == /\ N.fault = "none" /\ Described(N) /\ NoneLow(N) /\ N.live = L.live
                      /\ NoD3D9(L) => OneRuntime(N)
                      /\ DOMAIN L.libs = {} => \A n \in Names : Leaked(N, n) = Leaked(L, n)
<1>0. M.needLow = L.needLow
  BY FullLoadOrderLemma DEF Ranks
<1>1. ~HasFreedLib(L) /\ DOMAIN L.impls = {}
  BY QuietLemma
<1>2. \/ M = C /\ DOMAIN C.libs = {}
      \/ M = Q /\ DOMAIN Q.impls = {}
      \/ M = R
  BY <1>1 DEF FullLoadAndQuery, QueryLoaded, NoteFullQuery
<1>3. IsCtx(L)
  BY DEF Core
<1>4. IsCtx(K)
  BY <1>3 DEF IsCtx
<1>5. /\ SameImpls(L, K) /\ SameLibs(L, K) /\ K.fault = L.fault /\ K.low = FALSE
      /\ K.live = L.live /\ K.needUpdate = L.needUpdate
      /\ K.needFull = L.needFull /\ K.needLow = L.needLow /\ K.cfgs = L.cfgs
  BY <1>3 DEF IsCtx, Fields, SameImpls, SameLibs
<1> HIDE DEF K
<1>6. Core(K) /\ ~HasFreedLib(K)
  BY <1>1, <1>4, <1>5 DEF Core, CtxType, SameImpls, SameLibs, HasFreedLib
<1>7. /\ Core(B) /\ SameFlags(K, B) /\ SameImpls(K, B) /\ B.dl = K.dl /\ B.fault = K.fault
      /\ \A i \in DOMAIN B.libs :
           \/ i \in DOMAIN K.libs /\ B.libs[i] = K.libs[i]
           \/ /\ i.origin = "search" /\ B.libs[i].type = "none"
              /\ ~B.libs[i].freed /\ ~HasFreedLib(K)
  BY <1>6, BuildLemma
<1> HIDE DEF B
<1>8. NoneLow(B) /\ ~HasFreedLib(B)
  BY <1>5, <1>6, <1>7 DEF FullOnly, NoneLow, HasFreedLib, SameLibs
<1>9. /\ Core(C) /\ SameFlags(B, C) /\ SameImpls(B, C) /\ C.fault = B.fault
      /\ \A i \in DOMAIN C.libs :
           /\ i \in DOMAIN B.libs /\ C.libs[i].freed = B.libs[i].freed
           /\ \/ C.libs[i].type = "VPL" /\ "MFXInitialize" \in Runtime[i.name].exports
              \/ C.libs[i].type = "MSDK"
      /\ \A n \in Names : Leaked(C, n) = B.dl[n]
  BY <1>7, CheckLemma
<1> HIDE DEF C
<1>10. NoneLow(C) /\ ~HasFreedLib(C)
  BY <1>8, <1>9 DEF NoneLow, HasFreedLib
<1>11. /\ C.fault = "none" /\ C.low = FALSE /\ DOMAIN C.impls = {}
       /\ C.cfgs = L.cfgs /\ C.needFull = L.needFull /\ C.live = L.live
  BY <1>1, <1>5, <1>7, <1>9 DEF SameFlags, SameImpls
<1>12. DOMAIN L.libs = {} => \A n \in Names : Leaked(C, n) = Leaked(L, n)
  <2> SUFFICES ASSUME DOMAIN L.libs = {}, NEW n \in Names PROVE L.dl[n] = Leaked(L, n)
    BY <1>5, <1>7, <1>9 DEF SameLibs
  <2>1. OpenIn(L, DOMAIN L.libs, n) = {} /\ L.dl[n] \in Int
    BY DEF OpenIn, Core, CtxType
  <2> QED BY <2>1, FS_EmptySet DEF Leaked
<1>13. Good(C)
  BY <1>10, <1>11, <1>12 DEF Described, OneRuntime, Valid
<1>14. /\ Core(Q) /\ SameFlags(C, Q)
       /\ \A i \in DOMAIN Q.libs : i \in DOMAIN C.libs /\ Q.libs[i] = C.libs[i]
       /\ \A n \in Names : Leaked(Q, n) = Leaked(C, n)
  <2>1. \A x \in DOMAIN C.impls : x.low # C.low
    BY <1>11
  <2> QED BY <1>9, <2>1, QueryLemma
<1>15. /\ Q.fault = "none" /\ Described(Q) /\ (NoD3D9(C) => OneRuntime(Q))
       /\ RuntimesAnswer /\ DOMAIN Q.impls = {} => DOMAIN Q.libs = {}
  BY <1>9, <1>10, <1>11, QueryQuietLemma
<1> HIDE DEF Q
<1>16. Good(Q)
  <2>1. Q.live = L.live
    BY <1>11, <1>14 DEF SameFlags
  <2> QED BY <1>10, <1>11, <1>12, <1>14, <1>15, <2>1 DEF NoneLow, NoD3D9
<1>17. Good(R) /\ R.needFull = FALSE
  <2>1. IsCtx(Q)
    BY <1>14 DEF Core
  <2>2. /\ SameLibs(Q, R) /\ SameImpls(Q, R) /\ R.fault = Q.fault /\ R.needFull = FALSE
        /\ R.live = Q.live
    BY <2>1 DEF IsCtx, Fields, SameLibs, SameImpls
  <2> HIDE DEF R
  <2> QED BY <1>16, <2>2 DEF SameLibs, SameImpls, Described, NoneLow, OneRuntime, Valid, Serves,
                             IsVPL, Leaked, OpenIn
<1> HIDE DEF M, R
<1>18. Good(M) /\ (RuntimesAnswer /\ M.needFull => DOMAIN M.libs = {})
  BY <1>2, <1>13, <1>15, <1>16, <1>17
<1> QED BY <1>0, <1>18 DEF FullOnly, M

\* One runtime for a device, once the full query has succeeded.
OneInv(L) == L.needFull \/ OneRuntime(L)

\* No module handle without its LibInfo; until the full query succeeds, none.
Balanced(L) ==
    /\ \A n \in Names : Leaked(L, n) = 0
    /\ L.needFull => DOMAIN L.libs = {}
    /\ ~L.live => L.needFull

\* What a call that starts in a and ends in b keeps.
Preserves(a, b) ==
    /\ NoD3D9(a) /\ OneInv(a) => OneInv(b)
    /\ RuntimesAnswer /\ Balanced(a) => Balanced(b)

LEMMA PreservesSameLemma ==
    ASSUME NEW a, NEW b, SameLibs(a, b), a.impls = b.impls, a.needFull = b.needFull,
           a.live = b.live
    PROVE  Preserves(a, b)
<1>1. OneRuntime(a) => OneRuntime(b)
  BY DEF SameLibs, OneRuntime, Valid, Serves, IsVPL
<1>2. \A n \in Names : Leaked(b, n) = Leaked(a, n)
  BY DEF SameLibs, Leaked, OpenIn
<1> QED BY <1>1, <1>2 DEF Preserves, OneInv, Balanced, SameLibs

\* The full query, and the filters.
LEMMA FullQueryQuietLemma ==
    ASSUME NEW L, Core(L), PhaseInv(L), Ranks(L), FullOnly(L), L.fault = "none", L.live, NEW bad
    PROVE  LET M == FullQuery(L, bad).L
           IN  M.fault = "none" /\ FullOnly(M) /\ Described(M) /\ Preserves(L, M)
<1> DEFINE Q == IF L.needFull THEN FullLoadAndQuery(L, bad) ELSE L
           U == UpdateValidImplList(Q)
           M == FullQuery(L, bad).L
           G(N) == N.fault = "none" /\ FullOnly(N) /\ Described(N) /\ Preserves(L, N)
<1>1. Core(Q)
  BY FullLoadLemma
<1>2. M = Q \/ (~Q.needFull /\ M = U)
  BY DEF FullQuery, Filtered
<1>3. G(Q) /\ Q.live
  <2>1. CASE L.needFull
    <3> DEFINE N == FullLoadAndQuery(L, bad)
    <3>1. Q = N
      BY <2>1
    <3>2. /\ N.fault = "none" /\ FullOnly(N) /\ Described(N) /\ N.live = L.live
          /\ NoD3D9(L) => OneRuntime(N)
      BY <2>1, FullLoadQuietLemma
    <3>3. /\ DOMAIN L.libs = {} => \A n \in Names : Leaked(N, n) = Leaked(L, n)
          /\ RuntimesAnswer /\ N.needFull => DOMAIN N.libs = {}
      BY <2>1, FullLoadQuietLemma
    <3> HIDE DEF N, Q
    <3>4. Preserves(L, N)
      BY <2>1, <3>2, <3>3 DEF Preserves, OneInv, Balanced
    <3> QED BY <3>1, <3>2, <3>4
  <2>2. CASE ~L.needFull
    <3>1. Q = L
      BY <2>2
    <3>2. Described(L)
      BY QuietLemma
    <3> QED BY <3>1, <3>2 DEF Preserves
  <2> QED BY <2>1, <2>2
<1> HIDE DEF Q
<1>4. G(U)
  <2>1. U.fault = "none" /\ Described(U) /\ (OneRuntime(Q) => OneRuntime(U))
    BY <1>1, <1>3, UpdateQuietLemma
  <2>2. SameLibs(Q, U) /\ U.live = Q.live /\ U.needFull = Q.needFull /\ U.needLow = Q.needLow
    BY <1>1, UpdateLemma
  <2> HIDE DEF U
  <2>3. \A n \in Names : Leaked(U, n) = Leaked(Q, n)
    BY <2>2 DEF SameLibs, Leaked, OpenIn
  <2>4. FullOnly(U)
    BY <1>3, <2>2 DEF FullOnly, NoneLow, SameLibs
  <2>5. OneInv(Q) => OneInv(U)
    BY <2>1, <2>2 DEF OneInv
  <2>6. Balanced(Q) => Balanced(U)
    BY <2>2, <2>3 DEF Balanced, SameLibs
  <2>7. Preserves(L, U)
    BY <1>3, <2>5, <2>6 DEF Preserves
  <2> QED BY <2>1, <2>4, <2>7
<1> HIDE DEF M, U
<1>5. G(M)
  BY <1>2, <1>3, <1>4
<1> QED BY <1>5 DEF M

\* MFXUnload closes what the loader holds.
LEMMA UnloadQuietLemma ==
    ASSUME NEW L, Core(L), ~HasFreedLib(L), L.fault = "none"
    PROVE  LET U == UnloadAllLibraries(L)
           IN  U.fault = "none" /\ \A n \in Names : U.dl[n] = Leaked(L, n)
<1> DEFINE V == UnloadLibs(L, DOMAIN L.libs)
           U == [V EXCEPT !.impls = EmptyList, !.ipos = EmptyList, !.next = 0]
<1>1. UnloadAllLibraries(L) = U
  BY DEF UnloadAllLibraries
<1>2. Core(V) /\ V.fault = L.fault /\ DOMAIN V.libs = DOMAIN L.libs \ DOMAIN L.libs
  BY UnloadLibsLemma
<1>3. \A n \in Names : Leaked(V, n) = Leaked(L, n)
  BY UnloadLibsLemma
<1> HIDE DEF V
<1>4. U.fault = V.fault /\ U.dl = V.dl
  BY <1>2 DEF Core, IsCtx, Fields
<1> HIDE DEF U
<1>5. ASSUME NEW n \in Names PROVE V.dl[n] = Leaked(V, n)
  <2>1. OpenIn(V, DOMAIN V.libs, n) = {} /\ V.dl[n] \in Int
    BY <1>2 DEF OpenIn, Core, CtxType
  <2> QED BY <2>1, FS_EmptySet DEF Leaked
<1> QED BY <1>1, <1>2, <1>3, <1>4, <1>5

-----------------------------------------------------------------------------
(***************************************************************************)
(* The low-latency search of a loader that has listed nothing for it       *)
(***************************************************************************)

LEMMA PushLowLibsLemma ==
    ASSUME NEW L, Core(L), NEW S \in SUBSET Names, NEW type \in {"VPL", "MSDK"}, NEW gone
    PROVE  LET N == PushLowLibs(L, S, type, gone)
           IN  /\ Core(N)
               /\ S = {} => N = L
               /\ S # {} => ~NoneLow(N)
               /\ S \cap gone = {} /\ NoneLow(L) => LowClean(N)
               /\ N.needLow = L.needLow
<1>1. CASE S = {}
  BY <1>1 DEF PushLowLibs, NoneLow, LowClean
<1>2. CASE S # {}
  <2> DEFINE n == CHOOSE m \in S : TRUE
             N == PushLowLib(L, n, type, gone)
             i == [name |-> n, origin |-> "low"]
  <2>1. n \in Names /\ n \in S
    BY <1>2
  <2>2. PushLowLibs(L, S, type, gone) = N
    BY <1>2 DEF PushLowLibs
  <2> HIDE DEF n
  <2>3. /\ Core(N) /\ i \in DOMAIN N.libs /\ (n \notin gone /\ NoneLow(L) => LowClean(N))
        /\ SameFlags(L, N)
    BY <2>1, PushLowLibLemma
  <2>4. i.origin = "low"
    OBVIOUS
  <2> HIDE DEF N, i
  <2> QED BY <1>2, <2>1, <2>2, <2>3, <2>4 DEF NoneLow, SameFlags
<1> QED BY <1>1, <1>2

\* The search fails without a trace only when it finds nothing, and what it
\* has listed when it succeeds is loaded, unless the VPL runtime was lost
\* between the two dlopen and the MSDK runtime took its place.
LEMMA LowLoadQuietLemma ==
    ASSUME NEW L, Core(L), NoneLow(L), NEW bad, NEW late
    PROVE  LET M == LoadLibsLowLatency(L, bad, late)
           IN  /\ M.needLow /\ NoneLow(M) => M = L
               /\ L.needLow /\ ~M.needLow /\ (LowVPL \cap late = {} \/ LowMSDK = {}) => LowClean(M)
               /\ LowVPL = {} /\ LowMSDK = {} => M = L
<1> DEFINE lost == late \cup {n \in LowMSDK : "MSDK" \notin Runtime[n].exports}
           V == PushLowLibs(L, LowVPL \ bad, "VPL", late)
           W == PushLowLibs(V, LowMSDK \ bad, "MSDK", lost)
           M == LoadLibsLowLatency(L, bad, late)
           c == [k \in DOMAIN W.cfgs |-> SetFilterProperty(W.cfgs[k], "ImplName", "mfxhw64")]
           A == [V EXCEPT !.needLow = FALSE]
           B == [W EXCEPT !.needLow = FALSE, !.cfgs = c]
<1>1. LowVPL \ bad \in SUBSET Names /\ LowMSDK \ bad \in SUBSET Names
  BY NamesAssumption
<1>2. /\ Core(V)
      /\ LowVPL \ bad = {} => V = L
      /\ LowVPL \ bad # {} => ~NoneLow(V)
      /\ (LowVPL \ bad) \cap late = {} => LowClean(V)
      /\ V.needLow = L.needLow
  BY <1>1, PushLowLibsLemma
<1>3. \/ /\ LowVPL \ (bad \cup late) # {} /\ M = A
      \/ /\ LowVPL \ (bad \cup late) = {} /\ LowMSDK \ (bad \cup lost) # {} /\ M = B
      \/ /\ LowVPL \ (bad \cup late) = {} /\ LowMSDK \ (bad \cup lost) = {} /\ M = W
  BY DEF LoadLibsLowLatency
<1> HIDE DEF V, lost
<1>4. /\ Core(W)
      /\ LowMSDK \ bad = {} => W = V
      /\ LowMSDK \ bad # {} => ~NoneLow(W)
      /\ (LowMSDK \ bad) \cap lost = {} /\ NoneLow(V) => LowClean(W)
      /\ W.needLow = V.needLow
  BY <1>1, <1>2, PushLowLibsLemma, ZenonT(60)
<1> HIDE DEF W, c
<1>5. A.libs = V.libs /\ ~A.needLow
  BY <1>2 DEF Core, IsCtx, Fields
<1>6. B.libs = W.libs /\ ~B.needLow
  BY <1>4 DEF Core, IsCtx, Fields
<1> HIDE DEF A, B, M
<1>7. CASE LowVPL \ (bad \cup late) # {} /\ M = A
  <2>1. (LowVPL \ bad) \cap late = {}
    BY <1>7, NamesAssumption
  <2>2. LowClean(A)
    BY <1>2, <1>5, <2>1 DEF LowClean
  <2> QED BY <1>5, <1>7, <2>2 DEF M
<1>8. CASE /\ LowVPL \ (bad \cup late) = {} /\ LowMSDK \ (bad \cup lost) # {} /\ M = B
  <2>1. ASSUME LowVPL \cap late = {} \/ LowMSDK = {} PROVE LowClean(B)
    <3>1. V = L
      BY <1>2, <1>8, <2>1
    <3>2. (LowMSDK \ bad) \cap lost = {}
      BY <1>8, NamesAssumption
    <3> QED BY <1>4, <1>6, <3>1, <3>2 DEF LowClean
  <2> QED BY <1>6, <1>8, <2>1 DEF M
<1>9. CASE /\ LowVPL \ (bad \cup late) = {} /\ LowMSDK \ (bad \cup lost) = {} /\ M = W
  <2>1. NoneLow(W) => W = L
    BY <1>2, <1>4
  <2>2. W.needLow = L.needLow
    BY <1>2, <1>4
  <2>3. LowVPL = {} /\ LowMSDK = {} => W = L
    BY <1>2, <1>4
  <2> QED BY <1>9, <2>1, <2>2, <2>3 DEF M
<1> QED BY <1>3, <1>7, <1>8, <1>9

LEMMA LowQueryQuietLemma ==
    ASSUME Core(ld), PhaseInv(ld), Ranks(ld), FullOnly(ld), ld.low, ld.fault = "none",
           NEW bad, NEW late
    PROVE  LET R == LowQuery(bad, late)
           IN  /\ LowVPL \cap late = {} \/ LowMSDK = {} =>
                    /\ R.L.fault = "none"
                    /\ R.ok => \A x \in DOMAIN R.L.impls : x.lib \in DOMAIN R.L.libs
               /\ FullOnly(R.L) => R.L = ld
               /\ LowVPL = {} /\ LowMSDK = {} => R.L = ld
<1> DEFINE V == LoadLibsLowLatency(ld, bad, late)
           Q == QueryLibraryCaps(V)
           R == LowQuery(bad, late)
<1>1. \/ V.needLow /\ R.L = V /\ ~R.ok
      \/ ~V.needLow /\ R.L = Q
  BY DEF LowQuery, LowQueryLoaded, FullOnly
<1>2. /\ V.needLow /\ NoneLow(V) => V = ld
      /\ ~V.needLow /\ (LowVPL \cap late = {} \/ LowMSDK = {}) => LowClean(V)
      /\ LowVPL = {} /\ LowMSDK = {} => V = ld
  BY LowLoadQuietLemma DEF FullOnly
<1>3. Core(V) /\ SameImpls(ld, V) /\ V.low = ld.low /\ V.needFull = ld.needFull
  BY LoadLowLemma, ZenonT(30)
<1>4. V.fault = ld.fault /\ SearchKept(ld, V)
  BY LoadLowLemma, ZenonT(30)
<1> HIDE DEF V
<1>5. \A x \in DOMAIN V.impls : x.low # V.low
  BY <1>3 DEF FullOnly, PhaseInv, SameImpls
<1>6. Q.needLow = V.needLow
  BY <1>3, <1>5, QueryLemma DEF SameFlags
<1>7. ASSUME LowClean(V) PROVE Q.fault = "none"
  <2> DEFINE drop == DroppedByQuery(V)
             new == ImplsOf(V, DOMAIN V.libs \ drop)
             A == AddImpls(V, drop, new, V.next)
  <2>1. ~HasFreedLib(V)
    <3> SUFFICES ASSUME NEW i \in DOMAIN V.libs PROVE ~V.libs[i].freed
      BY DEF HasFreedLib
    <3>1. i.origin \in {"search", "low"}
      BY <1>3 DEF Core, CtxType, LibsType, LibIds
    <3>2. i.origin = "search" => ~V.libs[i].freed
      BY <1>4 DEF SearchKept, Ranks, LibInv
    <3> QED BY <1>7, <3>1, <3>2 DEF LowClean
  <2>2. Q = IF A.low \/ DOMAIN A.impls = {} THEN A ELSE CompleteFullQuery(A)
    BY <2>1 DEF QueryLibraryCaps, AfterQuery, QueryEachLibrary
  <2>3. NewEntries(V, new) /\ drop \subseteq DOMAIN V.libs
    BY <1>3, <1>5, QueriedLemma DEF DroppedByQuery
  <2> HIDE DEF drop, new
  <2>4. A.fault = V.fault /\ SameFlags(V, A)
    BY <1>3, <2>3, AddImplsLemma
  <2> HIDE DEF A, Q
  <2> QED BY <1>3, <1>4, <2>2, <2>4 DEF SameFlags
<1>8. ASSUME ~V.needLow, Q.fault = "none", NEW x \in DOMAIN Q.impls
      PROVE  x.lib \in DOMAIN Q.libs
  <2>1. R.L = Q
    BY <1>1, <1>8
  <2>2. \A y \in DOMAIN Q.impls \ DOMAIN V.impls : y.lib \in DOMAIN Q.libs
    BY <1>3, <1>5, QueryLemma
  <2>3. Q.needFull = V.needFull
    BY <1>3, <1>5, QueryLemma DEF SameFlags
  <2>4. Ranks(R.L)
    <3>1. R.L.fault = "none"
      BY <1>8, <2>1
    <3> QED BY <3>1, LowQueryOrderLemma
  <2> HIDE DEF Q, R
  <2>5. CASE x \in DOMAIN V.impls
    <3>1. ~Q.needFull
      BY <1>3, <2>3, <2>5 DEF SameImpls, PhaseInv, FullOnly
    <3> QED BY <1>8, <2>1, <2>4, <3>1 DEF Ranks, SortedInv, HasFreedImpl
  <2> QED BY <1>8, <2>2, <2>5
<1> HIDE DEF Q, R
<1>9. FullOnly(R.L) => R.L = ld
  BY <1>1, <1>2, <1>6 DEF FullOnly
<1>10. LowVPL = {} /\ LowMSDK = {} => R.L = ld
  BY <1>1, <1>2 DEF FullOnly
<1>11. ASSUME LowVPL \cap late = {} \/ LowMSDK = {}
       PROVE  /\ R.L.fault = "none"
              /\ R.ok => \A x \in DOMAIN R.L.impls : x.lib \in DOMAIN R.L.libs
  BY <1>1, <1>2, <1>4, <1>7, <1>8, <1>11
<1> QED BY <1>9, <1>10, <1>11 DEF R

-----------------------------------------------------------------------------
(***************************************************************************)
(* The API calls                                                           *)
(***************************************************************************)

\* The low-latency search cannot lose the VPL runtime and go on with the
\* MSDK runtime.
Reopens(L) == ~L.low \/ LowVPL \cap Flaky = {} \/ LowMSDK = {}

\* What a call of a loader without low latency does.
QuietStep(a, b) ==
    /\ Reopens(a) => b.fault = "none"
    /\ FullOnly(b) => Preserves(a, b)
    /\ LowVPL = {} /\ LowMSDK = {} => FullOnly(b)

\* Running into a fault changes nothing else.
LEMMA CommitFaultLemma ==
    ASSUME NEW a, NEW b, NEW c, IsCtx(a), Commits(a, b, c), c.fault # "none"
    PROVE  SameFlags(a, b) /\ SameImpls(a, b) /\ SameLibs(a, b) /\ b.fault # "none"
  BY DEF Commits, IsCtx, Fields, SameFlags, SameImpls, SameLibs

LEMMA CommitQuietLemma ==
    ASSUME NEW a, NEW b, NEW c, IsCtx(a), FullOnly(a), Commits(a, b, c),
           Reopens(a) => c.fault = "none",
           c.fault = "none" /\ FullOnly(c) => Preserves(a, c),
           c.fault = "none" /\ LowVPL = {} /\ LowMSDK = {} => FullOnly(c)
    PROVE  QuietStep(a, b)
<1>1. CASE c.fault = "none"
  BY <1>1 DEF Commits, QuietStep
<1>2. CASE c.fault # "none"
  <2>1. SameFlags(a, b) /\ SameImpls(a, b) /\ SameLibs(a, b) /\ b.fault # "none"
    BY <1>2, CommitFaultLemma
  <2>2. Preserves(a, b)
    BY <2>1, PreservesSameLemma DEF SameFlags, SameImpls
  <2>3. FullOnly(b)
    BY <2>1 DEF FullOnly, NoneLow, SameFlags, SameLibs
  <2> QED BY <1>2, <2>2, <2>3 DEF QuietStep
<1> QED BY <1>1, <1>2

\* What holds of the loader before a call.
Quiet == Inv /\ ListInv /\ FullOnly(ld) /\ Ready

LEMMA EnumQuietLemma ==
    ASSUME Quiet, NEW i \in Indices, MFXEnumImplementations(i)
    PROVE  QuietStep(ld, ld')
<1>1. PICK bad : Commits(ld, ld', EnumQuery(bad).L)
  BY DEF MFXEnumImplementations, Commit, Commits
<1> DEFINE M == FullQuery(ld, bad).L
<1>2. EnumQuery(bad).L = M
  BY DEF EnumQuery, Quiet, FullOnly
<1>3. M.fault = "none" /\ FullOnly(M) /\ Preserves(ld, M)
  BY FullQueryQuietLemma DEF Quiet, Inv, ListInv, Ready
<1> HIDE DEF M
<1> QED BY <1>1, <1>2, <1>3, CommitQuietLemma DEF Quiet, Inv, Core

LEMMA SessionQuietLemma ==
    ASSUME Quiet, NEW i \in Indices, MFXCreateSession(i)
    PROVE  QuietStep(ld, ld')
<1>1. PICK bad \in SUBSET MayFail, late \in SUBSET {n \in MayFail : ld.low} :
        LET q == IF ld.low THEN LowQuery(bad, late) ELSE FullQuery(ld, bad)
            found == IF q.ok THEN Lookup(q.L, i) ELSE {}
        IN  Commits(ld, ld', IF \E x \in found : x.lib \notin DOMAIN q.L.libs
                             THEN Fault(q.L, "freed") ELSE q.L)
  <2>1. PICK bad \in SUBSET MayFail, late \in SUBSET {n \in MayFail : ld.low} :
        \E Q \in {IF ld.low THEN LowQuery(bad, late) ELSE FullQuery(ld, bad)} :
        LET found == IF Q.ok THEN Lookup(Q.L, i) ELSE {}
        IN  Commit(IF \E x \in found : x.lib \notin DOMAIN Q.L.libs
                      THEN Fault(Q.L, "freed") ELSE Q.L)
    BY DEF MFXCreateSession
  <2> DEFINE q == IF ld.low THEN LowQuery(bad, late) ELSE FullQuery(ld, bad)
             found == IF q.ok THEN Lookup(q.L, i) ELSE {}
  <2>2. Commits(ld, ld', IF \E x \in found : x.lib \notin DOMAIN q.L.libs
                         THEN Fault(q.L, "freed") ELSE q.L)
    BY <2>1 DEF Commit, Commits
  <2> QED BY <2>2
<1> DEFINE q == IF ld.low THEN LowQuery(bad, late) ELSE FullQuery(ld, bad)
           found == IF q.ok THEN Lookup(q.L, i) ELSE {}
           F == Fault(q.L, "freed")
           c == IF \E x \in found : x.lib \notin DOMAIN q.L.libs THEN F ELSE q.L
<1>2. Commits(ld, ld', c)
  BY <1>1
<1>3. Core(ld) /\ PhaseInv(ld) /\ Ranks(ld) /\ FullOnly(ld) /\ ld.fault = "none" /\ ld.live
  BY DEF Quiet, Inv, ListInv, Ready
<1>4. Core(q.L)
  <2>1. CASE ld.low
    BY <1>3, <2>1, LowQueryLemma
  <2>2. CASE ~ld.low
    BY <1>3, <2>2, FullQueryLemma
  <2> QED BY <2>1, <2>2
<1>5. found # {} => q.ok /\ found \subseteq DOMAIN q.L.impls
  BY DEF Lookup
<1>6. /\ Reopens(ld) => /\ q.L.fault = "none"
                        /\ q.ok => \A x \in DOMAIN q.L.impls : x.lib \in DOMAIN q.L.libs
      /\ FullOnly(q.L) => Preserves(ld, q.L)
      /\ LowVPL = {} /\ LowMSDK = {} => FullOnly(q.L)
  <2>1. CASE ld.low
    <3>1. q = LowQuery(bad, late)
      BY <2>1
    <3>2. LowVPL \cap Flaky = {} => LowVPL \cap late = {}
      BY DEF MayFail
    <3> HIDE DEF q
    <3>3. /\ LowVPL \cap late = {} \/ LowMSDK = {} =>
                    /\ q.L.fault = "none"
                    /\ q.ok => \A x \in DOMAIN q.L.impls : x.lib \in DOMAIN q.L.libs
          /\ FullOnly(q.L) => q.L = ld
          /\ LowVPL = {} /\ LowMSDK = {} => q.L = ld
      BY <1>3, <2>1, <3>1, LowQueryQuietLemma
    <3> QED BY <1>3, <2>1, <3>2, <3>3 DEF Reopens, Preserves
  <2>2. CASE ~ld.low
    <3>1. q = FullQuery(ld, bad)
      BY <2>2
    <3> HIDE DEF q
    <3>2. q.L.fault = "none" /\ FullOnly(q.L) /\ Described(q.L) /\ Preserves(ld, q.L)
      BY <1>3, <3>1, FullQueryQuietLemma
    <3> QED BY <3>2 DEF Described
  <2> QED BY <2>1, <2>2
<1>7. F.fault # "none"
  <2> HIDE DEF q
  <2> QED BY <1>4, FaultLemma DEF Faults
<1> HIDE DEF q, F, found
<1>8. c = q.L \/ c = F
  OBVIOUS
<1>9. Reopens(ld) => c = q.L
  BY <1>5, <1>6
<1> HIDE DEF c
<1> QED BY <1>2, <1>3, <1>6, <1>7, <1>8, <1>9, CommitQuietLemma DEF Core

\* Setting a filter, or creating a config object, changes no list.
LEMMA ConfigQuietLemma ==
    ASSUME Quiet,
           \/ MFXCreateConfig
           \/ \E c, p, v : MFXSetConfigFilterProperty(c, p, v)
    PROVE  QuietStep(ld, ld')
<1>1. IsCtx(ld) /\ ld.fault = "none" /\ FullOnly(ld)
  BY DEF Quiet, Inv, Core, Ready
<1>2. \/ \E c : ld' = [ld EXCEPT !.cfgs = c]
      \/ \E c, w : ld' = [ld EXCEPT !.cfgs = c, !.needUpdate = TRUE, !.low = w]
  BY DEF MFXCreateConfig, MFXSetConfigFilterProperty
<1>3. /\ SameLibs(ld, ld') /\ ld'.impls = ld.impls /\ ld'.needFull = ld.needFull
      /\ ld'.needLow = ld.needLow /\ ld'.live = ld.live /\ ld'.fault = "none"
  BY <1>1, <1>2 DEF IsCtx, Fields, SameLibs
<1>4. FullOnly(ld')
  BY <1>1, <1>3 DEF FullOnly, NoneLow, SameLibs
<1> QED BY <1>3, <1>4, PreservesSameLemma DEF QuietStep

LEMMA ReleaseQuietLemma ==
    ASSUME Quiet, NEW h, MFXDispReleaseImplDescription(h)
    PROVE  QuietStep(ld, ld')
<1>1. Described(ld) /\ FullOnly(ld) /\ ld.fault = "none"
  BY QuietLemma DEF Quiet, Inv, ListInv, Ready
<1>2. ReleaseStatus(ld, h) # "hang"
  BY <1>1 DEF ReleaseStatus, Described
<1>3. ld' = ld
  BY <1>2 DEF MFXDispReleaseImplDescription
<1> QED BY <1>1, <1>3 DEF QuietStep, Preserves

\* A new loader.
LEMMA NewLoaderQuietLemma ==
    ASSUME NEW dl \in [Names -> Int], NEW live
    PROVE  LET M == NewLoader(dl, live)
           IN  /\ M.fault = "none" /\ FullOnly(M) /\ OneInv(M)
               /\ (\A n \in Names : dl[n] = 0) => Balanced(M)
<1> DEFINE M == NewLoader(dl, live)
<1>1. /\ M.live = live /\ M.needFull = TRUE /\ M.needLow = TRUE
      /\ M.libs = EmptyList /\ M.dl = dl /\ M.fault = "none"
  BY DEF NewLoader
<1> HIDE DEF M
<1>2. DOMAIN M.libs = {}
  BY <1>1 DEF EmptyList
<1>3. FullOnly(M) /\ OneInv(M)
  BY <1>1, <1>2 DEF FullOnly, NoneLow, OneInv
<1>4. ASSUME NEW n \in Names PROVE Leaked(M, n) = dl[n]
  <2>1. OpenIn(M, DOMAIN M.libs, n) = {}
    BY <1>2 DEF OpenIn
  <2> QED BY <1>1, <2>1, FS_EmptySet DEF Leaked
<1> QED BY <1>1, <1>2, <1>3, <1>4 DEF Balanced, M

LEMMA UnloadStepLemma ==
    ASSUME Quiet, MFXUnload
    PROVE  QuietStep(ld, ld')
<1> DEFINE U == UnloadAllLibraries(ld)
           N == NewLoader(U.dl, FALSE)
<1>1. Core(ld) /\ IsCtx(ld) /\ FullOnly(ld) /\ ld.fault = "none" /\ ~HasFreedLib(ld)
  BY QuietLemma DEF Quiet, Inv, ListInv, Ready, Core
<1>2. U.fault = "none" /\ \A n \in Names : U.dl[n] = Leaked(ld, n)
  BY <1>1, UnloadQuietLemma
<1>3. Commits(ld, ld', N)
  BY <1>2 DEF MFXUnload, Commit, Commits
<1>4. U.dl \in [Names -> Int]
  BY <1>1, UnloadAllLemma DEF Core, CtxType
<1> HIDE DEF U
<1>5. /\ N.fault = "none" /\ FullOnly(N) /\ OneInv(N)
      /\ (\A n \in Names : U.dl[n] = 0) => Balanced(N)
  BY <1>4, NewLoaderQuietLemma
<1> HIDE DEF N
<1>6. Preserves(ld, N)
  BY <1>2, <1>5 DEF Preserves, Balanced
<1> QED BY <1>1, <1>3, <1>5, <1>6, CommitQuietLemma

LEMMA LoadStepLemma ==
    ASSUME Inv, MFXLoad
    PROVE  QuietStep(ld, ld')
<1> DEFINE N == NewLoader(ld.dl, TRUE)
<1>1. ld' = N /\ ~ld.live /\ ld.dl \in [Names -> Int]
  BY DEF MFXLoad, Inv, Core, CtxType
<1>2. /\ N.fault = "none" /\ FullOnly(N) /\ OneInv(N)
      /\ (\A n \in Names : ld.dl[n] = 0) => Balanced(N)
  BY <1>1, NewLoaderQuietLemma
<1> HIDE DEF N
<1>3. ASSUME Balanced(ld), NEW n \in Names PROVE ld.dl[n] = 0
  <2>1. DOMAIN ld.libs = {} /\ Leaked(ld, n) = 0
    BY <1>1, <1>3 DEF Balanced
  <2>2. OpenIn(ld, DOMAIN ld.libs, n) = {} /\ ld.dl[n] \in Int
    BY <1>1, <2>1 DEF OpenIn
  <2> QED BY <2>1, <2>2, FS_EmptySet DEF Leaked
<1> QED BY <1>1, <1>2, <1>3 DEF QuietStep, Preserves

\* Every call.
LEMMA QuietStepLemma ==
    ASSUME AllInv, FullOnly(ld), [Next]_vars
    PROVE  ld' = ld \/ (Running /\ QuietStep(ld, ld'))
<1>1. Inv /\ ListInv
  BY DEF AllInv
<1>2. ASSUME NEW i \in Indices, MFXEnumImplementations(i)
      PROVE  Running /\ QuietStep(ld, ld')
  <2>1. Quiet
    BY <1>1, <1>2 DEF Quiet, MFXEnumImplementations
  <2> QED BY <1>2, <2>1, EnumQuietLemma DEF Quiet, Ready, Running
<1>3. ASSUME NEW i \in Indices, MFXCreateSession(i)
      PROVE  Running /\ QuietStep(ld, ld')
  <2>1. Quiet
    BY <1>1, <1>3 DEF Quiet, MFXCreateSession
  <2> QED BY <1>3, <2>1, SessionQuietLemma DEF Quiet, Ready, Running
<1>4. ASSUME MFXCreateConfig \/ \E c, p, v : MFXSetConfigFilterProperty(c, p, v)
      PROVE  Running /\ QuietStep(ld, ld')
  <2>1. Quiet
    BY <1>1, <1>4 DEF Quiet, MFXCreateConfig, MFXSetConfigFilterProperty
  <2> QED BY <1>4, <2>1, ConfigQuietLemma DEF Quiet, Ready, Running
<1>5. ASSUME NEW h, MFXDispReleaseImplDescription(h)
      PROVE  Running /\ QuietStep(ld, ld')
  <2>1. Quiet
    BY <1>1, <1>5 DEF Quiet, MFXDispReleaseImplDescription
  <2> QED BY <1>5, <2>1, ReleaseQuietLemma DEF Quiet, Ready, Running
<1>6. ASSUME MFXUnload PROVE Running /\ QuietStep(ld, ld')
  <2>1. Quiet
    BY <1>1, <1>6 DEF Quiet, MFXUnload
  <2> QED BY <1>6, <2>1, UnloadStepLemma DEF Quiet, Ready, Running
<1>7. ASSUME MFXLoad PROVE Running /\ QuietStep(ld, ld')
  BY <1>1, <1>7, LoadStepLemma DEF MFXLoad, Running
<1>8. CASE UNCHANGED vars
  BY <1>8 DEF vars
<1> QED BY <1>2, <1>3, <1>4, <1>5, <1>6, <1>7, <1>8 DEF Next

\* A call that ends in a fault leaves the loader as it was.
LEMMA FaultStepLemma ==
    ASSUME AllInv, [Next]_vars, ld'.fault # "none"
    PROVE  ld' = ld \/ (Running /\ SameFlags(ld, ld') /\ SameLibs(ld, ld'))
<1>1. IsCtx(ld)
  BY DEF AllInv, Inv, Core
<1>2. ASSUME NEW c, Commit(c), Running PROVE Running /\ SameFlags(ld, ld') /\ SameLibs(ld, ld')
  <2>1. c.fault # "none"
    BY <1>2 DEF Commit
  <2> QED BY <1>1, <1>2, <2>1, CommitFaultLemma DEF Commit, Commits
<1>3. ASSUME NEW i \in Indices, MFXEnumImplementations(i)
      PROVE  Running /\ SameFlags(ld, ld') /\ SameLibs(ld, ld')
  <2>1. Running /\ \E c : Commit(c)
    BY <1>3 DEF MFXEnumImplementations, Ready, Running
  <2> QED BY <1>2, <2>1
<1>4. ASSUME NEW i \in Indices, MFXCreateSession(i)
      PROVE  Running /\ SameFlags(ld, ld') /\ SameLibs(ld, ld')
  <2>1. Running /\ \E c : Commit(c)
    BY <1>4 DEF MFXCreateSession, Ready, Running
  <2> QED BY <1>2, <2>1
<1>5. CASE MFXUnload
  <2>1. Running /\ \E c : Commit(c)
    BY <1>5 DEF MFXUnload, Ready, Running
  <2> QED BY <1>2, <2>1
<1>6. CASE MFXCreateConfig \/ \E c, p, v : MFXSetConfigFilterProperty(c, p, v)
  <2>1. Running
    BY <1>6 DEF MFXCreateConfig, MFXSetConfigFilterProperty, Ready, Running
  <2>2. \/ \E c : ld' = [ld EXCEPT !.cfgs = c]
        \/ \E c, w : ld' = [ld EXCEPT !.cfgs = c, !.needUpdate = TRUE, !.low = w]
    BY <1>6 DEF MFXCreateConfig, MFXSetConfigFilterProperty
  <2>3. ld'.fault = ld.fault
    BY <1>1, <2>2 DEF IsCtx, Fields
  <2> QED BY <2>1, <2>3 DEF Running
<1>7. CASE MFXLoad
  BY <1>7 DEF MFXLoad, NewLoader
<1>8. ASSUME NEW h, MFXDispReleaseImplDescription(h)
      PROVE  ld' = ld \/ (Running /\ SameFlags(ld, ld') /\ SameLibs(ld, ld'))
  <2>1. Running /\ (ld' = ld \/ ld' = Fault(ld, "hang"))
    BY <1>8 DEF MFXDispReleaseImplDescription, Ready, Running
  <2>2. SameFlags(ld, Fault(ld, "hang")) /\ SameLibs(ld, Fault(ld, "hang"))
    BY FaultLemma DEF Faults, AllInv, Inv
  <2> QED BY <2>1, <2>2
<1>9. CASE UNCHANGED vars
  BY <1>9 DEF vars
<1> QED BY <1>3, <1>4, <1>5, <1>6, <1>7, <1>8, <1>9 DEF Next

-----------------------------------------------------------------------------
(***************************************************************************)
(* Theorems                                                                *)
(***************************************************************************)

\* No call crashes or hangs as long as the low-latency search has listed
\* nothing, even if the call starts that search: what it lists is used only
\* when all of it is loaded.  The exception is a VPL runtime that can be
\* opened once but not again, which is freed but stays on the list, while
\* the MSDK runtime takes its place (LoadLibsLowLatency).
THEOREM NoFaultTheorem ==
    Spec => [](FullOnly(ld) /\ Reopens(ld) => NoFault)
<1> DEFINE I == FullOnly(ld) /\ Reopens(ld) => NoFault
<1>1. Init => I
  BY DEF Init, NewLoader, NoFault, Running
<1>2. AllInv /\ I /\ [Next]_vars => I'
  <2> SUFFICES ASSUME AllInv, I, [Next]_vars, FullOnly(ld'), Reopens(ld'), ld'.fault # "none"
               PROVE  FALSE
    BY DEF NoFault, Running
  <2>1. ld' # ld
    BY DEF NoFault, Running
  <2>2. Running /\ SameFlags(ld, ld') /\ SameLibs(ld, ld')
    BY <2>1, FaultStepLemma
  <2>3. FullOnly(ld) /\ Reopens(ld)
    BY <2>2 DEF FullOnly, NoneLow, Reopens, SameFlags, SameLibs
  <2>4. QuietStep(ld, ld')
    BY <2>1, <2>3, QuietStepLemma
  <2> QED BY <2>3, <2>4 DEF QuietStep
<1> HIDE DEF I
<1>3. Spec => []I
  BY <1>1, <1>2, AllInvLemma, PTL DEF Spec
<1> QED BY <1>3, PTL DEF I

\* Where no low-latency runtime is installed, no sequence of calls makes the
\* loader leave this state.
THEOREM FullOnlyTheorem ==
    ASSUME LowVPL = {}, LowMSDK = {}
    PROVE  Spec => [](FullOnly(ld) /\ NoFault)
<1> DEFINE I == FullOnly(ld)
<1>1. Init => I
  BY DEF Init, NewLoader, FullOnly, NoneLow, EmptyList
<1>2. AllInv /\ I /\ [Next]_vars => I'
  BY QuietStepLemma DEF QuietStep
<1>3. I => Reopens(ld)
  BY DEF Reopens
<1> HIDE DEF I
<1>4. Spec => []I
  BY <1>1, <1>2, AllInvLemma, PTL DEF Spec
<1>5. I /\ (FullOnly(ld) /\ Reopens(ld) => NoFault) => FullOnly(ld) /\ NoFault
  BY <1>3 DEF I
<1> QED BY <1>4, <1>5, NoFaultTheorem, PTL

\* A device that a VPL hardware runtime serves is never offered through an
\* MSDK runtime too, in whatever order filters are set, as long as none asks
\* for D3D9: the rule is applied once, by the query, and a filter that is set
\* later does not bring it back (QueryLibraryCaps).
THEOREM OneRuntimePerDeviceTheorem ==
    Spec /\ [](FullOnly(ld) /\ NoD3D9(ld)) => []OneRuntimePerDevice
<1> DEFINE P == FullOnly(ld) /\ NoD3D9(ld)
           I == OneInv(ld)
<1>1. Init => I
  BY DEF Init, NewLoader, OneInv
<1>2. AllInv /\ P /\ P' /\ I /\ [Next]_vars => I'
  BY QuietStepLemma DEF QuietStep, Preserves
<1>3. AllInv /\ I => OneRuntimePerDevice
  <2> SUFFICES ASSUME AllInv, I, ~ld.needUpdate, NEW x \in Valid(ld.impls), NEW y \in Valid(ld.impls),
                      IsVPL(ld, x), Desc(x).Impl = MFX_IMPL_TYPE_HARDWARE,
                      Desc(x).DeviceID = Desc(y).DeviceID
               PROVE  IsVPL(ld, y)
    BY DEF OneRuntimePerDevice
  <2>1. ~ld.needFull
    BY DEF AllInv, ListInv, Ranks, DenseInv
  <2>2. Serves(ld, x, y) /\ x \in DOMAIN ld.impls
    BY DEF Serves, Valid
  <2> QED BY <2>1, <2>2 DEF OneInv, OneRuntime
<1> HIDE DEF P, I
<1>4. Spec /\ []P => []I
  BY <1>1, <1>2, AllInvLemma, PTL DEF Spec
<1>5. Spec /\ []P => []OneRuntimePerDevice
  BY <1>3, <1>4, AllInvLemma, PTL
<1> QED BY <1>5, PTL DEF P

\* Every module handle of the process belongs to a LibInfo, and MFXUnload
\* closes it, provided that a runtime that reports capabilities has an
\* implementation the loader accepts: without it the full search is repeated,
\* and opens what is listed a second time (CheckValidLibraries).
THEOREM HandleBalanceTheorem ==
    ASSUME RuntimesAnswer
    PROVE  Spec /\ []FullOnly(ld) => []HandleBalance
<1> DEFINE P == FullOnly(ld)
           I == Balanced(ld)
<1>1. Init => I
  <2> SUFFICES ASSUME Init PROVE I
    OBVIOUS
  <2> DEFINE dl == [n \in Names |-> 0]
  <2>1. ld = NewLoader(dl, FALSE) /\ dl \in [Names -> Int] /\ \A n \in Names : dl[n] = 0
    BY DEF Init
  <2> HIDE DEF dl
  <2> QED BY <2>1, NewLoaderQuietLemma
<1>2. AllInv /\ P /\ P' /\ I /\ [Next]_vars => I'
  BY QuietStepLemma DEF QuietStep, Preserves
<1>3. AllInv /\ I => HandleBalance
  <2> SUFFICES ASSUME AllInv, I, NEW n \in Names
               PROVE  ld.dl[n] = Cardinality(OpenIn(ld, DOMAIN ld.libs, n))
    BY DEF HandleBalance
  <2>1. LibsType(ld.libs, ld.lpos) /\ ld.dl[n] \in Int
    BY DEF AllInv, Inv, Core, CtxType
  <2>2. Cardinality(OpenIn(ld, DOMAIN ld.libs, n)) \in Int
    BY <2>1, LibCountLemma DEF OpenIn
  <2> QED BY <2>1, <2>2 DEF Balanced, Leaked
<1> HIDE DEF P, I
<1>4. Spec /\ []P => []I
  BY <1>1, <1>2, AllInvLemma, PTL DEF Spec
<1>5. Spec /\ []P => []HandleBalance
  BY <1>3, <1>4, AllInvLemma, PTL
<1> QED BY <1>5, PTL DEF P
=============================================================================
