-------------------------- MODULE Dispatcher_proof --------------------------
(***************************************************************************)
(* Proofs about the loader of Dispatcher, for every set of libraries, every *)
(* search path and every sequence of calls.  One lemma per operation says  *)
(* what it keeps of the loader context; the theorems at the end combine    *)
(* them over the API calls.  The lemmas about the list operations of        *)
(* ListOrder, for every finite list, come first.                           *)
(***************************************************************************)
EXTENDS Dispatcher, FiniteSetTheorems, WellFoundedInduction, TLAPS

-----------------------------------------------------------------------------
(***************************************************************************)
(* The list operations of ListOrder                                        *)
(***************************************************************************)

IsTotalOrderOn(R, S) ==
    /\ \A x \in S : <<x, x>> \in R
    /\ \A x, y \in S : <<x, y>> \in R \/ <<y, x>> \in R
    /\ \A x, y \in S : <<x, y>> \in R /\ <<y, x>> \in R => x = y
    /\ \A x, y, z \in S : <<x, y>> \in R /\ <<y, z>> \in R => <<x, z>> \in R

\* Table only fixes how a function is evaluated.
LEMMA TableLemma == ASSUME NEW f PROVE Table(f) = f
  BY DEF Table

\* Ranking a finite set by a total order gives a list of it, in that order.
LEMMA RankLemma ==
    ASSUME NEW S, NEW R, IsFiniteSet(S), IsTotalOrderOn(R, S)
    PROVE  /\ IsList(Rank(S, R))
           /\ DOMAIN Rank(S, R) = S
           /\ \A x, y \in S : Rank(S, R)[x] <= Rank(S, R)[y] <=> <<x, y>> \in R
<1> DEFINE Below(x) == {y \in S : <<y, x>> \in R}
           rk == Rank(S, R)
<1>1. ASSUME NEW x \in S
      PROVE  /\ IsFiniteSet(Below(x)) /\ Cardinality(Below(x)) \in Nat
             /\ Cardinality(Below(x)) <= Cardinality(S)
             /\ Cardinality(Below(x)) >= 1
  <2>1. Below(x) \subseteq S /\ x \in Below(x)
    BY DEF IsTotalOrderOn
  <2>2. IsFiniteSet(Below(x)) /\ Cardinality(Below(x)) <= Cardinality(S)
    BY <2>1, FS_Subset
  <2>3. Cardinality(Below(x)) \in Nat
    BY <2>2, FS_CardinalityType
  <2>4. Cardinality(Below(x)) # 0
    BY <2>1, <2>2, FS_EmptySet
  <2> QED BY <2>2, <2>3, <2>4
<1>2. \A x \in S : rk[x] = Cardinality(Below(x))
  BY TableLemma DEF Rank
<1>3. DOMAIN rk = S
  BY TableLemma DEF Rank
<1>4. Cardinality(S) \in Nat
  BY FS_CardinalityType
<1>5. rk \in [S -> 1 .. Cardinality(S)]
  <2>1. rk = [x \in S |-> Cardinality(Below(x))]
    BY TableLemma DEF Rank
  <2>2. \A x \in S : Cardinality(Below(x)) \in 1 .. Cardinality(S)
    BY <1>1, <1>4
  <2> HIDE DEF Below, rk
  <2> QED BY <2>1, <2>2
<1>6. ASSUME NEW x \in S, NEW y \in S, <<x, y>> \in R
      PROVE  rk[x] <= rk[y]
  <2>1. Below(x) \subseteq Below(y)
    BY <1>6 DEF IsTotalOrderOn
  <2>2. IsFiniteSet(Below(y))
    BY <1>1
  <2>3. Cardinality(Below(x)) <= Cardinality(Below(y))
    BY <2>1, <2>2, FS_Subset
  <2> QED BY <2>3, <1>2
<1>7. ASSUME NEW x \in S, NEW y \in S, <<x, y>> \in R, x # y
      PROVE  rk[x] < rk[y]
  <2>1. Below(x) \subseteq Below(y) /\ y \in Below(y) /\ y \notin Below(x)
    BY <1>7 DEF IsTotalOrderOn
  <2>2. IsFiniteSet(Below(y)) /\ IsFiniteSet(Below(x))
    BY <1>1
  <2>3. Cardinality(Below(x)) <= Cardinality(Below(y))
    BY <2>1, <2>2, FS_Subset
  <2>4. Cardinality(Below(x)) # Cardinality(Below(y))
    BY <2>1, <2>2, FS_Subset
  <2>5. Cardinality(Below(x)) \in Nat /\ Cardinality(Below(y)) \in Nat
    BY <1>1
  <2> HIDE DEF Below
  <2> QED BY <2>3, <2>4, <2>5, <1>2
<1>8. ASSUME NEW x \in S, NEW y \in S, rk[x] <= rk[y]
      PROVE  <<x, y>> \in R
  <2>1. CASE <<x, y>> \in R
    BY <2>1
  <2>2. CASE <<x, y>> \notin R
    <3>1. <<y, x>> \in R /\ x # y
      BY <2>2 DEF IsTotalOrderOn
    <3>2. rk[y] < rk[x]
      BY <3>1, <1>7
    <3>3. rk[x] \in Nat /\ rk[y] \in Nat
      BY <1>1, <1>2
    <3> HIDE DEF rk
    <3> QED BY <3>2, <3>3, <1>8
  <2> QED BY <2>1, <2>2
<1>9. IsInjectiveOn(rk, S)
  <2> SUFFICES ASSUME NEW x \in S, NEW y \in S, rk[x] = rk[y]
               PROVE  x = y
    BY DEF IsInjectiveOn
  <2>1. rk[x] \in Nat /\ rk[y] \in Nat
    BY <1>1, <1>2
  <2>2. rk[x] <= rk[y] /\ rk[y] <= rk[x]
    BY <2>1
  <2>3. <<x, y>> \in R /\ <<y, x>> \in R
    BY <2>2, <1>8
  <2> QED BY <2>3 DEF IsTotalOrderOn
<1>10. IsList(rk)
  BY <1>3, <1>5, <1>9 DEF IsList
<1> HIDE DEF rk
<1>11. \A x, y \in S : rk[x] <= rk[y] <=> <<x, y>> \in R
  BY <1>6, <1>8
<1> QED BY <1>3, <1>10, <1>11 DEF rk

\* A stable sort returns a list of the same elements, ordered by key and,
\* between equal keys, by the old position.
LEMMA SortByLemma ==
    ASSUME NEW p, IsList(p), NEW k \in [DOMAIN p -> Int]
    PROVE  /\ IsList(SortBy(p, k))
           /\ DOMAIN SortBy(p, k) = DOMAIN p
           /\ \A x, y \in DOMAIN p :
                SortBy(p, k)[x] <= SortBy(p, k)[y]
                  <=> k[x] < k[y] \/ (k[x] = k[y] /\ p[x] <= p[y])
<1> DEFINE S == DOMAIN p
           R == KeyOrder(S, p, k)
<1>1. IsFiniteSet(S) /\ Cardinality(S) \in Nat
  BY FS_CardinalityType DEF IsList
<1>2. \A x \in S : p[x] \in Int
  BY <1>1 DEF IsList
<1>3. \A x \in S : k[x] \in Int
  OBVIOUS
<1>4. ASSUME NEW x \in S, NEW y \in S
      PROVE  <<x, y>> \in R <=> k[x] < k[y] \/ (k[x] = k[y] /\ p[x] <= p[y])
  <2> HIDE DEF S
  <2> QED BY DEF KeyOrder
<1>5. \A x, y \in S : p[x] = p[y] => x = y
  BY DEF IsList, IsInjectiveOn
<1> HIDE DEF R
<1>6. \A x, y \in S : <<x, y>> \in R /\ <<y, x>> \in R => x = y
  BY <1>2, <1>3, <1>4, <1>5
<1>7. ASSUME NEW x \in S, NEW y \in S
      PROVE  <<x, y>> \in R \/ <<y, x>> \in R
  BY <1>2, <1>3, <1>4
<1>8. \A x, y, z \in S : <<x, y>> \in R /\ <<y, z>> \in R => <<x, z>> \in R
  BY <1>2, <1>3, <1>4
<1>9. IsTotalOrderOn(R, S)
  BY <1>6, <1>7, <1>8 DEF IsTotalOrderOn
<1>10. SortBy(p, k) = Rank(S, R)
  BY DEF SortBy, R
<1>11. /\ IsList(Rank(S, R)) /\ DOMAIN Rank(S, R) = S
       /\ \A x, y \in S : Rank(S, R)[x] <= Rank(S, R)[y] <=> <<x, y>> \in R
  BY <1>1, <1>9, RankLemma
<1> QED BY <1>4, <1>10, <1>11

\* Erasing elements leaves a list of the others in the same order.
LEMMA KeepLemma ==
    ASSUME NEW p, IsList(p), NEW T
    PROVE  /\ IsList(Keep(p, T))
           /\ DOMAIN Keep(p, T) = DOMAIN p \cap T
           /\ \A x, y \in DOMAIN p \cap T :
                Keep(p, T)[x] <= Keep(p, T)[y] <=> p[x] <= p[y]
<1> DEFINE S == DOMAIN p \cap T
           R == {r \in S \X S : p[r[1]] <= p[r[2]]}
<1>1. IsFiniteSet(S) /\ Cardinality(DOMAIN p) \in Nat
  BY FS_Subset, FS_CardinalityType DEF IsList
<1>2. \A x \in S : p[x] \in Int
  BY <1>1 DEF IsList
<1>3. \A x, y \in S : <<x, y>> \in R <=> p[x] <= p[y]
  OBVIOUS
<1>4. \A x, y \in S : p[x] = p[y] => x = y
  BY DEF IsList, IsInjectiveOn
<1>5. Keep(p, T) = Rank(S, R)
  BY DEF Keep
<1> HIDE DEF R, S
<1>6. \A x, y \in S : <<x, y>> \in R /\ <<y, x>> \in R => x = y
  BY <1>2, <1>3, <1>4
<1>7. ASSUME NEW x \in S, NEW y \in S
      PROVE  <<x, y>> \in R \/ <<y, x>> \in R
  BY <1>2, <1>3
<1>8. \A x, y, z \in S : <<x, y>> \in R /\ <<y, z>> \in R => <<x, z>> \in R
  BY <1>2, <1>3
<1>9. IsTotalOrderOn(R, S)
  BY <1>6, <1>7, <1>8 DEF IsTotalOrderOn
<1>10. /\ IsList(Rank(S, R)) /\ DOMAIN Rank(S, R) = S
       /\ \A x, y \in S : Rank(S, R)[x] <= Rank(S, R)[y] <=> <<x, y>> \in R
  BY <1>1, <1>9, RankLemma
<1> QED BY <1>3, <1>5, <1>10 DEF S

\* An injective integer key lists a finite set in the order of the key.
LEMMA ListByKeyLemma ==
    ASSUME NEW S, IsFiniteSet(S), NEW k \in [S -> Int], IsInjectiveOn(k, S)
    PROVE  /\ IsList(ListByKey(S, k))
           /\ DOMAIN ListByKey(S, k) = S
           /\ \A x, y \in S :
                ListByKey(S, k)[x] <= ListByKey(S, k)[y] <=> k[x] <= k[y]
<1> DEFINE R == {r \in S \X S : k[r[1]] <= k[r[2]]}
<1>1. \A x, y \in S : <<x, y>> \in R <=> k[x] <= k[y]
  OBVIOUS
<1>2. \A x \in S : k[x] \in Int
  OBVIOUS
<1>3. ListByKey(S, k) = Rank(S, R)
  BY DEF ListByKey
<1> HIDE DEF R
<1>4. \A x, y \in S : <<x, y>> \in R /\ <<y, x>> \in R => x = y
  BY <1>1, <1>2 DEF IsInjectiveOn
<1>5. ASSUME NEW x \in S, NEW y \in S
      PROVE  <<x, y>> \in R \/ <<y, x>> \in R
  BY <1>1, <1>2
<1>6. \A x, y, z \in S : <<x, y>> \in R /\ <<y, z>> \in R => <<x, z>> \in R
  BY <1>1, <1>2
<1>7. IsTotalOrderOn(R, S)
  BY <1>4, <1>5, <1>6 DEF IsTotalOrderOn
<1>8. /\ IsList(Rank(S, R)) /\ DOMAIN Rank(S, R) = S
       /\ \A x, y \in S : Rank(S, R)[x] <= Rank(S, R)[y] <=> <<x, y>> \in R
  BY <1>7, RankLemma
<1> QED BY <1>1, <1>3, <1>8

\* A set with an injective key below a bound is finite.
LEMMA BoundedKeyLemma ==
    ASSUME NEW S, NEW N \in Nat, NEW k \in [S -> 0 .. N], IsInjectiveOn(k, S)
    PROVE  IsFiniteSet(S) /\ k \in [S -> Int]
<1> DEFINE T == 0 .. N
<1>1. IsFiniteSet(T)
  BY FS_Interval
<1>2. k \in [S -> T] /\ T \subseteq Int
  OBVIOUS
<1> HIDE DEF T
<1>3. k \in Injection(S, T)
  BY <1>2 DEF Injection, IsInjective, IsInjectiveOn
<1>4. IsFiniteSet(S)
  BY <1>1, <1>3, FS_Injection
<1> QED BY <1>2, <1>4

\* Appending a list of other elements gives a list, in which every old
\* element keeps its position and stands before every new one.
LEMMA PushBackLemma ==
    ASSUME NEW p, NEW q, IsList(p), IsList(q), DOMAIN p \cap DOMAIN q = {}
    PROVE  /\ IsList(PushBack(p, q))
           /\ DOMAIN PushBack(p, q) = DOMAIN p \cup DOMAIN q
           /\ \A x \in DOMAIN p : PushBack(p, q)[x] = p[x]
           /\ \A x \in DOMAIN q :
                PushBack(p, q)[x] = Cardinality(DOMAIN p) + q[x]
<1> DEFINE S == DOMAIN p
           T == DOMAIN q
           f == PushBack(p, q)
           m == Cardinality(S)
           n == Cardinality(T)
<1>1. IsFiniteSet(S) /\ IsFiniteSet(T) /\ m \in Nat /\ n \in Nat
  BY FS_CardinalityType DEF IsList
<1>2. IsFiniteSet(S \cup T) /\ Cardinality(S \cup T) = m + n
  <2>1. S \cap T = {}
    OBVIOUS
  <2>2. Cardinality(S \cap T) = 0
    BY <2>1, FS_EmptySet
  <2>3. /\ IsFiniteSet(S \cup T)
        /\ Cardinality(S \cup T) = m + n - Cardinality(S \cap T)
    BY <1>1, FS_Union
  <2> HIDE DEF S, T
  <2> QED BY <1>1, <2>2, <2>3
<1>3. \A x \in S : p[x] \in 1 .. m
  BY DEF IsList
<1>4. \A x \in T : q[x] \in 1 .. n
  BY DEF IsList
<1>5. DOMAIN f = S \cup T
  BY TableLemma DEF PushBack
<1>6. \A x \in S : f[x] = p[x]
  BY TableLemma DEF PushBack
<1>7. \A x \in T : f[x] = m + q[x]
  BY TableLemma DEF PushBack
<1>8. f = [x \in S \cup T |-> f[x]]
  BY TableLemma DEF PushBack
<1>9. \A x, y \in S : p[x] = p[y] => x = y
  BY DEF IsList, IsInjectiveOn
<1>10. \A x, y \in T : q[x] = q[y] => x = y
  BY DEF IsList, IsInjectiveOn
<1> HIDE DEF f, m, n, S, T
<1>11. \A x \in S \cup T : f[x] \in 1 .. (m + n)
  BY <1>1, <1>3, <1>4, <1>6, <1>7
<1>12. \A x, y \in S \cup T : f[x] = f[y] => x = y
  BY <1>1, <1>3, <1>4, <1>6, <1>7, <1>9, <1>10
<1>13. f \in [S \cup T -> 1 .. (m + n)]
  BY <1>8, <1>11
<1>14. IsList(f)
  BY <1>2, <1>5, <1>12, <1>13 DEF IsList, IsInjectiveOn
<1> QED BY <1>5, <1>6, <1>7, <1>14 DEF f, S, T, m

\* Numbering the elements of T by the elements of T before them gives
\* distinct numbers below the size of T.
LEMMA CountLemma ==
    ASSUME NEW p, IsList(p), NEW T, T \subseteq DOMAIN p
    PROVE  /\ \A x \in T : CountBefore(p, T, x) \in 0 .. (Cardinality(T) - 1)
           /\ \A x, y \in T : CountBefore(p, T, x) = CountBefore(p, T, y) => x = y
<1> DEFINE B(x) == {y \in T : p[y] < p[x]}
<1>1. IsFiniteSet(T) /\ Cardinality(T) \in Nat
  BY FS_Subset, FS_CardinalityType DEF IsList
<1>2. \A x \in T : p[x] \in Int
  <2>1. Cardinality(DOMAIN p) \in Nat
    BY FS_CardinalityType DEF IsList
  <2> QED BY <2>1 DEF IsList
<1>3. \A x, y \in T : p[x] = p[y] => x = y
  BY DEF IsList, IsInjectiveOn
<1>4. ASSUME NEW x \in T, NEW U, IsFiniteSet(U), B(x) \subseteq U, x \in U
      PROVE  /\ Cardinality(B(x)) \in Nat
             /\ Cardinality(B(x)) < Cardinality(U)
  <2>1. x \notin B(x)
    BY <1>2
  <2>2. IsFiniteSet(B(x)) /\ Cardinality(B(x)) <= Cardinality(U)
    BY <1>4, FS_Subset
  <2>3. Cardinality(B(x)) # Cardinality(U)
    BY <1>4, <2>1, FS_Subset
  <2>4. Cardinality(B(x)) \in Nat /\ Cardinality(U) \in Nat
    BY <1>4, <2>2, FS_CardinalityType
  <2> HIDE DEF B
  <2> QED BY <2>2, <2>3, <2>4
<1>5. \A x \in T : CountBefore(p, T, x) = Cardinality(B(x))
  BY DEF CountBefore
<1>6. ASSUME NEW x \in T
      PROVE  CountBefore(p, T, x) \in 0 .. (Cardinality(T) - 1)
  <2>1. B(x) \subseteq T
    OBVIOUS
  <2>2. Cardinality(B(x)) \in Nat /\ Cardinality(B(x)) < Cardinality(T)
    BY <1>1, <1>4, <2>1
  <2> HIDE DEF B
  <2> QED BY <1>1, <1>5, <2>2
<1>7. ASSUME NEW x \in T, NEW y \in T, p[x] < p[y]
      PROVE  CountBefore(p, T, x) < CountBefore(p, T, y)
  <2>1. IsFiniteSet(B(y))
    BY <1>1, FS_Subset
  <2>2. B(x) \subseteq B(y) /\ x \in B(y)
    BY <1>2, <1>7
  <2>3. Cardinality(B(x)) < Cardinality(B(y))
    BY <1>4, <2>1, <2>2
  <2> QED BY <1>5, <2>3
<1>8. ASSUME NEW x \in T, NEW y \in T,
             CountBefore(p, T, x) = CountBefore(p, T, y)
      PROVE  x = y
  <2>1. CountBefore(p, T, x) \in Int /\ CountBefore(p, T, y) \in Int
    BY <1>6
  <2>2. ~(p[x] < p[y]) /\ ~(p[y] < p[x])
    BY <1>7, <1>8, <2>1
  <2>3. p[x] = p[y]
    BY <1>2, <2>2
  <2> QED BY <1>3, <2>3
<1> QED BY <1>6, <1>8

-----------------------------------------------------------------------------
(***************************************************************************)
(* Loader contexts                                                         *)
(***************************************************************************)

Fields == {"live", "low", "needUpdate", "needFull", "needLow", "cfgs", "libs", "lpos",
           "impls", "ipos", "next", "dl", "fault"}

\* The record of a loader context.
IsCtx(L) == L = [f \in Fields |-> L[f]]

SameFlags(L, M) ==
    /\ M.live = L.live /\ M.low = L.low /\ M.needUpdate = L.needUpdate
    /\ M.needFull = L.needFull /\ M.needLow = L.needLow /\ M.cfgs = L.cfgs

SameImpls(L, M) == M.impls = L.impls /\ M.ipos = L.ipos /\ M.next = L.next

SameLibs(L, M) == M.libs = L.libs /\ M.lpos = L.lpos /\ M.dl = L.dl

\* The number of handles of path n that no LibInfo of the loader holds.
Leaked(L, n) == L.dl[n] - Cardinality(OpenIn(L, DOMAIN L.libs, n))

\* The part of the inductive invariant that every operation preserves.
Core(L) == IsCtx(L) /\ CtxType(L) /\ IndexInv(L.impls, L.next)

-----------------------------------------------------------------------------
\* Running into a fault changes nothing else.
LEMMA FaultLemma ==
    ASSUME NEW L, Core(L), NEW k \in Faults \ {"none"}
    PROVE  LET M == Fault(L, k)
           IN  Core(M) /\ SameFlags(L, M) /\ SameImpls(L, M) /\ SameLibs(L, M) /\ M.fault # "none"
<1> DEFINE M == Fault(L, k)
<1>0. IsCtx(L)
  BY DEF Core
<1>1. IsCtx(M)
  BY <1>0 DEF IsCtx, Fault
<1>2. SameFlags(L, M) /\ SameImpls(L, M) /\ SameLibs(L, M)
  BY <1>0 DEF IsCtx, Fields, Fault, SameFlags, SameImpls, SameLibs
<1>3. M.fault = IF L.fault = "none" THEN k ELSE L.fault
  BY <1>0 DEF IsCtx, Fields, Fault
<1>4. M.fault \in Faults /\ M.fault # "none"
  BY <1>3 DEF Core, CtxType
<1> HIDE DEF M
<1>5. Core(M)
  BY <1>1, <1>2, <1>4 DEF Core, CtxType, SameFlags, SameImpls, SameLibs
<1> QED BY <1>2, <1>4, <1>5 DEF M

\* A context that differs from L in its libraries only.
LEMMA CoreLibsLemma ==
    ASSUME NEW L, NEW M, Core(L), IsCtx(M), SameFlags(L, M), SameImpls(L, M), M.fault \in Faults,
           LibsType(M.libs, M.lpos), M.dl \in [Names -> Int]
    PROVE  Core(M)
  BY DEF Core, CtxType, SameFlags, SameImpls

-----------------------------------------------------------------------------
(***************************************************************************)
(* Libraries                                                               *)
(***************************************************************************)

\* Counting the LibInfos of a path gives a number.
LEMMA LibCountLemma ==
    ASSUME NEW libs, NEW lpos, LibsType(libs, lpos), NEW S, S \subseteq DOMAIN libs
    PROVE  IsFiniteSet(S) /\ Cardinality(S) \in Int
<1>1. IsFiniteSet(DOMAIN libs)
  BY DEF LibsType, IsList
<1>2. IsFiniteSet(S)
  BY <1>1, FS_Subset
<1>3. Cardinality(S) \in Nat
  BY <1>2, FS_CardinalityType
<1> QED BY <1>2, <1>3

\* Unloading libraries leaves the others, in their order.
LEMMA UnloadLibsLemma ==
    ASSUME NEW L, Core(L), NEW T, T \subseteq DOMAIN L.libs
    PROVE  LET U == UnloadLibs(L, T)
           IN  /\ Core(U) /\ SameFlags(L, U) /\ SameImpls(L, U) /\ U.fault = L.fault
               /\ DOMAIN U.libs = DOMAIN L.libs \ T
               /\ \A i \in DOMAIN U.libs : U.libs[i] = L.libs[i]
               /\ \A n \in Names : Leaked(U, n) = Leaked(L, n)
<1> DEFINE libs == Table([i \in DOMAIN L.libs \ T |-> L.libs[i]])
           lpos == Keep(L.lpos, DOMAIN L.libs \ T)
           dl   == Table([n \in Names |-> L.dl[n] - Cardinality(OpenIn(L, T, n))])
<1>1. LibsType(L.libs, L.lpos) /\ L.dl \in [Names -> Int]
  BY DEF Core, CtxType
<1>2. libs = [i \in DOMAIN L.libs \ T |-> L.libs[i]]
  BY TableLemma
<1>3. IsList(lpos) /\ DOMAIN lpos = DOMAIN L.libs \ T
  <2>1. IsList(L.lpos) /\ DOMAIN L.lpos = DOMAIN L.libs
    BY <1>1 DEF LibsType
  <2>2. IsList(lpos) /\ DOMAIN lpos = DOMAIN L.lpos \cap (DOMAIN L.libs \ T)
    BY <2>1, KeepLemma
  <2> QED BY <2>1, <2>2
<1>4. dl \in [Names -> Int]
  <2>1. dl = [n \in Names |-> L.dl[n] - Cardinality(OpenIn(L, T, n))]
    BY TableLemma
  <2>2. ASSUME NEW n \in Names
        PROVE  L.dl[n] - Cardinality(OpenIn(L, T, n)) \in Int
    <3>1. OpenIn(L, T, n) \subseteq DOMAIN L.libs
      BY DEF OpenIn
    <3>2. Cardinality(OpenIn(L, T, n)) \in Int
      BY <1>1, <3>1, LibCountLemma
    <3> QED BY <1>1, <3>2
  <2> QED BY <2>1, <2>2
<1> DEFINE U == UnloadLibs(L, T)
<1>5. /\ IsCtx(U) /\ SameFlags(L, U) /\ SameImpls(L, U) /\ U.fault = L.fault
      /\ U.libs = libs /\ U.lpos = lpos /\ U.dl = dl
  <2> HIDE DEF libs, lpos, dl
  <2>1. U = [L EXCEPT !.libs = libs, !.lpos = lpos, !.dl = dl]
    BY DEF UnloadLibs, libs, lpos, dl
  <2>2. IsCtx(L)
    BY DEF Core
  <2> HIDE DEF U
  <2>3. IsCtx(U)
    BY <2>1, <2>2 DEF IsCtx
  <2> QED BY <2>1, <2>2, <2>3 DEF IsCtx, Fields, SameFlags, SameImpls
<1> HIDE DEF libs, lpos, dl, U
<1>6. LibsType(libs, lpos)
  BY <1>1, <1>2, <1>3 DEF LibsType
<1>7. L.fault \in Faults
  BY DEF Core, CtxType
<1>8. Core(U)
  BY <1>4, <1>5, <1>6, <1>7, CoreLibsLemma
<1>9. ASSUME NEW n \in Names PROVE Leaked(U, n) = Leaked(L, n)
  <2> DEFINE S == OpenIn(L, DOMAIN L.libs, n)
             O == OpenIn(L, T, n)
             R == OpenIn(U, DOMAIN U.libs, n)
  <2>1. R = S \ O
    BY <1>2, <1>5 DEF OpenIn
  <2>2. S \cap O = O /\ S \subseteq DOMAIN L.libs /\ O \subseteq DOMAIN L.libs
    BY DEF OpenIn
  <2>3. U.dl[n] = L.dl[n] - Cardinality(O) /\ L.dl[n] \in Int
    <3>1. dl = [m \in Names |-> L.dl[m] - Cardinality(OpenIn(L, T, m))]
      BY TableLemma DEF dl
    <3> QED BY <1>1, <1>5, <3>1
  <2> HIDE DEF S, O, R
  <2>4. /\ IsFiniteSet(S) /\ Cardinality(S) \in Int
        /\ IsFiniteSet(O) /\ Cardinality(O) \in Int
    BY <1>1, <2>2, LibCountLemma
  <2>5. Cardinality(R) = Cardinality(S) - Cardinality(O)
    <3>1. Cardinality(S \ O) = Cardinality(S) - Cardinality(S \cap O)
      BY <2>4, FS_Difference
    <3> QED BY <2>1, <2>2, <3>1, Zenon
  <2>6. U.dl[n] - Cardinality(R) = L.dl[n] - Cardinality(S)
    BY <2>3, <2>4, <2>5
  <2> QED BY <2>6 DEF Leaked, R, S
<1> QED BY <1>2, <1>5, <1>8, <1>9 DEF U

\* UnloadAllLibraries empties the list of implementations, unless it meets a
\* LibInfo that is already freed.
LEMMA UnloadAllLemma ==
    ASSUME NEW L, Core(L)
    PROVE  LET U == UnloadAllLibraries(L)
           IN  /\ Core(U) /\ SameFlags(L, U)
               /\ U.impls = L.impls \/ DOMAIN U.impls = {}
<1>1. CASE HasFreedLib(L)
  BY <1>1, FaultLemma DEF UnloadAllLibraries, Faults, SameImpls
<1>2. CASE ~HasFreedLib(L)
  <2> DEFINE V == UnloadLibs(L, DOMAIN L.libs)
             U == [V EXCEPT !.impls = EmptyList, !.ipos = EmptyList, !.next = 0]
  <2>1. Core(V) /\ SameFlags(L, V)
    BY UnloadLibsLemma
  <2>2. UnloadAllLibraries(L) = U
    BY <1>2 DEF UnloadAllLibraries
  <2> HIDE DEF V
  <2>3. IsCtx(U)
    BY <2>1 DEF Core, IsCtx
  <2>4. /\ SameFlags(V, U) /\ SameLibs(V, U) /\ U.fault = V.fault
        /\ U.impls = EmptyList /\ U.ipos = EmptyList /\ U.next = 0
    BY <2>1 DEF Core, IsCtx, Fields, SameFlags, SameLibs
  <2> HIDE DEF U
  <2>5. DOMAIN EmptyList = {}
    BY DEF EmptyList
  <2>6. IsList(EmptyList)
    BY <2>5, FS_EmptySet DEF IsList, IsInjectiveOn, EmptyList
  <2>7. ImplsType(U.impls, U.ipos)
    BY <2>4, <2>5, <2>6 DEF ImplsType
  <2>8. IndexInv(U.impls, U.next)
    BY <2>4, <2>5, FS_EmptySet DEF IndexInv, Valid
  <2>9. CtxType(U)
    BY <2>1, <2>4, <2>7 DEF Core, CtxType, SameFlags, SameLibs
  <2> QED BY <2>1, <2>2, <2>3, <2>4, <2>5, <2>8, <2>9 DEF Core, SameFlags
<1> QED BY <1>1, <1>2

\* A path that the search finds has a first hit.
LEMMA FirstHitLemma ==
    ASSUME NEW n, \E k \in DOMAIN Search : Search[k].name = n
    PROVE  FirstHit(n) \in DOMAIN Search /\ Search[FirstHit(n)].name = n
<1> DEFINE hits == {k \in DOMAIN Search : Search[k].name = n}
<1>1. hits \subseteq Nat /\ hits # {}
  <2>1. DOMAIN Search \subseteq Nat
    BY NamesAssumption
  <2> QED BY <2>1
<1>2. \E k \in hits : \A j \in hits : k <= j
  <2> DEFINE R == {r \in Nat \X Nat : r[1] < r[2]}
  <2>1. R = OpToRel(<, Nat)
    BY Zenon DEF OpToRel
  <2>2. IsWellFoundedOn(R, Nat)
    BY <2>1, NatLessThanWellFounded
  <2>3. PICK k \in hits : \A j \in hits : ~(<<j, k>> \in R)
    BY <1>1, <2>2, WFMin
  <2>4. ASSUME NEW j \in hits PROVE k <= j
    <3>1. j \in Nat /\ k \in Nat /\ <<j, k>> \notin R
      BY <1>1, <2>3
    <3> HIDE DEF hits
    <3> QED BY <3>1
  <2> QED BY <2>4
<1>3. FirstHit(n) \in hits
  BY <1>2 DEF FirstHit
<1> QED BY <1>3

\* Listing the candidate libraries: every found path once.
LEMMA BuildLemma ==
    ASSUME NEW L, Core(L)
    PROVE  LET M == BuildListOfCandidateLibs(L)
           IN  /\ Core(M) /\ SameFlags(L, M) /\ SameImpls(L, M)
               /\ M.dl = L.dl /\ (~HasFreedLib(L) => M.fault = L.fault)
               /\ \A i \in DOMAIN M.libs :
                    \/ i \in DOMAIN L.libs /\ M.libs[i] = L.libs[i]
                    \/ /\ i.origin = "search" /\ M.libs[i].type = "none"
                       /\ ~M.libs[i].freed /\ ~HasFreedLib(L)
<1> DEFINE listed == {i.name : i \in DOMAIN L.libs}
           found  == {Search[k].name : k \in DOMAIN Search}
           new    == {i \in LibIds : i.origin = "search" /\ i.name \in found \ listed}
           key    == [i \in new |-> FirstHit(i.name)]
           libs   == Table([i \in DOMAIN L.libs \cup new |->
                            IF i \in DOMAIN L.libs THEN L.libs[i]
                            ELSE [type |-> "none", prio |-> Search[FirstHit(i.name)].prio,
                                  mod |-> FALSE, freed |-> FALSE]])
           lpos   == PushBack(L.lpos, ListByKey(new, key))
<1>1. CASE HasFreedLib(L)
  BY <1>1, FaultLemma DEF BuildListOfCandidateLibs, Faults, SameLibs
<1>2. CASE ~HasFreedLib(L)
  <2>1. LibsType(L.libs, L.lpos) /\ L.dl \in [Names -> Int] /\ L.fault \in Faults /\ IsCtx(L)
    BY DEF Core, CtxType
  <2>2. Len(Search) \in Nat /\ DOMAIN Search = 1 .. Len(Search)
    BY NamesAssumption
  <2>3. ASSUME NEW i \in new
        PROVE  /\ key[i] \in 0 .. Len(Search) /\ Search[key[i]].name = i.name
               /\ Search[key[i]].prio \in Nat /\ i \notin DOMAIN L.libs
    <3>1. FirstHit(i.name) \in DOMAIN Search /\ Search[FirstHit(i.name)].name = i.name
      BY FirstHitLemma
    <3>2. key[i] = FirstHit(i.name)
      OBVIOUS
    <3>3. i \notin DOMAIN L.libs
      OBVIOUS
    <3>4. \A k \in DOMAIN Search : Search[k].prio \in Nat
      <4> DEFINE X == [name : Names, prio : Nat]
      <4>1. Search \in Seq(X)
        BY NamesAssumption
      <4>2. \A x \in X : x.prio \in Nat
        OBVIOUS
      <4> HIDE DEF X
      <4>3. \A k \in DOMAIN Search : Search[k] \in X
        BY <4>1
      <4> QED BY <4>2, <4>3
    <3> HIDE DEF key, new
    <3> QED BY <2>2, <3>1, <3>2, <3>3, <3>4
  <2>4. IsInjectiveOn(key, new)
    <3> SUFFICES ASSUME NEW i \in new, NEW j \in new, key[i] = key[j] PROVE i = j
      BY DEF IsInjectiveOn
    <3>1. i.name = j.name
      BY <2>3
    <3> QED BY <3>1 DEF LibIds
  <2>5. key \in [new -> 0 .. Len(Search)]
    BY <2>3
  <2> HIDE DEF key, found, listed
  <2>6. IsFiniteSet(new) /\ key \in [new -> Int]
    BY <2>2, <2>4, <2>5, BoundedKeyLemma
  <2>7. IsList(ListByKey(new, key)) /\ DOMAIN ListByKey(new, key) = new
    BY <2>4, <2>6, ListByKeyLemma
  <2>8. IsList(L.lpos) /\ DOMAIN L.lpos = DOMAIN L.libs /\ DOMAIN L.lpos \cap new = {}
    BY <2>1, <2>3 DEF LibsType
  <2>9. IsList(lpos) /\ DOMAIN lpos = DOMAIN L.libs \cup new
    <3> DEFINE q == ListByKey(new, key)
    <3> HIDE DEF q, new
    <3>1. IsList(PushBack(L.lpos, q)) /\ DOMAIN PushBack(L.lpos, q) = DOMAIN L.lpos \cup DOMAIN q
      BY <2>7, <2>8, PushBackLemma DEF q
    <3> QED BY <2>7, <2>8, <3>1 DEF q
  <2>10. /\ DOMAIN libs = DOMAIN L.libs \cup new
         /\ \A i \in DOMAIN L.libs : libs[i] = L.libs[i]
         /\ \A i \in new : libs[i] = [type |-> "none", prio |-> Search[FirstHit(i.name)].prio,
                                     mod |-> FALSE, freed |-> FALSE]
    <3> DEFINE rec(i) == [type |-> "none", prio |-> Search[FirstHit(i.name)].prio,
                          mod |-> FALSE, freed |-> FALSE]
    <3>1. libs = [i \in DOMAIN L.libs \cup new |-> IF i \in DOMAIN L.libs THEN L.libs[i] ELSE rec(i)]
      BY TableLemma
    <3>2. \A i \in new : i \notin DOMAIN L.libs
      BY <2>3
    <3> HIDE DEF libs, new, rec
    <3>3. /\ DOMAIN libs = DOMAIN L.libs \cup new
          /\ \A i \in DOMAIN L.libs : libs[i] = L.libs[i]
          /\ \A i \in new : libs[i] = rec(i)
      BY <3>1, <3>2
    <3> QED BY <3>3 DEF rec
  <2>11. new \subseteq LibIds /\ \A i \in new : i.origin = "search"
    OBVIOUS
  <2>12. \A i \in new : Search[FirstHit(i.name)].prio \in Nat
    BY <2>3 DEF key
  <2> DEFINE M == BuildListOfCandidateLibs(L)
  <2>13. M = [L EXCEPT !.libs = libs, !.lpos = lpos]
    BY <1>2 DEF BuildListOfCandidateLibs, key, found, listed
  <2> HIDE DEF libs, lpos, new, M
  <2>14. LibsType(libs, lpos)
    <3>1. ASSUME NEW i \in new PROVE libs[i] \in LibRecords
      <4> DEFINE prio == Search[FirstHit(i.name)].prio
      <4>1. prio \in Nat /\ libs[i] = [type |-> "none", prio |-> prio, mod |-> FALSE, freed |-> FALSE]
        BY <2>10, <2>12
      <4> HIDE DEF prio
      <4> QED BY <4>1 DEF LibRecords
    <3> QED BY <2>1, <2>9, <2>10, <2>11, <3>1 DEF LibsType
  <2>15. IsCtx(M)
    BY <2>1, <2>13 DEF IsCtx
  <2>16. /\ SameFlags(L, M) /\ SameImpls(L, M) /\ M.fault = L.fault
         /\ M.libs = libs /\ M.lpos = lpos /\ M.dl = L.dl
    BY <2>1, <2>13, <2>15 DEF IsCtx, Fields, SameFlags, SameImpls
  <2>17. Core(M)
    BY <2>1, <2>14, <2>15, <2>16, CoreLibsLemma
  <2>18. \A i \in new : libs[i].type = "none" /\ ~libs[i].freed
    BY <2>10
  <2>19. \A i \in DOMAIN M.libs : \/ i \in DOMAIN L.libs /\ M.libs[i] = L.libs[i]
                                  \/ /\ i.origin = "search" /\ M.libs[i].type = "none"
                                     /\ ~M.libs[i].freed
    BY <2>10, <2>11, <2>16, <2>18
  <2> QED BY <1>2, <2>16, <2>17, <2>19 DEF M
<1> QED BY <1>1, <1>2

\* Loading the listed libraries and dropping the unusable ones.
LEMMA CheckLemma ==
    ASSUME NEW L, Core(L), NEW bad
    PROVE  LET M == CheckValidLibraries(L, bad)
           IN  /\ Core(M) /\ SameFlags(L, M) /\ SameImpls(L, M) /\ M.fault = L.fault
               /\ \A i \in DOMAIN M.libs :
                    /\ i \in DOMAIN L.libs /\ M.libs[i].freed = L.libs[i].freed
                    /\ M.libs[i].type = "MSDK" => Runtime[i.name].session
                    /\ \/ M.libs[i].type = "VPL" /\ "MFXInitialize" \in Runtime[i.name].exports
                       \/ M.libs[i].type = "MSDK"
               /\ \A n \in Names : Leaked(M, n) = L.dl[n]
<1> DEFINE type == Table([i \in DOMAIN L.libs |->
                       IF i.name \in bad THEN "none" ELSE LibType(i.name, L.libs[i].prio)])
           msdk == {i \in DOMAIN L.libs : type[i] = "MSDK"}
           drop == {i \in DOMAIN L.libs :
                       type[i] = "none" \/ (i \in msdk /\ \E j \in msdk : BetterMSDK(L, j, i))}
           libs == Table([i \in DOMAIN L.libs |->
                       [L.libs[i] EXCEPT !.type = type[i], !.mod = i.name \notin bad]])
           dl   == Table([n \in Names |->
                       L.dl[n] + Cardinality({i \in DOMAIN L.libs : i.name = n /\ n \notin bad})])
           load == [L EXCEPT !.libs = libs, !.dl = dl]
<1>1. LibsType(L.libs, L.lpos) /\ L.dl \in [Names -> Int] /\ L.fault \in Faults /\ IsCtx(L)
  BY DEF Core, CtxType
<1>2. dl \in [Names -> Int]
  <2>1. dl = [n \in Names |->
                L.dl[n] + Cardinality({i \in DOMAIN L.libs : i.name = n /\ n \notin bad})]
    BY TableLemma
  <2>2. ASSUME NEW n \in Names
        PROVE  L.dl[n] + Cardinality({i \in DOMAIN L.libs : i.name = n /\ n \notin bad}) \in Int
    <3> DEFINE S == {i \in DOMAIN L.libs : i.name = n /\ n \notin bad}
    <3>1. S \subseteq DOMAIN L.libs
      OBVIOUS
    <3> HIDE DEF S
    <3>2. Cardinality(S) \in Int
      BY <1>1, <3>1, LibCountLemma
    <3>3. L.dl[n] + Cardinality(S) \in Int
      BY <1>1, <3>2
    <3> QED BY <3>3 DEF S
  <2> QED BY <2>1, <2>2
<1>3. ASSUME NEW i \in DOMAIN L.libs
      PROVE  /\ type[i] \in {"none", "VPL", "MSDK"}
             /\ type[i] = "MSDK" => Runtime[i.name].session
             /\ type[i] = "VPL" => "MFXInitialize" \in Runtime[i.name].exports
  <2>1. LET t == LibType(i.name, L.libs[i].prio)
        IN  /\ t \in {"none", "VPL", "MSDK"}
            /\ t = "MSDK" => Runtime[i.name].session
            /\ t = "VPL" => "MFXInitialize" \in Runtime[i.name].exports
    BY DEF LibType
  <2>2. type[i] = IF i.name \in bad THEN "none" ELSE LibType(i.name, L.libs[i].prio)
    BY TableLemma
  <2> QED BY <2>1, <2>2
<1>4. /\ DOMAIN libs = DOMAIN L.libs
      /\ \A i \in DOMAIN L.libs :
            libs[i] = [L.libs[i] EXCEPT !.type = type[i], !.mod = i.name \notin bad]
  <2> HIDE DEF type
  <2> DEFINE rec(i) == [L.libs[i] EXCEPT !.type = type[i], !.mod = i.name \notin bad]
  <2>1. libs = [i \in DOMAIN L.libs |-> rec(i)]
    BY TableLemma
  <2> HIDE DEF libs, rec
  <2>2. DOMAIN libs = DOMAIN L.libs /\ \A i \in DOMAIN L.libs : libs[i] = rec(i)
    BY <2>1
  <2> QED BY <2>2 DEF rec
<1>5. drop \subseteq DOMAIN L.libs /\ \A i \in DOMAIN L.libs \ drop : type[i] # "none"
  OBVIOUS
<1>6. CheckValidLibraries(L, bad) = UnloadLibs(load, drop)
  BY DEF CheckValidLibraries
<1> HIDE DEF type, drop, libs, dl
<1>7. IsCtx(load)
  BY <1>1 DEF IsCtx
<1>8. /\ SameFlags(L, load) /\ SameImpls(L, load) /\ load.fault = L.fault
      /\ load.libs = libs /\ load.lpos = L.lpos /\ load.dl = dl
  BY <1>1 DEF IsCtx, Fields, SameFlags, SameImpls
<1> HIDE DEF load
<1>9. LibsType(libs, L.lpos)
      /\ \A i \in DOMAIN L.libs : /\ libs[i].type = type[i] /\ libs[i].freed = L.libs[i].freed
                                  /\ libs[i].mod = (i.name \notin bad)
  <2>1. ASSUME NEW i \in DOMAIN L.libs
        PROVE  /\ libs[i] \in LibRecords /\ libs[i].type = type[i] /\ libs[i].freed = L.libs[i].freed
               /\ libs[i].mod = (i.name \notin bad)
    <3> DEFINE r == L.libs[i]
               a == i.name \notin bad
    <3>1. r \in LibRecords
      BY <1>1 DEF LibsType
    <3>2. a \in BOOLEAN
      OBVIOUS
    <3>6. type[i] \in {"none", "VPL", "MSDK"}
      BY <1>3
    <3>3. libs[i] = [r EXCEPT !.type = type[i], !.mod = a]
      BY <1>4
    <3> HIDE DEF r, a
    <3>4. libs[i] = [type |-> type[i], prio |-> r.prio, mod |-> a, freed |-> r.freed]
      BY <3>1, <3>3 DEF LibRecords
    <3>5. r.prio \in Nat /\ r.freed \in BOOLEAN
      BY <3>1 DEF LibRecords
    <3>7. libs[i].type = type[i] /\ libs[i].freed = r.freed /\ libs[i].mod = a
      BY <3>4
    <3>8. libs[i] \in LibRecords
      BY <3>2, <3>4, <3>5, <3>6 DEF LibRecords
    <3> QED BY <3>7, <3>8 DEF r, a
  <2> QED BY <1>1, <1>4, <2>1 DEF LibsType
<1>10. Core(load)
  BY <1>1, <1>2, <1>7, <1>8, <1>9, CoreLibsLemma
<1> DEFINE M == UnloadLibs(load, drop)
<1>11. /\ Core(M) /\ SameFlags(load, M) /\ SameImpls(load, M) /\ M.fault = load.fault
       /\ DOMAIN M.libs = DOMAIN load.libs \ drop
       /\ \A i \in DOMAIN M.libs : M.libs[i] = load.libs[i]
       /\ \A n \in Names : Leaked(M, n) = Leaked(load, n)
  <2>1. drop \subseteq DOMAIN load.libs
    BY <1>4, <1>5, <1>8
  <2> QED BY <1>10, <2>1, UnloadLibsLemma
<1> HIDE DEF M
<1>12. SameFlags(L, M) /\ SameImpls(L, M)
  BY <1>8, <1>11 DEF SameFlags, SameImpls
<1>13. ASSUME NEW i \in DOMAIN M.libs
       PROVE  /\ i \in DOMAIN L.libs /\ M.libs[i].freed = L.libs[i].freed
              /\ M.libs[i].type = "MSDK" => Runtime[i.name].session
              /\ \/ M.libs[i].type = "VPL" /\ "MFXInitialize" \in Runtime[i.name].exports
                 \/ M.libs[i].type = "MSDK"
  <2>1. i \in DOMAIN L.libs /\ M.libs[i] = libs[i] /\ type[i] # "none"
    BY <1>4, <1>5, <1>8, <1>11
  <2> QED BY <1>3, <1>9, <2>1
<1>14. ASSUME NEW n \in Names PROVE Leaked(M, n) = L.dl[n]
  <2> DEFINE S == {i \in DOMAIN L.libs : i.name = n /\ n \notin bad}
  <2>1. OpenIn(load, DOMAIN load.libs, n) = S
    BY <1>4, <1>8, <1>9 DEF OpenIn
  <2>2. load.dl[n] = L.dl[n] + Cardinality(S)
    <3>1. dl = [m \in Names |->
                  L.dl[m] + Cardinality({i \in DOMAIN L.libs : i.name = m /\ m \notin bad})]
      BY TableLemma DEF dl
    <3> QED BY <1>8, <3>1
  <2>3. S \subseteq DOMAIN L.libs
    OBVIOUS
  <2> HIDE DEF S
  <2>4. Cardinality(S) \in Int /\ L.dl[n] \in Int
    BY <1>1, <2>3, LibCountLemma
  <2>5. Leaked(load, n) = L.dl[n]
    BY <2>1, <2>2, <2>4 DEF Leaked
  <2> QED BY <1>11, <2>5
<1> QED BY <1>6, <1>8, <1>11, <1>12, <1>13, <1>14 DEF M

\* The libraries of the full search are the same.
SearchKept(L, M) ==
    /\ \A j \in DOMAIN M.libs : j.origin = "search" => j \in DOMAIN L.libs
    /\ \A j \in DOMAIN L.libs :
         j \in DOMAIN M.libs /\ (j.origin = "search" => M.libs[j] = L.libs[j])

\* No library of the low-latency search is in use.
LowFreed(L) == \A j \in DOMAIN L.libs : j.origin = "low" => L.libs[j].freed

\* The low-latency search has listed nothing; it has listed what it could load.
NoneLow(L)  == \A j \in DOMAIN L.libs : j.origin = "search"
LowClean(L) == \A j \in DOMAIN L.libs : j.origin = "low" => ~L.libs[j].freed

\* Listing one low-latency library.
LEMMA PushLowLibLemma ==
    ASSUME NEW L, Core(L), NEW n \in Names, NEW type \in {"VPL", "MSDK"}, NEW lost
    PROVE  LET M == PushLowLib(L, n, type, lost)
           IN  /\ Core(M) /\ SameFlags(L, M) /\ SameImpls(L, M) /\ M.fault = L.fault
               /\ SearchKept(L, M) /\ (n \in lost /\ LowFreed(L) => LowFreed(M))
               /\ [name |-> n, origin |-> "low"] \in DOMAIN M.libs
               /\ n \notin lost /\ NoneLow(L) => LowClean(M)
<1> DEFINE i    == [name |-> n, origin |-> "low"]
           new  == [type |-> type, mod |-> n \notin lost,
                    prio |-> IF type = "VPL" THEN LIB_PRIORITY_01 ELSE LIB_PRIORITY_LEGACY,
                    freed |-> n \in lost \/ (i \in DOMAIN L.libs /\ L.libs[i].freed)]
           libs == Table([j \in DOMAIN L.libs \cup {i} |-> IF j = i THEN new ELSE L.libs[j]])
           lpos == IF i \in DOMAIN L.libs THEN L.lpos ELSE PushBack(L.lpos, [j \in {i} |-> 1])
           dl   == Table([m \in Names |-> IF m = n /\ m \notin lost THEN L.dl[m] + 1 ELSE L.dl[m]])
           M    == PushLowLib(L, n, type, lost)
<1>1. LibsType(L.libs, L.lpos) /\ L.dl \in [Names -> Int] /\ L.fault \in Faults /\ IsCtx(L)
  BY DEF Core, CtxType
<1>2. M = [L EXCEPT !.libs = libs, !.lpos = lpos, !.dl = dl]
  BY DEF PushLowLib
<1>3. /\ i \in LibIds /\ i.origin = "low" /\ (n \in lost => new.freed)
      /\ n \notin lost /\ i \notin DOMAIN L.libs => ~new.freed
  BY DEF LibIds
<1>4. new \in LibRecords
  <2> DEFINE a == n \notin lost
             b == n \in lost \/ (i \in DOMAIN L.libs /\ L.libs[i].freed)
             c == IF type = "VPL" THEN LIB_PRIORITY_01 ELSE LIB_PRIORITY_LEGACY
  <2>1. a \in BOOLEAN /\ b \in BOOLEAN
    OBVIOUS
  <2>2. c \in Nat
    BY DEF LIB_PRIORITY_01, LIB_PRIORITY_LEGACY
  <2>3. new = [type |-> type, mod |-> a, prio |-> c, freed |-> b]
    OBVIOUS
  <2> HIDE DEF a, b, c, new
  <2> QED BY <2>1, <2>2, <2>3 DEF LibRecords
<1> HIDE DEF new, i
<1>5. /\ DOMAIN libs = DOMAIN L.libs \cup {i}
      /\ libs[i] = new
      /\ \A j \in DOMAIN L.libs : j # i => libs[j] = L.libs[j]
  BY TableLemma
<1>6. dl \in [Names -> Int]
  <2>1. dl = [m \in Names |-> IF m = n /\ m \notin lost THEN L.dl[m] + 1 ELSE L.dl[m]]
    BY TableLemma
  <2> HIDE DEF dl
  <2> QED BY <1>1, <2>1
<1>7. IsList(L.lpos) /\ DOMAIN L.lpos = DOMAIN L.libs
  BY <1>1 DEF LibsType
<1>8. IsList(lpos) /\ DOMAIN lpos = DOMAIN L.libs \cup {i}
  <2>1. CASE i \in DOMAIN L.libs
    BY <1>7, <2>1
  <2>2. CASE i \notin DOMAIN L.libs
    <3> DEFINE q == [j \in {i} |-> 1]
    <3>1. DOMAIN q = {i} /\ IsFiniteSet({i}) /\ Cardinality({i}) = 1
      BY FS_Singleton
    <3>2. IsList(q)
      BY <3>1 DEF IsList, IsInjectiveOn
    <3>3. DOMAIN L.lpos \cap DOMAIN q = {}
      BY <1>7, <2>2
    <3>4. lpos = PushBack(L.lpos, q)
      BY <2>2
    <3> HIDE DEF q, lpos
    <3>5. IsList(PushBack(L.lpos, q)) /\ DOMAIN PushBack(L.lpos, q) = DOMAIN L.lpos \cup DOMAIN q
      BY <1>7, <3>2, <3>3, PushBackLemma
    <3> QED BY <1>7, <3>1, <3>4, <3>5
  <2> QED BY <2>1, <2>2
<1> HIDE DEF libs, lpos, dl, M
<1>9. LibsType(libs, lpos)
  BY <1>1, <1>3, <1>4, <1>5, <1>8 DEF LibsType
<1>10. IsCtx(M)
  BY <1>1, <1>2 DEF IsCtx
<1>11. /\ SameFlags(L, M) /\ SameImpls(L, M) /\ M.fault = L.fault
       /\ M.libs = libs /\ M.lpos = lpos /\ M.dl = dl
  BY <1>1, <1>2, <1>10 DEF IsCtx, Fields, SameFlags, SameImpls
<1>12. Core(M)
  BY <1>1, <1>6, <1>9, <1>10, <1>11, CoreLibsLemma
<1>13. SearchKept(L, M) /\ (n \in lost /\ LowFreed(L) => LowFreed(M))
  BY <1>3, <1>5, <1>11 DEF SearchKept, LowFreed
<1>14. i \in DOMAIN M.libs
  BY <1>5, <1>11
<1>15. ASSUME n \notin lost, NoneLow(L) PROVE LowClean(M)
  <2>1. i \notin DOMAIN L.libs
    BY <1>3, <1>15 DEF NoneLow
  <2>2. ~M.libs[i].freed
    BY <1>3, <1>5, <1>11, <1>15, <2>1
  <2>3. \A j \in DOMAIN M.libs : j = i \/ j.origin = "search"
    BY <1>5, <1>11, <1>15 DEF NoneLow
  <2> QED BY <2>2, <2>3 DEF LowClean
<1> QED BY <1>11, <1>12, <1>13, <1>14, <1>15 DEF M, i

\* The low-latency load has succeeded, and left the configs c.
LowDone(L, c) == [L EXCEPT !.needLow = FALSE, !.cfgs = c]

LEMMA LowDoneLemma ==
    ASSUME NEW L, Core(L), NEW c
    PROVE  LET N == LowDone(L, c)
           IN  /\ Core(N) /\ SameImpls(L, N) /\ SameLibs(L, N) /\ N.needLow = FALSE
               /\ N.live = L.live /\ N.low = L.low /\ N.needFull = L.needFull
               /\ N.needUpdate = L.needUpdate /\ N.fault = L.fault /\ N.cfgs = c
<1> DEFINE N == LowDone(L, c)
<1>1. IsCtx(L)
  BY DEF Core
<1>2. IsCtx(N)
  BY <1>1 DEF IsCtx, LowDone
<1>3. /\ SameImpls(L, N) /\ SameLibs(L, N) /\ N.needLow = FALSE /\ N.fault = L.fault
      /\ N.live = L.live /\ N.low = L.low /\ N.needFull = L.needFull
      /\ N.needUpdate = L.needUpdate /\ N.cfgs = c
  BY <1>1 DEF IsCtx, Fields, SameImpls, SameLibs, LowDone
<1> HIDE DEF N
<1>4. Core(N)
  BY <1>2, <1>3 DEF Core, CtxType, SameImpls, SameLibs
<1> QED BY <1>3, <1>4 DEF N

\* The configs after a low-latency load of the MSDK runtime.
RenamedImpl(cfgs) == [c \in DOMAIN cfgs |-> SetFilterProperty(cfgs[c], "ImplName", "mfxhw64")]

\* The low-latency load: only libraries, configs and needLow change.
LEMMA LoadLowLemma ==
    ASSUME NEW L, Core(L), NEW bad, NEW late
    PROVE  LET M == LoadLibsLowLatency(L, bad, late)
           IN  /\ Core(M) /\ SameImpls(L, M)
               /\ M.live = L.live /\ M.low = L.low /\ M.needFull = L.needFull
               /\ M.needLow \in {L.needLow, FALSE} /\ M.needUpdate = L.needUpdate
               /\ M.fault = L.fault /\ SearchKept(L, M)
               /\ M.needLow => M.cfgs = L.cfgs /\ (LowFreed(L) => LowFreed(M))
               /\ M.cfgs = L.cfgs \/ (LowMSDK # {} /\ M.cfgs = RenamedImpl(L.cfgs))
<1> DEFINE lost == late \cup {n \in LowMSDK : "MSDK" \notin Runtime[n].exports}
           V == PushLowLibs(L, LowVPL \ bad, "VPL", late)
           W == PushLowLibs(V, LowMSDK \ bad, "MSDK", lost)
           M == LoadLibsLowLatency(L, bad, late)
           cfgs == RenamedImpl(W.cfgs)
<1>1. ASSUME NEW K, Core(K), NEW S \in SUBSET Names, NEW type \in {"VPL", "MSDK"}, NEW gone
      PROVE  LET N == PushLowLibs(K, S, type, gone)
             IN  /\ Core(N) /\ SameFlags(K, N) /\ SameImpls(K, N) /\ N.fault = K.fault
                 /\ SearchKept(K, N) /\ (S \subseteq gone /\ LowFreed(K) => LowFreed(N))
  <2>1. CASE S = {}
    BY <1>1, <2>1 DEF PushLowLibs, SameFlags, SameImpls, SearchKept
  <2>2. CASE S # {}
    <3> DEFINE n == CHOOSE m \in S : TRUE
               N == PushLowLib(K, n, type, gone)
    <3>1. n \in Names /\ n \in S
      BY <2>2
    <3>2. PushLowLibs(K, S, type, gone) = N
      BY <2>2 DEF PushLowLibs
    <3> HIDE DEF n
    <3>3. /\ Core(N) /\ SameFlags(K, N) /\ SameImpls(K, N) /\ N.fault = K.fault
          /\ SearchKept(K, N) /\ (n \in gone /\ LowFreed(K) => LowFreed(N))
      BY <1>1, <3>1, PushLowLibLemma
    <3> QED BY <3>1, <3>2, <3>3
  <2> QED BY <2>1, <2>2
<1>2. LowVPL \ bad \in SUBSET Names /\ LowMSDK \ bad \in SUBSET Names
  BY NamesAssumption
<1>3. /\ Core(V) /\ SameFlags(L, V) /\ SameImpls(L, V) /\ V.fault = L.fault
      /\ SearchKept(L, V) /\ (LowVPL \ bad \subseteq late /\ LowFreed(L) => LowFreed(V))
  BY <1>1, <1>2
<1> HIDE DEF V, lost
<1>4. /\ Core(W) /\ SameFlags(V, W) /\ SameImpls(V, W) /\ W.fault = V.fault
      /\ SearchKept(V, W) /\ (LowMSDK \ bad \subseteq lost /\ LowFreed(V) => LowFreed(W))
  BY <1>1, <1>2, <1>3
<1>5. \/ M = [V EXCEPT !.needLow = FALSE]
      \/ /\ M = [W EXCEPT !.needLow = FALSE, !.cfgs = cfgs]
         /\ LowMSDK # {}
      \/ M = W /\ LowVPL \ bad \subseteq late /\ LowMSDK \ bad \subseteq lost
  BY DEF LoadLibsLowLatency, RenamedImpl, V, lost
<1>13. SearchKept(L, W)
  BY <1>3, <1>4 DEF SearchKept
<1> HIDE DEF W, M, cfgs
<1>7. [V EXCEPT !.needLow = FALSE] = LowDone(V, V.cfgs)
  BY <1>3 DEF Core, IsCtx, Fields, LowDone
<1>6. M = LowDone(V, V.cfgs) \/ (M = LowDone(W, cfgs) /\ LowMSDK # {})
       \/ (M = W /\ LowVPL \ bad \subseteq late /\ LowMSDK \ bad \subseteq lost)
  BY <1>5, <1>7 DEF LowDone
<1> DEFINE G(N) == /\ Core(N) /\ SameImpls(L, N)
                   /\ N.live = L.live /\ N.low = L.low /\ N.needFull = L.needFull
                   /\ N.needLow \in {L.needLow, FALSE} /\ N.needUpdate = L.needUpdate
                   /\ N.fault = L.fault /\ SearchKept(L, N)
                   /\ N.needLow => N.cfgs = L.cfgs /\ (LowFreed(L) => LowFreed(N))
                   /\ N.cfgs = L.cfgs \/ (LowMSDK # {} /\ N.cfgs = RenamedImpl(L.cfgs))
<1>8. G(LowDone(V, V.cfgs))
  <2> DEFINE N == LowDone(V, V.cfgs)
  <2>1. /\ Core(N) /\ SameImpls(V, N) /\ SameLibs(V, N) /\ N.needLow = FALSE
        /\ N.live = V.live /\ N.low = V.low /\ N.needFull = V.needFull
        /\ N.needUpdate = V.needUpdate /\ N.fault = V.fault /\ N.cfgs = V.cfgs
    <3>1. Core(V)
      BY <1>3
    <3>2. Core(N) /\ SameImpls(V, N) /\ SameLibs(V, N)
      BY <3>1, LowDoneLemma
    <3>3. /\ N.needLow = FALSE /\ N.live = V.live /\ N.low = V.low /\ N.needFull = V.needFull
          /\ N.needUpdate = V.needUpdate /\ N.fault = V.fault /\ N.cfgs = V.cfgs
      BY <3>1, LowDoneLemma, ZenonT(30)
    <3> HIDE DEF N
    <3> QED BY <3>2, <3>3
  <2> HIDE DEF N
  <2>2. SameImpls(L, N) /\ SearchKept(L, N) /\ N.cfgs = L.cfgs
    BY <1>3, <2>1 DEF SameImpls, SameLibs, SameFlags, SearchKept
  <2> QED BY <1>3, <2>1, <2>2 DEF SameFlags, N
<1>9. LowMSDK # {} => G(LowDone(W, cfgs))
  <2> DEFINE N == LowDone(W, cfgs)
  <2>1. /\ Core(N) /\ SameImpls(W, N) /\ SameLibs(W, N) /\ N.needLow = FALSE
        /\ N.live = W.live /\ N.low = W.low /\ N.needFull = W.needFull
        /\ N.needUpdate = W.needUpdate /\ N.fault = W.fault /\ N.cfgs = cfgs
    <3>1. Core(W)
      BY <1>4
    <3>2. Core(N) /\ SameImpls(W, N) /\ SameLibs(W, N)
      BY <3>1, LowDoneLemma
    <3>3. /\ N.needLow = FALSE /\ N.live = W.live /\ N.low = W.low /\ N.needFull = W.needFull
          /\ N.needUpdate = W.needUpdate /\ N.fault = W.fault /\ N.cfgs = cfgs
      BY <3>1, LowDoneLemma, ZenonT(30)
    <3> HIDE DEF N
    <3> QED BY <3>2, <3>3
  <2> HIDE DEF N
  <2>2. SameImpls(L, N) /\ SearchKept(L, N)
    BY <1>3, <1>4, <1>13, <2>1 DEF SameImpls, SameLibs, SearchKept
  <2>3. /\ N.live = L.live /\ N.low = L.low /\ N.needFull = L.needFull
        /\ N.needUpdate = L.needUpdate /\ N.fault = L.fault /\ W.cfgs = L.cfgs
    BY <1>3, <1>4, <2>1 DEF SameFlags
  <2>4. N.cfgs = RenamedImpl(L.cfgs)
    BY <2>1, <2>3 DEF cfgs
  <2> QED BY <2>4, <2>1, <2>2, <2>3 DEF N
<1>10. LowVPL \ bad \subseteq late /\ LowMSDK \ bad \subseteq lost => G(W)
  <2>1. SameImpls(L, W) /\ SameFlags(L, W) /\ W.fault = L.fault
    BY <1>3, <1>4 DEF SameImpls, SameFlags
  <2>2. LowVPL \ bad \subseteq late /\ LowMSDK \ bad \subseteq lost /\ LowFreed(L) => LowFreed(W)
    BY <1>3, <1>4
  <2> QED BY <1>4, <1>13, <2>1, <2>2 DEF SameFlags
<1> HIDE DEF G
<1>11. G(M)
  BY <1>6, <1>8, <1>9, <1>10
<1> QED BY <1>11 DEF G, M

-----------------------------------------------------------------------------
(***************************************************************************)
(* The list of implementations                                             *)
(***************************************************************************)

\* The sorts compare entries that have a description, and keep the list a list.
LEMMA RankedLemma ==
    ASSUME NEW L, Core(L), ~HasFreedImpl(L), ~NullCompared(L)
    PROVE  IsList(Ranked(L)) /\ DOMAIN Ranked(L) = Compared(L)
<1> DEFINE S  == Compared(L)
           p0 == Keep(L.ipos, S)
           k1 == [x \in S |-> L.libs[x.lib].prio]
           p1 == SortBy(p0, k1)
           k2 == [x \in S |-> -Desc(x).ApiVersion]
           p2 == SortBy(p1, k2)
           k3 == [x \in S |->
                    IF Desc(x).AccelerationMode = MFX_ACCEL_MODE_VIA_HDDLUNITE THEN 1 ELSE 0]
           p3 == SortBy(p2, k3)
           k4 == [x \in S |-> -Desc(x).Impl]
<1>1. LibsType(L.libs, L.lpos) /\ ImplsType(L.impls, L.ipos)
  BY DEF Core, CtxType
<1>2. S \subseteq DOMAIN L.impls
  BY DEF Compared
<1>3. IsList(p0) /\ DOMAIN p0 = S
  <2>1. IsList(L.ipos) /\ DOMAIN L.ipos = DOMAIN L.impls
    BY <1>1 DEF ImplsType
  <2>2. IsList(p0) /\ DOMAIN p0 = DOMAIN L.ipos \cap S
    BY <2>1, KeepLemma
  <2> QED BY <1>2, <2>1, <2>2
<1>4. Ranked(L) = IF Cardinality(S) < 2 THEN p0 ELSE SortBy(p3, k4)
  BY DEF Ranked
<1>5. CASE Cardinality(S) < 2
  BY <1>3, <1>4, <1>5
<1>6. CASE ~(Cardinality(S) < 2)
  <2>1. Cardinality(S) \in Nat
    BY <1>3, FS_CardinalityType DEF IsList
  <2>2. \A x \in S : L.impls[x].known
    <3>1. Cardinality(S) >= 2
      BY <1>6, <2>1
    <3> QED BY <3>1 DEF NullCompared
  <2>3. ASSUME NEW x \in S
        PROVE  L.libs[x.lib].prio \in Int /\ Desc(x).ApiVersion \in Int /\ Desc(x).Impl \in Int
    <3>1. x \in ImplIds /\ x.lib \in DOMAIN L.libs
      BY <1>1, <1>2 DEF ImplsType, HasFreedImpl
    <3>2. L.libs[x.lib].prio \in Int
      BY <1>1, <3>1 DEF LibsType, LibRecords
    <3>3. x.lib.name \in Names /\ x.num \in DOMAIN Runtime[x.lib.name].caps
      BY <1>1, <1>2, <2>2, <3>1 DEF ImplsType, ImplIds, LibIds
    <3>4. IsDescription(Desc(x))
      BY <3>3, RuntimeAssumption DEF Desc
    <3> QED BY <3>2, <3>4 DEF IsDescription
  <2> DEFINE version(x) == Desc(x).ApiVersion
             impl(x) == Desc(x).Impl
             prio(x) == L.libs[x.lib].prio
             vsi(x)  == Desc(x).AccelerationMode = MFX_ACCEL_MODE_VIA_HDDLUNITE
  <2>4. k1 = [x \in S |-> prio(x)] /\ k2 = [x \in S |-> -version(x)] /\ k4 = [x \in S |-> -impl(x)]
    OBVIOUS
  <2>5. k3 = [x \in S |-> IF vsi(x) THEN 1 ELSE 0]
    OBVIOUS
  <2>6. \A x \in S : prio(x) \in Int /\ version(x) \in Int /\ impl(x) \in Int
    BY <2>3
  <2> HIDE DEF S, k1, k2, k3, k4, p0, p1, p2, p3, version, impl, prio, vsi
  <2>7. k1 \in [S -> Int] /\ k2 \in [S -> Int] /\ k4 \in [S -> Int]
    BY <2>4, <2>6
  <2>8. k3 \in [S -> Int]
    BY <2>5
  <2>9. IsList(p1) /\ DOMAIN p1 = S
    BY <1>3, <2>7, SortByLemma DEF p1
  <2>10. IsList(p2) /\ DOMAIN p2 = S
    BY <2>9, <2>7, SortByLemma DEF p2
  <2>11. IsList(p3) /\ DOMAIN p3 = S
    BY <2>10, <2>8, SortByLemma DEF p3
  <2>12. IsList(SortBy(p3, k4)) /\ DOMAIN SortBy(p3, k4) = S
    BY <2>11, <2>7, SortByLemma
  <2> QED BY <1>4, <1>6, <2>12 DEF S
<1> QED BY <1>5, <1>6

\* The sorted list holds the same entries.
LEMMA SortedListLemma ==
    ASSUME NEW L, Core(L), ~HasFreedImpl(L), ~NullCompared(L)
    PROVE  IsList(SortedList(L)) /\ DOMAIN SortedList(L) = DOMAIN L.impls
<1> DEFINE p == Keep(L.ipos, Special(L))
           q == Ranked(L)
<1>1. IsList(L.ipos) /\ DOMAIN L.ipos = DOMAIN L.impls
  BY DEF Core, CtxType, ImplsType
<1>2. IsList(p) /\ DOMAIN p = Special(L)
  <2>1. IsList(p) /\ DOMAIN p = DOMAIN L.ipos \cap Special(L)
    BY <1>1, KeepLemma
  <2> QED BY <1>1, <2>1 DEF Special
<1>3. IsList(q) /\ DOMAIN q = DOMAIN L.impls \ Special(L)
  BY RankedLemma DEF Compared
<1>4. SortedList(L) = PushBack(p, q)
  BY DEF SortedList
<1> HIDE DEF p, q
<1>5. DOMAIN p \cap DOMAIN q = {}
  BY <1>2, <1>3
<1>6. IsList(PushBack(p, q)) /\ DOMAIN PushBack(p, q) = DOMAIN p \cup DOMAIN q
  BY <1>2, <1>3, <1>5, PushBackLemma
<1>7. Special(L) \subseteq DOMAIN L.impls
  BY DEF Special
<1> QED BY <1>2, <1>3, <1>4, <1>6, <1>7

\* The entries of T are numbered in the order of list p, and no others.
Numbered(new, p, T) ==
    /\ DOMAIN new = DOMAIN p /\ T \subseteq DOMAIN p
    /\ \A x \in T : new[x].idx = CountBefore(p, T, x)
    /\ \A x \in DOMAIN p \ T : new[x].idx = -1

\* Numbering gives unique indices below the number of entries.
LEMMA NumberingLemma ==
    ASSUME NEW p, IsList(p), NEW next \in Nat, Cardinality(DOMAIN p) <= next,
           NEW T, NEW new, Numbered(new, p, T)
    PROVE  /\ IndexInv(new, next) /\ Valid(new) = T
           /\ \A x \in DOMAIN new : new[x].idx \in Int
<1>0. /\ DOMAIN new = DOMAIN p /\ T \subseteq DOMAIN p
      /\ \A x \in T : new[x].idx = CountBefore(p, T, x)
      /\ \A x \in DOMAIN p \ T : new[x].idx = -1
  BY DEF Numbered
<1>1. IsFiniteSet(DOMAIN p) /\ Cardinality(DOMAIN p) \in Nat
  BY FS_CardinalityType DEF IsList
<1>2. IsFiniteSet(T) /\ Cardinality(T) <= Cardinality(DOMAIN p) /\ Cardinality(T) \in Nat
  BY <1>0, <1>1, FS_Subset, FS_CardinalityType
<1>3. /\ \A x \in T : CountBefore(p, T, x) \in 0 .. (Cardinality(T) - 1)
      /\ \A x, y \in T : CountBefore(p, T, x) = CountBefore(p, T, y) => x = y
  BY <1>0, CountLemma
<1>4. \A x \in T : new[x].idx \in Nat /\ new[x].idx < next
  BY <1>0, <1>1, <1>2, <1>3
<1>5. Valid(new) = T
  <2>1. \A x \in T : new[x].idx >= 0
    BY <1>4
  <2>2. \A x \in DOMAIN p \ T : ~(new[x].idx >= 0)
    BY <1>0
  <2> QED BY <1>0, <2>1, <2>2 DEF Valid
<1>6. \A x \in DOMAIN new : new[x].idx < next
  <2>1. ASSUME NEW x \in DOMAIN p \ T PROVE new[x].idx < next
    BY <1>0
  <2> QED BY <1>0, <1>4, <2>1
<1>7. \A x, y \in T : new[x].idx = new[y].idx => x = y
  BY <1>0, <1>3
<1>8. \A x \in DOMAIN new : new[x].idx \in Int
  BY <1>0, <1>4
<1> QED BY <1>0, <1>5, <1>6, <1>7, <1>8 DEF IndexInv

\* The entries and their descriptions are the same, their order and indices
\* may differ.
SameEntries(L, M) ==
    /\ M.next = L.next /\ DOMAIN M.impls = DOMAIN L.impls
    /\ \A x \in DOMAIN L.impls : M.impls[x].known = L.impls[x].known

\* A context that differs from L in its implementations only.
LEMMA CoreImplsLemma ==
    ASSUME NEW L, NEW M, Core(L), IsCtx(M), SameFlags(L, M), SameLibs(L, M), M.fault \in Faults,
           ImplsType(M.impls, M.ipos), M.next \in Nat, IndexInv(M.impls, M.next)
    PROVE  Core(M)
  BY DEF Core, CtxType, SameFlags, SameLibs

\* An entry that is rebuilt from its two fields.
LEMMA ImplsTypeLemma ==
    ASSUME NEW impls, NEW ipos, ImplsType(impls, ipos), NEW p, IsList(p), DOMAIN p = DOMAIN impls,
           NEW new, DOMAIN new = DOMAIN impls,
           \A x \in DOMAIN new : /\ new[x] = [known |-> new[x].known, idx |-> new[x].idx]
                                 /\ new[x].known \in BOOLEAN /\ new[x].idx \in Int,
           \A x \in DOMAIN new : new[x].known => x.num \in DOMAIN Runtime[x.lib.name].caps
    PROVE  ImplsType(new, p)
<1>1. ASSUME NEW x \in DOMAIN new PROVE new[x] \in ImplRecords
  <2> DEFINE k == new[x].known
             j == new[x].idx
  <2>1. new[x] = [known |-> k, idx |-> j] /\ k \in BOOLEAN /\ j \in Int
    OBVIOUS
  <2> HIDE DEF k, j
  <2> QED BY <2>1 DEF ImplRecords
<1> QED BY <1>1 DEF ImplsType

\* Sorting and renumbering keeps the entries and their descriptions.
LEMMA PrioritizeLemma ==
    ASSUME NEW L, Core(L)
    PROVE  LET M == PrioritizeImplList(L)
           IN  Core(M) /\ SameFlags(L, M) /\ SameLibs(L, M) /\ SameEntries(L, M)
<1>1. CASE HasFreedImpl(L)
  <2>1. PrioritizeImplList(L) = Fault(L, "freed") /\ "freed" \in Faults \ {"none"}
    BY <1>1 DEF PrioritizeImplList, Faults
  <2> QED BY <2>1, FaultLemma DEF SameImpls, SameEntries
<1>2. CASE ~HasFreedImpl(L) /\ NullCompared(L)
  <2>1. PrioritizeImplList(L) = Fault(L, "null") /\ "null" \in Faults \ {"none"}
    BY <1>2 DEF PrioritizeImplList, Faults
  <2> QED BY <2>1, FaultLemma DEF SameImpls, SameEntries
<1>3. CASE ~HasFreedImpl(L) /\ ~NullCompared(L)
  <2> DEFINE p == SortedList(L)
             new == Reindex(L.impls, p)
             T == Valid(L.impls)
  <2>1. PrioritizeImplList(L) = [L EXCEPT !.ipos = p, !.impls = new]
    BY <1>3 DEF PrioritizeImplList
  <2>2. IsList(p) /\ DOMAIN p = DOMAIN L.impls
    BY <1>3, SortedListLemma
  <2> HIDE DEF p
  <2>3. ImplsType(L.impls, L.ipos) /\ L.next \in Nat /\ Cardinality(DOMAIN L.impls) <= L.next
    BY DEF Core, CtxType, IndexInv
  <2>4. T \subseteq DOMAIN L.impls
    BY DEF Valid
  <2>5. new = [x \in DOMAIN L.impls |->
                [known |-> L.impls[x].known,
                 idx |-> IF L.impls[x].idx >= 0 THEN CountBefore(p, T, x) ELSE -1]]
    BY TableLemma DEF Reindex
  <2> HIDE DEF new
  <2>6. /\ DOMAIN new = DOMAIN L.impls
        /\ \A x \in DOMAIN new :
             /\ new[x] = [known |-> new[x].known, idx |-> new[x].idx]
             /\ new[x].known = L.impls[x].known
             /\ new[x].idx = IF L.impls[x].idx >= 0 THEN CountBefore(p, T, x) ELSE -1
    BY <2>5
  <2>7. /\ \A x \in T : new[x].idx = CountBefore(p, T, x)
        /\ \A x \in DOMAIN L.impls \ T : new[x].idx = -1
    BY <2>6 DEF Valid
  <2> HIDE DEF T
  <2>71. Numbered(new, p, T)
    BY <2>2, <2>4, <2>6, <2>7 DEF Numbered
  <2>72. Cardinality(DOMAIN p) <= L.next
    BY <2>2, <2>3
  <2>8. IndexInv(new, L.next) /\ \A x \in DOMAIN new : new[x].idx \in Int
    BY <2>2, <2>3, <2>71, <2>72, NumberingLemma
  <2>9. \A x \in DOMAIN new : /\ new[x].known \in BOOLEAN
                              /\ new[x].known => x.num \in DOMAIN Runtime[x.lib.name].caps
    BY <2>3, <2>6 DEF ImplsType, ImplRecords
  <2>10. ImplsType(new, p)
    BY <2>2, <2>3, <2>6, <2>8, <2>9, ImplsTypeLemma
  <2> DEFINE M == [L EXCEPT !.ipos = p, !.impls = new]
  <2>11. IsCtx(L) /\ L.fault \in Faults
    BY DEF Core, CtxType
  <2>12. IsCtx(M)
    BY <2>11 DEF IsCtx
  <2>13. /\ SameFlags(L, M) /\ SameLibs(L, M) /\ M.fault = L.fault
         /\ M.impls = new /\ M.ipos = p /\ M.next = L.next
    BY <2>11 DEF IsCtx, Fields, SameFlags, SameLibs
  <2> HIDE DEF M
  <2>14. Core(M)
    BY <2>3, <2>8, <2>10, <2>11, <2>12, <2>13, CoreImplsLemma
  <2>15. SameEntries(L, M)
    BY <2>6, <2>13 DEF SameEntries
  <2> QED BY <2>1, <2>13, <2>14, <2>15 DEF M
<1> QED BY <1>1, <1>2, <1>3

\* Applying the filters keeps the entries and their descriptions.
LEMMA UpdateLemma ==
    ASSUME NEW L, Core(L)
    PROVE  LET M == UpdateValidImplList(L)
           IN  /\ Core(M) /\ SameLibs(L, M) /\ SameEntries(L, M)
               /\ M.live = L.live /\ M.low = L.low /\ M.cfgs = L.cfgs
               /\ M.needFull = L.needFull /\ M.needLow = L.needLow
<1> DEFINE ok == {x \in Valid(L.impls) : L.impls[x].known /\ ValidateConfig(L.cfgs, Desc(x))}
           new == Table([x \in DOMAIN L.impls |->
                [known |-> L.impls[x].known,
                 idx   |-> IF x \in ok THEN CountBefore(L.ipos, ok, x) ELSE -1]])
           N == [L EXCEPT !.impls = new]
           P == PrioritizeImplList(N)
           M == [P EXCEPT !.needUpdate = FALSE]
<1>1. UpdateValidImplList(L) = M
  BY DEF UpdateValidImplList
<1>2. ok \subseteq DOMAIN L.impls
  BY DEF Valid
<1> HIDE DEF ok
<1>3. new = [x \in DOMAIN L.impls |->
                [known |-> L.impls[x].known,
                 idx   |-> IF x \in ok THEN CountBefore(L.ipos, ok, x) ELSE -1]]
  BY TableLemma
<1> HIDE DEF new
<1>4. /\ DOMAIN new = DOMAIN L.impls
      /\ \A x \in DOMAIN new :
           /\ new[x] = [known |-> new[x].known, idx |-> new[x].idx]
           /\ new[x].known = L.impls[x].known
           /\ new[x].idx = IF x \in ok THEN CountBefore(L.ipos, ok, x) ELSE -1
  BY <1>3
<1>5. /\ ImplsType(L.impls, L.ipos) /\ L.next \in Nat /\ Cardinality(DOMAIN L.impls) <= L.next
      /\ IsCtx(L)
  BY DEF Core, CtxType, IndexInv
<1>6. IsList(L.ipos) /\ DOMAIN L.ipos = DOMAIN L.impls
  BY <1>5 DEF ImplsType
<1>7. IndexInv(new, L.next) /\ \A x \in DOMAIN new : new[x].idx \in Int
  <2>1. Numbered(new, L.ipos, ok)
    BY <1>2, <1>4, <1>6 DEF Numbered
  <2>2. Cardinality(DOMAIN L.ipos) <= L.next
    BY <1>5, <1>6
  <2> QED BY <1>5, <1>6, <2>1, <2>2, NumberingLemma
<1>8. \A x \in DOMAIN new : /\ new[x].known \in BOOLEAN
                            /\ new[x].known => x.num \in DOMAIN Runtime[x.lib.name].caps
  BY <1>4, <1>5 DEF ImplsType, ImplRecords
<1>9. ImplsType(new, L.ipos)
  BY <1>4, <1>5, <1>6, <1>7, <1>8, ImplsTypeLemma
<1>10. /\ Core(N) /\ SameFlags(L, N) /\ SameLibs(L, N)
       /\ N.impls = new /\ N.next = L.next
  <2>1. IsCtx(N)
    BY <1>5 DEF IsCtx
  <2>2. /\ SameFlags(L, N) /\ SameLibs(L, N) /\ N.fault = L.fault
        /\ N.impls = new /\ N.ipos = L.ipos /\ N.next = L.next
    BY <1>5 DEF IsCtx, Fields, SameFlags, SameLibs
  <2>3. L.fault \in Faults
    BY DEF Core, CtxType
  <2> HIDE DEF N
  <2>4. Core(N)
    BY <1>5, <1>7, <1>9, <2>1, <2>2, <2>3, CoreImplsLemma
  <2> QED BY <2>2, <2>4
<1> HIDE DEF N
<1>11. Core(P) /\ SameFlags(N, P) /\ SameLibs(N, P) /\ SameEntries(N, P)
  BY <1>10, PrioritizeLemma
<1> HIDE DEF P
<1>12. IsCtx(P)
  BY <1>11 DEF Core
<1>13. IsCtx(M)
  BY <1>12 DEF IsCtx
<1>14. /\ SameLibs(P, M) /\ SameImpls(P, M) /\ M.fault = P.fault /\ M.needUpdate = FALSE
       /\ M.live = P.live /\ M.low = P.low /\ M.cfgs = P.cfgs
       /\ M.needFull = P.needFull /\ M.needLow = P.needLow
  BY <1>12 DEF IsCtx, Fields, SameLibs, SameImpls
<1> HIDE DEF M
<1>15. Core(M)
  BY <1>11, <1>13, <1>14 DEF Core, CtxType, SameLibs, SameImpls
<1>16. SameEntries(L, M)
  BY <1>4, <1>10, <1>11, <1>14 DEF SameEntries, SameImpls
<1>17. SameLibs(L, M) /\ M.live = L.live /\ M.low = L.low /\ M.cfgs = L.cfgs
       /\ M.needFull = L.needFull /\ M.needLow = L.needLow
  BY <1>10, <1>11, <1>14 DEF SameFlags, SameLibs
<1> QED BY <1>1, <1>15, <1>16, <1>17

\* The entries of L are entries of M, with their descriptions.
Keeps(L, M) ==
    /\ DOMAIN L.impls \subseteq DOMAIN M.impls
    /\ \A x \in DOMAIN L.impls : L.impls[x].known => M.impls[x].known

\* Every entry gets its description; an entry of a device that a VPL runtime
\* serves too is invalid from now on.
Missing(L)   == {x \in DOMAIN L.impls :
                   ~L.impls[x].known /\ x.num \notin DOMAIN Runtime[x.lib.name].caps}
Completed(L) == [L EXCEPT !.impls = Table([x \in DOMAIN L.impls |->
                   [known |-> TRUE,
                    idx   |-> IF Superseded(L, x) THEN -1 ELSE L.impls[x].idx]])]

LEMMA CompletedLemma ==
    ASSUME NEW L, Core(L), Missing(L) = {}
    PROVE  LET N == Completed(L)
           IN  /\ Core(N) /\ SameFlags(L, N) /\ SameLibs(L, N) /\ N.fault = L.fault
               /\ N.next = L.next /\ N.ipos = L.ipos /\ DOMAIN N.impls = DOMAIN L.impls
               /\ \A x \in DOMAIN L.impls :
                    /\ N.impls[x].known = TRUE
                    /\ N.impls[x].idx = IF Superseded(L, x) THEN -1 ELSE L.impls[x].idx
<1> DEFINE new == Table([x \in DOMAIN L.impls |->
                        [known |-> TRUE,
                         idx   |-> IF Superseded(L, x) THEN -1 ELSE L.impls[x].idx]])
           N == Completed(L)
<1>1. /\ IsCtx(L) /\ L.fault \in Faults /\ ImplsType(L.impls, L.ipos) /\ L.next \in Nat
      /\ IndexInv(L.impls, L.next)
  BY DEF Core, CtxType
<1>2. new = [x \in DOMAIN L.impls |->
               [known |-> TRUE, idx |-> IF Superseded(L, x) THEN -1 ELSE L.impls[x].idx]]
  BY TableLemma
<1>3. \A x \in DOMAIN L.impls : L.impls[x].known \/ x.num \in DOMAIN Runtime[x.lib.name].caps
  BY DEF Missing
<1>4. N = [L EXCEPT !.impls = new]
  BY DEF Completed
<1> HIDE DEF new
<1>5. /\ DOMAIN new = DOMAIN L.impls
      /\ \A x \in DOMAIN L.impls :
           /\ new[x].known = TRUE
           /\ new[x].idx = IF Superseded(L, x) THEN -1 ELSE L.impls[x].idx
  BY <1>2
<1>6. \A x \in DOMAIN new : new[x] = [known |-> new[x].known, idx |-> new[x].idx]
  BY <1>2
<1>7. \A x \in DOMAIN L.impls : L.impls[x].idx \in Int
  BY <1>1 DEF ImplsType, ImplRecords
<1>8. \A x \in DOMAIN new : new[x].known \in BOOLEAN /\ new[x].idx \in Int
  <2>1. \A x \in DOMAIN new : new[x].idx \in Int
    BY <1>5, <1>7
  <2>2. \A x \in DOMAIN new : new[x].known \in BOOLEAN
    BY <1>5, Zenon
  <2> QED BY <2>1, <2>2
<1>9. \A x \in DOMAIN new : x.num \in DOMAIN Runtime[x.lib.name].caps
  BY <1>1, <1>3, <1>5 DEF ImplsType
<1>10. IsList(L.ipos) /\ DOMAIN L.ipos = DOMAIN L.impls
  BY <1>1 DEF ImplsType
<1>11. ImplsType(new, L.ipos)
  BY <1>1, <1>5, <1>6, <1>8, <1>9, <1>10, ImplsTypeLemma
<1>12. IndexInv(new, L.next)
  <2>1. \A x \in DOMAIN new : new[x].idx < L.next
    BY <1>1, <1>5, <1>7 DEF IndexInv
  <2>2. \A x \in Valid(new) : x \in Valid(L.impls) /\ new[x].idx = L.impls[x].idx
    BY <1>5 DEF Valid
  <2> QED BY <1>1, <1>5, <2>1, <2>2 DEF IndexInv
<1>13. IsCtx(N)
  BY <1>1, <1>4 DEF IsCtx
<1>14. /\ SameFlags(L, N) /\ SameLibs(L, N) /\ N.fault = L.fault
       /\ N.impls = new /\ N.ipos = L.ipos /\ N.next = L.next
  BY <1>1, <1>4 DEF IsCtx, Fields, SameFlags, SameLibs
<1> HIDE DEF N
<1>15. Core(N)
  BY <1>1, <1>11, <1>12, <1>13, <1>14, CoreImplsLemma
<1> QED BY <1>5, <1>14, <1>15 DEF N

\* The pass after a full query completes descriptions and invalidates entries.
LEMMA CompleteLemma ==
    ASSUME NEW L, Core(L)
    PROVE  LET M == CompleteFullQuery(L)
           IN  /\ Core(M) /\ SameFlags(L, M) /\ SameLibs(L, M)
               /\ Keeps(L, M) /\ DOMAIN M.impls = DOMAIN L.impls
<1> DEFINE N == Completed(L)
           G(M) == /\ Core(M) /\ SameFlags(L, M) /\ SameLibs(L, M)
                   /\ Keeps(L, M) /\ DOMAIN M.impls = DOMAIN L.impls
<1>1. \/ \E k \in Faults \ {"none"} : CompleteFullQuery(L) = Fault(L, k)
      \/ Missing(L) = {} /\ CompleteFullQuery(L) = PrioritizeImplList(N)
  <2>1. CASE HasFreedImpl(L)
    <3>1. CompleteFullQuery(L) = Fault(L, "freed")
      BY <2>1 DEF CompleteFullQuery
    <3> QED BY <3>1 DEF Faults
  <2>2. CASE ~HasFreedImpl(L) /\ Missing(L) # {}
    <3> DEFINE k == IF \E x \in Missing(L) : IsVPL(L, x) THEN "null" ELSE "hang"
    <3>1. CompleteFullQuery(L) = Fault(L, k)
      BY <2>2 DEF CompleteFullQuery, Missing
    <3>2. k \in Faults \ {"none"}
      BY DEF Faults
    <3> QED BY <3>1, <3>2
  <2>3. CASE ~HasFreedImpl(L) /\ Missing(L) = {}
    BY <2>3 DEF CompleteFullQuery, Missing, Completed
  <2> QED BY <2>1, <2>2, <2>3
<1>2. ASSUME NEW k \in Faults \ {"none"}, CompleteFullQuery(L) = Fault(L, k)
      PROVE  G(CompleteFullQuery(L))
  <2>1. /\ Core(Fault(L, k)) /\ SameFlags(L, Fault(L, k)) /\ SameImpls(L, Fault(L, k))
        /\ SameLibs(L, Fault(L, k))
    BY FaultLemma
  <2> QED BY <1>2, <2>1 DEF SameImpls, Keeps
<1>3. ASSUME Missing(L) = {}, CompleteFullQuery(L) = PrioritizeImplList(N)
      PROVE  G(CompleteFullQuery(L))
  <2>1. /\ Core(N) /\ SameFlags(L, N) /\ SameLibs(L, N) /\ DOMAIN N.impls = DOMAIN L.impls
        /\ \A x \in DOMAIN L.impls : N.impls[x].known = TRUE
    BY <1>3, CompletedLemma
  <2> HIDE DEF N
  <2> DEFINE P == PrioritizeImplList(N)
  <2>2. Core(P) /\ SameFlags(N, P) /\ SameLibs(N, P) /\ SameEntries(N, P)
    BY <2>1, PrioritizeLemma
  <2> HIDE DEF P
  <2>3. SameFlags(L, P) /\ SameLibs(L, P)
    BY <2>1, <2>2 DEF SameFlags, SameLibs
  <2>4. Keeps(L, P) /\ DOMAIN P.impls = DOMAIN L.impls
    BY <2>1, <2>2 DEF SameEntries, Keeps
  <2> QED BY <1>3, <2>2, <2>3, <2>4 DEF P
<1> QED BY <1>1, <1>2, <1>3

\* What the query of one library adds.
LEMMA NewImplsLemma ==
    ASSUME NEW L, Core(L), NEW i \in DOMAIN L.libs, NEW x \in NewImpls(L, i)
    PROVE  /\ x \in ImplIds /\ x.lib = i /\ x.low = L.low
           /\ ~L.low => x.num \in DOMAIN Runtime[i.name].caps
<1> DEFINE caps == Runtime[i.name].caps
<1>1. i \in LibIds /\ L.low \in BOOLEAN
  BY DEF Core, CtxType, LibsType
<1>2. DOMAIN caps \subseteq 0 .. 3
  BY <1>1, RuntimeAssumption DEF LibIds
<1>3. PICK n \in 0 .. 3 : x = [lib |-> i, num |-> n, low |-> L.low] /\ (~L.low => n \in DOMAIN caps)
  <2> DEFINE r == Runtime[i.name]
             nums == CASE L.libs[i].type = "VPL" /\ L.low ->
                        {n \in {0} : r.session /\ r.version <= r.complete}
                  [] L.libs[i].type = "VPL" /\ ~L.low ->
                        {n \in DOMAIN r.caps : r.caps[n].ApiVersion <= r.complete}
                  [] L.libs[i].type = "MSDK" /\ L.low -> {n \in {0} : r.session}
                  [] L.libs[i].type = "MSDK" /\ ~L.low -> DOMAIN r.caps
                  [] OTHER -> {}
  <2>1. PICK n \in nums : x = [lib |-> i, num |-> n, low |-> L.low]
    BY DEF NewImpls
  <2>2. n \in 0 .. 3 /\ (~L.low => n \in DOMAIN caps)
    BY <1>2
  <2> QED BY <2>1, <2>2
<1>4. [lib |-> i, num |-> n, low |-> L.low] \in ImplIds
  BY <1>1 DEF ImplIds
<1> QED BY <1>3, <1>4

\* new is a set of entries a query of the listed libraries may add, and none
\* of this kind is on the list.
NewEntries(L, new) ==
    /\ \A x \in new : /\ x \in ImplIds /\ x.lib \in DOMAIN L.libs /\ x.low = L.low
                      /\ ~L.low => x.num \in DOMAIN Runtime[x.lib.name].caps
    /\ \A x \in DOMAIN L.impls : x.low # L.low

\* The new entries, ordered by library and number, are a finite list.
LEMMA QueryOrderLemma ==
    ASSUME NEW L, Core(L), NEW new, NewEntries(L, new)
    PROVE  LET q == ListByKey(new, [x \in new |-> 4 * L.lpos[x.lib] + x.num])
           IN  IsFiniteSet(new) /\ IsList(q) /\ DOMAIN q = new
<1> DEFINE key == [x \in new |-> 4 * L.lpos[x.lib] + x.num]
           m == Cardinality(DOMAIN L.lpos)
           N == 4 * m + 3
<1>1. IsList(L.lpos) /\ DOMAIN L.lpos = DOMAIN L.libs
  BY DEF Core, CtxType, LibsType
<1>2. m \in Nat
  BY <1>1, FS_CardinalityType DEF IsList
<1>3. ASSUME NEW x \in new
      PROVE  /\ L.lpos[x.lib] \in 1 .. m /\ x.num \in 0 .. 3 /\ x.lib \in DOMAIN L.lpos
             /\ key[x] = 4 * L.lpos[x.lib] + x.num
  <2>1. x.lib \in DOMAIN L.lpos /\ x \in ImplIds
    BY <1>1 DEF NewEntries
  <2>2. x.num \in 0 .. 3
    BY <2>1 DEF ImplIds
  <2>3. L.lpos[x.lib] \in 1 .. m
    BY <1>1, <2>1 DEF IsList
  <2> QED BY <2>1, <2>2, <2>3
<1> HIDE DEF m
<1>4. key \in [new -> 0 .. N]
  <2> DEFINE T == 0 .. N
  <2>1. ASSUME NEW x \in new PROVE 4 * L.lpos[x.lib] + x.num \in T
    BY <1>2, <1>3
  <2> HIDE DEF T
  <2>2. key \in [new -> T]
    BY <2>1
  <2> QED BY <2>2 DEF T
<1>5. IsInjectiveOn(key, new)
  <2> SUFFICES ASSUME NEW x \in new, NEW y \in new, key[x] = key[y] PROVE x = y
    BY DEF IsInjectiveOn
  <2> DEFINE a == L.lpos[x.lib]
             b == L.lpos[y.lib]
             c == x.num
             d == y.num
  <2>1. a \in Nat /\ b \in Nat /\ c \in 0 .. 3 /\ d \in 0 .. 3 /\ 4 * a + c = 4 * b + d
    BY <1>2, <1>3
  <2> HIDE DEF a, b, c, d
  <2>2. a = b /\ c = d
    BY <2>1
  <2>3. x.lib = y.lib
    BY <1>1, <1>3, <2>2 DEF a, b, IsList, IsInjectiveOn
  <2>4. x \in ImplIds /\ y \in ImplIds /\ x.low = y.low
    BY DEF NewEntries
  <2> QED BY <2>2, <2>3, <2>4 DEF ImplIds, c, d
<1>6. N \in Nat
  BY <1>2
<1> HIDE DEF key, N
<1>7. IsFiniteSet(new) /\ key \in [new -> Int]
  BY <1>4, <1>5, <1>6, BoundedKeyLemma
<1>8. IsList(ListByKey(new, key)) /\ DOMAIN ListByKey(new, key) = new
  BY <1>5, <1>7, ListByKeyLemma
<1> QED BY <1>7, <1>8 DEF key

\* M has the entries of L, unchanged and in front, and those of new, with
\* larger indices.
Appends(L, M, new) ==
    /\ DOMAIN M.impls = DOMAIN L.impls \cup new /\ DOMAIN L.impls \cap new = {}
    /\ \A x \in DOMAIN L.impls : M.impls[x] = L.impls[x] /\ M.ipos[x] = L.ipos[x]
    /\ \A x \in new : /\ M.impls[x].known = ~L.low /\ M.impls[x].idx >= L.next
                      /\ \A y \in DOMAIN L.impls : M.ipos[y] < M.ipos[x]
    /\ \A x, y \in new : M.impls[x].idx < M.impls[y].idx => M.ipos[x] < M.ipos[y]

\* Entries are appended with indices above all others.
LEMMA AddImplsLemma ==
    ASSUME NEW L, Core(L), NEW drop, drop \subseteq DOMAIN L.libs, NEW new, NewEntries(L, new)
    PROVE  LET M == AddImpls(L, drop, new, L.next)
           IN  /\ Core(M) /\ SameFlags(L, M) /\ Keeps(L, M) /\ M.fault = L.fault
               /\ DOMAIN M.libs = DOMAIN L.libs \ drop
               /\ \A i \in DOMAIN M.libs : M.libs[i] = L.libs[i]
               /\ Appends(L, M, new) /\ \A n \in Names : Leaked(M, n) = Leaked(L, n)
<1> DEFINE q == ListByKey(new, [x \in new |-> 4 * L.lpos[x.lib] + x.num])
           U == UnloadLibs(L, drop)
           old == DOMAIN L.impls
           impls == Table([x \in old \cup new |->
                         IF x \in old THEN L.impls[x]
                         ELSE [known |-> ~L.low, idx |-> L.next + q[x] - 1]])
           ipos == PushBack(U.ipos, q)
           next == U.next + Cardinality(new)
           M == [U EXCEPT !.impls = impls, !.ipos = ipos, !.next = next]
<1>1. IsFiniteSet(new) /\ IsList(q) /\ DOMAIN q = new
  BY QueryOrderLemma
<1>2. AddImpls(L, drop, new, L.next) = M
  BY DEF AddImpls
<1> HIDE DEF q
<1>3. /\ Core(U) /\ SameFlags(L, U) /\ SameImpls(L, U) /\ U.fault = L.fault
      /\ DOMAIN U.libs = DOMAIN L.libs \ drop /\ \A i \in DOMAIN U.libs : U.libs[i] = L.libs[i]
      /\ \A n \in Names : Leaked(U, n) = Leaked(L, n)
  BY UnloadLibsLemma
<1> HIDE DEF U
<1>4. /\ ImplsType(L.impls, L.ipos) /\ IndexInv(L.impls, L.next) /\ L.next \in Nat
      /\ L.low \in BOOLEAN
  BY DEF Core, CtxType
<1>5. IsList(L.ipos) /\ DOMAIN L.ipos = old /\ IsFiniteSet(old) /\ U.ipos = L.ipos /\ U.next = L.next
  BY <1>3, <1>4 DEF ImplsType, IsList, SameImpls
<1>6. old \cap new = {}
  BY DEF NewEntries
<1>7. /\ IsList(ipos) /\ DOMAIN ipos = old \cup new
      /\ \A x \in old : ipos[x] = L.ipos[x]
      /\ \A x \in new : ipos[x] = Cardinality(old) + q[x]
  <2>1. DOMAIN L.ipos \cap DOMAIN q = {}
    BY <1>1, <1>5, <1>6
  <2>2. /\ IsList(PushBack(L.ipos, q)) /\ DOMAIN PushBack(L.ipos, q) = DOMAIN L.ipos \cup DOMAIN q
        /\ \A x \in DOMAIN L.ipos : PushBack(L.ipos, q)[x] = L.ipos[x]
        /\ \A x \in DOMAIN q : PushBack(L.ipos, q)[x] = Cardinality(DOMAIN L.ipos) + q[x]
    BY <1>1, <1>5, <2>1, PushBackLemma
  <2> QED BY <1>1, <1>5, <2>2
<1>8. /\ Cardinality(new) \in Nat /\ Cardinality(old) \in Nat
      /\ Cardinality(old \cup new) = Cardinality(old) + Cardinality(new)
  <2>1. Cardinality(new) \in Nat /\ Cardinality(old) \in Nat
    BY <1>1, <1>5, FS_CardinalityType
  <2>2. Cardinality(old \cap new) = 0
    BY <1>6, FS_EmptySet
  <2>3. Cardinality(old \cup new) =
          Cardinality(old) + Cardinality(new) - Cardinality(old \cap new)
    BY <1>1, <1>5, FS_Union
  <2> QED BY <2>1, <2>2, <2>3
<1>9. /\ DOMAIN impls = old \cup new
      /\ \A x \in old : impls[x] = L.impls[x]
      /\ \A x \in new : impls[x] = [known |-> ~L.low, idx |-> L.next + q[x] - 1]
  <2> DEFINE rec(x) == [known |-> ~L.low, idx |-> L.next + q[x] - 1]
  <2>1. impls = [x \in old \cup new |-> IF x \in old THEN L.impls[x] ELSE rec(x)]
    BY TableLemma
  <2> HIDE DEF impls, rec, old
  <2>2. /\ DOMAIN impls = old \cup new
        /\ \A x \in old : impls[x] = L.impls[x]
        /\ \A x \in new : impls[x] = rec(x)
    BY <1>6, <2>1
  <2> QED BY <2>2 DEF rec
<1>10. ASSUME NEW x \in new
       PROVE  /\ impls[x].idx = L.next + q[x] - 1 /\ q[x] \in 1 .. Cardinality(new)
              /\ impls[x].known = ~L.low /\ impls[x] \in ImplRecords
  <2> DEFINE j == L.next + q[x] - 1
             k == ~L.low
  <2>1. q[x] \in 1 .. Cardinality(new)
    BY <1>1 DEF IsList
  <2>2. j \in Int
    BY <1>4, <1>8, <2>1
  <2>3. k \in BOOLEAN
    OBVIOUS
  <2>4. impls[x] = [known |-> k, idx |-> j]
    BY <1>9
  <2> HIDE DEF j, k, impls
  <2>5. impls[x].idx = j /\ impls[x].known = k /\ impls[x] \in ImplRecords
    BY <2>2, <2>3, <2>4 DEF ImplRecords
  <2> QED BY <2>1, <2>5 DEF j, k
<1> HIDE DEF impls, ipos, old
<1>11. ImplsType(impls, ipos)
  <2>1. \A x \in old : impls[x] \in ImplRecords /\ x \in ImplIds
    BY <1>4, <1>9 DEF ImplsType, old
  <2>2. \A x \in old : impls[x].known => x.num \in DOMAIN Runtime[x.lib.name].caps
    BY <1>4, <1>9 DEF ImplsType, old
  <2>3. \A x \in new : impls[x].known => x.num \in DOMAIN Runtime[x.lib.name].caps
    BY <1>10 DEF NewEntries
  <2>4. new \subseteq ImplIds
    BY DEF NewEntries
  <2> QED BY <1>7, <1>9, <1>10, <2>1, <2>2, <2>3, <2>4 DEF ImplsType
<1>12. next \in Nat /\ next = L.next + Cardinality(new)
  BY <1>4, <1>5, <1>8
<1>13. IndexInv(impls, next)
  <2>1. \A x \in old : impls[x].idx \in Int /\ impls[x].idx < L.next
    BY <1>4, <1>9 DEF IndexInv, ImplsType, ImplRecords, old
  <2>2. \A x \in new : impls[x].idx \in L.next .. (next - 1)
    BY <1>4, <1>8, <1>10, <1>12
  <2>3. ASSUME NEW x \in DOMAIN impls PROVE impls[x].idx < next
    BY <1>4, <1>8, <1>9, <1>12, <2>1, <2>2
  <2>4. Cardinality(DOMAIN impls) <= next
    <3>1. Cardinality(old) <= L.next
      BY <1>4 DEF IndexInv, old
    <3> QED BY <1>4, <1>8, <1>9, <1>12, <3>1
  <2>5. ASSUME NEW x \in Valid(impls), NEW y \in Valid(impls), impls[x].idx = impls[y].idx
        PROVE  x = y
    <3>1. x \in old \cup new /\ y \in old \cup new /\ impls[x].idx >= 0 /\ impls[y].idx >= 0
      BY <1>9 DEF Valid
    <3>2. CASE x \in old /\ y \in old
      <4>1. x \in Valid(L.impls) /\ y \in Valid(L.impls) /\ L.impls[x].idx = L.impls[y].idx
        BY <1>9, <2>5, <3>1, <3>2 DEF Valid, old
      <4> QED BY <1>4, <4>1 DEF IndexInv
    <3>3. CASE x \in new /\ y \in new
      <4>1. q[x] = q[y]
        BY <1>4, <1>8, <1>10, <2>5, <3>3, SMTT(20)
      <4> QED BY <1>1, <3>3, <4>1 DEF IsList, IsInjectiveOn
    <3>4. CASE x \in old /\ y \in new
      BY <1>4, <1>12, <2>1, <2>2, <2>5, <3>4
    <3>5. CASE x \in new /\ y \in old
      BY <1>4, <1>12, <2>1, <2>2, <2>5, <3>5
    <3> QED BY <3>1, <3>2, <3>3, <3>4, <3>5
  <2> QED BY <2>3, <2>4, <2>5 DEF IndexInv
<1> HIDE DEF next
<1>14. IsCtx(U) /\ U.fault \in Faults
  BY <1>3 DEF Core, CtxType
<1>15. IsCtx(M)
  BY <1>14 DEF IsCtx
<1>16. /\ SameFlags(U, M) /\ SameLibs(U, M) /\ M.fault = U.fault
       /\ M.impls = impls /\ M.ipos = ipos /\ M.next = next
  BY <1>14 DEF IsCtx, Fields, SameFlags, SameLibs
<1> HIDE DEF M
<1>17. Core(M)
  BY <1>3, <1>11, <1>12, <1>13, <1>14, <1>15, <1>16, CoreImplsLemma
<1>18. SameFlags(L, M) /\ Keeps(L, M) /\ M.fault = L.fault /\ DOMAIN M.libs = DOMAIN L.libs \ drop
       /\ \A i \in DOMAIN M.libs : M.libs[i] = L.libs[i]
  BY <1>3, <1>9, <1>16 DEF SameFlags, SameLibs, Keeps, old
<1>19. Appends(L, M, new)
  <2>1. \A y \in old : L.ipos[y] \in Int /\ L.ipos[y] <= Cardinality(old)
    BY <1>5, <1>8 DEF IsList
  <2>2. ASSUME NEW x \in new
        PROVE  /\ impls[x].idx >= L.next
               /\ \A y \in old : ipos[y] < ipos[x]
    BY <1>4, <1>7, <1>8, <1>10, <2>1
  <2>3. ASSUME NEW x \in new, NEW y \in new, impls[x].idx < impls[y].idx
        PROVE  ipos[x] < ipos[y]
    BY <1>4, <1>7, <1>8, <1>10, <2>3
  <2> QED BY <1>6, <1>7, <1>9, <1>10, <1>16, <2>2, <2>3 DEF Appends, old
<1>20. \A n \in Names : Leaked(M, n) = Leaked(L, n)
  BY <1>3, <1>16 DEF Leaked, OpenIn, SameLibs
<1> QED BY <1>2, <1>17, <1>18, <1>19, <1>20

\* What a query adds is new, and belongs to libraries that stay.
LEMMA QueriedLemma ==
    ASSUME NEW L, Core(L), \A x \in DOMAIN L.impls : x.low # L.low
    PROVE  LET T == DOMAIN L.libs \ DroppedByQuery(L)
           IN  NewEntries(L, ImplsOf(L, T)) /\ \A x \in ImplsOf(L, T) : x.lib \in T
<1> DEFINE T == DOMAIN L.libs \ DroppedByQuery(L)
<1>1. ASSUME NEW x \in ImplsOf(L, T)
      PROVE  /\ x \in ImplIds /\ x.lib \in T /\ x.low = L.low
             /\ ~L.low => x.num \in DOMAIN Runtime[x.lib.name].caps
  <2>1. PICK i \in T : x \in NewImpls(L, i)
    BY DEF ImplsOf
  <2>2. /\ x \in ImplIds /\ x.lib = i /\ x.low = L.low
        /\ ~L.low => x.num \in DOMAIN Runtime[i.name].caps
    BY <2>1, NewImplsLemma
  <2> QED BY <2>2
<1> QED BY <1>1 DEF NewEntries

\* A query adds entries of its own kind and keeps the others.
LEMMA QueryLemma ==
    ASSUME NEW L, Core(L), \A x \in DOMAIN L.impls : x.low # L.low
    PROVE  LET M == QueryLibraryCaps(L)
           IN  /\ Core(M) /\ SameFlags(L, M) /\ Keeps(L, M)
               /\ \A x \in DOMAIN M.impls \ DOMAIN L.impls :
                    /\ x.low = L.low /\ x.lib \in DOMAIN M.libs /\ ~HasFreedLib(L)
                    /\ ~L.low => M.impls[x].known
               /\ \A i \in DOMAIN M.libs : i \in DOMAIN L.libs /\ M.libs[i] = L.libs[i]
               /\ \A n \in Names : Leaked(M, n) = Leaked(L, n)
               /\ M.fault = "none" /\ L.low =>
                    /\ DOMAIN M.libs = DOMAIN L.libs \ DroppedByQuery(L)
                    /\ \E new : Appends(L, M, new)
<1> DEFINE drop == DroppedByQuery(L)
           new == ImplsOf(L, DOMAIN L.libs \ drop)
           Q == QueryEachLibrary(L)
           C == CompleteFullQuery(Q)
           M == QueryLibraryCaps(L)
           F == Fault(L, "freed")
<1>1. drop \subseteq DOMAIN L.libs
  BY DEF DroppedByQuery
<1>2. NewEntries(L, new)
  BY QueriedLemma
<1>3. \A x \in new : x.lib \in DOMAIN L.libs \ drop
  BY QueriedLemma
<1>4. /\ Core(Q) /\ SameFlags(L, Q) /\ Keeps(L, Q) /\ Q.fault = L.fault
      /\ DOMAIN Q.libs = DOMAIN L.libs \ drop /\ \A i \in DOMAIN Q.libs : Q.libs[i] = L.libs[i]
      /\ Appends(L, Q, new) /\ \A n \in Names : Leaked(Q, n) = Leaked(L, n)
  <2> DEFINE A == AddImpls(L, drop, new, L.next)
  <2>1. Q = A
    BY DEF QueryEachLibrary
  <2> HIDE DEF drop, new, Q
  <2>2. /\ Core(A) /\ SameFlags(L, A) /\ Keeps(L, A) /\ A.fault = L.fault
        /\ DOMAIN A.libs = DOMAIN L.libs \ drop /\ \A i \in DOMAIN A.libs : A.libs[i] = L.libs[i]
        /\ Appends(L, A, new) /\ \A n \in Names : Leaked(A, n) = Leaked(L, n)
    <3>1. /\ Core(A) /\ SameFlags(L, A) /\ Keeps(L, A) /\ A.fault = L.fault
          /\ DOMAIN A.libs = DOMAIN L.libs \ drop /\ \A i \in DOMAIN A.libs : A.libs[i] = L.libs[i]
      BY <1>1, <1>2, AddImplsLemma, ZenonT(60)
    <3>2. Appends(L, A, new)
      BY <1>1, <1>2, AddImplsLemma
    <3>3. ASSUME NEW n \in Names PROVE Leaked(A, n) = Leaked(L, n)
      BY <1>1, <1>2, AddImplsLemma
    <3> QED BY <3>1, <3>2, <3>3
  <2> HIDE DEF A
  <2> QED BY <2>1, <2>2
<1> HIDE DEF new
<1>5. \A x \in DOMAIN Q.impls \ DOMAIN L.impls :
        x.low = L.low /\ x.lib \in DOMAIN Q.libs /\ (~L.low => Q.impls[x].known)
  <2> HIDE DEF drop, Q
  <2> QED BY <1>2, <1>3, <1>4 DEF NewEntries, Appends
<1>6. M = F \/ (M = Q /\ ~HasFreedLib(L)) \/ (M = C /\ ~HasFreedLib(L) /\ ~Q.low)
  BY DEF QueryLibraryCaps, AfterQuery
<1> HIDE DEF Q
<1>7. /\ Core(C) /\ SameFlags(Q, C) /\ SameLibs(Q, C) /\ Keeps(Q, C)
      /\ DOMAIN C.impls = DOMAIN Q.impls
  BY <1>4, CompleteLemma
<1>8. Core(F) /\ SameFlags(L, F) /\ SameImpls(L, F) /\ SameLibs(L, F) /\ F.fault # "none"
  BY FaultLemma DEF Faults
<1> HIDE DEF C, F, M
<1>9. CASE M = F
  <2>1. \A n \in Names : Leaked(F, n) = Leaked(L, n)
    BY <1>8 DEF SameLibs, Leaked, OpenIn
  <2> QED BY <1>8, <1>9, <2>1 DEF SameImpls, SameLibs, Keeps, M
<1>10. CASE M = Q /\ ~HasFreedLib(L)
  BY <1>4, <1>5, <1>10 DEF M
<1>11. CASE M = C /\ ~HasFreedLib(L) /\ ~Q.low
  <2>1. SameFlags(L, C) /\ Keeps(L, C) /\ ~L.low
    BY <1>4, <1>7, <1>11 DEF SameFlags, Keeps
  <2>2. \A x \in DOMAIN C.impls \ DOMAIN L.impls :
          x.low = L.low /\ x.lib \in DOMAIN C.libs /\ (~L.low => C.impls[x].known)
    BY <1>5, <1>7 DEF SameLibs, Keeps
  <2>3. \A i \in DOMAIN C.libs : i \in DOMAIN L.libs /\ C.libs[i] = L.libs[i]
    BY <1>4, <1>7 DEF SameLibs
  <2>4. \A n \in Names : Leaked(C, n) = Leaked(L, n)
    BY <1>4, <1>7 DEF SameLibs, Leaked, OpenIn
  <2> QED BY <1>7, <1>11, <2>1, <2>2, <2>3, <2>4 DEF M
<1> QED BY <1>6, <1>9, <1>10, <1>11

\* The full load and query of a loader that has not had one.
LEMMA FullLoadLemma ==
    ASSUME NEW L, Core(L), PhaseInv(L), L.needFull, NEW bad
    PROVE  LET M == FullLoadAndQuery(L, bad)
           IN  Core(M) /\ PhaseInv(M)
<1> DEFINE K == [L EXCEPT !.low = FALSE]
           B == BuildListOfCandidateLibs(K)
           C == CheckValidLibraries(B, bad)
           Q == QueryLibraryCaps(C)
           R == [Q EXCEPT !.needFull = FALSE, !.needUpdate = TRUE]
           F == Fault(L, "freed")
           M == FullLoadAndQuery(L, bad)
           Rest(N) == N.needFull = L.needFull /\ N.needLow = L.needLow
<1>1. M = F \/ M = C \/ (M = Q /\ DOMAIN Q.impls = {}) \/ M = R
  BY DEF FullLoadAndQuery, QueryLoaded, NoteFullQuery
<1>2. IsCtx(L)
  BY DEF Core
<1>3. IsCtx(K)
  BY <1>2 DEF IsCtx
<1>4. /\ SameImpls(L, K) /\ SameLibs(L, K) /\ K.fault = L.fault /\ K.low = FALSE
      /\ K.live = L.live /\ K.needUpdate = L.needUpdate /\ Rest(K)
  BY <1>2 DEF IsCtx, Fields, SameImpls, SameLibs
<1> HIDE DEF K
<1>5. Core(K)
  BY <1>3, <1>4 DEF Core, CtxType, SameImpls, SameLibs
<1>6. Core(B) /\ SameFlags(K, B) /\ SameImpls(K, B)
  BY <1>5, BuildLemma
<1> HIDE DEF B
<1>7. Core(C) /\ SameFlags(B, C) /\ SameImpls(B, C)
  BY <1>6, CheckLemma
<1> HIDE DEF C
<1>8. C.impls = L.impls /\ C.low = FALSE /\ Rest(C)
  BY <1>4, <1>6, <1>7 DEF SameImpls, SameFlags
<1>9. \A x \in DOMAIN L.impls : x.low \in BOOLEAN
  BY DEF Core, CtxType, ImplsType, ImplIds
<1>10. \A x \in DOMAIN L.impls : x.low = TRUE /\ ~L.needLow
  BY <1>9 DEF PhaseInv
<1>11. \A x \in DOMAIN C.impls : x.low # C.low
  BY <1>8, <1>10
<1>12. /\ Core(Q) /\ SameFlags(C, Q)
       /\ \A x \in DOMAIN Q.impls \ DOMAIN C.impls : x.low = C.low
  BY <1>7, <1>11, QueryLemma
<1> HIDE DEF Q
<1>13. Core(F) /\ PhaseInv(F)
  <2>1. Core(F) /\ SameFlags(L, F) /\ SameImpls(L, F)
    BY FaultLemma DEF Faults
  <2> HIDE DEF F
  <2> QED BY <2>1 DEF PhaseInv, SameFlags, SameImpls
<1>14. PhaseInv(C)
  BY <1>8 DEF PhaseInv
<1>15. Core(R) /\ PhaseInv(R)
  <2>1. IsCtx(Q)
    BY <1>12 DEF Core
  <2>2. IsCtx(R)
    BY <2>1 DEF IsCtx
  <2>3. /\ SameImpls(Q, R) /\ SameLibs(Q, R) /\ R.fault = Q.fault /\ R.low = Q.low
        /\ R.live = Q.live /\ R.needUpdate = TRUE /\ R.needFull = FALSE /\ R.needLow = Q.needLow
    BY <2>1 DEF IsCtx, Fields, SameImpls, SameLibs
  <2> HIDE DEF R
  <2>4. Core(R)
    BY <1>12, <2>2, <2>3 DEF Core, CtxType, SameImpls, SameLibs
  <2>5. R.impls = Q.impls /\ R.needLow = L.needLow
    BY <1>8, <1>12, <2>3 DEF SameFlags, SameImpls
  <2>6. \A x \in DOMAIN R.impls : x.low => ~R.needLow
    BY <1>8, <1>10, <1>12, <2>5
  <2> QED BY <2>3, <2>4, <2>6 DEF PhaseInv
<1> HIDE DEF F, R, M
<1>16. CASE M = Q /\ DOMAIN Q.impls = {}
  <2>1. PhaseInv(Q)
    BY <1>16 DEF PhaseInv
  <2> QED BY <1>12, <1>16, <2>1 DEF M
<1> QED BY <1>1, <1>7, <1>13, <1>14, <1>15, <1>16 DEF M

\* The full query brings a loader up to date.  Once it has succeeded it is
\* not repeated, and every entry stays.
LEMMA FullQueryLemma ==
    ASSUME NEW L, Core(L), PhaseInv(L), NEW bad
    PROVE  LET R == FullQuery(L, bad)
           IN  /\ Core(R.L) /\ PhaseInv(R.L)
               /\ R.ok => ~R.L.needFull
               /\ ~L.needFull => ~R.L.needFull /\ Keeps(L, R.L)
<1> DEFINE Q == IF L.needFull THEN FullLoadAndQuery(L, bad) ELSE L
           U == UpdateValidImplList(Q)
           R == FullQuery(L, bad)
<1>1. Core(Q) /\ PhaseInv(Q) /\ (~L.needFull => Q = L)
  BY FullLoadLemma
<1>2. \/ R = [L |-> Q, ok |-> FALSE]
      \/ ~Q.needFull /\ R = [L |-> U, ok |-> TRUE]
      \/ ~Q.needFull /\ R = [L |-> Q, ok |-> TRUE]
  BY DEF FullQuery, Filtered
<1> HIDE DEF Q
<1>3. Core(U) /\ SameEntries(Q, U) /\ U.needFull = Q.needFull /\ U.needLow = Q.needLow
  BY <1>1, UpdateLemma
<1> HIDE DEF U, R
<1>4. PhaseInv(U) /\ Keeps(Q, U)
  BY <1>1, <1>3 DEF PhaseInv, SameEntries, Keeps
<1>5. Keeps(Q, Q)
  BY DEF Keeps
<1>6. /\ R.L = Q \/ R.L = U
      /\ R.ok => ~Q.needFull
  BY <1>2
<1>7. /\ Core(R.L) /\ PhaseInv(R.L) /\ Keeps(Q, R.L) /\ R.L.needFull = Q.needFull
  BY <1>1, <1>3, <1>4, <1>5, <1>6
<1> QED BY <1>1, <1>6, <1>7 DEF R

-----------------------------------------------------------------------------
(***************************************************************************)
(* The API calls                                                           *)
(***************************************************************************)

\* Every entry of L is kept, and a full query is not taken back.
Stays(L, M) == Keeps(L, M) /\ (~L.needFull => ~M.needFull)

HeldIn(h, L) == \A e \in h : ~L.needFull /\ e.impl \in DOMAIN L.impls /\ L.impls[e.impl].known

\* Descriptions stay with the entries they belong to.
LEMMA HeldLemma ==
    ASSUME NEW L, NEW M, NEW h, HeldIn(h, L), Stays(L, M)
    PROVE  HeldIn(h, M)
  BY DEF HeldIn, Stays, Keeps

\* MFXEnumImplementations: what a low-latency session loaded is unloaded only
\* as long as no full query has handed out descriptions.
LEMMA EnumQueryLemma ==
    ASSUME Core(ld), PhaseInv(ld), NEW bad
    PROVE  LET R == EnumQuery(bad)
           IN  /\ Core(R.L) /\ PhaseInv(R.L)
               /\ R.ok => ~R.L.needFull
               /\ ~ld.needFull => Stays(ld, R.L)
<1> DEFINE U == UnloadAllLibraries(ld)
           K == IF ld.needFull /\ ld.low /\ ~ld.needLow THEN U ELSE ld
           R == FullQuery(K, bad)
<1>1. EnumQuery(bad) = R
  BY DEF EnumQuery
<1>2. Core(U) /\ PhaseInv(U)
  <2>1. Core(U) /\ SameFlags(ld, U) /\ (U.impls = ld.impls \/ DOMAIN U.impls = {})
    BY UnloadAllLemma
  <2> HIDE DEF U
  <2> QED BY <2>1 DEF PhaseInv, SameFlags
<1>3. Core(K) /\ PhaseInv(K) /\ (~ld.needFull => K = ld)
  BY <1>2
<1> HIDE DEF K, U
<1>4. /\ Core(R.L) /\ PhaseInv(R.L)
      /\ R.ok => ~R.L.needFull
      /\ ~K.needFull => ~R.L.needFull /\ Keeps(K, R.L)
  BY <1>3, FullQueryLemma
<1> HIDE DEF R
<1> QED BY <1>1, <1>3, <1>4 DEF Stays

\* A low-latency query adds to what is listed.
LEMMA LowQueryLemma ==
    ASSUME Core(ld), PhaseInv(ld), ld.low, NEW bad, NEW late
    PROVE  LET R == LowQuery(bad, late)
           IN  Core(R.L) /\ PhaseInv(R.L) /\ Stays(ld, R.L)
<1> DEFINE V == LoadLibsLowLatency(ld, bad, late)
           Q == QueryLibraryCaps(V)
           R == LowQuery(bad, late)
<1>1. \/ R.L = ld
      \/ ld.needLow /\ R.L = V
      \/ ld.needLow /\ ~V.needLow /\ R.L = Q
  BY DEF LowQuery, LowQueryLoaded
<1>2. /\ Core(V) /\ SameImpls(ld, V) /\ V.low = ld.low /\ V.needFull = ld.needFull
      /\ V.needLow \in {ld.needLow, FALSE}
  BY LoadLowLemma, ZenonT(30)
<1> HIDE DEF V
<1>3. PhaseInv(V) /\ Stays(ld, V)
  BY <1>2 DEF PhaseInv, SameImpls, Stays, Keeps
<1>4. Stays(ld, ld)
  BY DEF Stays, Keeps
<1>5. ASSUME ld.needLow, ~V.needLow
      PROVE  Core(Q) /\ PhaseInv(Q) /\ Stays(ld, Q)
  <2>1. \A x \in DOMAIN V.impls : x.low # V.low
    <3>1. \A x \in DOMAIN V.impls : ~x.low
      BY <1>2, <1>5 DEF PhaseInv, SameImpls
    <3> QED BY <1>2, <3>1
  <2>2. /\ Core(Q) /\ SameFlags(V, Q) /\ Keeps(V, Q)
        /\ \A x \in DOMAIN Q.impls \ DOMAIN V.impls : x.low = V.low
    BY <1>2, <2>1, QueryLemma
  <2> HIDE DEF Q
  <2>3. ASSUME NEW x \in DOMAIN Q.impls, ~x.low PROVE ~Q.needFull
    <3>1. x \in DOMAIN V.impls
      BY <1>2, <2>2, <2>3
    <3> QED BY <1>3, <2>2, <2>3, <3>1 DEF PhaseInv, SameFlags
  <2>4. ~Q.needLow
    BY <1>5, <2>2 DEF SameFlags
  <2>5. PhaseInv(Q)
    BY <2>3, <2>4 DEF PhaseInv
  <2>6. Stays(ld, Q)
    BY <1>3, <2>2 DEF Stays, Keeps, SameFlags
  <2> QED BY <2>2, <2>5, <2>6
<1> HIDE DEF Q, R
<1> QED BY <1>1, <1>2, <1>3, <1>4, <1>5 DEF R

\* A new loader has no libraries and no implementations.
LEMMA NewLoaderLemma ==
    ASSUME NEW dl \in [Names -> Int], NEW live \in BOOLEAN
    PROVE  Core(NewLoader(dl, live)) /\ PhaseInv(NewLoader(dl, live))
<1> DEFINE M == NewLoader(dl, live)
<1>1. /\ M.live = live /\ M.low = FALSE /\ M.needUpdate = TRUE /\ M.needFull = TRUE
      /\ M.needLow = TRUE /\ M.libs = EmptyList /\ M.lpos = EmptyList
      /\ M.impls = EmptyList /\ M.ipos = EmptyList /\ M.next = 0 /\ M.dl = dl
      /\ M.fault = "none"
  BY DEF NewLoader
<1>2. IsCtx(M)
  BY DEF IsCtx, NewLoader, Fields
<1> HIDE DEF M
<1>3. DOMAIN EmptyList = {}
  BY DEF EmptyList
<1>4. IsList(EmptyList)
  BY <1>3, FS_EmptySet DEF IsList, IsInjectiveOn, EmptyList
<1>5. LibsType(M.libs, M.lpos) /\ ImplsType(M.impls, M.ipos)
  BY <1>1, <1>3, <1>4 DEF LibsType, ImplsType
<1>6. IndexInv(M.impls, M.next) /\ PhaseInv(M)
  BY <1>1, <1>3, FS_EmptySet DEF IndexInv, Valid, PhaseInv
<1>7. CtxType(M)
  <2>1. /\ M.live \in BOOLEAN /\ M.low \in BOOLEAN /\ M.needUpdate \in BOOLEAN
        /\ M.needFull \in BOOLEAN /\ M.needLow \in BOOLEAN
    BY <1>1, Zenon
  <2>2. M.next \in Nat /\ M.dl \in [Names -> Int] /\ M.fault \in Faults
    BY <1>1 DEF Faults
  <2> QED BY <1>5, <2>1, <2>2 DEF CtxType
<1> QED BY <1>2, <1>6, <1>7 DEF Core, M

\* A context that differs from L in its configs and flags only.
LEMMA CoreFlagsLemma ==
    ASSUME NEW L, NEW M, Core(L), PhaseInv(L), IsCtx(M), SameImpls(L, M), SameLibs(L, M),
           M.fault = L.fault, M.live = L.live, M.needFull = L.needFull, M.needLow = L.needLow,
           M.low \in BOOLEAN, M.needUpdate \in BOOLEAN
    PROVE  Core(M) /\ PhaseInv(M) /\ Stays(L, M)
<1>1. Core(M)
  BY DEF Core, CtxType, SameImpls, SameLibs
<1>2. PhaseInv(M) /\ Stays(L, M)
  BY DEF PhaseInv, SameImpls, Stays, Keeps
<1> QED BY <1>1, <1>2

\* b is the loader after a call that started in a and computed c.
Commits(a, b, c) == b = IF c.fault = "none" THEN c ELSE [a EXCEPT !.fault = c.fault]

LEMMA CommitLemma ==
    ASSUME NEW a, NEW b, NEW c, Core(a), PhaseInv(a), Core(c), PhaseInv(c), Commits(a, b, c)
    PROVE  /\ Core(b) /\ PhaseInv(b)
           /\ c.fault = "none" => b = c
           /\ c.fault # "none" => Stays(a, b)
<1>1. CASE c.fault = "none"
  BY <1>1 DEF Commits
<1>2. CASE c.fault # "none"
  <2>1. b = [a EXCEPT !.fault = c.fault] /\ IsCtx(a)
    BY <1>2 DEF Commits, Core
  <2>2. IsCtx(b)
    BY <2>1 DEF IsCtx
  <2>3. SameFlags(a, b) /\ SameImpls(a, b) /\ SameLibs(a, b) /\ b.fault = c.fault
    BY <2>1 DEF IsCtx, Fields, SameFlags, SameImpls, SameLibs
  <2>4. Core(b)
    BY <2>2, <2>3 DEF Core, CtxType, SameFlags, SameImpls, SameLibs
  <2>5. PhaseInv(b) /\ Stays(a, b)
    BY <2>3 DEF PhaseInv, Stays, Keeps, SameFlags, SameImpls
  <2> QED BY <1>2, <2>4, <2>5
<1> QED BY <1>1, <1>2

-----------------------------------------------------------------------------
(***************************************************************************)
(* The inductive invariant                                                 *)
(***************************************************************************)

Inv == Core(ld) /\ PhaseInv(ld) /\ HeldIn(held, ld)

LEMMA InitLemma == Init => Inv
<1> SUFFICES ASSUME Init PROVE Inv
  OBVIOUS
<1> DEFINE dl == [n \in Names |-> 0]
<1>1. dl \in [Names -> Int]
  OBVIOUS
<1>2. ld = NewLoader(dl, FALSE) /\ held = {}
  BY DEF Init
<1> HIDE DEF dl
<1>3. Core(NewLoader(dl, FALSE)) /\ PhaseInv(NewLoader(dl, FALSE))
  BY <1>1, NewLoaderLemma
<1> QED BY <1>2, <1>3 DEF Inv, HeldIn

\* MFXEnumImplementations and the description it hands out.
LEMMA EnumLemma ==
    ASSUME Inv, NEW i \in Indices, MFXEnumImplementations(i)
    PROVE  Inv'
<1> DEFINE HeldPart(q, found) ==
             IF q.L.fault # "none" \/ found = {} THEN held' = held
             ELSE \E x \in found :
                    \/ held' = held
                    \/ q.L.impls[x].known /\ held' = {[idx |-> i, impl |-> x, fresh |-> TRUE]}
<1>1. PICK bad : LET q == EnumQuery(bad)
                 IN  /\ Commits(ld, ld', q.L)
                     /\ HeldPart(q, IF q.ok THEN Lookup(q.L, i) ELSE {})
  BY DEF MFXEnumImplementations, Commit, Commits
<1> DEFINE q == EnumQuery(bad)
           found == IF q.ok THEN Lookup(q.L, i) ELSE {}
<1>2. Core(ld) /\ PhaseInv(ld) /\ HeldIn(held, ld)
  BY DEF Inv
<1>3. /\ Core(q.L) /\ PhaseInv(q.L)
      /\ q.ok => ~q.L.needFull
      /\ ~ld.needFull => Stays(ld, q.L)
  BY <1>2, EnumQueryLemma
<1>4. Commits(ld, ld', q.L) /\ HeldPart(q, found)
  BY <1>1
<1>5. found \subseteq DOMAIN q.L.impls /\ (found # {} => q.ok)
  BY DEF Lookup
<1> HIDE DEF q, found
<1>6. /\ Core(ld') /\ PhaseInv(ld')
      /\ q.L.fault = "none" => ld' = q.L
      /\ q.L.fault # "none" => Stays(ld, ld')
  BY <1>2, <1>3, <1>4, CommitLemma
<1>7. HeldIn(held, ld')
  <2>1. CASE held = {}
    BY <2>1 DEF HeldIn
  <2>2. CASE held # {}
    <3>1. ~ld.needFull
      BY <1>2, <2>2 DEF HeldIn
    <3>2. Stays(ld, ld')
      BY <1>3, <1>6, <3>1
    <3> QED BY <1>2, <3>2, HeldLemma
  <2> QED BY <2>1, <2>2
<1>8. HeldIn(held', ld')
  <2>1. CASE held' = held
    BY <1>7, <2>1
  <2>2. CASE held' # held
    <3>1. q.L.fault = "none" /\ found # {}
      BY <1>4, <2>2
    <3>2. PICK x \in found : q.L.impls[x].known /\ held' = {[idx |-> i, impl |-> x, fresh |-> TRUE]}
      BY <1>4, <2>2, <3>1
    <3>3. ld' = q.L /\ ~q.L.needFull /\ x \in DOMAIN q.L.impls
      BY <1>3, <1>5, <1>6, <3>1
    <3> DEFINE e == [idx |-> i, impl |-> x, fresh |-> TRUE]
    <3>4. e.impl = x
      OBVIOUS
    <3> HIDE DEF e
    <3>5. held' = {e}
      BY <3>2 DEF e
    <3> QED BY <3>2, <3>3, <3>4, <3>5 DEF HeldIn
  <2> QED BY <2>1, <2>2
<1> QED BY <1>6, <1>8 DEF Inv

\* MFXCreateSession, with and without low latency.
LEMMA SessionLemma ==
    ASSUME Inv, NEW i \in Indices, MFXCreateSession(i)
    PROVE  Inv'
<1>0. PICK bad, late :
        \E Q \in {IF ld.low THEN LowQuery(bad, late) ELSE FullQuery(ld, bad)} :
          Commit(Q.L) \/ Commit(Fault(Q.L, "freed"))
  BY DEF MFXCreateSession
<1>1. LET q == IF ld.low THEN LowQuery(bad, late) ELSE FullQuery(ld, bad)
      IN  Commits(ld, ld', q.L) \/ Commits(ld, ld', Fault(q.L, "freed"))
  BY <1>0 DEF Commit, Commits
<1> DEFINE q == IF ld.low THEN LowQuery(bad, late) ELSE FullQuery(ld, bad)
           F == Fault(q.L, "freed")
<1>2. Core(ld) /\ PhaseInv(ld) /\ HeldIn(held, ld)
  BY DEF Inv
<1>3. Core(q.L) /\ PhaseInv(q.L) /\ (~ld.needFull => Stays(ld, q.L))
  <2>1. CASE ld.low
    BY <1>2, <2>1, LowQueryLemma
  <2>2. CASE ~ld.low
    <3>1. q = FullQuery(ld, bad)
      BY <2>2
    <3> HIDE DEF q
    <3> QED BY <1>2, <3>1, FullQueryLemma DEF Stays
  <2> QED BY <2>1, <2>2
<1>4. held' = held
  BY DEF MFXCreateSession
<1>5. Commits(ld, ld', q.L) \/ Commits(ld, ld', F)
  BY <1>1
<1> HIDE DEF q
<1>6. Core(F) /\ PhaseInv(F) /\ F.fault # "none"
  <2>1. Core(F) /\ SameFlags(q.L, F) /\ SameImpls(q.L, F) /\ F.fault # "none"
    BY <1>3, FaultLemma DEF Faults
  <2> HIDE DEF F
  <2> QED BY <1>3, <2>1 DEF PhaseInv, SameFlags, SameImpls
<1> HIDE DEF F
<1>7. Core(ld') /\ PhaseInv(ld') /\ (~ld.needFull => Stays(ld, ld'))
  <2>1. CASE Commits(ld, ld', q.L)
    <3>1. /\ Core(ld') /\ PhaseInv(ld')
          /\ q.L.fault = "none" => ld' = q.L
          /\ q.L.fault # "none" => Stays(ld, ld')
      BY <1>2, <1>3, <2>1, CommitLemma
    <3> QED BY <1>3, <3>1
  <2>2. CASE Commits(ld, ld', F)
    BY <1>2, <1>6, <2>2, CommitLemma
  <2> QED BY <1>5, <2>1, <2>2
<1>8. HeldIn(held, ld')
  <2>1. CASE held = {}
    BY <2>1 DEF HeldIn
  <2>2. CASE held # {}
    <3>1. ~ld.needFull
      BY <1>2, <2>2 DEF HeldIn
    <3> QED BY <1>2, <1>7, <3>1, HeldLemma
  <2> QED BY <2>1, <2>2
<1> QED BY <1>4, <1>7, <1>8 DEF Inv

\* MFXSetConfigFilterProperty leaves both lists alone.
LEMMA SetFilterLemma ==
    ASSUME Inv, NEW c, NEW p, NEW v, MFXSetConfigFilterProperty(c, p, v)
    PROVE  Inv'
<1> DEFINE cfgs == [ld.cfgs EXCEPT ![c] = SetFilterProperty(@, p, v)]
           sts  == SetPropStatus(p, v)
           low  == CheckLowLatencyConfig(cfgs)
<1>1. \/ ld' = [ld EXCEPT !.cfgs = cfgs, !.needUpdate = TRUE, !.low = low]
      \/ ld' = [ld EXCEPT !.cfgs = cfgs]
  BY DEF MFXSetConfigFilterProperty
<1>2. held' = {[idx |-> e.idx, impl |-> e.impl, fresh |-> e.fresh /\ sts # "NONE"] : e \in held}
  BY DEF MFXSetConfigFilterProperty
<1>3. low \in BOOLEAN
  BY DEF CheckLowLatencyConfig
<1>4. Core(ld) /\ PhaseInv(ld) /\ HeldIn(held, ld) /\ IsCtx(ld)
  BY DEF Inv, Core
<1> HIDE DEF cfgs, sts, low
<1>5. IsCtx(ld')
  BY <1>1, <1>4 DEF IsCtx
<1>6. /\ SameImpls(ld, ld') /\ SameLibs(ld, ld') /\ ld'.fault = ld.fault
      /\ ld'.live = ld.live /\ ld'.needFull = ld.needFull /\ ld'.needLow = ld.needLow
      /\ ld'.low = low \/ ld'.low = ld.low
      /\ ld'.needUpdate = TRUE \/ ld'.needUpdate = ld.needUpdate
  <2>1. CASE ld' = [ld EXCEPT !.cfgs = cfgs, !.needUpdate = TRUE, !.low = low]
    BY <1>4, <2>1 DEF IsCtx, Fields, SameImpls, SameLibs
  <2>2. CASE ld' = [ld EXCEPT !.cfgs = cfgs]
    BY <1>4, <2>2 DEF IsCtx, Fields, SameImpls, SameLibs
  <2> QED BY <1>1, <2>1, <2>2
<1>7. ld'.low \in BOOLEAN /\ ld'.needUpdate \in BOOLEAN
  <2>1. ld.low \in BOOLEAN /\ ld.needUpdate \in BOOLEAN
    BY <1>4 DEF Core, CtxType
  <2> QED BY <1>3, <1>6, <2>1, Zenon
<1>8. Core(ld') /\ PhaseInv(ld') /\ Stays(ld, ld')
  BY <1>4, <1>5, <1>6, <1>7, CoreFlagsLemma
<1>9. HeldIn(held, ld')
  BY <1>4, <1>8, HeldLemma
<1>10. HeldIn(held', ld')
  <2> SUFFICES ASSUME NEW e \in held'
               PROVE  ~ld'.needFull /\ e.impl \in DOMAIN ld'.impls /\ ld'.impls[e.impl].known
    BY DEF HeldIn
  <2>1. PICK d \in held : e = [idx |-> d.idx, impl |-> d.impl, fresh |-> d.fresh /\ sts # "NONE"]
    BY <1>2
  <2>2. e.impl = d.impl
    BY <2>1
  <2> QED BY <1>9, <2>2 DEF HeldIn
<1> QED BY <1>8, <1>10 DEF Inv

\* The other calls.
LEMMA OtherCallsLemma ==
    ASSUME Inv,
           \/ MFXLoad \/ MFXUnload \/ MFXCreateConfig
           \/ \E h \in {e.impl : e \in held} \cup {NoImpl} : MFXDispReleaseImplDescription(h)
    PROVE  Inv'
<1>1. Core(ld) /\ PhaseInv(ld) /\ HeldIn(held, ld) /\ IsCtx(ld) /\ ld.dl \in [Names -> Int]
  BY DEF Inv, Core, CtxType
<1>2. CASE MFXLoad
  <2>1. ld' = NewLoader(ld.dl, TRUE) /\ held' = {}
    BY <1>2 DEF MFXLoad
  <2>2. Core(NewLoader(ld.dl, TRUE)) /\ PhaseInv(NewLoader(ld.dl, TRUE))
    BY <1>1, NewLoaderLemma
  <2> QED BY <2>1, <2>2 DEF Inv, HeldIn
<1>3. CASE MFXUnload
  <2> DEFINE U == UnloadAllLibraries(ld)
             N == NewLoader(U.dl, FALSE)
  <2>1. Commits(ld, ld', IF U.fault = "none" THEN N ELSE U) /\ held' = {}
    BY <1>3 DEF MFXUnload, Commit, Commits
  <2>2. Core(U) /\ SameFlags(ld, U) /\ (U.impls = ld.impls \/ DOMAIN U.impls = {})
    BY <1>1, UnloadAllLemma
  <2> HIDE DEF U
  <2>3. PhaseInv(U) /\ U.dl \in [Names -> Int]
    BY <1>1, <2>2 DEF PhaseInv, SameFlags, Core, CtxType
  <2>4. Core(N) /\ PhaseInv(N)
    BY <2>3, NewLoaderLemma
  <2> HIDE DEF N
  <2>5. Commits(ld, ld', N) \/ Commits(ld, ld', U)
    BY <2>1
  <2>6. Core(ld') /\ PhaseInv(ld')
    BY <1>1, <2>2, <2>3, <2>4, <2>5, CommitLemma
  <2> QED BY <2>1, <2>6 DEF Inv, HeldIn
<1>4. CASE MFXCreateConfig
  <2> DEFINE cfgs == Append(ld.cfgs, EmptyConfig)
  <2>1. ld' = [ld EXCEPT !.cfgs = cfgs] /\ held' = held
    BY <1>4 DEF MFXCreateConfig
  <2> HIDE DEF cfgs
  <2>2. IsCtx(ld')
    BY <1>1, <2>1 DEF IsCtx
  <2>3. /\ SameImpls(ld, ld') /\ SameLibs(ld, ld') /\ ld'.fault = ld.fault
        /\ ld'.live = ld.live /\ ld'.needFull = ld.needFull /\ ld'.needLow = ld.needLow
        /\ ld'.low = ld.low /\ ld'.needUpdate = ld.needUpdate
    BY <1>1, <2>1 DEF IsCtx, Fields, SameImpls, SameLibs
  <2>4. ld'.low \in BOOLEAN /\ ld'.needUpdate \in BOOLEAN
    BY <1>1, <2>3 DEF Core, CtxType
  <2>5. Core(ld') /\ PhaseInv(ld') /\ Stays(ld, ld')
    BY <1>1, <2>2, <2>3, <2>4, CoreFlagsLemma
  <2>6. HeldIn(held, ld')
    BY <1>1, <2>5, HeldLemma
  <2> QED BY <2>1, <2>5, <2>6 DEF Inv
<1>5. ASSUME NEW h, MFXDispReleaseImplDescription(h)
      PROVE  Inv'
  <2> DEFINE F == Fault(ld, "hang")
  <2>1. (ld' = F \/ ld' = ld) /\ held' \subseteq held
    BY <1>5 DEF MFXDispReleaseImplDescription
  <2>2. Core(F) /\ SameFlags(ld, F) /\ SameImpls(ld, F)
    BY <1>1, FaultLemma DEF Faults
  <2> HIDE DEF F
  <2>3. PhaseInv(F) /\ HeldIn(held, F)
    BY <1>1, <2>2 DEF PhaseInv, HeldIn, SameFlags, SameImpls
  <2>4. Core(ld') /\ PhaseInv(ld') /\ HeldIn(held, ld')
    BY <1>1, <2>1, <2>2, <2>3
  <2>5. HeldIn(held', ld')
    BY <2>1, <2>4 DEF HeldIn
  <2> QED BY <2>4, <2>5 DEF Inv
<1> QED BY <1>2, <1>3, <1>4, <1>5

\* Every call of the API preserves the invariant.
LEMMA NextLemma == Inv /\ [Next]_vars => Inv'
<1> SUFFICES ASSUME Inv, [Next]_vars PROVE Inv'
  OBVIOUS
<1>1. ASSUME NEW i \in Indices, MFXEnumImplementations(i) PROVE Inv'
  BY <1>1, EnumLemma
<1>2. ASSUME NEW i \in Indices, MFXCreateSession(i) PROVE Inv'
  BY <1>2, SessionLemma
<1>3. ASSUME NEW c \in 1 .. MaxConfigs, NEW p \in DOMAIN Values, NEW v \in Values[p],
             MFXSetConfigFilterProperty(c, p, v)
      PROVE  Inv'
  BY <1>3, SetFilterLemma
<1>4. CASE \/ MFXLoad \/ MFXUnload \/ MFXCreateConfig
           \/ \E h \in {e.impl : e \in held} \cup {NoImpl} : MFXDispReleaseImplDescription(h)
  BY <1>4, OtherCallsLemma
<1>5. CASE UNCHANGED vars
  <2>1. ld' = ld /\ held' = held
    BY <1>5 DEF vars
  <2> QED BY <2>1 DEF Inv
<1> QED BY <1>1, <1>2, <1>3, <1>4, <1>5 DEF Next

LEMMA AlwaysInvLemma == Spec => []Inv
  BY InitLemma, NextLemma, PTL DEF Spec

-----------------------------------------------------------------------------
(***************************************************************************)
(* Theorems                                                                *)
(***************************************************************************)

\* The loader keeps its two lists consistent: every LibInfo and every
\* ImplInfo is listed exactly once, after every sort, splice and erase.
THEOREM TypeTheorem == Spec => []TypeOK
<1>1. Inv => TypeOK
  BY DEF Inv, Core, TypeOK
<1> QED BY <1>1, AlwaysInvLemma, PTL

\* No two implementations ever have the same validImplIdx, so that an index
\* the application passes to MFXCreateSession means one implementation.
THEOREM UniqueIndicesTheorem == Spec => []UniqueIndices
<1>1. Inv => UniqueIndices
  BY DEF Inv, Core, IndexInv, UniqueIndices
<1> QED BY <1>1, AlwaysInvLemma, PTL

\* A description handed out by MFXEnumImplementations is never freed before
\* it is released or the loader unloaded, whatever is loaded later.
THEOREM DescriptionsLiveTheorem == Spec => []DescriptionsLive
<1>1. Inv => DescriptionsLive
  BY DEF Inv, HeldIn, DescriptionsLive
<1> QED BY <1>1, AlwaysInvLemma, PTL
=============================================================================
