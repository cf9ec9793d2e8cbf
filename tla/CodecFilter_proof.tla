------------------------- MODULE CodecFilter_proof -------------------------
(***************************************************************************)
(* The verdict of ValidateConfig, for every description and all config     *)
(* objects.                                                                *)
(*                                                                         *)
(* The flattening loops visit the paths through a nested list in           *)
(* lexicographic order: FlatInv says that the combinations of all paths    *)
(* before the indices were pushed, and nothing else.  The loop over the    *)
(* config objects is compared with what the objects before next ask        *)
(* (LoopInv).                                                              *)
(***************************************************************************)
EXTENDS CodecFilter, TLAPS

TreeOf(kind) == IF lib.tree[kind] = Null THEN << >> ELSE lib.tree[kind]

\* The first n indices of x are before those of y.
Before(x, y, n) == \E k \in 1 .. n : x[k] < y[k] /\ \A j \in 1 .. k - 1 : x[j] = y[j]

Scanned(kind, y) == {x \in Paths(kind) : Before(x, y, Depth[kind])}

\* The combinations that are pushed when the indices are y.
Pushed(kind, y) == {Combination(kind, x) : x \in Scanned(kind, y)}

TypeInv ==
    /\ lib \in Range(Libs)
    /\ cfgs \in UNION {[1 .. n -> Range(Configs)] : n \in 0 .. MaxConfigs}
    /\ list \in 1 .. 5
    /\ idx \in [1 .. 4 -> 0 .. MaxLength]

\* No index is past the end of its list.
IdxInv == list <= 4 => \A k \in 1 .. Depth[Lists[list]] : idx[k] <= Len(ListAt(Tree, idx, k))

FlatInv ==
    /\ DOMAIN flat = Range(Lists)
    /\ \A i \in 1 .. 4 :
         /\ flat[Lists[i]] \in Seq(Combinations(Lists[i]))
         /\ Range(flat[Lists[i]]) =
              IF i < list THEN Combinations(Lists[i])
              ELSE IF i = list THEN Pushed(Lists[i], idx)
              ELSE {}

\* What the first n config objects ask.
AllDescribed(n) == \A c \in 1 .. n : Described(cfgs[c])
AnySets(kind, n) == \E c \in 1 .. n : DOMAIN cfgs[c][kind] # {}
AllFunctions(n) == UNION {Range(cfgs[c].functions) : c \in 1 .. n}

Verdict == valid /\ VersionMet /\ FunctionsMet

LoopInv ==
    /\ next \in 1 .. Len(cfgs) + 1
    /\ Flattening => next = 1
    /\ valid \in BOOLEAN
    /\ valid <=> AllDescribed(next - 1)
    /\ \A kind \in Kinds : requested[kind] <=> AnySets(kind, next - 1)
    /\ version.Major = VersionPart("Major", next - 1)
    /\ version.Minor = VersionPart("Minor", next - 1)
    /\ functions \in Seq(STRING)
    /\ Range(functions) = AllFunctions(next - 1)
    /\ result # Null => /\ ~Flattening /\ next = Len(cfgs) + 1
                        /\ result = IF Verdict THEN "NONE" ELSE "UNSUPPORTED"

IInv == TypeInv /\ IdxInv /\ FlatInv /\ LoopInv

-----------------------------------------------------------------------------
(***************************************************************************)
(* Nested lists                                                            *)
(***************************************************************************)

LEMMA ListsFacts ==
    /\ Len(Lists) = 4
    /\ Range(Lists) = {"dec", "enc", "vpp", "surface"}
    /\ \A i \in 1 .. 4 : Lists[i] \in Range(Lists)
    /\ \A i, j \in 1 .. 4 : Lists[i] = Lists[j] => i = j
    /\ \A kind \in Range(Lists) : Depth[kind] \in {2, 4} /\ \E i \in 1 .. 4 : kind = Lists[i]
<1>1. Lists[1] = "dec" /\ Lists[2] = "enc" /\ Lists[3] = "vpp" /\ Lists[4] = "surface" /\ Len(Lists) = 4
      /\ DOMAIN Lists = 1 .. 4
  BY DEF Lists
<1>2. Range(Lists) = {Lists[i] : i \in 1 .. 4}
  BY <1>1 DEF Range
<1>3. 1 .. 4 = {1, 2, 3, 4}
  OBVIOUS
<1>4. Range(Lists) = {"dec", "enc", "vpp", "surface"}
  BY <1>1, <1>2, <1>3
<1>5. Depth["dec"] = 4 /\ Depth["enc"] = 4 /\ Depth["vpp"] = 4 /\ Depth["surface"] = 2
  BY DEF Depth
<1>6. \A i, j \in 1 .. 4 : Lists[i] = Lists[j] => i = j
  BY <1>1, <1>3
<1> QED BY <1>1, <1>2, <1>4, <1>5, <1>6

\* A list is chosen by the indices above its level.
LEMMA SameList ==
    ASSUME NEW tree, NEW x, NEW y, NEW k \in 1 .. 4, \A j \in 1 .. k - 1 : x[j] = y[j]
    PROVE  ListAt(tree, x, k) = ListAt(tree, y, k)
<1>1. CASE k = 1
  BY <1>1 DEF ListAt
<1>2. CASE k = 2
  <2>1. x[1] = y[1]
    BY <1>2
  <2> QED BY <1>2, <2>1 DEF ListAt
<1>3. CASE k = 3
  <2>1. x[1] = y[1] /\ x[2] = y[2]
    BY <1>3
  <2> QED BY <1>3, <2>1 DEF ListAt
<1>4. CASE k = 4
  <2>1. x[1] = y[1] /\ x[2] = y[2] /\ x[3] = y[3]
    BY <1>4
  <2> QED BY <1>4, <2>1 DEF ListAt
<1> QED BY <1>1, <1>2, <1>3, <1>4

LEMMA NextList ==
    ASSUME NEW tree, NEW x, NEW k \in 1 .. 3
    PROVE  ListAt(tree, x, k + 1) = Sub(ListAt(tree, x, k), x[k])
<1>1. CASE k = 1
  BY <1>1 DEF ListAt
<1>2. CASE k = 2
  BY <1>2 DEF ListAt
<1>3. CASE k = 3
  BY <1>3 DEF ListAt
<1> QED BY <1>1, <1>2, <1>3

LEMMA TreeLemma ==
    ASSUME lib \in Range(Libs), NEW kind \in Range(Lists),
           NEW x \in [1 .. 4 -> 0 .. MaxLength], NEW k \in 1 .. Depth[kind]
    PROVE  Len(ListAt(TreeOf(kind), x, k)) \in 0 .. MaxLength
<1>1. k \in 1 .. 4 /\ MaxLength \in Nat
  BY ListsFacts, DescriptionAssumption
<1>2. CASE lib.tree[kind] # Null
  BY <1>2, DescriptionAssumption DEF TreeOf
<1>3. CASE lib.tree[kind] = Null
  <2>1. TreeOf(kind) = << >>
    BY <1>3 DEF TreeOf
  <2>2. \A i \in Nat : Sub(<< >>, i) = << >>
    BY DEF Sub
  <2>3. ListAt(<< >>, x, k) = << >>
    <3>1. x[1] \in Nat /\ x[2] \in Nat /\ x[3] \in Nat
      BY <1>1
    <3> QED BY <1>1, <2>2, <3>1 DEF ListAt
  <2> QED BY <1>1, <2>1, <2>3
<1> QED BY <1>2, <1>3

\* At a node past the end of a list there are no nodes below.
LEMMA PastEnd ==
    ASSUME NEW tree, NEW x, NEW k \in 1 .. 3, ~(x[k] < Len(ListAt(tree, x, k)))
    PROVE  Len(ListAt(tree, x, k + 1)) = 0
<1>1. ListAt(tree, x, k + 1) = << >>
  BY NextList DEF Sub
<1> QED BY <1>1

\* A path, and any extension of it, gives one combination.
LEMMA SameCombination ==
    ASSUME NEW kind \in Range(Lists), NEW x, NEW y, \A k \in 1 .. Depth[kind] : x[k] = y[k]
    PROVE  Combination(kind, x) = Combination(kind, y)
<1>1. Depth[kind] \in {2, 4}
  BY ListsFacts
<1>2. ASSUME NEW k \in 1 .. Depth[kind]
      PROVE  NodeAt(lib.tree[kind], x, k) = NodeAt(lib.tree[kind], y, k)
  <2>1. k \in 1 .. 4 /\ x[k] = y[k] /\ \A j \in 1 .. k - 1 : x[j] = y[j]
    BY <1>1
  <2>2. ListAt(lib.tree[kind], x, k) = ListAt(lib.tree[kind], y, k)
    BY <2>1, SameList
  <2> QED BY <2>1, <2>2 DEF NodeAt
<1>3. Levels(kind, x) = Levels(kind, y)
  BY <1>2 DEF Levels
<1> QED BY <1>3 DEF Combination

LEMMA PathFacts ==
    ASSUME NEW kind \in Range(Lists), NEW x \in Paths(kind)
    PROVE  /\ \A k \in 1 .. Depth[kind] : x[k] \in Nat /\ x[k] < Len(ListAt(TreeOf(kind), x, k))
           /\ TreeOf(kind) = lib.tree[kind] /\ lib.tree[kind] # Null
<1>1. lib.tree[kind] # Null
  BY DEF Paths
<1>2. TreeOf(kind) = lib.tree[kind]
  BY <1>1 DEF TreeOf
<1>3. /\ x \in [1 .. Depth[kind] -> 0 .. MaxLength]
      /\ \A k \in 1 .. Depth[kind] : x[k] < Len(ListAt(lib.tree[kind], x, k))
  BY <1>1 DEF Paths
<1> QED BY <1>1, <1>2, <1>3, DescriptionAssumption

LEMMA RangeAppend ==
    ASSUME NEW S, NEW s \in Seq(S), NEW v
    PROVE  Range(Append(s, v)) = Range(s) \cup {v}
<1>1. DOMAIN Append(s, v) = 1 .. Len(s) + 1 /\ DOMAIN s = 1 .. Len(s) /\ Len(s) \in Nat
  OBVIOUS
<1>2. Append(s, v)[Len(s) + 1] = v /\ \A i \in 1 .. Len(s) : Append(s, v)[i] = s[i]
  OBVIOUS
<1> QED BY <1>1, <1>2 DEF Range

LEMMA RangeConcat ==
    ASSUME NEW S, NEW s \in Seq(S), NEW t \in Seq(S)
    PROVE  Range(s \o t) = Range(s) \cup Range(t)
<1>1. DOMAIN (s \o t) = 1 .. Len(s) + Len(t) /\ DOMAIN s = 1 .. Len(s) /\ DOMAIN t = 1 .. Len(t)
      /\ Len(s) \in Nat /\ Len(t) \in Nat
  OBVIOUS
<1>2. \A i \in 1 .. Len(s) : (s \o t)[i] = s[i] /\ i \in 1 .. Len(s) + Len(t)
  OBVIOUS
<1>3. \A i \in 1 .. Len(t) : (s \o t)[Len(s) + i] = t[i] /\ Len(s) + i \in 1 .. Len(s) + Len(t)
  OBVIOUS
<1>4. \A i \in 1 .. Len(s) + Len(t) : i \in 1 .. Len(s) \/ (i - Len(s) \in 1 .. Len(t) /\ i = Len(s) + (i - Len(s)))
  BY <1>1
<1> QED BY <1>1, <1>2, <1>3, <1>4 DEF Range

\* What a description says does not change during the call.
LEMMA SameDescription ==
    ASSUME lib' = lib
    PROVE  \A kind : /\ Paths(kind)' = Paths(kind)
                     /\ \A x : Combination(kind, x)' = Combination(kind, x)
                     /\ Combinations(kind)' = Combinations(kind)
                     /\ TreeOf(kind)' = TreeOf(kind)
<1>1. \A kind : Paths(kind)' = Paths(kind) /\ TreeOf(kind)' = TreeOf(kind)
  BY DEF Paths, TreeOf
<1>2. \A kind, x : Levels(kind, x)' = Levels(kind, x)
  BY DEF Levels
<1>3. \A kind, x : Combination(kind, x)' = Combination(kind, x)
  BY <1>2 DEF Combination
<1>4. \A kind : Combinations(kind)' = Combinations(kind)
  BY <1>1, <1>3 DEF Combinations
<1> QED BY <1>1, <1>3, <1>4

-----------------------------------------------------------------------------
(***************************************************************************)
(* The flattening loops                                                    *)
(***************************************************************************)

\* The lists that are not being flattened are as they were.
LEMMA OtherLists ==
    ASSUME TypeInv, FlatInv, lib' = lib, list \in 1 .. 4, list' = list,
           flat' = flat \/ (\E v : flat' = [flat EXCEPT ![Lists[list]] = v]),
           flat'[Lists[list]] \in Seq(Combinations(Lists[list])),
           Range(flat'[Lists[list]]) = Pushed(Lists[list], idx')
    PROVE  FlatInv'
<1> DEFINE kind == Lists[list]
<1>1. DOMAIN flat' = DOMAIN flat /\ \A i \in 1 .. 4 : i # list => flat'[Lists[i]] = flat[Lists[i]]
  BY ListsFacts DEF FlatInv
<1>2. \A l : Combinations(l)' = Combinations(l) /\ \A x : Combination(l, x)' = Combination(l, x)
  BY SameDescription
<1>3. \A l : Pushed(l, idx)' = Pushed(l, idx')
  BY SameDescription DEF Pushed, Scanned
<1>4. ASSUME NEW i \in 1 .. 4
      PROVE  /\ flat'[Lists[i]] \in Seq(Combinations(Lists[i]))
             /\ Range(flat'[Lists[i]]) =
                  IF i < list THEN Combinations(Lists[i])
                  ELSE IF i = list THEN Pushed(Lists[i], idx')
                  ELSE {}
  <2>1. CASE i = list
    BY <2>1
  <2>2. CASE i # list
    BY <1>1, <2>2 DEF FlatInv
  <2> QED BY <2>1, <2>2
<1> QED BY <1>1, <1>2, <1>3, <1>4 DEF FlatInv

LEMMA CheckIdxFlat ==
    ASSUME TypeInv, IdxInv, FlatInv, NEW k \in 1 .. 3, CheckIdx(k)
    PROVE  TypeInv' /\ IdxInv' /\ FlatInv'
<1> DEFINE kind == Lists[list]
           n    == Depth[kind]
           At(x, j) == ListAt(Tree, x, j)
<1>1. /\ list \in 1 .. 4 /\ kind \in Range(Lists) /\ n \in {2, 4} /\ k < n /\ Tree = TreeOf(kind)
      /\ lib \in Range(Libs) /\ idx \in [1 .. 4 -> 0 .. MaxLength] /\ MaxLength \in Nat
  BY ListsFacts, DescriptionAssumption DEF TypeInv, CheckIdx, Flattening, Tree, TreeOf
<1>2. /\ idx' = [idx EXCEPT ![k] = idx[k] + 1, ![k + 1] = 0]
      /\ idx[1] < Len(Tree) /\ Inside(k) /\ idx[k + 1] = Len(At(idx, k + 1))
      /\ lib' = lib /\ cfgs' = cfgs /\ list' = list /\ flat' = flat
  BY DEF CheckIdx
<1>3. idx[k] < Len(At(idx, k)) /\ Len(At(idx, k)) <= MaxLength
  <2>1. k \in 1 .. Depth[kind]
    BY <1>1
  <2>2. Len(At(idx, k)) \in 0 .. MaxLength
    BY <1>1, <2>1, TreeLemma
  <2>3. CASE k = 1
    BY <1>1, <1>2, <2>2, <2>3 DEF ListAt
  <2>4. CASE k # 1
    BY <1>1, <1>2, <2>2, <2>4 DEF Inside
  <2> QED BY <2>3, <2>4
<1>4. /\ idx' \in [1 .. 4 -> 0 .. MaxLength] /\ idx'[k] = idx[k] + 1 /\ idx'[k + 1] = 0
      /\ \A j \in 1 .. 4 : j # k /\ j # k + 1 => idx'[j] = idx[j]
  BY <1>1, <1>2, <1>3
\* Below a list that has come to its end, all indices are 0.
<1>5. \A j \in 1 .. n : j > k + 1 => idx[j] = 0
  <2>1. ASSUME NEW j \in 1 .. 3, j >= k + 1, j + 1 <= n, ~(idx[j] < Len(At(idx, j)))
        PROVE  idx[j + 1] = 0 /\ ~(idx[j + 1] < Len(At(idx, j + 1)))
    <3>1. Len(At(idx, j + 1)) = 0
      BY <2>1, PastEnd
    <3>2. idx[j + 1] <= Len(At(idx, j + 1)) /\ idx[j + 1] \in Nat
      BY <1>1, <2>1 DEF IdxInv
    <3> QED BY <3>1, <3>2
  <2>2. ~(idx[k + 1] < Len(At(idx, k + 1)))
    BY <1>1, <1>2
  <2>3. CASE k = 1
    BY <1>1, <2>1, <2>2, <2>3
  <2>4. CASE k = 2
    BY <1>1, <2>1, <2>2, <2>4
  <2>5. CASE k = 3
    BY <1>1, <2>5
  <2> QED BY <2>3, <2>4, <2>5
<1>6. TypeInv'
  BY <1>2, <1>4 DEF TypeInv
<1>7. Tree' = Tree
  BY <1>2 DEF Tree
<1>8. IdxInv'
  <2>1. ASSUME NEW j \in 1 .. n PROVE idx'[j] <= Len(At(idx', j))
    <3>1. j \in 1 .. 4 /\ Len(At(idx', j)) \in Nat
      BY <1>1, <1>4, TreeLemma
    <3>2. CASE j <= k
      <4>1. \A i \in 1 .. j - 1 : idx[i] = idx'[i]
        BY <1>4, <3>1, <3>2
      <4>2. At(idx', j) = At(idx, j)
        BY <3>1, <4>1, SameList
      <4>3. idx[j] <= Len(At(idx, j))
        BY <1>1 DEF IdxInv
      <4> QED BY <1>3, <1>4, <3>1, <3>2, <4>2, <4>3, TreeLemma, <1>1
    <3>3. CASE j > k
      BY <1>4, <1>5, <3>1, <3>3
    <3> QED BY <3>1, <3>2, <3>3
  <2> QED BY <1>2, <1>7, <2>1 DEF IdxInv
<1>9. ASSUME NEW x \in Paths(kind) PROVE Before(x, idx', n) <=> Before(x, idx, n)
  <2>1. \A j \in 1 .. n : x[j] \in Nat /\ x[j] < Len(At(x, j)) /\ j \in 1 .. 4
    BY <1>1, PathFacts
  <2>2. ASSUME NEW m \in 1 .. n, x[m] < idx[m], \A j \in 1 .. m - 1 : x[j] = idx[j]
        PROVE  Before(x, idx', n)
    <3>1. CASE m < k
      BY <1>1, <1>4, <2>2, <3>1 DEF Before
    <3>2. CASE m = k
      <4>1. x[k] < idx'[k] /\ \A j \in 1 .. k - 1 : x[j] = idx'[j]
        <5>1. x[k] < idx[k] /\ x[k] \in Nat /\ idx[k] \in Nat
          BY <1>1, <2>1, <2>2, <3>2
        <5>2. \A j \in 1 .. k - 1 : x[j] = idx'[j]
          BY <1>1, <1>4, <2>2, <3>2
        <5> QED BY <1>4, <5>1, <5>2
      <4> QED BY <1>1, <4>1 DEF Before
    <3>3. CASE m = k + 1
      <4>1. x[k] < idx'[k] /\ \A j \in 1 .. k - 1 : x[j] = idx'[j]
        BY <1>1, <1>4, <2>1, <2>2, <3>3
      <4> QED BY <1>1, <4>1 DEF Before
    <3>4. CASE m > k + 1
      BY <1>5, <2>1, <2>2, <3>4
    <3> QED BY <3>1, <3>2, <3>3, <3>4
  <2>3. ASSUME NEW m \in 1 .. n, x[m] < idx'[m], \A j \in 1 .. m - 1 : x[j] = idx'[j]
        PROVE  Before(x, idx, n)
    <3>1. CASE m < k
      BY <1>1, <1>4, <2>3, <3>1 DEF Before
    <3>2. CASE m = k /\ x[k] < idx[k]
      BY <1>1, <1>4, <2>3, <3>2 DEF Before
    <3>3. CASE m = k /\ x[k] = idx[k]
      <4>1. \A j \in 1 .. k : x[j] = idx[j]
        BY <1>1, <1>4, <2>3, <3>3
      <4>2. k + 1 \in 1 .. 4 /\ (k + 1) - 1 = k /\ k + 1 \in 1 .. n
        BY <1>1
      <4>3. At(x, k + 1) = At(idx, k + 1)
        BY <4>1, <4>2, SameList
      <4>4. x[k + 1] < idx[k + 1]
        BY <1>2, <2>1, <4>2, <4>3
      <4> QED BY <4>1, <4>2, <4>4 DEF Before
    <3>4. CASE m > k
      <4>1. idx'[m] = 0
        BY <1>1, <1>4, <1>5, <3>4
      <4> QED BY <2>1, <2>3, <4>1
    <3> QED BY <1>1, <1>4, <2>1, <2>3, <3>1, <3>2, <3>3, <3>4
  <2> QED BY <2>2, <2>3 DEF Before
<1>10. Pushed(kind, idx') = Pushed(kind, idx)
  BY <1>9 DEF Pushed, Scanned
<1>11. FlatInv'
  <2>1. flat[kind] \in Seq(Combinations(kind))
        /\ Range(flat[kind]) = Pushed(kind, idx)
    BY <1>1 DEF FlatInv
  <2> QED BY <1>1, <1>2, <1>10, <2>1, OtherLists
<1> QED BY <1>6, <1>8, <1>11

LEMMA PushFlat ==
    ASSUME TypeInv, IdxInv, FlatInv, PushCombination
    PROVE  TypeInv' /\ IdxInv' /\ FlatInv'
<1> DEFINE kind == Lists[list]
           n    == Depth[kind]
           At(x, j) == ListAt(Tree, x, j)
           here == [j \in 1 .. n |-> idx[j]]
<1>1. /\ list \in 1 .. 4 /\ kind \in Range(Lists) /\ n \in {2, 4} /\ Tree = TreeOf(kind)
      /\ lib \in Range(Libs) /\ idx \in [1 .. 4 -> 0 .. MaxLength] /\ MaxLength \in Nat
  BY ListsFacts, DescriptionAssumption DEF TypeInv, PushCombination, Flattening, Tree, TreeOf
<1>2. /\ idx' = [idx EXCEPT ![n] = idx[n] + 1]
      /\ flat' = [flat EXCEPT ![kind] = Append(flat[kind], Combination(kind, idx))]
      /\ idx[1] < Len(Tree) /\ Inside(n)
      /\ lib' = lib /\ cfgs' = cfgs /\ list' = list
  BY DEF PushCombination
<1>3. ASSUME NEW j \in 1 .. n
      PROVE  idx[j] \in Nat /\ idx[j] < Len(At(idx, j)) /\ Len(At(idx, j)) \in 0 .. MaxLength
  <2>1. Len(At(idx, j)) \in 0 .. MaxLength
    BY <1>1, TreeLemma
  <2>2. CASE j = 1
    BY <1>1, <1>2, <2>1, <2>2 DEF ListAt
  <2>3. CASE j # 1
    BY <1>1, <1>2, <2>1, <2>3 DEF Inside
  <2> QED BY <2>2, <2>3
<1>4. /\ idx' \in [1 .. 4 -> 0 .. MaxLength] /\ idx'[n] = idx[n] + 1
      /\ \A j \in 1 .. 4 : j # n => idx'[j] = idx[j]
  <2>1. n \in 1 .. n
    BY <1>1
  <2>2. idx[n] + 1 \in 0 .. MaxLength
    BY <1>1, <1>3, <2>1
  <2> QED BY <1>1, <1>2, <2>2
<1>5. TypeInv'
  BY <1>2, <1>4 DEF TypeInv
<1>6. Tree' = Tree
  BY <1>2 DEF Tree
<1>7. IdxInv'
  <2>1. ASSUME NEW j \in 1 .. n PROVE idx'[j] <= Len(At(idx', j))
    <3>1. \A i \in 1 .. j - 1 : idx[i] = idx'[i]
      BY <1>1, <1>4
    <3>2. At(idx', j) = At(idx, j)
      BY <1>1, <3>1, SameList
    <3>3. j \in 1 .. 4 /\ idx[j] \in Nat /\ idx[j] < Len(At(idx, j)) /\ Len(At(idx, j)) \in Nat
      BY <1>1, <1>3
    <3>4. idx'[j] = idx[j] \/ idx'[j] = idx[j] + 1
      BY <1>4, <3>3
    <3> QED BY <3>2, <3>3, <3>4
  <2> QED BY <1>2, <1>6, <2>1 DEF IdxInv
<1>8. lib.tree[kind] = Tree /\ lib.tree[kind] # Null
  <2>1. Len(Tree) # 0
    BY <1>1, <1>2
  <2>2. Tree # << >>
    BY <2>1
  <2> QED BY <1>1, <2>2 DEF TreeOf
<1>9. here \in Paths(kind) /\ \A j \in 1 .. n : here[j] = idx[j]
  <2>1. \A j \in 1 .. n : here[j] = idx[j] /\ here[j] \in 0 .. MaxLength
    BY <1>1
  <2>2. ASSUME NEW j \in 1 .. n PROVE here[j] < Len(At(here, j))
    <3>1. \A i \in 1 .. j - 1 : here[i] = idx[i]
      BY <1>1, <2>1
    <3> HIDE DEF here
    <3>2. At(here, j) = At(idx, j)
      BY <1>1, <3>1, SameList
    <3> QED BY <1>3, <2>1, <3>2
  <2>3. here \in [1 .. n -> 0 .. MaxLength]
    BY <2>1
  <2> HIDE DEF here
  <2> QED BY <1>8, <2>1, <2>2, <2>3 DEF Paths
<1> HIDE DEF here
<1>10. ASSUME NEW x \in Paths(kind)
       PROVE  Before(x, idx', n) <=> Before(x, idx, n) \/ (\A j \in 1 .. n : x[j] = idx[j])
  <2>1. \A j \in 1 .. n : x[j] \in Nat /\ idx[j] \in Nat /\ j \in 1 .. 4
    BY <1>1, <1>3, PathFacts
  <2>2. ASSUME NEW m \in 1 .. n, x[m] < idx[m], \A j \in 1 .. m - 1 : x[j] = idx[j]
        PROVE  Before(x, idx', n)
    <3>1. x[m] < idx'[m]
      BY <1>1, <1>4, <2>1, <2>2
    <3>2. \A j \in 1 .. m - 1 : x[j] = idx'[j]
      BY <1>1, <1>4, <2>2
    <3> QED BY <3>1, <3>2 DEF Before
  <2>3. ASSUME \A j \in 1 .. n : x[j] = idx[j]
        PROVE  Before(x, idx', n)
    <3>1. n \in 1 .. n /\ x[n] < idx'[n]
      BY <1>1, <1>4, <2>1, <2>3
    <3>2. \A j \in 1 .. n - 1 : x[j] = idx'[j]
      BY <1>1, <1>4, <2>3
    <3> QED BY <3>1, <3>2 DEF Before
  <2>4. ASSUME NEW m \in 1 .. n, x[m] < idx'[m], \A j \in 1 .. m - 1 : x[j] = idx'[j]
        PROVE  Before(x, idx, n) \/ (\A j \in 1 .. n : x[j] = idx[j])
    <3>1. \A j \in 1 .. m - 1 : x[j] = idx[j]
      BY <1>1, <1>4, <2>4
    <3>2. CASE x[m] < idx[m]
      BY <3>1, <3>2 DEF Before
    <3>3. CASE ~(x[m] < idx[m])
      <4>1. m = n /\ x[m] = idx[m]
        BY <1>1, <1>4, <2>1, <2>4, <3>3
      <4> QED BY <1>1, <3>1, <4>1
    <3> QED BY <3>2, <3>3
  <2> QED BY <2>2, <2>3, <2>4 DEF Before
<1>11. Combination(kind, here) = Combination(kind, idx)
  BY <1>1, <1>9, SameCombination
<1>12. Pushed(kind, idx') = Pushed(kind, idx) \cup {Combination(kind, idx)}
  <2>1. ASSUME NEW x \in Scanned(kind, idx')
        PROVE  Combination(kind, x) \in Pushed(kind, idx) \cup {Combination(kind, idx)}
    <3>1. x \in Paths(kind) /\ (Before(x, idx, n) \/ (\A j \in 1 .. n : x[j] = idx[j]))
      BY <1>10, <2>1 DEF Scanned
    <3>2. CASE Before(x, idx, n)
      BY <3>1, <3>2 DEF Scanned, Pushed
    <3>3. CASE \A j \in 1 .. n : x[j] = idx[j]
      BY <1>1, <3>3, SameCombination
    <3> QED BY <3>1, <3>2, <3>3
  <2>2. Scanned(kind, idx) \subseteq Scanned(kind, idx')
    BY <1>10 DEF Scanned
  <2>3. here \in Scanned(kind, idx')
    BY <1>9, <1>10 DEF Scanned
  <2> QED BY <1>11, <2>1, <2>2, <2>3 DEF Pushed
<1>13. FlatInv'
  <2>1. flat[kind] \in Seq(Combinations(kind)) /\ Range(flat[kind]) = Pushed(kind, idx)
        /\ kind \in DOMAIN flat
    BY <1>1 DEF FlatInv
  <2>2. Combination(kind, idx) \in Combinations(kind)
    BY <1>9, <1>11 DEF Combinations
  <2>3. flat'[kind] = Append(flat[kind], Combination(kind, idx))
    BY <1>2, <2>1
  <2>4. flat'[kind] \in Seq(Combinations(kind)) /\ Range(flat'[kind]) = Pushed(kind, idx')
    BY <1>12, <2>1, <2>2, <2>3, RangeAppend
  <2>5. \E v : flat' = [flat EXCEPT ![kind] = v]
    BY <1>2
  <2> QED BY <1>1, <1>2, <2>4, <2>5, OtherLists
<1> QED BY <1>5, <1>7, <1>13

LEMMA ListFlatFlat ==
    ASSUME TypeInv, IdxInv, FlatInv, ListFlat
    PROVE  TypeInv' /\ IdxInv' /\ FlatInv'
<1> DEFINE kind == Lists[list]
<1>1. /\ list \in 1 .. 4 /\ kind \in Range(Lists) /\ Depth[kind] \in {2, 4} /\ Tree = TreeOf(kind)
      /\ lib \in Range(Libs) /\ idx \in [1 .. 4 -> 0 .. MaxLength] /\ MaxLength \in Nat
  BY ListsFacts, DescriptionAssumption DEF TypeInv, ListFlat, Flattening, Tree, TreeOf
<1>2. /\ idx[1] = Len(Tree) /\ list' = list + 1 /\ idx' = [k \in 1 .. 4 |-> 0]
      /\ lib' = lib /\ cfgs' = cfgs /\ flat' = flat
  BY DEF ListFlat
<1>3. idx' \in [1 .. 4 -> 0 .. MaxLength] /\ \A k \in 1 .. 4 : idx'[k] = 0
  BY <1>1, <1>2
<1>4. TypeInv'
  BY <1>1, <1>2, <1>3 DEF TypeInv
<1>5. IdxInv'
  <2>1. ASSUME list' <= 4, NEW k \in 1 .. Depth[Lists[list']]
        PROVE  idx'[k] <= Len(ListAt(Tree', idx', k))
    <3>1. list' \in 1 .. 4
      BY <1>1, <1>2, <2>1
    <3>2. Lists[list'] \in Range(Lists) /\ Depth[Lists[list']] \in {2, 4}
      BY <3>1, ListsFacts
    <3>3. Tree' = TreeOf(Lists[list'])
      BY <1>2 DEF Tree, TreeOf
    <3>4. Len(ListAt(Tree', idx', k)) \in 0 .. MaxLength
      BY <1>1, <1>3, <3>2, <3>3, TreeLemma
    <3> QED BY <1>1, <1>3, <3>2, <3>4
  <2> QED BY <2>1 DEF IdxInv
\* All paths are before the indices now, and none before the next ones.
<1>6. Pushed(kind, idx) = Combinations(kind)
  <2>1. ASSUME NEW x \in Paths(kind) PROVE Before(x, idx, Depth[kind])
    <3>1. 1 \in 1 .. Depth[kind] /\ 1 \in 1 .. 4
      BY <1>1
    <3>2. x[1] < Len(ListAt(Tree, x, 1))
      BY <1>1, <3>1, PathFacts
    <3>3. x[1] < idx[1]
      BY <1>2, <3>2 DEF ListAt
    <3> QED BY <3>1, <3>3 DEF Before
  <2> QED BY <2>1 DEF Pushed, Scanned, Combinations
<1>7. \A l \in Range(Lists) : Pushed(l, idx') = {}
  <2>1. ASSUME NEW l \in Range(Lists), NEW x \in Paths(l), Before(x, idx', Depth[l]) PROVE FALSE
    <3>1. PICK k \in 1 .. Depth[l] : x[k] < idx'[k]
      BY <2>1 DEF Before
    <3>2. k \in 1 .. 4 /\ x[k] \in Nat
      BY <2>1, ListsFacts, PathFacts
    <3> QED BY <1>3, <3>1, <3>2
  <2> QED BY <2>1 DEF Pushed, Scanned
<1>8. \A l : Combinations(l)' = Combinations(l) /\ Pushed(l, idx)' = Pushed(l, idx')
  BY <1>2, SameDescription DEF Pushed, Scanned
<1>9. ASSUME NEW i \in 1 .. 4
      PROVE  Range(flat[Lists[i]]) = IF i < list' THEN Combinations(Lists[i])
                                     ELSE IF i = list' THEN Pushed(Lists[i], idx')
                                     ELSE {}
  <2>1. CASE i = list
    <3>1. Range(flat[Lists[list]]) = Pushed(Lists[list], idx)
      BY <1>1 DEF FlatInv
    <3> QED BY <1>1, <1>2, <1>6, <2>1, <3>1
  <2>2. CASE i # list
    <3>1. Pushed(Lists[i], idx') = {}
      BY <1>7, ListsFacts
    <3>2. Range(flat[Lists[i]]) = IF i < list THEN Combinations(Lists[i]) ELSE {}
      BY <2>2 DEF FlatInv
    <3>3. (i < list <=> i < list') /\ (~(i < list) => ~(i < list'))
      BY <1>1, <1>2, <2>2
    <3> QED BY <3>1, <3>2, <3>3
  <2> QED BY <2>1, <2>2
<1>10. FlatInv'
  BY <1>2, <1>8, <1>9 DEF FlatInv
<1> QED BY <1>4, <1>5, <1>10

-----------------------------------------------------------------------------
(***************************************************************************)
(* The loop over the config objects                                        *)
(***************************************************************************)

LEMMA ConfigFacts ==
    ASSUME TypeInv
    PROVE  /\ Len(cfgs) \in Nat /\ \A c \in 1 .. Len(cfgs) : cfgs[c] \in Range(Configs)
           /\ \A c \in 1 .. Len(cfgs) : cfgs[c].functions \in Seq(STRING)
<1>1. PICK n \in 0 .. MaxConfigs : cfgs \in [1 .. n -> Range(Configs)]
  BY DEF TypeInv
<1>2. n \in Nat
  BY <1>1, DescriptionAssumption
<1>3. cfgs \in Seq(Range(Configs)) /\ Len(cfgs) = n
  BY <1>1, <1>2
<1> QED BY <1>1, <1>2, <1>3, DescriptionAssumption

\* One more config object that sets part v decides it.
LEMMA NextVersion ==
    ASSUME NEW v, NEW n \in Nat
    PROVE  VersionPart(v, n + 1) =
             IF "Version" \in DOMAIN cfgs[n + 1].version THEN cfgs[n + 1].version.Version[v]
             ELSE IF v \in DOMAIN cfgs[n + 1].version THEN cfgs[n + 1].version[v]
             ELSE VersionPart(v, n)
<1> DEFINE set == Setters(v, n + 1)
<1>1. CASE DOMAIN cfgs[n + 1].version \cap {"Version", v} # {}
  <2>1. n + 1 \in set /\ \A c \in set : c \in 1 .. n + 1
    BY <1>1 DEF Setters
  <2> HIDE DEF set
  <2>2. Max(set) = n + 1
    <3>1. \A b \in set : b <= n + 1
      BY <2>1
    <3>2. \A a \in set : (\A b \in set : a >= b) => a = n + 1
      BY <2>1
    <3> QED BY <2>1, <3>1, <3>2 DEF Max
  <2>3. VersionPart(v, n + 1) =
          IF "Version" \in DOMAIN cfgs[n + 1].version THEN cfgs[n + 1].version.Version[v]
          ELSE cfgs[n + 1].version[v]
    BY <2>1, <2>2 DEF VersionPart, set
  <2> QED BY <1>1, <2>3
<1>2. CASE DOMAIN cfgs[n + 1].version \cap {"Version", v} = {}
  <2>1. Setters(v, n + 1) = Setters(v, n)
    <3>1. \A c \in 1 .. n + 1 : c = n + 1 \/ c \in 1 .. n
      OBVIOUS
    <3>2. \A c \in 1 .. n : c \in 1 .. n + 1
      OBVIOUS
    <3> QED BY <1>2, <3>1, <3>2 DEF Setters
  <2>2. VersionPart(v, n + 1) = VersionPart(v, n)
    BY <2>1 DEF VersionPart
  <2> QED BY <1>2, <2>2
<1> QED BY <1>1, <1>2

\* That a kind was asked for by an earlier config object makes no difference:
\* what it needs was found then.
LEMMA SameChecks ==
    ASSUME TypeInv, FlatInv, LoopInv, ~Flattening, valid, next <= Len(cfgs)
    PROVE  PassesChecks(cfgs[next]) <=> Described(cfgs[next])
<1> SUFFICES ASSUME NEW want, want = cfgs[next] PROVE PassesChecks(want) <=> Described(want)
  OBVIOUS
<1>1. list = 5 /\ next \in 1 .. Len(cfgs) /\ Len(cfgs) \in Nat
  BY ListsFacts, ConfigFacts DEF TypeInv, LoopInv, Flattening
<1>2. \A kind \in Range(Lists) : Range(flat[kind]) = Combinations(kind)
  BY <1>1, ListsFacts DEF FlatInv
<1>3. ASSUME NEW kind \in Kinds, requested[kind]
      PROVE  \E c \in 1 .. next - 1 : DOMAIN cfgs[c][kind] # {} /\ Described(cfgs[c])
  BY <1>3 DEF LoopInv, AnySets, AllDescribed
<1>4. ASSUME NEW w, NEW desc, DOMAIN w = {} PROVE Meets(w, desc)
  BY <1>4 DEF Meets
<1>5. (Asked(want, "ext") => lib.ext # Null /\ CheckPropsExtDevID(want.ext, lib.ext))
      <=> (DOMAIN want.ext # {} => lib.ext # Null /\ CheckPropsExtDevID(want.ext, lib.ext))
  <2>1. ASSUME requested["ext"], DOMAIN want.ext = {}
        PROVE  lib.ext # Null /\ CheckPropsExtDevID(want.ext, lib.ext)
    <3>1. lib.ext # Null
      BY <1>3, <2>1 DEF Kinds, Described
    <3>2. Meets(want.ext, lib.ext)
      BY <1>4, <2>1
    <3>3. \A p : p \notin DOMAIN want.ext
      BY <2>1
    <3>4. DOMAIN want.ext \cap {"DeviceLUID", "LUIDDeviceNodeMask"} = {}
      BY <2>1
    <3> QED BY <3>1, <3>2, <3>3, <3>4, SMT DEF CheckPropsExtDevID
  <2> QED BY <2>1 DEF Asked
<1>6. ASSUME NEW kind \in Range(Lists), requested[kind], DOMAIN want[kind] = {}, ~lib.msdk \/ kind = "surface"
      PROVE  lib.tree[kind] # Null /\ CheckProps(want[kind], Range(flat[kind]))
  <2>1. PICK d \in Combinations(kind) : TRUE
    <3>1. kind \in Kinds
      BY ListsFacts DEF Kinds
    <3>2. PICK c \in 1 .. next - 1 : DOMAIN cfgs[c][kind] # {} /\ Described(cfgs[c])
      BY <1>3, <1>6, <3>1
    <3> QED BY <1>6, <3>2 DEF Described
  <2>2. lib.tree[kind] # Null
    BY <2>1, PathFacts DEF Combinations
  <2> QED BY <1>2, <1>4, <1>6, <2>1, <2>2 DEF CheckProps
<1>7. ASSUME NEW kind \in Range(Lists), NEW d \in Combinations(kind)
      PROVE  lib.tree[kind] # Null
  BY PathFacts DEF Combinations
<1>8. (Asked(want, "surface") => lib.tree.surface # Null /\ CheckProps(want.surface, Range(flat.surface)))
      <=> DOMAIN want.surface = {} \/ \E d \in Combinations("surface") : Meets(want.surface, d)
  BY <1>2, <1>6, <1>7, ListsFacts DEF Asked, CheckProps
<1>9. ASSUME NEW kind \in {"dec", "enc", "vpp"}, ~lib.msdk
      PROVE  (Asked(want, kind) => CheckProps(want[kind], Range(flat[kind])))
             <=> DOMAIN want[kind] = {} \/ \E d \in Combinations(kind) : Meets(want[kind], d)
  BY <1>2, <1>6, <1>9, ListsFacts DEF Asked, CheckProps
<1>10. PassesChecks(want) <=>
         /\ Meets(want.main, lib.main)
         /\ DOMAIN want.ext # {} => lib.ext # Null /\ CheckPropsExtDevID(want.ext, lib.ext)
         /\ DOMAIN want.surface = {} \/ \E d \in Combinations("surface") : Meets(want.surface, d)
         /\ \/ lib.msdk
            \/ \A kind \in {"dec", "enc", "vpp"} :
                 DOMAIN want[kind] = {} \/ \E d \in Combinations(kind) : Meets(want[kind], d)
  BY <1>5, <1>8, <1>9 DEF PassesChecks
<1>11. Described(want) <=>
         /\ Meets(want.main, lib.main)
         /\ DOMAIN want.ext # {} => lib.ext # Null /\ CheckPropsExtDevID(want.ext, lib.ext)
         /\ DOMAIN want.surface = {} \/ \E d \in Combinations("surface") : Meets(want.surface, d)
         /\ \/ lib.msdk
            \/ \A kind \in {"dec", "enc", "vpp"} :
                 DOMAIN want[kind] = {} \/ \E d \in Combinations(kind) : Meets(want[kind], d)
  BY ListsFacts DEF Described
<1> QED BY <1>10, <1>11

\* The requests of the config objects do not change during the call.
LEMMA SameRequests ==
    ASSUME lib' = lib, cfgs' = cfgs, NEW m, m = next' - 1
    PROVE  /\ AllDescribed(next - 1)' <=> AllDescribed(m)
           /\ \A kind \in Kinds : AnySets(kind, next - 1)' <=> AnySets(kind, m)
           /\ VersionPart("Major", next - 1)' = VersionPart("Major", m)
           /\ VersionPart("Minor", next - 1)' = VersionPart("Minor", m)
           /\ AllFunctions(next - 1)' = AllFunctions(m)
<1>1. \A c : Described(cfgs[c])' <=> Described(cfgs[c])
  BY SameDescription DEF Described
<1>2. AllDescribed(next - 1)' <=> AllDescribed(m)
  BY <1>1 DEF AllDescribed
<1>3. \A kind \in Kinds : AnySets(kind, next - 1)' <=> AnySets(kind, m)
  BY DEF AnySets
<1>4. /\ Setters("Major", next - 1)' = Setters("Major", m)
      /\ Setters("Minor", next - 1)' = Setters("Minor", m)
  BY DEF Setters
<1>5. /\ VersionPart("Major", next - 1)' = VersionPart("Major", m)
      /\ VersionPart("Minor", next - 1)' = VersionPart("Minor", m)
  BY <1>4 DEF VersionPart
<1>6. AllFunctions(next - 1)' = AllFunctions(m)
  BY DEF AllFunctions
<1> QED BY <1>2, <1>3, <1>5, <1>6

LEMMA CheckConfigLoop ==
    ASSUME TypeInv, FlatInv, LoopInv, CheckConfig
    PROVE  LoopInv'
<1> DEFINE n    == next - 1
           want == cfgs[next]
<1>1. /\ ~Flattening /\ next <= Len(cfgs) /\ next' = next + 1
      /\ requested' = [kind \in Kinds |-> Asked(want, kind)]
      /\ valid' = (valid /\ PassesChecks(want))
      /\ version' = ReqVersion(want.version)
      /\ functions' = functions \o want.functions
      /\ lib' = lib /\ cfgs' = cfgs /\ list' = list /\ flat' = flat /\ result' = result
  BY DEF CheckConfig, CfgProps
<1>2. /\ next \in 1 .. Len(cfgs) /\ Len(cfgs) \in Nat /\ n \in Nat /\ next = n + 1 /\ next' - 1 = n + 1
      /\ next' \in 1 .. Len(cfgs) + 1
      /\ want.functions \in Seq(STRING) /\ functions \in Seq(STRING) /\ valid \in BOOLEAN
  BY <1>1, ConfigFacts DEF LoopInv
<1>3. \A c \in 1 .. n + 1 : c \in 1 .. n \/ c = next
  BY <1>2
<1>4. \A c \in 1 .. n : c \in 1 .. n + 1
  BY <1>2
<1>5. next \in 1 .. n + 1
  BY <1>2
<1>6. valid' \in BOOLEAN /\ (valid' <=> AllDescribed(n + 1))
  <2>1. AllDescribed(n + 1) <=> AllDescribed(n) /\ Described(want)
    BY <1>3, <1>4, <1>5 DEF AllDescribed
  <2>2. valid <=> AllDescribed(n)
    BY DEF LoopInv
  <2>3. valid => (PassesChecks(want) <=> Described(want))
    BY <1>1, SameChecks
  <2> HIDE DEF want, n
  <2> QED BY <1>1, <1>2, <2>1, <2>2, <2>3
<1>7. ASSUME NEW kind \in Kinds PROVE requested'[kind] <=> AnySets(kind, n + 1)
  <2>1. requested[kind] <=> AnySets(kind, n)
    BY DEF LoopInv
  <2>2. AnySets(kind, n + 1) <=> AnySets(kind, n) \/ DOMAIN want[kind] # {}
    BY <1>3, <1>4, <1>5 DEF AnySets
  <2> QED BY <1>1, <2>1, <2>2 DEF Asked
<1>8. version'.Major = VersionPart("Major", n + 1) /\ version'.Minor = VersionPart("Minor", n + 1)
  <2>1. version.Major = VersionPart("Major", n) /\ version.Minor = VersionPart("Minor", n)
    BY DEF LoopInv
  <2>2. /\ version'.Major = IF "Version" \in DOMAIN want.version THEN want.version.Version["Major"]
                            ELSE IF "Major" \in DOMAIN want.version THEN want.version["Major"]
                            ELSE version.Major
        /\ version'.Minor = IF "Version" \in DOMAIN want.version THEN want.version.Version["Minor"]
                            ELSE IF "Minor" \in DOMAIN want.version THEN want.version["Minor"]
                            ELSE version.Minor
    BY <1>1 DEF ReqVersion
  <2>3. want = cfgs[n + 1]
    BY <1>2
  <2> HIDE DEF want, n
  <2> QED BY <1>2, <2>1, <2>2, <2>3, NextVersion
<1>9. functions' \in Seq(STRING) /\ Range(functions') = AllFunctions(n + 1)
  <2>1. functions' \in Seq(STRING) /\ Range(functions') = Range(functions) \cup Range(want.functions)
    BY <1>1, <1>2, RangeConcat
  <2>2. Range(functions) = AllFunctions(n)
    BY DEF LoopInv
  <2>3. AllFunctions(n + 1) = AllFunctions(n) \cup Range(want.functions)
    BY <1>3, <1>4, <1>5 DEF AllFunctions
  <2> QED BY <2>1, <2>2, <2>3
<1>10. result' = Null
  BY <1>1, <1>2 DEF LoopInv
<1> QED BY <1>1, <1>2, <1>6, <1>7, <1>8, <1>9, <1>10, SameRequests DEF LoopInv, Flattening

-----------------------------------------------------------------------------
(***************************************************************************)
(* The invariant                                                           *)
(***************************************************************************)

LEMMA InitInv == Init => IInv
<1> SUFFICES ASSUME Init PROVE IInv
  OBVIOUS
<1>1. /\ lib \in Range(Libs) /\ list = 1 /\ idx = [k \in 1 .. 4 |-> 0] /\ next = 1 /\ MaxLength \in Nat
      /\ flat = [kind \in Range(Lists) |-> << >>]
  BY DescriptionAssumption DEF Init
<1>2. TypeInv
  BY <1>1 DEF Init, TypeInv
<1>3. Lists[1] \in Range(Lists) /\ Depth[Lists[1]] \in {2, 4} /\ Tree = TreeOf(Lists[1])
  BY <1>1, ListsFacts DEF Tree, TreeOf
<1>4. IdxInv
  <2>1. ASSUME NEW k \in 1 .. Depth[Lists[1]] PROVE idx[k] <= Len(ListAt(Tree, idx, k))
    <3>1. Len(ListAt(Tree, idx, k)) \in 0 .. MaxLength
      BY <1>2, <1>3, TreeLemma DEF TypeInv
    <3>2. k \in 1 .. 4
      BY <1>3
    <3> QED BY <1>1, <3>1, <3>2
  <2> QED BY <1>1, <2>1 DEF IdxInv
<1>5. ASSUME NEW l \in Range(Lists) PROVE Pushed(l, idx) = {}
  <2>1. ASSUME NEW x \in Paths(l), Before(x, idx, Depth[l]) PROVE FALSE
    <3>1. PICK k \in 1 .. Depth[l] : x[k] < idx[k]
      BY <2>1 DEF Before
    <3>2. k \in 1 .. 4 /\ x[k] \in Nat
      BY ListsFacts, PathFacts
    <3> QED BY <1>1, <3>1, <3>2
  <2> QED BY <2>1 DEF Pushed, Scanned
<1>6. FlatInv
  <2>1. ASSUME NEW i \in 1 .. 4
        PROVE  /\ flat[Lists[i]] \in Seq(Combinations(Lists[i])) /\ Range(flat[Lists[i]]) = {}
               /\ Pushed(Lists[i], idx) = {} /\ ~(i < list)
    <3>1. Lists[i] \in Range(Lists) /\ flat[Lists[i]] = << >>
      BY <1>1, ListsFacts
    <3>2. << >> \in Seq(Combinations(Lists[i])) /\ Range(<< >>) = {}
      BY DEF Range
    <3>3. Pushed(Lists[i], idx) = {}
      BY <1>5, <3>1
    <3>4. ~(i < list)
      BY <1>1
    <3> QED BY <3>1, <3>2, <3>3, <3>4
  <2> QED BY <1>1, <2>1 DEF FlatInv
<1>7. LoopInv
  <2>1. Len(cfgs) \in Nat /\ next - 1 = 0
    BY <1>1, <1>2, ConfigFacts
  <2>2. VersionPart("Major", 0) = Null /\ VersionPart("Minor", 0) = Null
    BY DEF VersionPart, Setters
  <2>3. AllDescribed(0) /\ \A kind \in Kinds : ~AnySets(kind, 0)
    BY DEF AllDescribed, AnySets
  <2>4. AllFunctions(0) = {} /\ Range(<< >>) = {}
    BY DEF AllFunctions, Range
  <2>5. /\ result = Null /\ valid = TRUE /\ functions = << >> /\ \A kind \in Kinds : ~requested[kind]
        /\ version.Major = Null /\ version.Minor = Null /\ << >> \in Seq(STRING)
    BY DEF Init
  <2> QED BY <1>1, <2>1, <2>2, <2>3, <2>4, <2>5 DEF LoopInv
<1> QED BY <1>2, <1>4, <1>6, <1>7 DEF IInv

\* The flattening loops leave the loop over the config objects alone.
LEMMA FlatteningLoop ==
    ASSUME LoopInv, Flattening, next' = next, requested' = requested, valid' = valid,
           version' = version, functions' = functions, result' = result, lib' = lib, cfgs' = cfgs
    PROVE  LoopInv'
<1>1. next' = 1 /\ next' - 1 = next - 1 /\ result' = Null
  BY DEF LoopInv
<1> QED BY <1>1, SameRequests DEF LoopInv

LEMMA FinishInv ==
    ASSUME IInv, Finish
    PROVE  IInv'
<1>1. /\ lib' = lib /\ cfgs' = cfgs /\ list' = list /\ idx' = idx /\ flat' = flat /\ next' = next
      /\ requested' = requested /\ valid' = valid /\ version' = version /\ functions' = functions
      /\ ~Flattening /\ next = Len(cfgs) + 1
      /\ result' = IF valid /\ VersionMet /\ FunctionsMet THEN "NONE" ELSE "UNSUPPORTED"
  BY DEF Finish
<1>2. TypeInv' /\ IdxInv'
  BY <1>1 DEF IInv, TypeInv, IdxInv, Tree
<1>3. FlatInv'
  <2>1. \A l : Combinations(l)' = Combinations(l) /\ Pushed(l, idx)' = Pushed(l, idx)
    BY <1>1, SameDescription DEF Pushed, Scanned
  <2> QED BY <1>1, <2>1 DEF IInv, FlatInv
<1>4. LoopInv'
  <2>1. (Flattening' <=> Flattening) /\ next' - 1 = next - 1
    BY <1>1 DEF Flattening
  <2>2. (VersionMet' <=> VersionMet) /\ (FunctionsMet' <=> FunctionsMet)
    BY <1>1, SMT DEF VersionMet, FunctionsMet
  <2>3. Verdict' <=> Verdict
    BY <1>1, <2>2 DEF Verdict
  <2>4. result' = IF Verdict' THEN "NONE" ELSE "UNSUPPORTED"
    BY <1>1, <2>3 DEF Verdict
  <2> QED BY <1>1, <2>1, <2>4, SameRequests DEF IInv, LoopInv
<1> QED BY <1>2, <1>3, <1>4 DEF IInv

LEMMA NextInv == IInv /\ [Next]_vars => IInv'
<1> SUFFICES ASSUME IInv, [Next]_vars PROVE IInv'
  OBVIOUS
<1>1. TypeInv /\ IdxInv /\ FlatInv /\ LoopInv
  BY DEF IInv
<1>2. ASSUME NEW k \in 1 .. 3, CheckIdx(k) PROVE IInv'
  <2>1. LoopInv'
    BY <1>1, <1>2, FlatteningLoop DEF CheckIdx
  <2> QED BY <1>1, <1>2, <2>1, CheckIdxFlat DEF IInv
<1>3. CASE PushCombination
  <2>1. LoopInv'
    BY <1>1, <1>3, FlatteningLoop DEF PushCombination
  <2> QED BY <1>1, <1>3, <2>1, PushFlat DEF IInv
<1>4. CASE ListFlat
  <2>1. LoopInv'
    BY <1>1, <1>4, FlatteningLoop DEF ListFlat
  <2> QED BY <1>1, <1>4, <2>1, ListFlatFlat DEF IInv
<1>5. CASE CheckConfig
  <2>1. lib' = lib /\ cfgs' = cfgs /\ list' = list /\ idx' = idx /\ flat' = flat
    BY <1>5 DEF CheckConfig
  <2>2. TypeInv' /\ IdxInv'
    BY <1>1, <2>1 DEF TypeInv, IdxInv, Tree
  <2>3. \A l : Combinations(l)' = Combinations(l) /\ Pushed(l, idx)' = Pushed(l, idx)
    BY <2>1, SameDescription DEF Pushed, Scanned
  <2>4. FlatInv'
    BY <1>1, <2>1, <2>3 DEF FlatInv
  <2> QED BY <1>1, <1>5, <2>2, <2>4, CheckConfigLoop DEF IInv
<1>6. CASE Finish
  BY <1>6, FinishInv
<1>7. CASE UNCHANGED vars
  <2>1. /\ lib' = lib /\ cfgs' = cfgs /\ list' = list /\ idx' = idx /\ flat' = flat /\ next' = next
        /\ requested' = requested /\ valid' = valid /\ version' = version /\ functions' = functions
        /\ result' = result
    BY <1>7 DEF vars
  <2>2. TypeInv' /\ IdxInv'
    BY <1>1, <2>1 DEF TypeInv, IdxInv, Tree
  <2>3. \A l : Combinations(l)' = Combinations(l) /\ Pushed(l, idx)' = Pushed(l, idx)
    BY <2>1, SameDescription DEF Pushed, Scanned
  <2>4. FlatInv'
    BY <1>1, <2>1, <2>3 DEF FlatInv
  <2>5. (Flattening' <=> Flattening) /\ next' - 1 = next - 1 /\ (Verdict' <=> Verdict)
    BY <2>1, SMT DEF Flattening, Verdict, VersionMet, FunctionsMet
  <2>6. LoopInv'
    BY <1>1, <2>1, <2>5, SameRequests DEF LoopInv
  <2> QED BY <2>2, <2>4, <2>6 DEF IInv
<1> QED BY <1>2, <1>3, <1>4, <1>5, <1>6, <1>7 DEF Next

LEMMA VerdictIsRight == IInv => ValidMeansSatisfied
<1> SUFFICES ASSUME IInv PROVE ValidMeansSatisfied
  OBVIOUS
<1>0. CASE result = Null
  BY <1>0 DEF ValidMeansSatisfied
<1>1. CASE result # Null
  <2> DEFINE n     == Len(cfgs)
  <2>1. next - 1 = n /\ n \in Nat /\ result = IF Verdict THEN "NONE" ELSE "UNSUPPORTED"
    BY <1>1, ConfigFacts DEF IInv, LoopInv
  <2>2. valid <=> \A c \in 1 .. n : Described(cfgs[c])
    BY <2>1 DEF IInv, LoopInv, AllDescribed
  <2>3. version.Major = VersionPart("Major", n) /\ version.Minor = VersionPart("Minor", n)
    BY <2>1 DEF IInv, LoopInv
  <2>4. VersionMet <=> VersionProvided
    BY <2>3, SMT DEF VersionMet, VersionProvided
  <2>5. FunctionsMet <=> \A c \in 1 .. n : Provided(cfgs[c])
    <3>1. functions \in Seq(STRING) /\ Range(functions) = UNION {Range(cfgs[c].functions) : c \in 1 .. n}
      BY <2>1 DEF IInv, LoopInv, AllFunctions
    <3>2. functions = << >> <=> Range(functions) = {}
      <4>1. DOMAIN functions = 1 .. Len(functions) /\ Len(functions) \in Nat
            /\ (functions = << >> <=> Len(functions) = 0)
        BY <3>1
      <4>2. Len(functions) # 0 => functions[1] \in Range(functions)
        BY <4>1 DEF Range
      <4>3. Len(functions) = 0 => Range(functions) = {}
        BY <4>1 DEF Range
      <4> QED BY <4>1, <4>2, <4>3
    <3>3. FunctionsMet <=> \A f \in Range(functions) : lib.functions # Null /\ f \in lib.functions
      BY <3>2 DEF FunctionsMet
    <3> QED BY <3>1, <3>3 DEF Provided
  <2>6. (result = "NONE") <=> valid /\ VersionMet /\ FunctionsMet
    BY <2>1 DEF Verdict
  <2> QED BY <2>2, <2>4, <2>5, <2>6 DEF ValidMeansSatisfied
<1> QED BY <1>0, <1>1

-----------------------------------------------------------------------------
\* ValidateConfig finds a library valid exactly if its description meets every
\* config object by itself and the last version asked for: for any nesting of
\* empty and full lists, and any number of config objects in any order.
THEOREM VerdictTheorem == Spec => []ValidMeansSatisfied
<1>1. Spec => []IInv
  BY InitInv, NextInv, PTL DEF Spec
<1> QED BY <1>1, VerdictIsRight, PTL
=============================================================================
