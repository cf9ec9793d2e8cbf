----------------------------- MODULE ListOrder -----------------------------
(***************************************************************************)
(* The std::list operations of the dispatcher (push_back, erase, sort,     *)
(* splice).  A list without repetitions is a function from its elements    *)
(* to their positions 1..n: std::list::sort is stable, so the position of  *)
(* an element after a sort is the number of elements that do not come      *)
(* after it, with the old position as the last key.                        *)
(***************************************************************************)
EXTENDS Integers, FiniteSets

\* f itself.  The comparison makes TLC compute the table of f once instead of
\* evaluating its body at every application.
Table(f) == CHOOSE g \in {f} : g = f

EmptyList == [x \in {} |-> 0]

IsInjectiveOn(f, S) == \A x, y \in S : f[x] = f[y] => x = y

\* p is a list of the elements of DOMAIN p.
IsList(p) ==
    /\ IsFiniteSet(DOMAIN p)
    /\ p \in [DOMAIN p -> 1 .. Cardinality(DOMAIN p)]
    /\ IsInjectiveOn(p, DOMAIN p)

\* The list of the elements of S in the order of the total order R.
Rank(S, R) == Table([x \in S |-> Cardinality({y \in S : <<y, x>> \in R})])

\* Key k first, position p second.
KeyOrder(S, p, k) ==
    {r \in S \X S : k[r[1]] < k[r[2]] \/ (k[r[1]] = k[r[2]] /\ p[r[1]] <= p[r[2]])}

\* std::list::sort with the comparator k[a] < k[b].
SortBy(p, k) == Rank(DOMAIN p, KeyOrder(DOMAIN p, p, k))

\* The list that is left when the elements outside T are erased.
Keep(p, T) ==
    LET S == DOMAIN p \cap T
    IN  Rank(S, {r \in S \X S : p[r[1]] <= p[r[2]]})

\* push_back of every element of list q, in the order of q.
PushBack(p, q) ==
    Table([x \in DOMAIN p \cup DOMAIN q |->
             IF x \in DOMAIN p THEN p[x] ELSE Cardinality(DOMAIN p) + q[x]])

\* The list of S in increasing order of the injective key k.
ListByKey(S, k) == Rank(S, {r \in S \X S : k[r[1]] <= k[r[2]]})

\* How many elements of T stand before x in p.
CountBefore(p, T, x) == Cardinality({y \in T : p[y] < p[x]})
=============================================================================
