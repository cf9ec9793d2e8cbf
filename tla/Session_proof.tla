---------------------------- MODULE Session_proof ----------------------------
(***************************************************************************)
(* Theorems about dispatcher-level sessions, for every set of libraries,   *)
(* every runtime behind them and any number of sessions.                   *)
(*                                                                         *)
(* The lemmas speak of a state S, not of the variable s: an API call goes  *)
(* through several such states (each attempt of LoaderCtx::Init is undone  *)
(* before the next one), and the same lemma serves all of them.            *)
(***************************************************************************)
EXTENDS Session, TLAPS, FiniteSetTheorems

Ctxs == [lib : Paths, path : Paths \cup {Main}, version : Nat, impl : {"HW", "SW", Null},
         rt : Nat, table : Paths \cup {Null}, table2 : Paths \cup {Null}]

RTSessions == [lib : Paths, parent : Nat, refused : BOOLEAN]

Fields == {"ctx", "rts", "dl", "fault"}

\* The record of a state.
IsState(S) == S = [f \in Fields |-> S[f]]

\* The shape of the state.
Shape(S) ==
    /\ IsState(S)
    /\ DOMAIN S.ctx \subseteq Sessions /\ S.ctx \in [DOMAIN S.ctx -> Ctxs]
    /\ DOMAIN S.rts \subseteq 1 .. MaxRTSessions /\ S.rts \in [DOMAIN S.rts -> RTSessions]
    /\ S.dl \in [Paths \cup {Main} -> Nat]

\* HandleCount, SessionsLive, NoOrphans and JoinedSameVersion of S.
Handles(S) ==
    \A n \in Paths \cup {Main} : S.dl[n] = Cardinality({h \in DOMAIN S.ctx : S.ctx[h].lib = n})

Live(S) ==
    \A h \in DOMAIN S.ctx : S.ctx[h].rt # 0 =>
        /\ S.ctx[h].rt \in DOMAIN S.rts /\ S.rts[S.ctx[h].rt].lib = S.ctx[h].lib
        /\ S.ctx[h].table = S.ctx[h].lib /\ S.ctx[h].table2 \in {Null, S.ctx[h].lib}
        /\ \A k \in DOMAIN S.ctx : S.ctx[k].rt = S.ctx[h].rt => k = h

Owned(S) ==
    \A r \in DOMAIN S.rts : S.rts[r].refused \/ \E h \in DOMAIN S.ctx : S.ctx[h].rt = r

SameVersion(S) ==
    \A h, k \in DOMAIN S.ctx :
        S.ctx[h].rt # 0 /\ S.ctx[k].rt # 0 /\ S.rts[S.ctx[k].rt].parent = S.ctx[h].rt
            => S.ctx[h].version = S.ctx[k].version

\* The runtime never closes a session that is a parent, so the number of a
\* closed one, which may be given out again, is nobody's parent.
ParentsOpen(S) == \A r \in DOMAIN S.rts : S.rts[r].parent = 0 \/ S.rts[r].parent \in DOMAIN S.rts

\* The first function table is filled as long as there is a runtime session.
Tables(S) == \A h \in DOMAIN S.ctx : S.ctx[h].table = Null <=> S.ctx[h].rt = 0

\* A session that was created for a library knows its path, others none.
OwnPath(S) == \A h \in DOMAIN S.ctx : S.ctx[h].path \in {Main, S.ctx[h].lib}

StateInv(S) ==
    /\ Shape(S) /\ Handles(S) /\ Live(S) /\ Owned(S) /\ SameVersion(S)
    /\ ParentsOpen(S) /\ Tables(S) /\ OwnPath(S)

\* An EXCEPT on the state changes one field.
LEMMA ExceptCtx ==
    ASSUME NEW S, IsState(S), NEW x, NEW T, T = [S EXCEPT !.ctx = x]
    PROVE  IsState(T) /\ T.ctx = x /\ T.rts = S.rts /\ T.dl = S.dl /\ T.fault = S.fault
  BY DEF IsState, Fields

LEMMA ExceptRts ==
    ASSUME NEW S, IsState(S), NEW x, NEW T, T = [S EXCEPT !.rts = x]
    PROVE  IsState(T) /\ T.ctx = S.ctx /\ T.rts = x /\ T.dl = S.dl /\ T.fault = S.fault
  BY DEF IsState, Fields

LEMMA ExceptDl ==
    ASSUME NEW S, IsState(S), NEW x, NEW T, T = [S EXCEPT !.dl = x]
    PROVE  IsState(T) /\ T.ctx = S.ctx /\ T.rts = S.rts /\ T.dl = x /\ T.fault = S.fault
  BY DEF IsState, Fields

LEMMA SameState ==
    ASSUME NEW S, NEW T, IsState(S), IsState(T),
           S.ctx = T.ctx, S.rts = T.rts, S.dl = T.dl, S.fault = T.fault
    PROVE  S = T
  BY DEF IsState, Fields

-----------------------------------------------------------------------------
(***************************************************************************)
(* Opening                                                                 *)
(***************************************************************************)

\* Among n + 1 numbers there is one that n sessions do not use.
LEMMA FreshLemma ==
    ASSUME NEW S, Shape(S), Cardinality(DOMAIN S.rts) < MaxRTSessions
    PROVE  FreshRT(S) \in 1 .. MaxRTSessions /\ FreshRT(S) \notin DOMAIN S.rts
  <1> DEFINE n == Cardinality(DOMAIN S.rts)
  <1>1. IsFiniteSet(DOMAIN S.rts) /\ n \in Nat
    <2>1. IsFiniteSet(1 .. MaxRTSessions) BY FS_Interval, LimitsAssumption
    <2>2. IsFiniteSet(DOMAIN S.rts) BY <2>1, FS_Subset DEF Shape
    <2> QED BY <2>2, FS_CardinalityType
  <1>2. IsFiniteSet(1 .. (n + 1)) /\ Cardinality(1 .. (n + 1)) = n + 1
    BY <1>1, FS_Interval
  <1>3. ~(1 .. (n + 1) \subseteq DOMAIN S.rts)
    BY <1>1, <1>2, FS_Subset
  <1>4. \E r \in 1 .. (n + 1) : r \notin DOMAIN S.rts BY <1>3
  <1>5. FreshRT(S) \in 1 .. (n + 1) /\ FreshRT(S) \notin DOMAIN S.rts
    BY <1>4 DEF FreshRT
  <1> QED BY <1>1, <1>5, LimitsAssumption

\* c is a LoaderCtx that can become h, of a new session r with the parent p.
Fits(S, h, c, r, p) ==
    /\ h \in Sessions \ DOMAIN S.ctx /\ r \in 1 .. MaxRTSessions /\ r \notin DOMAIN S.rts
    /\ c \in Ctxs /\ c.rt = r /\ c.table = c.lib /\ c.table2 \in {Null, c.lib}
    /\ c.path \in {Main, c.lib}
    /\ p \in Nat /\ (p = 0 \/ p \in DOMAIN S.rts)
    /\ \A k \in DOMAIN S.ctx : p # 0 /\ S.ctx[k].rt = p => S.ctx[k].version = c.version

\* T is S with both.
Opens(S, T, h, c, r, p) ==
    /\ IsState(T) /\ T.fault = S.fault
    /\ T.ctx = [k \in DOMAIN S.ctx \cup {h} |-> IF k = h THEN c ELSE S.ctx[k]]
    /\ T.rts = [k \in DOMAIN S.rts \cup {r} |->
                  IF k \in DOMAIN S.rts THEN S.rts[k]
                  ELSE [lib |-> c.lib, parent |-> p, refused |-> FALSE]]
    /\ T.dl = [S.dl EXCEPT ![c.lib] = S.dl[c.lib] + 1]

LEMMA CtxFinite ==
    ASSUME NEW S, DOMAIN S.ctx \subseteq Sessions, NEW n
    PROVE  IsFiniteSet({h \in DOMAIN S.ctx : S.ctx[h].lib = n})
  <1>1. IsFiniteSet(Sessions) BY FS_Interval, LimitsAssumption DEF Sessions
  <1>2. {h \in DOMAIN S.ctx : S.ctx[h].lib = n} \subseteq Sessions OBVIOUS
  <1> QED BY <1>1, <1>2, FS_Subset

LEMMA OpensHandles ==
    ASSUME NEW S, Shape(S), Handles(S), NEW T, NEW h, NEW c, NEW r, NEW p,
           Fits(S, h, c, r, p), Opens(S, T, h, c, r, p)
    PROVE  Handles(T)
  <1> DEFINE U(X, n) == {k \in DOMAIN X.ctx : X.ctx[k].lib = n}
  <1> SUFFICES ASSUME NEW n \in Paths \cup {Main} PROVE T.dl[n] = Cardinality(U(T, n))
    BY DEF Handles
  <1>0. /\ DOMAIN T.ctx = DOMAIN S.ctx \cup {h} /\ T.ctx[h] = c /\ h \notin DOMAIN S.ctx
        /\ \A k \in DOMAIN S.ctx : T.ctx[k] = S.ctx[k]
    BY DEF Opens, Fits
  <1>1. S.dl[n] = Cardinality(U(S, n)) BY DEF Handles
  <1>2. CASE n = c.lib
    <2>1. U(T, n) = U(S, n) \cup {h} /\ h \notin U(S, n) BY <1>0, <1>2
    <2>2. IsFiniteSet(U(S, n)) BY CtxFinite DEF Shape
    <2>3. Cardinality(U(T, n)) = Cardinality(U(S, n)) + 1
      <3> HIDE DEF U
      <3> QED BY <2>1, <2>2, FS_AddElement
    <2> QED BY <1>1, <1>2, <2>3 DEF Opens, Shape
  <1>3. CASE n # c.lib
    <2>1. U(T, n) = U(S, n) BY <1>0, <1>3
    <2> QED BY <1>1, <1>3, <2>1 DEF Opens, Shape
  <1> QED BY <1>2, <1>3

LEMMA OpensLemma ==
    ASSUME NEW S, StateInv(S), NEW T, NEW h, NEW c, NEW r, NEW p,
           Fits(S, h, c, r, p), Opens(S, T, h, c, r, p)
    PROVE  StateInv(T)
  <1>0. /\ h \notin DOMAIN S.ctx /\ r \notin DOMAIN S.rts
    BY DEF Fits
  <1>1. /\ DOMAIN T.ctx = DOMAIN S.ctx \cup {h} /\ T.ctx[h] = c
        /\ \A k \in DOMAIN S.ctx : T.ctx[k] = S.ctx[k]
        /\ DOMAIN T.rts = DOMAIN S.rts \cup {r}
        /\ T.rts[r] = [lib |-> c.lib, parent |-> p, refused |-> FALSE]
        /\ \A k \in DOMAIN S.rts : T.rts[k] = S.rts[k]
    BY <1>0 DEF Opens
  <1>2. Shape(S) /\ Handles(S) /\ Live(S) /\ Owned(S) /\ SameVersion(S) /\ ParentsOpen(S) /\ Tables(S) /\ OwnPath(S)
    BY DEF StateInv
  <1>3. c \in Ctxs /\ c.lib \in Paths /\ c.rt = r /\ r \in Nat \ {0} /\ p \in Nat
    BY DEF Fits, Ctxs
  <1>4. Shape(T)
    <2>1. T.ctx \in [DOMAIN T.ctx -> Ctxs] /\ DOMAIN T.ctx \subseteq Sessions
      BY <1>1, <1>2, <1>3 DEF Shape, Fits, Opens
    <2>2. [lib |-> c.lib, parent |-> p, refused |-> FALSE] \in RTSessions
      BY <1>3 DEF RTSessions
    <2>3. T.rts \in [DOMAIN T.rts -> RTSessions] /\ DOMAIN T.rts \subseteq 1 .. MaxRTSessions
      BY <1>1, <1>2, <2>2 DEF Shape, Fits, Opens
    <2>4. T.dl \in [Paths \cup {Main} -> Nat]
      BY <1>2, <1>3 DEF Shape, Opens
    <2> QED BY <2>1, <2>3, <2>4 DEF Shape, Opens
  <1>5. Handles(T) BY <1>2, OpensHandles
  <1>6. \A k \in DOMAIN S.ctx : S.ctx[k].rt # r
    BY <1>2, <1>3 DEF Live, Fits
  <1>7. Live(T) BY <1>1, <1>2, <1>3, <1>6 DEF Live, Fits
  <1>8. Owned(T)
    BY <1>1, <1>2, <1>3 DEF Owned
  <1>9. SameVersion(T)
    <2> SUFFICES ASSUME NEW i \in DOMAIN T.ctx, NEW k \in DOMAIN T.ctx, T.ctx[i].rt # 0,
                        T.ctx[k].rt # 0, T.rts[T.ctx[k].rt].parent = T.ctx[i].rt
                 PROVE  T.ctx[i].version = T.ctx[k].version
      BY DEF SameVersion
    <2>1. CASE k = h
      BY <2>1, <1>1, <1>3 DEF Fits
    <2>2. CASE k # h
      <3>1. k \in DOMAIN S.ctx /\ T.ctx[k] = S.ctx[k] /\ S.ctx[k].rt \in DOMAIN S.rts
        BY <2>2, <1>1, <1>2 DEF Live
      <3>2. S.rts[S.ctx[k].rt].parent = T.ctx[i].rt BY <3>1, <1>1
      <3>3. T.ctx[i].rt \in DOMAIN S.rts BY <3>1, <3>2, <1>2 DEF ParentsOpen
      <3>4. i # h BY <3>3, <1>1, <1>3 DEF Fits
      <3> QED BY <3>1, <3>2, <3>4, <1>1, <1>2 DEF SameVersion
    <2> QED BY <2>1, <2>2
  <1>10. ParentsOpen(T)
    BY <1>1, <1>2 DEF ParentsOpen, Fits
  <1>11. Tables(T)
    <2>1. c.table # Null BY <1>3, PathsAssumption DEF Fits
    <2> QED BY <2>1, <1>1, <1>2, <1>3 DEF Tables
  <1>12. OwnPath(T) BY <1>1, <1>2 DEF OwnPath, Fits
  <1> QED BY <1>4, <1>5, <1>7, <1>8, <1>9, <1>10, <1>11, <1>12 DEF StateInv

\* A runtime session that was just opened has no children and can be closed,
\* which leaves no trace.
LEMMA CloseFreshLemma ==
    ASSUME NEW S, Shape(S), ParentsOpen(S), Cardinality(DOMAIN S.rts) < MaxRTSessions,
           NEW n, NEW p, p = 0 \/ p \in DOMAIN S.rts
    PROVE  LET O == RTOpen(S, n, p)
           IN  RTCloseStatus(O, FreshRT(S)) = "NONE" /\ RTClose(O, FreshRT(S)) = S
  <1> DEFINE r == FreshRT(S)
             O == RTOpen(S, n, p)
  <1>1. r \in 1 .. MaxRTSessions /\ r \notin DOMAIN S.rts BY FreshLemma
  <1>2. /\ O = [S EXCEPT !.rts = O.rts] /\ DOMAIN O.rts = DOMAIN S.rts \cup {r}
        /\ O.rts[r].parent = p /\ \A k \in DOMAIN S.rts : O.rts[k] = S.rts[k]
    BY <1>1 DEF RTOpen, Shape
  <1>3. Children(O, r) = {} BY <1>1, <1>2 DEF Children, ParentsOpen
  <1>4. RTCloseStatus(O, r) = "NONE" BY <1>2, <1>3 DEF RTCloseStatus
  <1>5. RTClose(O, r) = [O EXCEPT !.rts = [k \in DOMAIN O.rts \ {r} |-> O.rts[k]]]
    BY <1>4 DEF RTClose
  <1>6. [k \in DOMAIN O.rts \ {r} |-> O.rts[k]] = S.rts BY <1>1, <1>2 DEF Shape
  <1>7. RTClose(O, r) = S
    <2> DEFINE C == RTClose(O, r)
    <2>1. IsState(S) BY DEF Shape
    <2> HIDE DEF O
    <2>2. IsState(O) /\ O.ctx = S.ctx /\ O.dl = S.dl /\ O.fault = S.fault BY <1>2, <2>1, ExceptRts
    <2>3. C = [O EXCEPT !.rts = S.rts] BY <1>5, <1>6
    <2> HIDE DEF C
    <2>4. IsState(C) /\ C.ctx = O.ctx /\ C.rts = S.rts /\ C.dl = O.dl /\ C.fault = O.fault
      BY <2>2, <2>3, ExceptRts
    <2> QED BY <2>1, <2>2, <2>4, SameState DEF C
  <1> QED BY <1>4, <1>7

LEMMA DlLemma ==
    ASSUME NEW S, Shape(S), NEW n \in Paths \cup {Main}
    PROVE  DlClose(DlOpen(S, n), n) = S
  <1> DEFINE D == DlOpen(S, n)
             C == DlClose(D, n)
  <1>1. IsState(S) /\ S.dl \in [Paths \cup {Main} -> Nat] BY DEF Shape
  <1>2. D = [S EXCEPT !.dl = [S.dl EXCEPT ![n] = S.dl[n] + 1]] BY DEF DlOpen
  <1>3. C = [D EXCEPT !.dl = [D.dl EXCEPT ![n] = D.dl[n] - 1]] BY DEF DlClose
  <1> HIDE DEF D, C
  <1>4. /\ IsState(D) /\ D.dl = [S.dl EXCEPT ![n] = S.dl[n] + 1]
        /\ D.ctx = S.ctx /\ D.rts = S.rts /\ D.fault = S.fault
    BY <1>1, <1>2, ExceptDl
  <1>5. /\ IsState(C) /\ C.dl = [D.dl EXCEPT ![n] = D.dl[n] - 1]
        /\ C.ctx = D.ctx /\ C.rts = D.rts /\ C.fault = D.fault
    BY <1>3, <1>4, ExceptDl
  <1>6. C.dl = S.dl
    <2>1. DOMAIN C.dl = Paths \cup {Main} /\ C.dl = [m \in DOMAIN C.dl |-> C.dl[m]]
      BY <1>1, <1>4, <1>5
    <2>2. \A m \in Paths \cup {Main} : C.dl[m] = S.dl[m]
      BY <1>1, <1>4, <1>5
    <2> QED BY <1>1, <2>1, <2>2
  <1> QED BY <1>1, <1>4, <1>5, <1>6, SameState DEF C, D

LEMMA DlShape ==
    ASSUME NEW S, Shape(S), NEW n \in Paths \cup {Main}
    PROVE  /\ Shape(DlOpen(S, n)) /\ DlOpen(S, n).rts = S.rts
           /\ FreshRT(DlOpen(S, n)) = FreshRT(S)
           /\ ParentsOpen(S) => ParentsOpen(DlOpen(S, n))
  <1> DEFINE D == DlOpen(S, n)
  <1>1. /\ D.ctx = S.ctx /\ D.rts = S.rts /\ D.fault = S.fault
        /\ IsState(D)
        /\ D.dl \in [Paths \cup {Main} -> Nat]
    <2>1. D = [S EXCEPT !.dl = [S.dl EXCEPT ![n] = S.dl[n] + 1]] BY DEF DlOpen
    <2>2. IsState(S) /\ S.dl \in [Paths \cup {Main} -> Nat] BY DEF Shape
    <2> HIDE DEF D
    <2>3. /\ IsState(D) /\ D.ctx = S.ctx /\ D.rts = S.rts /\ D.fault = S.fault
          /\ D.dl = [S.dl EXCEPT ![n] = S.dl[n] + 1]
      BY <2>1, <2>2, ExceptDl
    <2> QED BY <2>2, <2>3
  <1>2. Shape(D) BY <1>1 DEF Shape
  <1>3. FreshRT(D) = FreshRT(S) BY <1>1 DEF FreshRT
  <1>4. ParentsOpen(S) => ParentsOpen(D) BY <1>1 DEF ParentsOpen
  <1> QED BY <1>1, <1>2, <1>3, <1>4

\* What is known after a number of attempts: all failed and left S as it was,
\* or one made a session.
Tried(S, acc) ==
    \/ acc.sts # "NONE" /\ acc.S = S
    \/ /\ acc.sts = "NONE"
       /\ acc.ctx \in Ctxs /\ acc.ctx.rt = FreshRT(S)
       /\ acc.ctx.table = acc.ctx.lib /\ acc.ctx.table2 \in {Null, acc.ctx.lib}
       /\ acc.ctx.path = Main
       /\ acc.S = RTOpen(DlOpen(S, acc.ctx.lib), acc.ctx.lib, 0)

\* The states in which a runtime session is opened.
CanOpen(S) == Shape(S) /\ ParentsOpen(S) /\ Cardinality(DOMAIN S.rts) < MaxRTSessions

LEMMA AttemptLemma ==
    ASSUME NEW S, CanOpen(S), NEW n \in Paths, NEW ver, NEW fail
    PROVE  /\ Tried(S, Attempt(S, n, ver, fail))
           /\ Attempt(S, n, ver, fail).sts = "NONE" => Attempt(S, n, ver, fail).ctx.lib = n
  <1> DEFINE D == DlOpen(S, n)
             O == RTOpen(D, n, 0)
             r == FreshRT(S)
             A == Attempt(S, n, ver, fail)
  <1>1. Shape(D) /\ ParentsOpen(D) /\ Cardinality(DOMAIN D.rts) < MaxRTSessions /\ FreshRT(D) = r
    BY DlShape DEF CanOpen
  <1>2. DlClose(D, n) = S BY DlLemma DEF CanOpen
  <1>3. RTClose(O, r) = D BY <1>1, CloseFreshLemma
  <1>4. r \in Nat BY FreshLemma DEF CanOpen
  <1>5. CASE Lacks(n, ver) \/ fail = "MFXInitialize" \/ fail = "MFXQueryVersion" \/ ApiOf(n, ver) < ver
    <2>1. A.sts # "NONE" /\ A.S = S
      BY <1>2, <1>3, <1>5 DEF Attempt, Failed
    <2> QED BY <2>1 DEF Tried
  <1>6. CASE ~(Lacks(n, ver) \/ fail = "MFXInitialize" \/ fail = "MFXQueryVersion" \/ ApiOf(n, ver) < ver)
    <2>1. A = [S |-> O, sts |-> "NONE", ctx |-> CtxOf(n, ver, r)]
      BY <1>6 DEF Attempt
    <2>2. ApiOf(n, ver) \in Nat /\ RT[n].impl \in {"HW", "SW"}
      BY PathsAssumption DEF ApiOf
    <2>3. /\ CtxOf(n, ver, r) \in Ctxs /\ CtxOf(n, ver, r).rt = r /\ CtxOf(n, ver, r).lib = n
          /\ CtxOf(n, ver, r).table = n /\ CtxOf(n, ver, r).table2 \in {Null, n}
          /\ CtxOf(n, ver, r).path = Main
      BY <1>4, <2>2 DEF CtxOf, NewCtx, Ctxs
    <2> HIDE DEF A, O
    <2>4. A.S = O /\ A.sts = "NONE" /\ A.ctx = CtxOf(n, ver, r) BY <2>1
    <2>5. A.ctx.lib = n /\ A.sts = "NONE" BY <2>3, <2>4
    <2>6. Tried(S, A) BY <2>3, <2>4 DEF Tried, O
    <2> QED BY <2>5, <2>6 DEF A
  <1> QED BY <1>5, <1>6

LEMMA TryLemma ==
    ASSUME NEW S, CanOpen(S), NEW acc, Tried(S, acc), NEW n, NEW ver, NEW fail
    PROVE  Tried(S, Try(acc, n, ver, fail))
  <1>1. CASE acc.sts = "NONE" \/ n \notin Paths BY <1>1 DEF Try
  <1>2. CASE ~(acc.sts = "NONE" \/ n \notin Paths)
    <2>1. acc.S = S /\ n \in Paths BY <1>2 DEF Tried
    <2>2. Try(acc, n, ver, fail) = Attempt(S, n, ver, fail[n]) BY <1>2, <2>1 DEF Try
    <2> QED BY <2>1, <2>2, AttemptLemma
  <1> QED BY <1>1, <1>2

LEMMA LoaderInitLemma ==
    ASSUME NEW S, CanOpen(S), NEW impl, NEW ver, NEW fail
    PROVE  Tried(S, LoaderInit(S, impl, ver, fail))
  <1> DEFINE Both(acc, n, m) == Try(Try(acc, n, ver, fail), m, ver, fail)
             none == Failed(S, "UNSUPPORTED")
             gen == IF impl \in {"HW", "AUTO"} /\ ~KnownPlatform
                    THEN Both(none, "libmfx-gen", "modules/libmfx-gen") ELSE none
             hw == IF impl \in {"HW", "AUTO"}
                   THEN Both(gen, "libmfxhw64", "modules/libmfxhw64") ELSE none
  <1>1. ASSUME NEW acc, Tried(S, acc), NEW n, NEW m PROVE Tried(S, Both(acc, n, m))
    <2>1. Tried(S, Try(acc, n, ver, fail)) BY <1>1, TryLemma
    <2> QED BY <2>1, TryLemma
  <1>2. Tried(S, none) BY DEF Failed, Tried
  <1>3. LoaderInit(S, impl, ver, fail) = IF impl \in {"SW", "AUTO"}
                                         THEN Both(hw, "libvplswref64", "modules/libvplswref64") ELSE hw
    BY DEF LoaderInit
  <1> HIDE DEF none, Both
  <1>4. Tried(S, gen) BY <1>1, <1>2
  <1>5. Tried(S, hw) BY <1>1, <1>2, <1>4
  <1> QED BY <1>1, <1>3, <1>5

-----------------------------------------------------------------------------
(***************************************************************************)
(* Closing and joining                                                     *)
(***************************************************************************)

LEMMA DeleteFields ==
    ASSUME NEW S, IsState(S), NEW h
    PROVE  /\ IsState(DeleteCtx(S, h)) /\ DeleteCtx(S, h).rts = S.rts
           /\ DeleteCtx(S, h).fault = S.fault
           /\ DeleteCtx(S, h).ctx = [k \in DOMAIN S.ctx \ {h} |-> S.ctx[k]]
           /\ DeleteCtx(S, h).dl = [S.dl EXCEPT ![S.ctx[h].lib] = S.dl[S.ctx[h].lib] - 1]
  <1> DEFINE D == DlClose(S, S.ctx[h].lib)
             T == DeleteCtx(S, h)
  <1>1. D = [S EXCEPT !.dl = [S.dl EXCEPT ![S.ctx[h].lib] = S.dl[S.ctx[h].lib] - 1]]
    BY DEF DlClose
  <1>2. T = [D EXCEPT !.ctx = [k \in DOMAIN D.ctx \ {h} |-> D.ctx[k]]] BY DEF DeleteCtx
  <1> HIDE DEF D, T
  <1>3. /\ IsState(D) /\ D.ctx = S.ctx /\ D.rts = S.rts /\ D.fault = S.fault
        /\ D.dl = [S.dl EXCEPT ![S.ctx[h].lib] = S.dl[S.ctx[h].lib] - 1]
    BY <1>1, ExceptDl
  <1>4. IsState(T) /\ T.rts = D.rts /\ T.ctx = [k \in DOMAIN D.ctx \ {h} |-> D.ctx[k]] /\ T.dl = D.dl
        /\ T.fault = D.fault
    BY <1>2, <1>3, ExceptCtx
  <1> QED BY <1>3, <1>4 DEF T

LEMMA DeletedHandles ==
    ASSUME NEW S, Shape(S), Handles(S), NEW h \in DOMAIN S.ctx
    PROVE  Handles(DeleteCtx(S, h)) /\ DeleteCtx(S, h).dl \in [Paths \cup {Main} -> Nat]
  <1> DEFINE T == DeleteCtx(S, h)
             U(X, n) == {k \in DOMAIN X.ctx : X.ctx[k].lib = n}
             l == S.ctx[h].lib
  <1>1. l \in Paths BY DEF Shape, Ctxs
  <1>2. /\ T.dl = [S.dl EXCEPT ![l] = @ - 1] /\ DOMAIN T.ctx = DOMAIN S.ctx \ {h}
        /\ \A k \in DOMAIN S.ctx \ {h} : T.ctx[k] = S.ctx[k]
    <2>1. IsState(S) BY DEF Shape
    <2>2. /\ T.ctx = [k \in DOMAIN S.ctx \ {h} |-> S.ctx[k]]
          /\ T.dl = [S.dl EXCEPT ![l] = S.dl[l] - 1]
      BY <2>1, DeleteFields
    <2> HIDE DEF T
    <2> QED BY <2>2
  <1>3. \A n : IsFiniteSet(U(S, n)) BY CtxFinite DEF Shape
  <1>4. \A n \in Paths \cup {Main} : S.dl[n] = Cardinality(U(S, n)) BY DEF Handles
  <1>5. U(T, l) = U(S, l) \ {h} /\ h \in U(S, l) /\ \A n : n # l => U(T, n) = U(S, n)
    BY <1>2
  <1>6. Cardinality(U(T, l)) = Cardinality(U(S, l)) - 1 /\ Cardinality(U(T, l)) \in Nat
    <2> HIDE DEF U
    <2>1. IsFiniteSet(U(S, l)) BY <1>3
    <2>2. Cardinality(U(S, l) \ {h}) = Cardinality(U(S, l)) - 1 BY <1>5, <2>1, FS_RemoveElement
    <2>3. IsFiniteSet(U(S, l) \ {h}) BY <2>1, FS_RemoveElement
    <2> QED BY <1>5, <2>2, <2>3, FS_CardinalityType
  <1>7. S.dl \in [Paths \cup {Main} -> Nat] BY DEF Shape
  <1>8. T.dl \in [Paths \cup {Main} -> Nat]
    <2> HIDE DEF U, T
    <2> QED BY <1>1, <1>2, <1>4, <1>6, <1>7
  <1>9. \A n \in Paths \cup {Main} : T.dl[n] = Cardinality(U(T, n))
    <2> HIDE DEF U, T
    <2> QED BY <1>1, <1>2, <1>4, <1>5, <1>6, <1>7
  <1> QED BY <1>8, <1>9 DEF Handles

\* A session that is taken away with its LoaderCtx, or the LoaderCtx of one
\* that the runtime closed or never knew.
LEMMA DeletedLemma ==
    ASSUME NEW S, StateInv(S), NEW h \in DOMAIN S.ctx,
           S.ctx[h].rt = 0 \/ RTCloseStatus(S, S.ctx[h].rt) = "NONE"
    PROVE  StateInv(DeleteCtx(RTClose(S, S.ctx[h].rt), h))
  <1> DEFINE r == S.ctx[h].rt
             C == RTClose(S, r)
             T == DeleteCtx(C, h)
  <1>1. Shape(S) /\ Handles(S) /\ Live(S) /\ Owned(S) /\ SameVersion(S) /\ ParentsOpen(S) /\ Tables(S) /\ OwnPath(S)
    BY DEF StateInv
  <1>2. 0 \notin DOMAIN S.rts BY <1>1 DEF Shape
  <1>3. r = 0 => C = S BY <1>2 DEF RTClose, RTCloseStatus
  <1>4. r # 0 => /\ r \in DOMAIN S.rts /\ Children(S, r) = {}
                 /\ C = [S EXCEPT !.rts = [k \in DOMAIN S.rts \ {r} |-> S.rts[k]]]
    BY DEF RTClose, RTCloseStatus
  <1>5. /\ IsState(C)
        /\ C.ctx = S.ctx /\ C.dl = S.dl
        /\ DOMAIN C.rts = DOMAIN S.rts \ {r} /\ \A k \in DOMAIN S.rts \ {r} : C.rts[k] = S.rts[k]
        /\ C.rts \in [DOMAIN C.rts -> RTSessions]
    <2>1. CASE r = 0 BY <2>1, <1>1, <1>2, <1>3 DEF Shape
    <2>2. CASE r # 0
      <3>1. /\ IsState(C) /\ C.ctx = S.ctx /\ C.dl = S.dl
            /\ C.rts = [k \in DOMAIN S.rts \ {r} |-> S.rts[k]]
        BY <2>2, <1>1, <1>4, ExceptRts DEF Shape
      <3> HIDE DEF C
      <3> QED BY <3>1, <1>1 DEF Shape
    <2> QED BY <2>1, <2>2
  <1>6. Shape(C) BY <1>1, <1>5 DEF Shape
  <1>7. Handles(C) BY <1>1, <1>5 DEF Handles
  <1>8. Handles(T) /\ T.dl \in [Paths \cup {Main} -> Nat] BY <1>5, <1>6, <1>7, DeletedHandles
  <1>9. /\ IsState(T) /\ T.rts = C.rts
        /\ DOMAIN T.ctx = DOMAIN S.ctx \ {h} /\ \A k \in DOMAIN T.ctx : T.ctx[k] = S.ctx[k]
        /\ T.ctx \in [DOMAIN T.ctx -> Ctxs]
    <2> HIDE DEF C
    <2>2. IsState(T) /\ T.rts = C.rts /\ T.ctx = [k \in DOMAIN C.ctx \ {h} |-> C.ctx[k]]
      BY <1>5, DeleteFields
    <2> HIDE DEF T
    <2> QED BY <1>1, <1>5, <2>2 DEF Shape
  <1>10. Shape(T) BY <1>1, <1>5, <1>6, <1>8, <1>9 DEF Shape
  <1>11. \A k \in DOMAIN T.ctx : T.ctx[k].rt # 0 => T.ctx[k].rt # r
    BY <1>1, <1>9 DEF Live
  <1> HIDE DEF T, C
  <1>12. Live(T) BY <1>1, <1>5, <1>9, <1>11 DEF Live
  <1>13. Owned(T) BY <1>1, <1>5, <1>9 DEF Owned
  <1>14. ParentsOpen(T) BY <1>1, <1>2, <1>3, <1>4, <1>5, <1>9 DEF ParentsOpen, Children
  <1>15. SameVersion(T)
    <2>1. \A k \in DOMAIN T.ctx : T.ctx[k].rt # 0 => T.rts[T.ctx[k].rt] = S.rts[T.ctx[k].rt]
      BY <1>1, <1>5, <1>9, <1>11 DEF Live
    <2> QED BY <1>1, <1>9, <2>1 DEF SameVersion
  <1>16. Tables(T) BY <1>1, <1>9 DEF Tables
  <1>17. OwnPath(T) BY <1>1, <1>9 DEF OwnPath
  <1> QED BY <1>8, <1>10, <1>12, <1>13, <1>14, <1>15, <1>16, <1>17 DEF StateInv, T, C

LEMMA ForgetFields ==
    ASSUME NEW S, IsState(S), NEW h, S.ctx = [k \in DOMAIN S.ctx |-> S.ctx[k]], h \in DOMAIN S.ctx,
           S.ctx[h] \in Ctxs
    PROVE  /\ IsState(Forget(S, h)) /\ Forget(S, h).rts = S.rts /\ Forget(S, h).dl = S.dl
           /\ Forget(S, h).ctx = [k \in DOMAIN Forget(S, h).ctx |-> Forget(S, h).ctx[k]]
           /\ DOMAIN Forget(S, h).ctx = DOMAIN S.ctx
           /\ \A k \in DOMAIN S.ctx \ {h} : Forget(S, h).ctx[k] = S.ctx[k]
           /\ Forget(S, h).ctx[h] \in Ctxs /\ Forget(S, h).ctx[h].lib = S.ctx[h].lib
           /\ Forget(S, h).ctx[h].path = S.ctx[h].path
           /\ Forget(S, h).ctx[h].rt = 0 /\ Forget(S, h).ctx[h].table = Null
  <1> DEFINE c == [S.ctx[h] EXCEPT !.impl = Null, !.version = 0, !.rt = 0, !.table = Null]
             T == Forget(S, h)
  <1>1. T = [S EXCEPT !.ctx = [S.ctx EXCEPT ![h] = c]] BY DEF Forget
  <1>2. c \in Ctxs /\ c.lib = S.ctx[h].lib /\ c.path = S.ctx[h].path /\ c.rt = 0 /\ c.table = Null
    BY DEF Ctxs
  <1> HIDE DEF c, T
  <1>3. IsState(T) /\ T.rts = S.rts /\ T.dl = S.dl /\ T.ctx = [S.ctx EXCEPT ![h] = c]
    BY <1>1, ExceptCtx
  <1>4. DOMAIN T.ctx = DOMAIN S.ctx /\ T.ctx[h] = c /\ \A k \in DOMAIN S.ctx \ {h} : T.ctx[k] = S.ctx[k]
        /\ T.ctx = [j \in DOMAIN T.ctx |-> T.ctx[j]]
    BY <1>3
  <1> QED BY <1>2, <1>3, <1>4 DEF T

\* A parent session: the runtime keeps it, the LoaderCtx forgets it.
LEMMA RefusedLemma ==
    ASSUME NEW S, StateInv(S), NEW h \in DOMAIN S.ctx,
           RTCloseStatus(S, S.ctx[h].rt) = "UNDEFINED_BEHAVIOR"
    PROVE  StateInv(Forget(RTClose(S, S.ctx[h].rt), h))
  <1> DEFINE r == S.ctx[h].rt
             C == RTClose(S, r)
             q == [S.rts[r] EXCEPT !.refused = TRUE]
             T == Forget(C, h)
  <1>1. Shape(S) /\ Handles(S) /\ Live(S) /\ Owned(S) /\ SameVersion(S) /\ ParentsOpen(S) /\ Tables(S) /\ OwnPath(S)
    BY DEF StateInv
  <1>2. r \in DOMAIN S.rts /\ C = [S EXCEPT !.rts = [S.rts EXCEPT ![r] = q]]
    BY DEF RTClose, RTCloseStatus
  <1>3. S.rts[r] \in RTSessions /\ S.ctx[h] \in Ctxs BY <1>1, <1>2 DEF Shape
  <1>4. q \in RTSessions /\ q.lib = S.rts[r].lib /\ q.parent = S.rts[r].parent /\ q.refused
    BY <1>3 DEF RTSessions
  <1> HIDE DEF q, C, T
  <1>5. IsState(C) /\ C.ctx = S.ctx /\ C.dl = S.dl /\ C.rts = [S.rts EXCEPT ![r] = q]
    BY <1>1, <1>2, ExceptRts DEF Shape
  <1>6. /\ IsState(T) /\ T.rts = C.rts /\ T.dl = C.dl
        /\ DOMAIN T.ctx = DOMAIN S.ctx /\ \A k \in DOMAIN S.ctx \ {h} : T.ctx[k] = S.ctx[k]
        /\ T.ctx[h] \in Ctxs /\ T.ctx[h].lib = S.ctx[h].lib /\ T.ctx[h].path = S.ctx[h].path
        /\ T.ctx[h].rt = 0 /\ T.ctx[h].table = Null
        /\ T.ctx = [k \in DOMAIN T.ctx |-> T.ctx[k]]
    BY <1>1, <1>3, <1>5, ForgetFields DEF T, Shape
  <1>7. /\ DOMAIN T.rts = DOMAIN S.rts /\ T.rts[r] = q
        /\ \A k \in DOMAIN S.rts \ {r} : T.rts[k] = S.rts[k]
    BY <1>1, <1>2, <1>5, <1>6 DEF Shape
  <1>8. Shape(T)
    <2>1. T.ctx \in [DOMAIN T.ctx -> Ctxs] BY <1>1, <1>6 DEF Shape
    <2>2. T.rts \in [DOMAIN T.rts -> RTSessions] BY <1>1, <1>2, <1>4, <1>5, <1>6 DEF Shape
    <2> QED BY <1>1, <1>5, <1>6, <1>7, <2>1, <2>2 DEF Shape
  <1>9. Handles(T)
    <2>1. \A n : {k \in DOMAIN T.ctx : T.ctx[k].lib = n} = {k \in DOMAIN S.ctx : S.ctx[k].lib = n}
      BY <1>6
    <2> QED BY <1>1, <1>5, <1>6, <2>1 DEF Handles
  <1>10. Live(T)
    <2>1. \A k \in DOMAIN T.ctx : T.ctx[k].rt # 0 => k # h /\ T.ctx[k] = S.ctx[k] BY <1>6
    <2> QED BY <1>1, <1>4, <1>6, <1>7, <2>1 DEF Live
  <1>11. Owned(T) BY <1>1, <1>4, <1>6, <1>7 DEF Owned
  <1>12. SameVersion(T)
    <2>1. \A k \in DOMAIN T.ctx : T.ctx[k].rt # 0 =>
             T.ctx[k] = S.ctx[k] /\ T.rts[S.ctx[k].rt].parent = S.rts[S.ctx[k].rt].parent
      BY <1>1, <1>4, <1>6, <1>7 DEF Live
    <2> QED BY <1>1, <1>6, <2>1 DEF SameVersion
  <1>13. ParentsOpen(T) BY <1>1, <1>4, <1>7 DEF ParentsOpen
  <1>14. Tables(T) BY <1>1, <1>6 DEF Tables
  <1>15. OwnPath(T) BY <1>1, <1>6 DEF OwnPath
  <1> QED BY <1>8, <1>9, <1>10, <1>11, <1>12, <1>13, <1>14, <1>15 DEF StateInv, T, C

LEMMA CloseLemma ==
    ASSUME NEW S, StateInv(S), NEW h \in DOMAIN S.ctx
    PROVE  StateInv(CloseSession(S, h))
  <1> DEFINE r == S.ctx[h].rt
  <1>1. Shape(S) /\ Live(S) /\ Tables(S) BY DEF StateInv
  <1>2. CASE S.ctx[h].table = Null
    <2>1. r = 0 /\ 0 \notin DOMAIN S.rts BY <1>1, <1>2 DEF Tables, Shape
    <2>2. RTClose(S, r) = S BY <2>1 DEF RTClose, RTCloseStatus
    <2>3. CloseSession(S, h) = DeleteCtx(RTClose(S, r), h)
      BY <1>2, <2>2 DEF CloseSession, CloseStatus
    <2> QED BY <2>1, <2>3, DeletedLemma
  <1>3. CASE S.ctx[h].table # Null
    <2>1. r \in DOMAIN S.rts BY <1>1, <1>3 DEF Tables, Live
    <2>2. CASE RTCloseStatus(S, r) = "UNDEFINED_BEHAVIOR"
      BY <1>3, <2>2, RefusedLemma DEF CloseSession, CloseStatus
    <2>3. CASE RTCloseStatus(S, r) # "UNDEFINED_BEHAVIOR"
      <3>1. RTCloseStatus(S, r) = "NONE" BY <2>1, <2>3 DEF RTCloseStatus
      <3>2. CloseSession(S, h) = DeleteCtx(RTClose(S, r), h)
        BY <1>3, <2>3 DEF CloseSession, CloseStatus
      <3> QED BY <3>1, <3>2, DeletedLemma
    <2> QED BY <2>2, <2>3
  <1> QED BY <1>2, <1>3

\* The parent of r becomes q; the LoaderCtx objects that own the two, if any,
\* have the same version.
LEMMA ParentLemma ==
    ASSUME NEW S, StateInv(S), NEW r \in DOMAIN S.rts, NEW q, q = 0 \/ q \in DOMAIN S.rts,
           \A h, k \in DOMAIN S.ctx : q # 0 /\ S.ctx[h].rt = q /\ S.ctx[k].rt = r
                                         => S.ctx[h].version = S.ctx[k].version
    PROVE  StateInv([S EXCEPT !.rts[r].parent = q])
  <1> DEFINE T == [S EXCEPT !.rts[r].parent = q]
  <1>1. Shape(S) /\ Handles(S) /\ Live(S) /\ Owned(S) /\ SameVersion(S) /\ ParentsOpen(S) /\ Tables(S) /\ OwnPath(S)
    BY DEF StateInv
  <1>2. /\ IsState(T) /\ T.ctx = S.ctx /\ T.dl = S.dl
        /\ T.rts = [S.rts EXCEPT ![r].parent = q]
    <2>1. T = [S EXCEPT !.rts = [S.rts EXCEPT ![r].parent = q]] OBVIOUS
    <2> HIDE DEF T
    <2> QED BY <2>1, <1>1, ExceptRts DEF Shape
  <1>3. q \in Nat /\ S.rts[r] \in RTSessions BY <1>1 DEF Shape
  <1>4. /\ DOMAIN T.rts = DOMAIN S.rts /\ \A k \in DOMAIN S.rts \ {r} : T.rts[k] = S.rts[k]
        /\ T.rts[r].lib = S.rts[r].lib /\ T.rts[r].refused = S.rts[r].refused
        /\ T.rts[r].parent = q /\ T.rts[r] \in RTSessions
    BY <1>1, <1>2, <1>3 DEF Shape, RTSessions
  <1> HIDE DEF T
  <1>5. Shape(T) BY <1>1, <1>2, <1>4 DEF Shape
  <1>6. Handles(T) BY <1>1, <1>2 DEF Handles
  <1>7. Live(T) BY <1>1, <1>2, <1>4 DEF Live
  <1>8. Owned(T) BY <1>1, <1>2, <1>4 DEF Owned
  <1>9. SameVersion(T)
    <2> SUFFICES ASSUME NEW h \in DOMAIN T.ctx, NEW k \in DOMAIN T.ctx, T.ctx[h].rt # 0,
                        T.ctx[k].rt # 0, T.rts[T.ctx[k].rt].parent = T.ctx[h].rt
                 PROVE  T.ctx[h].version = T.ctx[k].version
      BY DEF SameVersion
    <2>1. CASE S.ctx[k].rt = r BY <2>1, <1>2, <1>4
    <2>2. CASE S.ctx[k].rt # r
      <3>1. S.ctx[k].rt \in DOMAIN S.rts \ {r} BY <2>2, <1>1, <1>2 DEF Live
      <3> QED BY <3>1, <1>1, <1>2, <1>4 DEF SameVersion
    <2> QED BY <2>1, <2>2
  <1>10. ParentsOpen(T) BY <1>1, <1>4 DEF ParentsOpen
  <1>11. Tables(T) BY <1>1, <1>2 DEF Tables
  <1>12. OwnPath(T) BY <1>1, <1>2 DEF OwnPath
  <1> QED BY <1>5, <1>6, <1>7, <1>8, <1>9, <1>10, <1>11, <1>12 DEF StateInv, T

LEMMA JoinLemma ==
    ASSUME NEW S, StateInv(S), NEW p \in DOMAIN S.ctx, NEW c \in DOMAIN S.ctx
    PROVE  StateInv(JoinSession(S, p, c))
  <1>1. CASE JoinStatus(S, p, c) # "NONE" BY <1>1 DEF JoinSession
  <1>2. CASE JoinStatus(S, p, c) = "NONE"
    <2> DEFINE q == S.ctx[p].rt
               r == S.ctx[c].rt
    <2>1. /\ S.ctx[p].version = S.ctx[c].version
          /\ q \in DOMAIN S.rts /\ r \in DOMAIN S.rts
      BY <1>2 DEF JoinStatus, RTJoinStatus
    <2>2. q # 0 /\ r # 0 BY <2>1 DEF StateInv, Shape
    <2>3. \A h, k \in DOMAIN S.ctx : S.ctx[h].rt = q /\ S.ctx[k].rt = r => h = p /\ k = c
      BY <2>2 DEF StateInv, Live
    <2> QED BY <1>2, <2>1, <2>3, ParentLemma DEF JoinSession
  <1> QED BY <1>1, <1>2

-----------------------------------------------------------------------------
(***************************************************************************)
(* Whole calls                                                             *)
(***************************************************************************)

\* A new LoaderCtx for a session that was just opened.
LEMMA AddLemma ==
    ASSUME NEW S, CanOpen(S), NEW h, NEW c, c.lib \in Paths, c.rt = FreshRT(S),
           NEW n, n = c.lib, NEW p
    PROVE  Opens(S, AddCtx(RTOpen(DlOpen(S, n), n, p), h, c), h, c, FreshRT(S), p)
  <1> DEFINE D == DlOpen(S, n)
             r == FreshRT(S)
             O == RTOpen(D, n, p)
             T == AddCtx(O, h, c)
             e == [S.dl EXCEPT ![n] = S.dl[n] + 1]
             R == [k \in DOMAIN S.rts \cup {r} |->
                     IF k \in DOMAIN S.rts THEN S.rts[k] ELSE [lib |-> n, parent |-> p, refused |-> FALSE]]
             X == [k \in DOMAIN S.ctx \cup {h} |-> IF k = h THEN c ELSE S.ctx[k]]
  <1>1. D = [S EXCEPT !.dl = e] BY DEF DlOpen
  <1>2. FreshRT(D) = r /\ IsState(S) BY DlShape DEF CanOpen, Shape
  <1> HIDE DEF D
  <1>3. IsState(D) /\ D.ctx = S.ctx /\ D.rts = S.rts /\ D.dl = e /\ D.fault = S.fault
    BY <1>1, <1>2, ExceptDl
  <1>4. O = [D EXCEPT !.rts = R] BY <1>2, <1>3 DEF RTOpen
  <1> HIDE DEF O, R
  <1>5. IsState(O) /\ O.ctx = S.ctx /\ O.rts = R /\ O.dl = e /\ O.fault = S.fault
    BY <1>3, <1>4, ExceptRts
  <1>6. T = [O EXCEPT !.ctx = X] BY <1>5 DEF AddCtx
  <1> HIDE DEF T, X
  <1>7. IsState(T) /\ T.ctx = X /\ T.rts = R /\ T.dl = e /\ T.fault = S.fault
    BY <1>5, <1>6, ExceptCtx
  <1>8. Opens(S, T, h, c, r, p) BY <1>7 DEF Opens, X, R
  <1> QED BY <1>8 DEF T, O, D

\* Closing a session that was just opened leaves no trace.
LEMMA UndoLemma ==
    ASSUME NEW S, Shape(S), ParentsOpen(S), NEW A, NEW h, h \notin DOMAIN S.ctx,
           NEW c, c.lib \in Paths, c.table = c.lib, NEW r, r \in Nat \ {0}, r \notin DOMAIN S.rts,
           c.rt = r, NEW p, p = 0 \/ p \in DOMAIN S.rts, Opens(S, A, h, c, r, p)
    PROVE  CloseSession(A, h) = S
  <1> DEFINE C == RTClose(A, r)
             T == DeleteCtx(C, h)
  <1>1. /\ IsState(A) /\ A.fault = S.fault /\ A.dl = [S.dl EXCEPT ![c.lib] = S.dl[c.lib] + 1]
        /\ DOMAIN A.ctx = DOMAIN S.ctx \cup {h} /\ A.ctx[h] = c
        /\ \A k \in DOMAIN S.ctx : A.ctx[k] = S.ctx[k]
        /\ DOMAIN A.rts = DOMAIN S.rts \cup {r} /\ A.rts[r].parent = p
        /\ \A k \in DOMAIN S.rts : A.rts[k] = S.rts[k]
    BY DEF Opens
  <1>2. Children(A, r) = {} BY <1>1 DEF Children, ParentsOpen
  <1>3. RTCloseStatus(A, r) = "NONE" BY <1>1, <1>2 DEF RTCloseStatus
  <1>4. CloseSession(A, h) = T
    <2>1. c.table # Null BY PathsAssumption
    <2> QED BY <1>1, <1>3, <2>1 DEF CloseSession, CloseStatus
  <1>5. C = [A EXCEPT !.rts = [k \in DOMAIN A.rts \ {r} |-> A.rts[k]]] BY <1>3 DEF RTClose
  <1>6. [k \in DOMAIN A.rts \ {r} |-> A.rts[k]] = S.rts BY <1>1 DEF Shape
  <1> HIDE DEF C
  <1>7. IsState(C) /\ C.ctx = A.ctx /\ C.rts = S.rts /\ C.dl = A.dl /\ C.fault = S.fault
    BY <1>1, <1>5, <1>6, ExceptRts
  <1>8. /\ IsState(T) /\ T.rts = C.rts /\ T.fault = C.fault
        /\ T.ctx = [k \in DOMAIN C.ctx \ {h} |-> C.ctx[k]]
        /\ T.dl = [C.dl EXCEPT ![C.ctx[h].lib] = C.dl[C.ctx[h].lib] - 1]
    BY <1>7, DeleteFields
  <1> HIDE DEF T
  <1>9. T.ctx = S.ctx BY <1>1, <1>7, <1>8 DEF Shape
  <1>10. T.dl = S.dl
    <2>1. S.dl \in [Paths \cup {Main} -> Nat] BY DEF Shape
    <2>2. DOMAIN T.dl = Paths \cup {Main} /\ T.dl = [m \in DOMAIN T.dl |-> T.dl[m]]
      BY <1>1, <1>7, <1>8, <2>1
    <2>3. \A m \in Paths \cup {Main} : T.dl[m] = S.dl[m] BY <1>1, <1>7, <1>8, <2>1
    <2> QED BY <2>1, <2>2, <2>3
  <1> QED BY <1>4, <1>7, <1>8, <1>9, <1>10, SameState DEF Shape

\* In a state of the specification, with room for a session in the runtimes.
LEMMA RoomLemma ==
    ASSUME StateInv(s), RoomForRT
    PROVE  CanOpen(s) /\ FreshRT(s) \in 1 .. MaxRTSessions /\ FreshRT(s) \notin DOMAIN s.rts
  BY FreshLemma DEF StateInv, CanOpen, RoomForRT

\* A LoaderCtx that LoaderCtx::Init made becomes session h; path is what
\* MFXInitEx2 adds to it.
LEMMA AddTriedLemma ==
    ASSUME StateInv(s), RoomForRT, NEW h \in FreeCtx, NEW I, Tried(s, I), I.sts = "NONE",
           NEW c \in Ctxs, c.rt = I.ctx.rt, c.lib = I.ctx.lib, c.table = I.ctx.table,
           c.table2 = I.ctx.table2, c.path \in {Main, c.lib}
    PROVE  /\ StateInv(AddCtx(I.S, h, c)) /\ h \in DOMAIN AddCtx(I.S, h, c).ctx
           /\ Opens(s, AddCtx(I.S, h, c), h, c, FreshRT(s), 0)
           /\ \A k \in DOMAIN s.ctx : k \in DOMAIN AddCtx(I.S, h, c).ctx
  <1> DEFINE A == AddCtx(I.S, h, c)
             r == FreshRT(s)
  <1>1. CanOpen(s) /\ r \in 1 .. MaxRTSessions /\ r \notin DOMAIN s.rts BY RoomLemma
  <1>2. h \in Sessions \ DOMAIN s.ctx BY DEF FreeCtx
  <1>3. /\ c.rt = r /\ c.lib \in Paths /\ c.table = c.lib /\ c.table2 \in {Null, c.lib}
        /\ I.S = RTOpen(DlOpen(s, c.lib), c.lib, 0)
    BY DEF Tried, Ctxs
  <1>4. Opens(s, A, h, c, r, 0) BY <1>1, <1>3, AddLemma
  <1>5. Fits(s, h, c, r, 0) BY <1>1, <1>2, <1>3 DEF Fits
  <1>6. StateInv(A) BY <1>4, <1>5, OpensLemma
  <1>7. DOMAIN A.ctx = DOMAIN s.ctx \cup {h} BY <1>4 DEF Opens
  <1> QED BY <1>4, <1>6, <1>7

\* What AllOrNothing asks of a call, and the invariant after it.
Whole == StateInv(s') /\ (ret'.new = 0 /\ ~s'.fault => s' = s)

LEMMA InitExLemma ==
    ASSUME StateInv(s), NEW impl, NEW ver, MFXInitEx(impl, ver)
    PROVE  Whole
  <1>1. PICK h \in FreeCtx, fail \in Fails :
            /\ s' = IF LoaderInit(s, impl, ver, fail).sts = "NONE"
                    THEN AddCtx(LoaderInit(s, impl, ver, fail).S, h, LoaderInit(s, impl, ver, fail).ctx)
                    ELSE LoaderInit(s, impl, ver, fail).S
            /\ Return("MFXInitEx", LoaderInit(s, impl, ver, fail).sts, 0,
                      IF LoaderInit(s, impl, ver, fail).sts = "NONE" THEN h ELSE 0)
    BY DEF MFXInitEx
  <1> DEFINE I == LoaderInit(s, impl, ver, fail)
  <1>2. RoomForRT /\ Tried(s, I) BY LoaderInitLemma, RoomLemma DEF MFXInitEx
  <1> HIDE DEF I
  <1>3. CASE I.sts = "NONE"
    <2>1. s' = AddCtx(I.S, h, I.ctx) /\ ret'.new = h BY <1>1, <1>3 DEF I, Return
    <2>2. I.ctx \in Ctxs /\ I.ctx.path = Main BY <1>2, <1>3 DEF Tried
    <2>3. StateInv(s') BY <1>2, <1>3, <2>1, <2>2, AddTriedLemma
    <2>4. h # 0 BY DEF FreeCtx, Sessions
    <2> QED BY <2>1, <2>3, <2>4 DEF Whole
  <1>4. CASE I.sts # "NONE"
    <2>1. s' = s BY <1>1, <1>2, <1>4 DEF I, Tried
    <2> QED BY <2>1 DEF Whole
  <1> QED BY <1>3, <1>4

LEMMA CreateSessionLemma ==
    ASSUME StateInv(s), NEW n \in Paths, NEW ver, NEW handleFails, CreateSession(n, ver, handleFails)
    PROVE  Whole
  <1> DEFINE J(fail) == Try(Failed(s, "UNSUPPORTED"), n, ver, [m \in Paths |-> fail])
  <1>1. PICK h \in FreeCtx, fail \in {"none", "MFXInitialize", "MFXQueryVersion"} :
            /\ s' = IF J(fail).sts = "NONE" THEN AddCtx(J(fail).S, h, [J(fail).ctx EXCEPT !.path = n])
                    ELSE J(fail).S
            /\ Return("CreateSession",
                      IF J(fail).sts = "NONE" /\ handleFails THEN "DEVICE_FAILED" ELSE J(fail).sts,
                      0, IF J(fail).sts = "NONE" THEN h ELSE 0)
    BY DEF CreateSession
  <1> DEFINE I == J(fail)
  <1>2. RoomForRT /\ CanOpen(s) BY RoomLemma DEF CreateSession
  <1>3. Tried(s, Failed(s, "UNSUPPORTED")) BY DEF Failed, Tried
  <1>4. Tried(s, I) BY <1>2, <1>3, TryLemma
  <1>5. I.sts = "NONE" => I.ctx.lib = n
    <2>1. I = Attempt(s, n, ver, fail) BY DEF Try, Failed
    <2> QED BY <1>2, <2>1, AttemptLemma
  <1> HIDE DEF J
  <1>6. CASE I.sts = "NONE"
    <2> DEFINE c == [I.ctx EXCEPT !.path = n]
    <2>1. s' = AddCtx(I.S, h, c) /\ ret'.new = h BY <1>1, <1>6 DEF Return
    <2>2. /\ c \in Ctxs /\ c.path = n /\ c.rt = I.ctx.rt /\ c.lib = I.ctx.lib
          /\ c.table = I.ctx.table /\ c.table2 = I.ctx.table2
      BY <1>4, <1>6 DEF Tried, Ctxs
    <2> HIDE DEF c
    <2>3. StateInv(s') BY <1>2, <1>4, <1>5, <1>6, <2>1, <2>2, AddTriedLemma
    <2>4. h # 0 BY DEF FreeCtx, Sessions
    <2> QED BY <2>1, <2>3, <2>4 DEF Whole
  <1>7. CASE I.sts # "NONE"
    <2>1. s' = s BY <1>1, <1>4, <1>7 DEF Tried
    <2> QED BY <2>1 DEF Whole
  <1> QED BY <1>6, <1>7

LEMMA CloneLegacyLemma ==
    ASSUME StateInv(s), RoomForRT, NEW h \in DOMAIN s.ctx, NEW k \in FreeCtx, NEW fail
    PROVE  LET C == CloneLegacy(s, h, k, fail)
           IN  StateInv(C.S) /\ (C.sts # "NONE" => C.S = s)
  <1> DEFINE C == CloneLegacy(s, h, k, fail)
             I == LoaderInit(s, s.ctx[h].impl, s.ctx[h].version, fail)
             A == AddCtx(I.S, k, I.ctx)
             r == FreshRT(s)
  <1>1. CanOpen(s) /\ r \in 1 .. MaxRTSessions /\ r \notin DOMAIN s.rts BY RoomLemma
  <1>2. Tried(s, I) BY <1>1, LoaderInitLemma
  <1>3. C = IF I.sts # "NONE" THEN [S |-> I.S, sts |-> I.sts]
            ELSE IF JoinStatus(A, h, k) = "NONE"
            THEN [S |-> JoinSession(A, h, k), sts |-> "NONE"]
            ELSE [S |-> CloseSession(A, k), sts |-> JoinStatus(A, h, k)]
    BY DEF CloneLegacy
  <1> HIDE DEF C, I
  <1>4. CASE I.sts # "NONE"
    <2>1. C.S = s BY <1>2, <1>3, <1>4 DEF Tried
    <2> QED BY <2>1 DEF C
  <1>5. CASE I.sts = "NONE"
    <2>1. /\ I.ctx \in Ctxs /\ I.ctx.path = Main /\ I.ctx.rt = r /\ I.ctx.table = I.ctx.lib
          /\ I.ctx.lib \in Paths
      BY <1>2, <1>5 DEF Tried, Ctxs
    <2>2. StateInv(A) /\ Opens(s, A, k, I.ctx, r, 0) /\ h \in DOMAIN A.ctx /\ k \in DOMAIN A.ctx
      BY <1>2, <1>5, <2>1, AddTriedLemma
    <2> HIDE DEF A
    <2>3. CASE JoinStatus(A, h, k) = "NONE"
      <3>1. C.S = JoinSession(A, h, k) /\ C.sts = "NONE" BY <1>3, <1>5, <2>3
      <3>2. StateInv(JoinSession(A, h, k)) BY <2>2, JoinLemma
      <3> QED BY <3>1, <3>2 DEF C
    <2>4. CASE JoinStatus(A, h, k) # "NONE"
      <3>1. C.S = CloseSession(A, k) BY <1>3, <1>5, <2>4
      <3>2. k \notin DOMAIN s.ctx BY DEF FreeCtx
      <3>3. Shape(s) /\ ParentsOpen(s) BY DEF StateInv
      <3>4. CloseSession(A, k) = s BY <1>1, <2>1, <2>2, <3>2, <3>3, UndoLemma
      <3> QED BY <3>1, <3>4 DEF C
    <2> QED BY <2>3, <2>4
  <1> QED BY <1>4, <1>5

\* The mark of a fault is no part of the invariant.
LEMMA FaultLemma ==
    ASSUME NEW S, StateInv(S)
    PROVE  StateInv([S EXCEPT !.fault = TRUE]) /\ [S EXCEPT !.fault = TRUE].fault
  <1> DEFINE F == [S EXCEPT !.fault = TRUE]
  <1>1. IsState(S) BY DEF StateInv, Shape
  <1>2. IsState(F) /\ F.ctx = S.ctx /\ F.rts = S.rts /\ F.dl = S.dl /\ F.fault
    BY <1>1 DEF IsState, Fields
  <1> HIDE DEF F
  <1>3. Shape(F) BY <1>2 DEF StateInv, Shape
  <1>4. Handles(F) BY <1>2 DEF StateInv, Handles
  <1>5. Live(F) BY <1>2 DEF StateInv, Live
  <1>6. Owned(F) BY <1>2 DEF StateInv, Owned
  <1>7. SameVersion(F) BY <1>2 DEF StateInv, SameVersion
  <1>8. ParentsOpen(F) BY <1>2 DEF StateInv, ParentsOpen
  <1>9. Tables(F) /\ OwnPath(F) BY <1>2 DEF StateInv, Tables, OwnPath
  <1> QED BY <1>2, <1>3, <1>4, <1>5, <1>6, <1>7, <1>8, <1>9 DEF StateInv, F

\* The version of a new LoaderCtx is set after it is added.
LEMMA VersionLemma ==
    ASSUME NEW S, NEW A, NEW k, NEW c \in Ctxs, NEW r, NEW p, NEW v \in Nat, k \notin DOMAIN S.ctx,
           Opens(S, A, k, c, r, p)
    PROVE  LET d == [c EXCEPT !.version = v]
           IN  /\ Opens(S, [A EXCEPT !.ctx[k].version = v], k, d, r, p)
               /\ d \in Ctxs /\ d.version = v /\ d.rt = c.rt /\ d.lib = c.lib /\ d.path = c.path
               /\ d.table = c.table /\ d.table2 = c.table2
  <1> DEFINE d == [c EXCEPT !.version = v]
             B == [A EXCEPT !.ctx[k].version = v]
             X == [A.ctx EXCEPT ![k].version = v]
  <1>1. /\ d \in Ctxs /\ d.version = v /\ d.rt = c.rt /\ d.lib = c.lib /\ d.path = c.path
        /\ d.table = c.table /\ d.table2 = c.table2
    BY DEF Ctxs
  <1>2. IsState(A) /\ A.ctx = [i \in DOMAIN S.ctx \cup {k} |-> IF i = k THEN c ELSE S.ctx[i]]
    BY DEF Opens
  <1>3. X = [i \in DOMAIN S.ctx \cup {k} |-> IF i = k THEN d ELSE S.ctx[i]]
    BY <1>2
  <1>4. B = [A EXCEPT !.ctx = X] OBVIOUS
  <1> HIDE DEF B, X, d
  <1>5. IsState(B) /\ B.ctx = X /\ B.rts = A.rts /\ B.dl = A.dl /\ B.fault = A.fault
    BY <1>2, <1>4, ExceptCtx
  <1>6. Opens(S, B, k, d, r, p)
    BY <1>1, <1>3, <1>5 DEF Opens
  <1> QED BY <1>1, <1>6 DEF B, d

\* A clone of a session of a 2.x runtime: closing the one whose version cannot
\* be asked leaves no trace, and a fault leaves only its mark.
LEMMA ClonePassthroughLemma ==
    ASSUME StateInv(s), RoomForRT, NEW h \in DOMAIN s.ctx, NEW k \in FreeCtx, NEW fail,
           NEW parent \in BOOLEAN
    PROVE  LET C == ClonePassthrough(s, h, k, fail, parent)
           IN  StateInv(C.S) /\ (C.sts # "NONE" /\ ~C.S.fault => C.S = s)
  <1> DEFINE C == ClonePassthrough(s, h, k, fail, parent)
             A == Cloned(s, h, k, parent)
             n == s.ctx[h].path
             r == FreshRT(s)
             p == IF parent THEN s.ctx[h].rt ELSE 0
             c == CloneCtx(s, h, r)
             v == s.ctx[h].version
             exported == RT[s.ctx[h].lib].clone
             O == DlOpen(s, n)
             F == [s EXCEPT !.fault = TRUE]
             B == [A EXCEPT !.ctx[k].version = v]
  <1>1. CanOpen(s) /\ r \in 1 .. MaxRTSessions /\ r \notin DOMAIN s.rts BY RoomLemma
  <1>2. /\ Shape(s) /\ Live(s) /\ ParentsOpen(s) /\ OwnPath(s)
        /\ k \in Sessions /\ k \notin DOMAIN s.ctx
    BY DEF StateInv, FreeCtx
  <1>3. /\ n \in Paths \cup {Main} /\ n \in {Main, s.ctx[h].lib} /\ v \in Nat
        /\ s.ctx[h].rt \in Nat
    BY <1>2 DEF Shape, OwnPath, Ctxs
  <1>4. FreshRT(O) = r BY <1>2, <1>3, DlShape
  <1>5. /\ c.lib = n /\ c.path = n /\ c.rt = r /\ c.table = n /\ c.table2 = Null
        /\ n # Main => c \in Ctxs
    <2>1. n # Main => n \in Paths BY <1>3
    <2>2. c = [NewCtx EXCEPT !.lib = n, !.path = n, !.rt = r, !.table = n] BY DEF CloneCtx
    <2> HIDE DEF n, c, r
    <2>3. r \in Nat BY <1>1, LimitsAssumption
    <2>4. c.lib = n BY <2>2 DEF NewCtx
    <2>5. c.path = n BY <2>2 DEF NewCtx
    <2>6. c.rt = r BY <2>2 DEF NewCtx
    <2>7. c.table = n /\ c.table2 = Null BY <2>2 DEF NewCtx
    <2>8. n # Main => c \in Ctxs BY <2>1, <2>2, <2>3 DEF NewCtx, Ctxs
    <2> QED BY <2>4, <2>5, <2>6, <2>7, <2>8
  <1>6. A = AddCtx(RTOpen(O, s.ctx[h].lib, p), k, c) BY <1>4 DEF Cloned
  <1>7. A.ctx[k].table = n
    <2>1. A.ctx[k] = c BY <1>6 DEF AddCtx, RTOpen, DlOpen
    <2> QED BY <2>1, <1>5
  <1>8. CASE ~exported
    BY <1>8 DEF ClonePassthrough
  <1>9. CASE exported /\ fail = "MFXCloneSession"
    <2>1. C.S = DlClose(O, n) BY <1>9 DEF ClonePassthrough
    <2> QED BY <2>1, <1>2, <1>3, DlLemma
  <1>10. CASE exported /\ fail # "MFXCloneSession" /\ n = Main
    <2>1. C.S = F BY <1>7, <1>10 DEF ClonePassthrough
    <2>2. StateInv(F) /\ F.fault BY FaultLemma
    <2> QED BY <2>1, <2>2
  <1>11. CASE exported /\ fail # "MFXCloneSession" /\ n # Main
    <2>1. n = s.ctx[h].lib /\ n \in Paths /\ c \in Ctxs BY <1>3, <1>5, <1>11
    <2>2. A = AddCtx(RTOpen(O, n, p), k, c) BY <1>6, <2>1
    <2> HIDE DEF A, C, O, c
    <2>3. Opens(s, A, k, c, r, p) BY <1>1, <1>5, <2>1, <2>2, AddLemma DEF O
    <2>4. p \in Nat /\ (p = 0 \/ p \in DOMAIN s.rts) BY <1>2, <1>3 DEF Live
    <2>5. CASE fail = "MFXQueryVersion"
      <3>1. C.S = CloseSession(A, k) BY <1>7, <1>11, <2>5 DEF ClonePassthrough, C, A
      <3>2. CloseSession(A, k) = s BY <1>1, <1>2, <1>5, <2>1, <2>3, <2>4, UndoLemma
      <3> QED BY <3>1, <3>2 DEF C
    <2>6. CASE fail # "MFXQueryVersion"
      <3> DEFINE d == [c EXCEPT !.version = v]
      <3>1. C = [S |-> B, sts |-> "NONE"] BY <1>7, <1>11, <2>6 DEF ClonePassthrough, C, A
      <3>2. /\ Opens(s, B, k, d, r, p)
            /\ d \in Ctxs /\ d.version = v /\ d.rt = c.rt /\ d.lib = c.lib /\ d.path = c.path
            /\ d.table = c.table /\ d.table2 = c.table2
        BY <1>2, <1>3, <2>1, <2>3, VersionLemma
      <3> HIDE DEF d, B
      <3>3. \A i \in DOMAIN s.ctx : p # 0 /\ s.ctx[i].rt = p => s.ctx[i].version = v
        BY <1>2 DEF Live
      <3>4. Fits(s, k, d, r, p) BY <1>1, <1>2, <1>5, <2>1, <2>4, <3>2, <3>3 DEF Fits
      <3>5. StateInv(B) BY <3>2, <3>4, OpensLemma
      <3>6. C.S = B /\ C.sts = "NONE" BY <3>1
      <3> QED BY <3>5, <3>6 DEF C
    <2> QED BY <2>5, <2>6
  <1> QED BY <1>8, <1>9, <1>10, <1>11

LEMMA CloneSessionLemma ==
    ASSUME StateInv(s), NEW h, MFXCloneSession(h)
    PROVE  Whole
  <1>1. h \in DOMAIN s.ctx /\ RoomForRT BY DEF MFXCloneSession
  <1>2. PICK k \in FreeCtx :
          \/ s' = s
          \/ \E fail \in Fails :
                /\ s' = CloneLegacy(s, h, k, fail).S
                /\ ret'.new = IF CloneLegacy(s, h, k, fail).sts = "NONE" THEN k ELSE 0
          \/ \E fail \in {"none", "MFXCloneSession", "MFXQueryVersion"}, parent \in BOOLEAN :
                /\ s' = ClonePassthrough(s, h, k, fail, parent).S
                /\ ret'.new = IF ClonePassthrough(s, h, k, fail, parent).sts = "NONE" THEN k ELSE 0
    BY DEF MFXCloneSession, Return
  <1>3. k # 0 BY DEF FreeCtx, Sessions
  <1>4. CASE s' = s BY <1>4 DEF Whole
  <1>5. ASSUME NEW fail \in Fails, s' = CloneLegacy(s, h, k, fail).S,
               ret'.new = IF CloneLegacy(s, h, k, fail).sts = "NONE" THEN k ELSE 0
        PROVE  Whole
    BY <1>1, <1>3, <1>5, CloneLegacyLemma DEF Whole
  <1>6. ASSUME NEW fail \in {"none", "MFXCloneSession", "MFXQueryVersion"}, NEW parent \in BOOLEAN,
               s' = ClonePassthrough(s, h, k, fail, parent).S,
               ret'.new = IF ClonePassthrough(s, h, k, fail, parent).sts = "NONE" THEN k ELSE 0
        PROVE  Whole
    BY <1>1, <1>3, <1>6, ClonePassthroughLemma DEF Whole
  <1> QED BY <1>2, <1>4, <1>5, <1>6

LEMMA DisjoinLemma ==
    ASSUME StateInv(s), NEW h, MFXDisjoinSession(h)
    PROVE  StateInv(s') /\ ret'.call = "MFXDisjoinSession"
  <1> DEFINE r == s.ctx[h].rt
  <1>1. h \in DOMAIN s.ctx /\ ret'.call = "MFXDisjoinSession" BY DEF MFXDisjoinSession, Return
  <1>2. s' = s \/ (s.ctx[h].table # Null /\ s' = [s EXCEPT !.rts[r].parent = 0])
    <2>1. CASE s.ctx[h].table = Null \/ s.rts[r].parent = 0
      BY <2>1 DEF MFXDisjoinSession
    <2>2. CASE ~(s.ctx[h].table = Null \/ s.rts[r].parent = 0)
      BY <2>2 DEF MFXDisjoinSession
    <2> QED BY <2>1, <2>2
  <1>3. CASE s' = s BY <1>1, <1>3
  <1>4. CASE s.ctx[h].table # Null /\ s' = [s EXCEPT !.rts[r].parent = 0]
    <2>1. r \in DOMAIN s.rts BY <1>1, <1>4 DEF StateInv, Tables, Live
    <2>2. StateInv([s EXCEPT !.rts[r].parent = 0]) BY <2>1, ParentLemma
    <2> QED BY <1>1, <1>4, <2>2
  <1> QED BY <1>2, <1>3, <1>4

\* Every call keeps the invariant, and the three that make a session do so
\* entirely or not at all.
LEMMA NextLemma ==
    ASSUME StateInv(s), [Next]_vars
    PROVE  /\ StateInv(s')
           /\ \/ ret'.call \notin {"MFXInitEx", "CreateSession", "MFXCloneSession"}
              \/ ret'.new = 0 /\ ~s'.fault => s' = s
  <1>1. CASE UNCHANGED vars BY <1>1 DEF vars
  <1>2. ASSUME NEW impl, NEW ver, MFXInitEx(impl, ver) PROVE Whole
    BY <1>2, InitExLemma
  <1>3. ASSUME NEW n \in Paths, NEW ver, NEW handleFails, CreateSession(n, ver, handleFails)
        PROVE  Whole
    BY <1>3, CreateSessionLemma
  <1>4. ASSUME NEW h, MFXClose(h) PROVE StateInv(s') /\ ret'.call = "MFXClose"
    BY <1>4, CloseLemma DEF MFXClose, Return
  <1>5. ASSUME NEW p, NEW c, MFXJoinSession(p, c) PROVE StateInv(s') /\ ret'.call = "MFXJoinSession"
    BY <1>5, JoinLemma DEF MFXJoinSession, Return
  <1>6. ASSUME NEW h, MFXDisjoinSession(h) PROVE StateInv(s') /\ ret'.call = "MFXDisjoinSession"
    BY <1>6, DisjoinLemma
  <1>7. ASSUME NEW h, MFXMemory_GetSurface(h)
        PROVE  StateInv(s') /\ ret'.call = "MFXMemory_GetSurface"
    BY <1>7 DEF MFXMemory_GetSurface, Return
  <1>8. ASSUME NEW h, MFXCloneSession(h) PROVE Whole
    BY <1>8, CloneSessionLemma
  <1> QED BY <1>1, <1>2, <1>3, <1>4, <1>5, <1>6, <1>7, <1>8 DEF Next, Whole

-----------------------------------------------------------------------------
(***************************************************************************)
(* Theorems                                                                *)
(***************************************************************************)

LEMMA InitLemma == Init => StateInv(s)
  <1> SUFFICES ASSUME Init PROVE StateInv(s) OBVIOUS
  <1>1. /\ s.ctx = << >> /\ s.rts = << >> /\ s.dl = [n \in Paths \cup {Main} |-> 0]
        /\ DOMAIN s.ctx = {} /\ DOMAIN s.rts = {}
    BY DEF Init
  <1>2. IsState(s) BY DEF Init, IsState, Fields
  <1>3. Shape(s) BY <1>1, <1>2 DEF Shape
  <1>4. Handles(s)
    <2>1. \A n : {h \in DOMAIN s.ctx : s.ctx[h].lib = n} = {} BY <1>1
    <2> QED BY <1>1, <2>1, FS_EmptySet DEF Handles
  <1>5. Live(s) /\ Owned(s) /\ SameVersion(s) /\ ParentsOpen(s) /\ Tables(s) /\ OwnPath(s)
    BY <1>1 DEF Live, Owned, SameVersion, ParentsOpen, Tables, OwnPath
  <1> QED BY <1>3, <1>4, <1>5 DEF StateInv

\* The inductive invariant.
LEMMA Invariance == Spec => []StateInv(s)
  <1>1. StateInv(s) /\ [Next]_vars => StateInv(s)' BY NextLemma
  <1> QED BY InitLemma, <1>1, PTL DEF Spec

\* The LoaderCtx objects, the runtime sessions and the dlopen counts.
THEOREM TypeCorrect == Spec => []TypeOK
  <1>1. StateInv(s) => TypeOK
    <2> SUFFICES ASSUME StateInv(s) PROVE TypeOK OBVIOUS
    <2>1. Shape(s) /\ Live(s) /\ ParentsOpen(s) BY DEF StateInv
    <2>2. \A h \in DOMAIN s.ctx : s.ctx[h] \in Ctxs /\ s.ctx[h].rt \in 0 .. MaxRTSessions
      BY <2>1, LimitsAssumption DEF Shape, Live, Ctxs
    <2>3. \A r \in DOMAIN s.rts : s.rts[r] \in RTSessions /\ s.rts[r].parent \in 0 .. MaxRTSessions
      BY <2>1, LimitsAssumption DEF Shape, ParentsOpen, RTSessions
    <2> QED BY <2>1, <2>2, <2>3 DEF TypeOK, Shape, Ctxs, RTSessions
  <1> QED BY <1>1, Invariance, PTL

\* Every library handle belongs to one LoaderCtx: m_dlh is released once, by
\* LoaderCtx::Close, whichever calls failed or were refused before.
THEOREM HandlesBalance == Spec => []HandleCount
  <1>1. StateInv(s) => HandleCount BY DEF StateInv, Handles, HandleCount
  <1> QED BY <1>1, Invariance, PTL

\* A session of the application refers to an open session of its own library
\* that no other refers to (getSession, the function tables).
THEOREM LiveSessions == Spec => []SessionsLive
  <1>1. StateInv(s) => SessionsLive BY DEF StateInv, Live, SessionsLive
  <1> QED BY <1>1, Invariance, PTL

\* No runtime session is lost, except one whose closing the runtime refused:
\* every failing path of LoaderCtx::Init and MFXCloneSession closes what it
\* opened.
THEOREM NothingOrphaned == Spec => []NoOrphans
  <1>1. StateInv(s) => NoOrphans BY DEF StateInv, Owned, NoOrphans
  <1> QED BY <1>1, Invariance, PTL

\* Sessions joined by MFXJoinSession, or made as children by MFXCloneSession,
\* have the API version of their parent.
THEOREM OneVersion == Spec => []JoinedSameVersion
  <1>1. StateInv(s) => JoinedSameVersion BY DEF StateInv, SameVersion, JoinedSameVersion
  <1> QED BY <1>1, Invariance, PTL

\* MFXInitEx, MFXCreateSession and MFXCloneSession return a session or leave
\* no trace, for every combination of failing libraries.
THEOREM WholeOrNothing == Spec => AllOrNothing
  <1> DEFINE A == /\ ret'.call \in {"MFXInitEx", "CreateSession", "MFXCloneSession"}
                  /\ ret'.new = 0 /\ ~s'.fault
                  => s' = s
  <1>1. StateInv(s) /\ [Next]_vars => [A]_vars BY NextLemma
  <1>2. Spec => [][A]_vars BY <1>1, Invariance, PTL DEF Spec
  <1> QED BY <1>2 DEF AllOrNothing
=============================================================================
