------------------------------ MODULE Session ------------------------------
(***************************************************************************)
(* Dispatcher-level sessions (LoaderCtx, Linux build): initialization over *)
(* a list of candidate libraries, the function tables of a session,        *)
(* joining, cloning and closing.  An mfxSession of the application is a    *)
(* LoaderCtx, which owns a handle of its library and refers to a session   *)
(* of the runtime.  Runtime sessions are external: they are modelled by    *)
(* what their functions promise to the dispatcher.                         *)
(***************************************************************************)
EXTENDS Integers, FiniteSets

CONSTANTS
    Paths,          \* library paths that dlopen can open
    RT,             \* the runtime behind each path
    KnownPlatform,  \* the device is on the list of legacy platforms
    LegacyVersions, \* API versions the application passes to MFXInitEx
    MaxSessions,    \* bound: LoaderCtx objects
    MaxRTSessions   \* bound: sessions of the runtimes

Version(major, minor) == 65536 * major + minor
Major(v) == v \div 65536

Null == "null"
Main == ""      \* dlopen("") opens the main program, which is linked with the dispatcher

ASSUME PathsAssumption ==
    /\ IsFiniteSet(Paths) /\ Null \notin Paths /\ Main \notin Paths
    /\ DOMAIN RT = Paths
    /\ \A n \in Paths :
        /\ RT[n].lacks \subseteq Nat        \* API versions of the functions it does not export
        /\ RT[n].api \in Nat                \* version of a session of MFXInitialize
        /\ RT[n].legacy \in Nat             \* version of a session of MFXInitEx or MFXInit
        /\ RT[n].impl \in {"HW", "SW"}
        /\ RT[n].clone \in BOOLEAN          \* exports MFXCloneSession

ASSUME LimitsAssumption == MaxSessions \in Nat /\ MaxRTSessions \in Nat /\ LegacyVersions \subseteq Nat

VARIABLES
    s,      \* ctx: the LoaderCtx objects; rts: open runtime sessions; dl: dlopen counts;
            \* fault: the dispatcher took a runtime session for one of its own
    ret     \* what the last call returned

vars == <<s, ret>>

Sessions == 1 .. MaxSessions

\* A LoaderCtx: the library it holds, m_libToLoad, m_version, m_implementation,
\* m_session (0 is null), and the libraries the two function tables point into.
NewCtx == [lib |-> Null, path |-> Main, version |-> 0, impl |-> Null, rt |-> 0,
           table |-> Null, table2 |-> Null]

-----------------------------------------------------------------------------
(***************************************************************************)
(* The runtime                                                             *)
(***************************************************************************)

FreshRT(S) == CHOOSE r \in 1 .. (Cardinality(DOMAIN S.rts) + 1) : r \notin DOMAIN S.rts

Children(S, r) == {k \in DOMAIN S.rts : S.rts[k].parent = r}

RTOpen(S, n, parent) ==
    [S EXCEPT !.rts = [k \in DOMAIN @ \cup {FreshRT(S)} |->
                         IF k \in DOMAIN @ THEN @[k]
                         ELSE [lib |-> n, parent |-> parent, refused |-> FALSE]]]

\* A session with active children is not closed.
RTCloseStatus(S, r) ==
    CASE r \notin DOMAIN S.rts -> "INVALID_HANDLE"
      [] r \in DOMAIN S.rts /\ Children(S, r) # {} -> "UNDEFINED_BEHAVIOR"
      [] OTHER -> "NONE"

RTClose(S, r) ==
    CASE RTCloseStatus(S, r) = "NONE" -> [S EXCEPT !.rts = [k \in DOMAIN @ \ {r} |-> @[k]]]
      [] RTCloseStatus(S, r) = "UNDEFINED_BEHAVIOR" -> [S EXCEPT !.rts[r].refused = TRUE]
      [] OTHER -> S

\* Joining of two parents is not supported, nor is joining a child again.
RTJoinStatus(S, p, c) ==
    IF p # c /\ p \in DOMAIN S.rts /\ c \in DOMAIN S.rts
       /\ S.rts[p].parent = 0 /\ S.rts[c].parent = 0 /\ Children(S, c) = {}
    THEN "NONE" ELSE "UNSUPPORTED"

-----------------------------------------------------------------------------
(***************************************************************************)
(* LoaderCtx                                                               *)
(***************************************************************************)

DlOpen(S, n)  == [S EXCEPT !.dl[n] = @ + 1]
DlClose(S, n) == [S EXCEPT !.dl[n] = @ - 1]

\* The session n gives for API version ver, and its LoaderCtx.
ApiOf(n, ver) == IF Major(ver) >= 2 THEN RT[n].api ELSE RT[n].legacy

CtxOf(n, ver, r) ==
    [NewCtx EXCEPT !.lib = n, !.version = ApiOf(n, ver), !.impl = RT[n].impl, !.rt = r,
                   !.table = n, !.table2 = IF Major(ver) >= 2 THEN n ELSE Null]

Lacks(n, ver) == \E v \in RT[n].lacks : v <= ver

Failed(S, sts) == [S |-> S, sts |-> sts, ctx |-> NewCtx]

\* Mutant: the library handle of a candidate without the functions of ver
\* is not released.
AttemptKeepsHandle(S, n, ver, fail) ==
    CASE Lacks(n, ver) -> Failed(DlOpen(S, n), "UNSUPPORTED")
      [] ~Lacks(n, ver) /\ (fail # "none" \/ ApiOf(n, ver) < ver) -> Failed(S, "UNSUPPORTED")
      [] OTHER -> [S |-> RTOpen(DlOpen(S, n), n, 0), sts |-> "NONE",
                   ctx |-> CtxOf(n, ver, FreshRT(S))]

\* One round of the loop of LoaderCtx::Init: open the library, fill the
\* tables, initialize a session, check its version.  fail is the runtime
\* function that reports an error (MFXQueryVersion stands for MFXQueryIMPL
\* too).  Whatever fails, the session is closed and the handle released.
Attempt(S, n, ver, fail) ==
    LET D == DlOpen(S, n)
        O == RTOpen(D, n, 0)
    IN  CASE Lacks(n, ver) -> Failed(DlClose(D, n), "UNSUPPORTED")
          [] ~Lacks(n, ver) /\ fail = "MFXInitialize" -> Failed(DlClose(D, n), "DEVICE_FAILED")
          [] ~Lacks(n, ver) /\ (fail = "MFXQueryVersion" \/ ApiOf(n, ver) < ver) ->
                Failed(DlClose(RTClose(O, FreshRT(S)), n), "UNSUPPORTED")
          [] OTHER -> [S |-> O, sts |-> "NONE", ctx |-> CtxOf(n, ver, FreshRT(S))]

\* The next name of the list: skipped once a library is taken, or if dlopen
\* does not find it.
Try(acc, n, ver, fail) ==
    IF acc.sts = "NONE" \/ n \notin Paths THEN acc ELSE Attempt(acc.S, n, ver, fail[n])

\* LoaderCtx::Init without bCloneSession: the first library that works, of the
\* names for an implementation type of the legacy API.
LoaderInit(S, impl, ver, fail) ==
    LET Both(acc, n, m) == Try(Try(acc, n, ver, fail), m, ver, fail)
        none == Failed(S, "UNSUPPORTED")
        gen  == IF impl \in {"HW", "AUTO"} /\ ~KnownPlatform
                THEN Both(none, "libmfx-gen", "modules/libmfx-gen") ELSE none
        hw   == IF impl \in {"HW", "AUTO"}
                THEN Both(gen, "libmfxhw64", "modules/libmfxhw64") ELSE none
    IN  IF impl \in {"SW", "AUTO"}
        THEN Both(hw, "libvplswref64", "modules/libvplswref64") ELSE hw

\* The new LoaderCtx becomes session h.
AddCtx(S, h, c) ==
    [S EXCEPT !.ctx = [k \in DOMAIN @ \cup {h} |-> IF k = h THEN c ELSE @[k]]]

DeleteCtx(S, h) ==
    [DlClose(S, S.ctx[h].lib) EXCEPT !.ctx = [k \in DOMAIN @ \ {h} |-> @[k]]]

CloseStatus(S, h) ==
    IF S.ctx[h].table = Null THEN "NONE" ELSE RTCloseStatus(S, S.ctx[h].rt)

\* LoaderCtx::Close forgets the runtime session whatever the runtime answers,
\* and leaves the second table alone.
Forget(S, h) ==
    [S EXCEPT !.ctx[h] = [@ EXCEPT !.impl = Null, !.version = 0, !.rt = 0, !.table = Null]]

\* MFXClose
CloseSession(S, h) ==
    LET C == IF S.ctx[h].table = Null THEN S ELSE RTClose(S, S.ctx[h].rt)
    IN  IF CloseStatus(S, h) = "UNDEFINED_BEHAVIOR"
        THEN Forget(C, h) ELSE DeleteCtx(C, h)

\* Mutant: the versions are not compared.
JoinStatusAnyVersion(S, p, c) ==
    IF S.ctx[p].table = Null THEN "INVALID_HANDLE"
    ELSE RTJoinStatus(S, S.ctx[p].rt, S.ctx[c].rt)

JoinStatus(S, p, c) ==
    IF S.ctx[p].version # S.ctx[c].version \/ S.ctx[p].table = Null THEN "INVALID_HANDLE"
    ELSE RTJoinStatus(S, S.ctx[p].rt, S.ctx[c].rt)

JoinSession(S, p, c) ==
    IF JoinStatus(S, p, c) = "NONE" THEN [S EXCEPT !.rts[S.ctx[c].rt].parent = S.ctx[p].rt] ELSE S

-----------------------------------------------------------------------------
(***************************************************************************)
(* Cloning                                                                 *)
(***************************************************************************)

\* Runtimes with API 1.x: MFXInit, then MFXJoinSession.
CloneLegacy(S, h, k, fail) ==
    LET I == LoaderInit(S, S.ctx[h].impl, S.ctx[h].version, fail)
        A == AddCtx(I.S, k, I.ctx)
    IN  IF I.sts # "NONE" THEN [S |-> I.S, sts |-> I.sts]
        ELSE IF JoinStatus(A, h, k) = "NONE"
        THEN [S |-> JoinSession(A, h, k), sts |-> "NONE"]
        ELSE [S |-> CloseSession(A, k), sts |-> JoinStatus(A, h, k)]

\* Mutant: the clone copies m_session too, and setSession is missing.
CloneCtxSameSession(S, h, r) ==
    LET n == S.ctx[h].path
    IN  [NewCtx EXCEPT !.lib = n, !.path = n, !.rt = S.ctx[h].rt, !.table = n]

\* AllocateCloneLoader: m_libToLoad is opened again, and the first function
\* table filled.  A session that was not created for a given library has an
\* empty m_libToLoad.
CloneCtx(S, h, r) ==
    LET n == S.ctx[h].path
    IN  [NewCtx EXCEPT !.lib = n, !.path = n, !.rt = r, !.table = n]

\* The LoaderCtx and the runtime session of a clone.
Cloned(S, h, k, parent) ==
    LET O == DlOpen(S, S.ctx[h].path)
    IN  AddCtx(RTOpen(O, S.ctx[h].lib, IF parent THEN S.ctx[h].rt ELSE 0),
               k, CloneCtx(S, h, FreshRT(O)))

\* Mutant: the LoaderCtx of the clone is deleted without closing its session.
ClonePassthroughNoClose(S, h, k, fail, parent) ==
    LET A == Cloned(S, h, k, parent)
        failed == ~RT[S.ctx[h].lib].clone \/ S.ctx[h].path = Main \/ fail = "MFXCloneSession"
    IN  CASE failed -> [S |-> S, sts |-> "UNSUPPORTED"]
          [] ~failed /\ fail = "MFXQueryVersion" -> [S |-> DeleteCtx(A, k), sts |-> "DEVICE_FAILED"]
          [] OTHER -> [S |-> [A EXCEPT !.ctx[k].version = S.ctx[h].version], sts |-> "NONE"]

\* Mutant: the LoaderCtx of the clone is not deleted when the runtime fails.
ClonePassthroughKeepsLoader(S, h, k, fail, parent) ==
    LET O == AddCtx(DlOpen(S, S.ctx[h].path), k, CloneCtx(S, h, 0))
    IN  IF fail = "MFXCloneSession" /\ S.ctx[h].path # Main
        THEN [S |-> O, sts |-> "UNSUPPORTED"]
        ELSE ClonePassthroughNoClose(S, h, k, "none", parent)

\* Runtimes with API 2.x: MFXCloneSession of the runtime, then its version,
\* asked through the table of the clone.
ClonePassthrough(S, h, k, fail, parent) ==
    LET A == Cloned(S, h, k, parent)
        exported == RT[S.ctx[h].lib].clone
    IN  CASE ~exported -> [S |-> S, sts |-> "UNSUPPORTED"]
          [] exported /\ fail = "MFXCloneSession" ->
                LET O == DlOpen(S, S.ctx[h].path)
                IN  [S |-> DlClose(O, S.ctx[h].path), sts |-> "UNSUPPORTED"]
          [] exported /\ fail # "MFXCloneSession" /\ A.ctx[k].table = Main ->
                [S |-> [S EXCEPT !.fault = TRUE], sts |-> "none"]
          [] exported /\ fail = "MFXQueryVersion" /\ A.ctx[k].table # Main ->
                [S |-> CloseSession(A, k), sts |-> "DEVICE_FAILED"]
          [] OTHER -> [S |-> [A EXCEPT !.ctx[k].version = S.ctx[h].version], sts |-> "NONE"]

-----------------------------------------------------------------------------
(***************************************************************************)
(* The API                                                                 *)
(***************************************************************************)

Fails == [Paths -> {"none", "MFXInitialize", "MFXQueryVersion"}]

Return(call, sts, h, k) == ret' = [call |-> call, sts |-> sts, arg |-> h, new |-> k]

\* A LoaderCtx that is not in use: the address of a new one.
FreeCtx == {h \in Sessions \ DOMAIN s.ctx : \A k \in Sessions \ DOMAIN s.ctx : h <= k}

RoomForRT == Cardinality(DOMAIN s.rts) < MaxRTSessions

\* Mutant: the LoaderCtx is returned though Init failed.
InitExKeepsLoader(impl, ver) ==
    /\ RoomForRT
    /\ \E h \in FreeCtx, fail \in Fails :
        LET I == LoaderInit(s, impl, ver, fail)
        IN  s' = AddCtx(I.S, h, I.ctx) /\ Return("MFXInitEx", I.sts, 0, h)

\* MFXInit and MFXInitEx
MFXInitEx(impl, ver) ==
    /\ RoomForRT
    /\ \E h \in FreeCtx, fail \in Fails :
        LET I == LoaderInit(s, impl, ver, fail)
        IN  /\ s' = IF I.sts = "NONE" THEN AddCtx(I.S, h, I.ctx) ELSE I.S
            /\ Return("MFXInitEx", I.sts, 0, IF I.sts = "NONE" THEN h ELSE 0)

\* MFXInitEx2 for the library that MFXCreateSession selected, then the
\* device handle.  The session stays open if the handle is refused.
CreateSession(n, ver, handleFails) ==
    /\ RoomForRT
    /\ \E h \in FreeCtx, fail \in {"none", "MFXInitialize", "MFXQueryVersion"} :
        LET I == Try(Failed(s, "UNSUPPORTED"), n, ver, [m \in Paths |-> fail])
            ok == I.sts = "NONE"
        IN  /\ s' = IF ok THEN AddCtx(I.S, h, [I.ctx EXCEPT !.path = n]) ELSE I.S
            /\ Return("CreateSession", IF ok /\ handleFails THEN "DEVICE_FAILED" ELSE I.sts,
                      0, IF ok THEN h ELSE 0)

MFXClose(h) ==
    /\ h \in DOMAIN s.ctx
    /\ s' = CloseSession(s, h)
    /\ Return("MFXClose", CloseStatus(s, h), h, 0)

MFXJoinSession(p, c) ==
    /\ p \in DOMAIN s.ctx /\ c \in DOMAIN s.ctx
    /\ s' = JoinSession(s, p, c)
    /\ Return("MFXJoinSession", JoinStatus(s, p, c), p, 0)

\* A function of API 1.x that is passed to the runtime.
MFXDisjoinSession(h) ==
    /\ h \in DOMAIN s.ctx
    /\ LET r == s.ctx[h].rt
           sts == CASE s.ctx[h].table = Null -> "INVALID_HANDLE"
                    [] s.ctx[h].table # Null /\ s.rts[r].parent = 0 -> "UNDEFINED_BEHAVIOR"
                    [] OTHER -> "NONE"
       IN  /\ s' = IF sts = "NONE" THEN [s EXCEPT !.rts[r].parent = 0] ELSE s
           /\ Return("MFXDisjoinSession", sts, h, 0)

\* A function of API 2.x that is passed to the runtime.
MFXMemory_GetSurface(h) ==
    /\ h \in DOMAIN s.ctx
    /\ UNCHANGED s
    /\ Return("MFXMemory_GetSurface",
              IF s.ctx[h].table2 = Null \/ s.ctx[h].rt = 0 THEN "INVALID_HANDLE" ELSE "NONE", h, 0)

MFXCloneSession(h) ==
    /\ h \in DOMAIN s.ctx /\ RoomForRT
    /\ \E k \in FreeCtx :
        \/ /\ Major(s.ctx[h].version) \notin {1, 2}
           /\ UNCHANGED s
           /\ Return("MFXCloneSession", "UNSUPPORTED", h, 0)
        \/ /\ Major(s.ctx[h].version) = 1
           /\ \E fail \in Fails :
                LET C == CloneLegacy(s, h, k, fail)
                IN  /\ s' = C.S
                    /\ Return("MFXCloneSession", C.sts, h, IF C.sts = "NONE" THEN k ELSE 0)
        \/ /\ Major(s.ctx[h].version) = 2
           /\ \E fail \in {"none", "MFXCloneSession", "MFXQueryVersion"}, parent \in BOOLEAN :
                LET C == ClonePassthrough(s, h, k, fail, parent)
                IN  /\ s' = C.S
                    /\ Return("MFXCloneSession", C.sts, h, IF C.sts = "NONE" THEN k ELSE 0)

Init ==
    /\ s = [ctx |-> << >>, rts |-> << >>, dl |-> [n \in Paths \cup {Main} |-> 0], fault |-> FALSE]
    /\ ret = [call |-> "none", sts |-> "NONE", arg |-> 0, new |-> 0]

\* The version MFXCreateSession passes is the one the library reported.
CreateVersion(n) == IF Lacks(n, Version(2, 0)) THEN RT[n].legacy ELSE RT[n].api

Next ==
    /\ ~s.fault
    /\ \/ \E impl \in {"HW", "SW", "AUTO"}, ver \in LegacyVersions : MFXInitEx(impl, ver)
       \/ \E n \in Paths, handleFails \in BOOLEAN : CreateSession(n, CreateVersion(n), handleFails)
       \/ \E h \in Sessions : MFXClose(h)
       \/ \E p, c \in Sessions : MFXJoinSession(p, c)
       \/ \E h \in Sessions : MFXDisjoinSession(h)
       \/ \E h \in Sessions : MFXMemory_GetSurface(h)
       \/ \E h \in Sessions : MFXCloneSession(h)

Spec == Init /\ [][Next]_vars

-----------------------------------------------------------------------------
(***************************************************************************)
(* Properties                                                              *)
(***************************************************************************)

\* The LoaderCtx objects, the runtime sessions and the dlopen counts.
TypeOK ==
    /\ DOMAIN s.ctx \subseteq Sessions
    /\ \A h \in DOMAIN s.ctx :
        /\ s.ctx[h].lib \in Paths /\ s.ctx[h].path \in Paths \cup {Main}
        /\ s.ctx[h].table \in Paths \cup {Null} /\ s.ctx[h].table2 \in Paths \cup {Null}
        /\ s.ctx[h].rt \in 0 .. MaxRTSessions /\ s.ctx[h].version \in Nat
    /\ DOMAIN s.rts \subseteq 1 .. MaxRTSessions
    /\ \A r \in DOMAIN s.rts : s.rts[r].lib \in Paths /\ s.rts[r].parent \in 0 .. MaxRTSessions
    /\ s.dl \in [Paths \cup {Main} -> Nat]

\* Every library handle belongs to one LoaderCtx: no sequence of candidates
\* that fail, refused or repeated closing, and failed cloning leaks a handle
\* or releases one twice (m_dlh).
HandleCount ==
    \A n \in Paths \cup {Main} : s.dl[n] = Cardinality({h \in DOMAIN s.ctx : s.ctx[h].lib = n})

\* A session of the application refers to an open session of its own library,
\* and to no other session's (getSession, the function tables).
SessionsLive ==
    \A h \in DOMAIN s.ctx : s.ctx[h].rt # 0 =>
        /\ s.ctx[h].rt \in DOMAIN s.rts /\ s.rts[s.ctx[h].rt].lib = s.ctx[h].lib
        /\ s.ctx[h].table = s.ctx[h].lib /\ s.ctx[h].table2 \in {Null, s.ctx[h].lib}
        /\ \A k \in DOMAIN s.ctx : s.ctx[k].rt = s.ctx[h].rt => k = h

\* The application can close every session of a runtime, except one whose
\* closing was refused.
NoOrphans ==
    \A r \in DOMAIN s.rts : s.rts[r].refused \/ \E h \in DOMAIN s.ctx : s.ctx[h].rt = r

\* MFXInitEx, MFXCreateSession and MFXCloneSession either return a session
\* or leave nothing behind, whichever step of which candidate fails.
AllOrNothing ==
    [][/\ ret'.call \in {"MFXInitEx", "CreateSession", "MFXCloneSession"}
       /\ ret'.new = 0 /\ ~s'.fault
       => s' = s]_vars

\* Sessions that MFXJoinSession joined have the same API version.
JoinedSameVersion ==
    \A h, k \in DOMAIN s.ctx :
        s.ctx[h].rt # 0 /\ s.ctx[k].rt # 0 /\ s.rts[s.ctx[k].rt].parent = s.ctx[h].rt
            => s.ctx[h].version = s.ctx[k].version

\* A library is not unloaded while one of its sessions is open (MFXClose).
LibraryOutlivesSessions == \A r \in DOMAIN s.rts : s.dl[s.rts[r].lib] > 0
=============================================================================
