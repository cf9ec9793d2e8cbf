----------------------------- MODULE Dispatcher -----------------------------
(***************************************************************************)
(* The mfxLoader of the dispatcher (LoaderCtxVPL, Linux build): finding    *)
(* and loading runtime libraries, querying their implementations, keeping  *)
(* the list of valid implementations in step with the filter properties,   *)
(* low-latency session creation, and unloading.  One action per function   *)
(* of mfx_dispatcher_vpl.cpp; the loader is not thread safe, so a call is  *)
(* one step.                                                               *)
(*                                                                         *)
(* A LibInfo is identified by its path and by what put it on the list; an  *)
(* ImplInfo by its LibInfo, its index in the library, and whether it was   *)
(* added by the low-latency query.  The two std::lists are lists in the    *)
(* sense of ListOrder (lpos, ipos).                                        *)
(***************************************************************************)
EXTENDS ConfigFilter, ListOrder

CONSTANTS
    Names,      \* library paths
    Search,     \* <<[name, prio], ...>>: files in the order the search directories give them
    LowVPL,     \* the libmfx-gen with MFXInitialize in the low-latency directories, if any
    LowMSDK,    \* the libmfxhw64 with MFXInitEx in the low-latency directories, if any
    Runtime,    \* what each library exports and reports
    Flaky,      \* libraries whose dlopen may fail
    Values,     \* Values[p]: the values the application gives property p
    MaxConfigs, \* bound: config objects of one loader
    MaxIdx,     \* bound: the implementation indices the application passes, 0..MaxIdx
    MaxU,       \* the largest mfxU32 (scaled); MaxIdx is below MaxU \div 2
    MaxHandles  \* bound: no call that loads libraries once a path is open this often

ASSUME NamesAssumption ==
    /\ IsFiniteSet(Names)
    /\ Search \in Seq([name : Names, prio : Nat])
    /\ LowVPL \in SUBSET Names /\ LowMSDK \in SUBSET Names
    /\ \A a, b \in LowVPL : a = b
    /\ \A a, b \in LowMSDK : a = b
    /\ Flaky \in SUBSET Names

\* mfxImplDescription, as far as filters and priority rules read it.
IsDescription(d) ==
    /\ d.Impl \in Int /\ d.ApiVersion \in Int
    /\ DOMAIN d = {"Impl", "ImplName", "VendorID", "AccelerationMode", "modes",
                   "ApiVersion", "Keywords", "DeviceID"}

ASSUME RuntimeAssumption ==
    /\ DOMAIN Runtime = Names
    /\ \A n \in Names :
        /\ Runtime[n].exports \in SUBSET {"MFXInitialize", "MSDK"}
        /\ Runtime[n].version \in Int
        /\ Runtime[n].complete \in Int
        /\ Runtime[n].session \in BOOLEAN
        /\ Runtime[n].descOK \in BOOLEAN
        /\ DOMAIN Runtime[n].caps \in SUBSET (0 .. 3)
        /\ \A i \in DOMAIN Runtime[n].caps : IsDescription(Runtime[n].caps[i])

\* A pointer variant is of the wrong type for the other properties.
ASSUME ValuesAssumption ==
    \A p \in DOMAIN Values : p \in Props /\ NullPtr \in Values[p] => p \in PtrProps

ASSUME BoundsAssumption ==
    MaxConfigs \in Nat /\ MaxIdx \in Nat /\ MaxU \in Nat /\ MaxHandles \in Nat

VARIABLES
    ld,     \* the loader context, the dlopen counts of the process and the fault it ran into
    held,   \* a description the application holds, the index that gave it, and whether
            \* no filter was set since: one of the enumerations, whichever it chooses
    ret     \* what the last call returned

vars == <<ld, held, ret>>

LIB_PRIORITY_SPECIAL            == 0
LIB_PRIORITY_01                 == 1
LIB_PRIORITY_LEGACY_DRIVERSTORE == 10000
LIB_PRIORITY_LEGACY             == 10001

MFX_ACCEL_MODE_VIA_D3D9      == "D3D9"
MFX_ACCEL_MODE_VIA_HDDLUNITE == "HDDLUNITE"

LibIds  == [name : Names, origin : {"search", "low"}]
ImplIds == [lib : LibIds, num : 0 .. 3, low : BOOLEAN]

NoImpl == [lib |-> [name |-> "", origin |-> "none"], num |-> 0, low |-> FALSE]

\* The ways in which a call does not return.
Faults == {"none", "null", "freed", "hang"}

Fault(L, kind) == [L EXCEPT !.fault = IF @ = "none" THEN kind ELSE @]

\* The capabilities the runtime reports for an ImplInfo.
Desc(x) == Runtime[x.lib.name].caps[x.num]

\* ImplInfo::version
ImplVersion(x) == IF x.low THEN Runtime[x.lib.name].version ELSE Desc(x).ApiVersion

\* LoaderCtxVPL::LoaderCtxVPL
NewLoader(dl, live) ==
    [live |-> live, low |-> FALSE, needUpdate |-> TRUE, needFull |-> TRUE,
     needLow |-> TRUE, cfgs |-> << >>, libs |-> EmptyList, lpos |-> EmptyList,
     impls |-> EmptyList, ipos |-> EmptyList, next |-> 0, dl |-> dl,
     fault |-> "none"]

-----------------------------------------------------------------------------
(***************************************************************************)
(* Loading and unloading                                                   *)
(***************************************************************************)

\* The LibInfos in T that hold a module handle of path n.
OpenIn(L, T, n) == {i \in T : i.name = n /\ L.libs[i].mod}

HasFreedLib(L) == \E i \in DOMAIN L.libs : L.libs[i].freed

\* Mutant: the LibInfo is destroyed but not erased from the list.
UnloadLibsKeepsPos(L, T) ==
    [L EXCEPT !.libs = Table([i \in DOMAIN L.libs \ T |-> L.libs[i]]),
              !.dl   = Table([n \in Names |-> L.dl[n] - Cardinality(OpenIn(L, T, n))])]

\* Mutant: the module handle is not closed.
UnloadLibsNoClose(L, T) ==
    [L EXCEPT !.libs = Table([i \in DOMAIN L.libs \ T |-> L.libs[i]]),
              !.lpos = Keep(L.lpos, DOMAIN L.libs \ T)]

\* dlclose for every LibInfo in T, which leaves the list.
UnloadLibs(L, T) ==
    [L EXCEPT !.libs = Table([i \in DOMAIN L.libs \ T |-> L.libs[i]]),
              !.lpos = Keep(L.lpos, DOMAIN L.libs \ T),
              !.dl   = Table([n \in Names |-> L.dl[n] - Cardinality(OpenIn(L, T, n))])]

UnloadAllLibraries(L) ==
    IF HasFreedLib(L) THEN Fault(L, "freed")
    ELSE [UnloadLibs(L, DOMAIN L.libs) EXCEPT
            !.impls = EmptyList, !.ipos = EmptyList, !.next = 0]

\* SearchDirForLibs over all search directories: the first hit of a path
\* decides its priority, paths already on the list are skipped.
FirstHit(n) ==
    LET hits == {k \in DOMAIN Search : Search[k].name = n}
    IN  CHOOSE k \in hits : \A j \in hits : k <= j

BuildListOfCandidateLibs(L) ==
    LET listed == {i.name : i \in DOMAIN L.libs}
        found  == {Search[k].name : k \in DOMAIN Search}
        new    == {i \in LibIds : i.origin = "search" /\ i.name \in found \ listed}
    IN  IF HasFreedLib(L) THEN Fault(L, "freed")
        ELSE [L EXCEPT
                !.libs = Table([i \in DOMAIN L.libs \cup new |->
                            IF i \in DOMAIN L.libs THEN L.libs[i]
                            ELSE [type |-> "none", prio |-> Search[FirstHit(i.name)].prio,
                                  mod |-> FALSE, freed |-> FALSE]]),
                !.lpos = PushBack(@, ListByKey(new, [i \in new |-> FirstHit(i.name)]))]

\* What the exports of a loaded library make of it.
LibType(n, prio) ==
    CASE "MFXInitialize" \in Runtime[n].exports /\ prio < LIB_PRIORITY_LEGACY_DRIVERSTORE -> "VPL"
      [] ~("MFXInitialize" \in Runtime[n].exports /\ prio < LIB_PRIORITY_LEGACY_DRIVERSTORE)
         /\ "MSDK" \in Runtime[n].exports /\ Runtime[n].session -> "MSDK"
      [] OTHER -> "none"

\* i beats j as the MSDK library to keep: the driver store first, then the
\* highest API version, then the first on the list.
BetterMSDK(L, i, j) ==
    LET ds(k) == IF L.libs[k].prio = LIB_PRIORITY_LEGACY_DRIVERSTORE THEN 1 ELSE 0
        v(k)  == Runtime[k.name].version
    IN  \/ ds(i) > ds(j)
        \/ ds(i) = ds(j) /\ v(i) > v(j)
        \/ ds(i) = ds(j) /\ v(i) = v(j) /\ L.lpos[i] < L.lpos[j]

\* dlopen of every listed library, again for one that is open already: the
\* new handle replaces the old one.
CheckValidLibraries(L, bad) ==
    LET type == Table([i \in DOMAIN L.libs |->
                    IF i.name \in bad THEN "none" ELSE LibType(i.name, L.libs[i].prio)])
        msdk == {i \in DOMAIN L.libs : type[i] = "MSDK"}
        drop == {i \in DOMAIN L.libs :
                    \/ type[i] = "none"
                    \/ i \in msdk /\ \E j \in msdk : BetterMSDK(L, j, i)}
        load == [L EXCEPT
                   !.libs = Table([i \in DOMAIN L.libs |->
                               [L.libs[i] EXCEPT !.type = type[i], !.mod = i.name \notin bad]]),
                   !.dl   = Table([n \in Names |->
                               L.dl[n] + Cardinality({i \in DOMAIN L.libs :
                                                        i.name = n /\ n \notin bad})])]
    IN  UnloadLibs(load, drop)

-----------------------------------------------------------------------------
(***************************************************************************)
(* Querying implementations and ordering the list                          *)
(***************************************************************************)

\* An ImplInfo whose libInfo has been deleted.
HasFreedImpl(L) == \E x \in DOMAIN L.impls : x.lib \notin DOMAIN L.libs

IsVPL(L, x) == L.libs[x.lib].type = "VPL"
Special(L)  == {x \in DOMAIN L.impls : L.libs[x.lib].prio = LIB_PRIORITY_SPECIAL}
Valid(impls) == {x \in DOMAIN impls : impls[x].idx >= 0}

\* Entries whose implDesc the comparators of the sorts dereference.
Compared(L) == DOMAIN L.impls \ Special(L)
NullCompared(L) ==
    /\ Cardinality(Compared(L)) >= 2
    /\ \E x \in Compared(L) : ~L.impls[x].known

\* Mutant: the implementation type is sorted before the API version.
RankedVersionLast(L) ==
    LET S  == Compared(L)
        p1 == SortBy(Keep(L.ipos, S), [x \in S |-> L.libs[x.lib].prio])
        p2 == SortBy(p1, [x \in S |-> -Desc(x).Impl])
    IN  SortBy(p2, [x \in S |-> -Desc(x).ApiVersion])

\* Four stable sorts, from the least to the most important key.  A list of
\* one entry is not compared.
Ranked(L) ==
    LET S  == Compared(L)
        p0 == Keep(L.ipos, S)
        p1 == SortBy(p0, [x \in S |-> L.libs[x.lib].prio])
        p2 == SortBy(p1, [x \in S |-> -Desc(x).ApiVersion])
        p3 == SortBy(p2, [x \in S |->
                IF Desc(x).AccelerationMode = MFX_ACCEL_MODE_VIA_HDDLUNITE THEN 1 ELSE 0])
    IN  IF Cardinality(S) < 2 THEN p0 ELSE SortBy(p3, [x \in S |-> -Desc(x).Impl])

\* Mutant: priority entries are put back one by one at the front.
SortedListReversesSpecial(L) ==
    LET sp == Keep(L.ipos, Special(L))
    IN  PushBack([x \in DOMAIN sp |-> Cardinality(DOMAIN sp) + 1 - sp[x]], Ranked(L))

\* Entries of ONEVPL_PRIORITY_PATH go to the front unsorted.
SortedList(L) == PushBack(Keep(L.ipos, Special(L)), Ranked(L))

\* Mutant: the counter also advances at invalid entries.
ReindexAll(impls, p) ==
    Table([x \in DOMAIN impls |->
            [known |-> impls[x].known,
             idx   |-> IF impls[x].idx >= 0 THEN CountBefore(p, DOMAIN impls, x) ELSE -1]])

\* validImplIdx 0, 1, ... in list order
Reindex(impls, p) ==
    Table([x \in DOMAIN impls |->
            [known |-> impls[x].known,
             idx   |-> IF impls[x].idx >= 0 THEN CountBefore(p, Valid(impls), x) ELSE -1]])

PrioritizeImplList(L) ==
    LET p == SortedList(L)
    IN  IF HasFreedImpl(L) THEN Fault(L, "freed")
        ELSE IF NullCompared(L) THEN Fault(L, "null")
        ELSE [L EXCEPT !.ipos = p, !.impls = Reindex(L.impls, p)]

\* The ImplInfos the query adds for library i.  One entry and no
\* description in low latency, where a test session gives the version.
NewImpls(L, i) ==
    LET r == Runtime[i.name]
        nums == CASE L.libs[i].type = "VPL" /\ L.low ->
                        {n \in {0} : r.session /\ r.version <= r.complete}
                  [] L.libs[i].type = "VPL" /\ ~L.low ->
                        {n \in DOMAIN r.caps : r.caps[n].ApiVersion <= r.complete}
                  [] L.libs[i].type = "MSDK" /\ L.low -> {n \in {0} : r.session}
                  [] L.libs[i].type = "MSDK" /\ ~L.low -> DOMAIN r.caps
                  [] OTHER -> {}
    IN  {[lib |-> i, num |-> n, low |-> L.low] : n \in nums}

\* Libraries the query removes: no description from a VPL runtime, no
\* adapter of an MSDK runtime.
DroppedByQuery(L) ==
    {i \in DOMAIN L.libs :
        \/ L.libs[i].type = "VPL" /\ ~L.low /\ ~Runtime[i.name].descOK
        \/ L.libs[i].type = "MSDK" /\ NewImpls(L, i) = {}}

\* The LibInfos in drop leave, the ImplInfos in new are appended, library by
\* library, with the indices first, first + 1, ...
AddImpls(L, drop, new, first) ==
    LET q == ListByKey(new, [x \in new |-> 4 * L.lpos[x.lib] + x.num])
    IN  [UnloadLibs(L, drop) EXCEPT
            !.impls = Table([x \in DOMAIN L.impls \cup new |->
                         IF x \in DOMAIN L.impls THEN L.impls[x]
                         ELSE [known |-> ~L.low, idx |-> first + q[x] - 1]]),
            !.ipos  = PushBack(@, q),
            !.next  = @ + Cardinality(new)]

ImplsOf(L, T) == UNION {NewImpls(L, i) : i \in T}

\* Mutant: every query numbers its implementations from 0.
QueryRestartsIndex(L) ==
    LET drop == DroppedByQuery(L)
    IN  AddImpls(L, drop, ImplsOf(L, DOMAIN L.libs \ drop), 0)

\* Mutant: the implementations of a library that is unloaded are added.
QueryKeepsDropped(L) ==
    AddImpls(L, DroppedByQuery(L), ImplsOf(L, DOMAIN L.libs), L.next)

QueryEachLibrary(L) ==
    LET drop == DroppedByQuery(L)
    IN  AddImpls(L, drop, ImplsOf(L, DOMAIN L.libs \ drop), L.next)

\* The VPL hardware entry t serves the device of x.
Serves(L, t, x) ==
    /\ IsVPL(L, t)
    /\ Desc(t).Impl = MFX_IMPL_TYPE_HARDWARE
    /\ Desc(t).DeviceID = Desc(x).DeviceID

\* Mutant: only the compatibility entry point is rejected.
SupersededCompatOnly(L, x) ==
    ~IsVPL(L, x) /\ L.impls[x].known /\ Desc(x).ApiVersion = Version(1, 255)

\* An MSDK entry whose device a VPL hardware entry serves too (unless D3D9
\* is requested), or the VPL runtime seen through its 1.255 entry point.
\* Descriptions are filled in list order while the loop looks at them.
Superseded(L, x) ==
    /\ ~IsVPL(L, x) /\ L.impls[x].known
    /\ \/ /\ LastSet(L.cfgs, "AccelerationMode") # MFX_ACCEL_MODE_VIA_D3D9
          /\ \E t \in DOMAIN L.impls :
                (L.impls[t].known \/ L.ipos[t] < L.ipos[x]) /\ Serves(L, t, x)
       \/ Desc(x).ApiVersion = Version(1, 255)

\* The pass over the whole list that follows a full query.
CompleteFullQuery(L) ==
    LET missing == {x \in DOMAIN L.impls :
                      ~L.impls[x].known /\ x.num \notin DOMAIN Runtime[x.lib.name].caps}
    IN  CASE HasFreedImpl(L) -> Fault(L, "freed")
          [] ~HasFreedImpl(L) /\ missing # {} ->
                Fault(L, IF \E x \in missing : IsVPL(L, x) THEN "null" ELSE "hang")
          [] OTHER ->
                PrioritizeImplList(
                    [L EXCEPT !.impls = Table([x \in DOMAIN L.impls |->
                        [known |-> TRUE,
                         idx   |-> IF Superseded(L, x) THEN -1 ELSE L.impls[x].idx]])])

\* In low latency, and with nothing found, the query stops here.
AfterQuery(Q) ==
    IF Q.low \/ DOMAIN Q.impls = {} THEN Q ELSE CompleteFullQuery(Q)

QueryLibraryCaps(L) ==
    IF HasFreedLib(L) THEN Fault(L, "freed") ELSE AfterQuery(QueryEachLibrary(L))

\* On success, and only then, needFull becomes FALSE.
NoteFullQuery(Q) ==
    IF DOMAIN Q.impls = {} THEN Q ELSE [Q EXCEPT !.needFull = FALSE, !.needUpdate = TRUE]

QueryLoaded(C) == IF DOMAIN C.libs = {} THEN C ELSE NoteFullQuery(QueryLibraryCaps(C))

FullLoadAndQuery(L, bad) ==
    IF HasFreedLib(L) THEN Fault(L, "freed")
    ELSE QueryLoaded(CheckValidLibraries(
                        BuildListOfCandidateLibs([L EXCEPT !.low = FALSE]), bad))

\* An entry that is invalid once is never looked at again.
UpdateValidImplList(L) ==
    LET ok == {x \in Valid(L.impls) : L.impls[x].known /\ ValidateConfig(L.cfgs, Desc(x))}
    IN  [PrioritizeImplList(
            [L EXCEPT !.impls = Table([x \in DOMAIN L.impls |->
                [known |-> L.impls[x].known,
                 idx   |-> IF x \in ok THEN CountBefore(L.ipos, ok, x) ELSE -1]])])
         EXCEPT !.needUpdate = FALSE]

-----------------------------------------------------------------------------
(***************************************************************************)
(* Low latency                                                             *)
(***************************************************************************)

\* push_back and LoadSingleLibrary.  A LibInfo that fails now is deleted
\* and stays on the list.
PushLowLib(L, n, type, lost) ==
    LET i   == [name |-> n, origin |-> "low"]
        new == [type |-> type, mod |-> n \notin lost,
                prio |-> IF type = "VPL" THEN LIB_PRIORITY_01 ELSE LIB_PRIORITY_LEGACY,
                freed |-> n \in lost \/ (i \in DOMAIN L.libs /\ L.libs[i].freed)]
    IN  [L EXCEPT
           !.libs = Table([j \in DOMAIN L.libs \cup {i} |-> IF j = i THEN new ELSE L.libs[j]]),
           !.lpos = IF i \in DOMAIN L.libs THEN @ ELSE PushBack(@, [j \in {i} |-> 1]),
           !.dl   = Table([m \in Names |-> IF m = n /\ m \notin lost THEN L.dl[m] + 1 ELSE L.dl[m]])]

PushLowLibs(L, S, type, lost) ==
    IF S = {} THEN L ELSE PushLowLib(L, CHOOSE n \in S : TRUE, type, lost)

\* The VPL runtime, or else the MSDK runtime, whose name then replaces the
\* ImplName of every config object.  bad: AddSingleLibrary cannot open the
\* library and does not list it; late: it cannot be opened again.  On
\* success, and only then, needLow becomes FALSE.
LoadLibsLowLatency(L, bad, late) ==
    LET lost == late \cup {n \in LowMSDK : "MSDK" \notin Runtime[n].exports}
        V == PushLowLibs(L, LowVPL \ bad, "VPL", late)
        M == PushLowLibs(V, LowMSDK \ bad, "MSDK", lost)
    IN  IF LowVPL \ (bad \cup late) # {} THEN [V EXCEPT !.needLow = FALSE]
        ELSE IF LowMSDK \ (bad \cup lost) # {}
        THEN [M EXCEPT !.needLow = FALSE,
                       !.cfgs = [c \in DOMAIN @ |-> SetFilterProperty(@[c], "ImplName", "mfxhw64")]]
        ELSE M

-----------------------------------------------------------------------------
(***************************************************************************)
(* The API                                                                 *)
(***************************************************************************)

\* A call that runs into a fault never returns; nothing happens after it.
Commit(L) == ld' = IF L.fault = "none" THEN L ELSE [ld EXCEPT !.fault = L.fault]

Return(call, sts, i, x) == ret' = [call |-> call, sts |-> sts, idx |-> i, impl |-> x]

Ready == ld.live /\ ld.fault = "none"

\* dlopen of a library that the process has open does not fail.
MayFail == {n \in Flaky : ld.dl[n] = 0}

UnderHandleBound == \A n \in Names : ld.dl[n] < MaxHandles

\* (mfxI32)idx
Signed(i) == IF i > MaxU \div 2 THEN i - (MaxU + 1) ELSE i

\* The first ImplInfo on the list with this index.
Lookup(L, i) ==
    {x \in DOMAIN L.impls :
        /\ L.impls[x].idx = Signed(i)
        /\ \A y \in DOMAIN L.impls : L.impls[y].idx = Signed(i) => L.ipos[x] <= L.ipos[y]}

Indices == (0 .. MaxIdx) \cup {MaxU}

MFXLoad ==
    /\ ~ld.live /\ ld.fault = "none"
    /\ ld' = NewLoader(ld.dl, TRUE)
    /\ Return("MFXLoad", "NONE", 0, NoImpl)
    /\ held' = {}

MFXUnload ==
    /\ Ready
    /\ LET U == UnloadAllLibraries(ld)
       IN  Commit(IF U.fault = "none" THEN NewLoader(U.dl, FALSE) ELSE U)
    /\ held' = {}
    /\ Return("MFXUnload", "NONE", 0, NoImpl)

MFXCreateConfig ==
    /\ Ready /\ Len(ld.cfgs) < MaxConfigs
    /\ ld' = [ld EXCEPT !.cfgs = Append(@, EmptyConfig)]
    /\ Return("MFXCreateConfig", "NONE", 0, NoImpl)
    /\ UNCHANGED held

\* Mutant: the list is not marked for an update.
SetWithoutUpdate(c, p, v) ==
    /\ Ready /\ c \in DOMAIN ld.cfgs
    /\ LET cfgs == [ld.cfgs EXCEPT ![c] = SetFilterProperty(@, p, v)]
       IN  /\ ld' = [ld EXCEPT !.cfgs = cfgs, !.low = CheckLowLatencyConfig(cfgs)]
           /\ held' = {[e EXCEPT !.fresh = FALSE] : e \in held}
           /\ Return("MFXSetConfigFilterProperty", SetPropStatus(p, v), 0, NoImpl)

\* An error return leaves the flags of the loader alone, also when the
\* property has been unset.
MFXSetConfigFilterProperty(c, p, v) ==
    /\ Ready /\ c \in DOMAIN ld.cfgs
    /\ LET cfgs == [ld.cfgs EXCEPT ![c] = SetFilterProperty(@, p, v)]
           sts  == SetPropStatus(p, v)
       IN  /\ ld' = IF sts = "NONE"
                    THEN [ld EXCEPT !.cfgs = cfgs, !.needUpdate = TRUE,
                                    !.low = CheckLowLatencyConfig(cfgs)]
                    ELSE [ld EXCEPT !.cfgs = cfgs]
           /\ held' = {[idx |-> e.idx, impl |-> e.impl, fresh |-> e.fresh /\ sts # "NONE"] : e \in held}
           /\ Return("MFXSetConfigFilterProperty", sts, 0, NoImpl)

\* The filters are applied when they have changed.
Filtered(Q) ==
    IF Q.needFull \/ Q.fault # "none" THEN [L |-> Q, ok |-> FALSE]
    ELSE [L |-> IF Q.needUpdate THEN UpdateValidImplList(Q) ELSE Q, ok |-> TRUE]

\* Mutant: filters are only applied right after the query.
FullQueryNoUpdate(L, bad) ==
    IF ~L.needFull THEN [L |-> L, ok |-> TRUE]
    ELSE Filtered(FullLoadAndQuery(L, bad))

\* Full load and query if it has not succeeded yet, then the filters: the
\* loader L brought up to date, and whether its list can be used.
FullQuery(L, bad) == Filtered(IF L.needFull THEN FullLoadAndQuery(L, bad) ELSE L)

\* Mutant: the enumeration ignores the filters.
EnumQueryNoFilter(bad) ==
    LET Q == IF ld.needFull THEN FullLoadAndQuery(ld, bad) ELSE ld
    IN  [L |-> Q, ok |-> ~Q.needFull]

\* MFXEnumImplementations unloads what a low-latency session has loaded.
EnumQuery(bad) ==
    FullQuery(IF ld.needFull /\ ld.low /\ ~ld.needLow THEN UnloadAllLibraries(ld) ELSE ld, bad)

LowQueryLoaded(V) ==
    LET ok(Q) == [L |-> Q, ok |-> DOMAIN Q.impls # {}]
    IN  IF V.needLow THEN [L |-> V, ok |-> FALSE] ELSE ok(QueryLibraryCaps(V))

\* Mutant: what was loaded before is unloaded first.
LowQueryUnloads(bad, late) ==
    IF ~ld.needLow THEN [L |-> ld, ok |-> TRUE]
    ELSE LowQueryLoaded(LoadLibsLowLatency(UnloadAllLibraries(ld), bad, late))

\* Low latency: load and query once, without filters.
LowQuery(bad, late) ==
    IF ~ld.needLow THEN [L |-> ld, ok |-> TRUE]
    ELSE LowQueryLoaded(LoadLibsLowLatency(ld, bad, late))

MFXEnumImplementations(i) ==
    /\ Ready /\ UnderHandleBound
    /\ \E bad \in SUBSET MayFail : \E Q \in {EnumQuery(bad)} :
        LET found == IF Q.ok THEN Lookup(Q.L, i) ELSE {}
        IN  /\ Commit(Q.L)
            /\ IF Q.L.fault # "none" \/ found = {}
               THEN /\ Return("MFXEnumImplementations", "NOT_FOUND", i, NoImpl)
                    /\ UNCHANGED held
               ELSE \E x \in found :
                    /\ Return("MFXEnumImplementations",
                              IF Q.L.impls[x].known THEN "NONE" ELSE "UNSUPPORTED", i, x)
                    /\ \/ UNCHANGED held
                       \/ /\ Q.L.impls[x].known
                          /\ held' = {[idx |-> i, impl |-> x, fresh |-> TRUE]}

\* CreateSession: low latency did no filtering, so the API version is
\* checked here.  The runtime may refuse to initialize the session.
MFXCreateSession(i) ==
    /\ Ready /\ UnderHandleBound
    /\ \E bad \in SUBSET MayFail, late \in SUBSET {n \in MayFail : ld.low} :
       \E Q \in {IF ld.low THEN LowQuery(bad, late) ELSE FullQuery(ld, bad)} :
        LET req == LastSet(Q.L.cfgs, "ApiVersion")
            found == IF Q.ok THEN Lookup(Q.L, i) ELSE {}
        IN  /\ Commit(IF \E x \in found : x.lib \notin DOMAIN Q.L.libs
                      THEN Fault(Q.L, "freed") ELSE Q.L)
            /\ IF Q.L.fault # "none" \/ found = {}
               THEN Return("MFXCreateSession", "NOT_FOUND", i, NoImpl)
               ELSE \E x \in found, init \in {"NONE", "DEVICE_FAILED"} :
                      Return("MFXCreateSession",
                             IF Q.L.low /\ req # Unset /\ ImplVersion(x) < req
                             THEN "NOT_FOUND" ELSE init, i, x)
    /\ UNCHANGED held

\* h is a description the application holds, or NoImpl for a handle that is
\* not one of this loader's.  The loop does not advance at an entry without
\* description.
ReleaseStatus(L, h) ==
    LET match == DOMAIN L.impls \cap {h}
        blank == {x \in DOMAIN L.impls : ~L.impls[x].known}
    IN  IF \E x \in blank : \A m \in match : L.ipos[x] <= L.ipos[m] THEN "hang"
        ELSE IF match # {} THEN "NONE" ELSE "INVALID_HANDLE"

MFXDispReleaseImplDescription(h) ==
    /\ Ready
    /\ LET sts == ReleaseStatus(ld, h)
       IN  /\ ld' = IF sts = "hang" THEN Fault(ld, "hang") ELSE ld
           /\ held' = {e \in held : e.impl # h}
           /\ Return("MFXDispReleaseImplDescription", sts, 0, h)

Init ==
    /\ ld = NewLoader([n \in Names |-> 0], FALSE)
    /\ held = {}
    /\ ret = [call |-> "none", sts |-> "NONE", idx |-> 0, impl |-> NoImpl]

Next ==
    \/ MFXLoad
    \/ MFXUnload
    \/ MFXCreateConfig
    \/ \E c \in 1 .. MaxConfigs, p \in DOMAIN Values :
         \E v \in Values[p] : MFXSetConfigFilterProperty(c, p, v)
    \/ \E i \in Indices : MFXEnumImplementations(i)
    \/ \E i \in Indices : MFXCreateSession(i)
    \/ \E h \in {e.impl : e \in held} \cup {NoImpl} : MFXDispReleaseImplDescription(h)

Spec == Init /\ [][Next]_vars

-----------------------------------------------------------------------------
(***************************************************************************)
(* Properties                                                              *)
(***************************************************************************)

Running == ld.fault = "none"

LibRecords  == [type : {"none", "VPL", "MSDK"}, prio : Nat, mod : BOOLEAN, freed : BOOLEAN]
ImplRecords == [known : BOOLEAN, idx : Int]

LibsType(libs, lpos) ==
    /\ DOMAIN libs \subseteq LibIds /\ \A i \in DOMAIN libs : libs[i] \in LibRecords
    /\ IsList(lpos) /\ DOMAIN lpos = DOMAIN libs

ImplsType(impls, ipos) ==
    /\ DOMAIN impls \subseteq ImplIds /\ \A x \in DOMAIN impls : impls[x] \in ImplRecords
    /\ \A x \in DOMAIN impls : impls[x].known => x.num \in DOMAIN Runtime[x.lib.name].caps
    /\ IsList(ipos) /\ DOMAIN ipos = DOMAIN impls

\* The type of a loader context.
CtxType(L) ==
    /\ L.fault \in Faults
    /\ L.live \in BOOLEAN /\ L.low \in BOOLEAN /\ L.needUpdate \in BOOLEAN
    /\ L.needFull \in BOOLEAN /\ L.needLow \in BOOLEAN
    /\ LibsType(L.libs, L.lpos)
    /\ ImplsType(L.impls, L.ipos)
    /\ L.next \in Nat
    /\ L.dl \in [Names -> Int]

\* The two lists hold exactly the LibInfos and the ImplInfos of the loader,
\* each once, after every sequence of push_back, erase, sort and splice.
TypeOK == CtxType(ld)

\* An index the application passes means at most one implementation, in
\* whatever order filters were set, lists queried and sessions created
\* (validImplIdx, m_implIdxNext).
UniqueIndices ==
    \A x, y \in Valid(ld.impls) : ld.impls[x].idx = ld.impls[y].idx => x = y

\* MFXEnumImplementations(0), (1), ... reach every valid implementation that
\* has a description, in list order, before the first MFX_ERR_NOT_FOUND.
DenseIndices ==
    ~ld.needUpdate =>
        \A x \in Valid(ld.impls) :
            ld.impls[x].known => ld.impls[x].idx = CountBefore(ld.ipos, Valid(ld.impls), x)

\* The priority rules of the specification: hardware first, then general
\* hardware before VSI, then the API version, then the search path;
\* ONEVPL_PRIORITY_PATH before all.
Worse(L, x, y) ==
    LET prio(e) == L.libs[e.lib].prio
        vsi(e)  == Desc(e).AccelerationMode = MFX_ACCEL_MODE_VIA_HDDLUNITE
    IN  \/ prio(y) = LIB_PRIORITY_SPECIAL /\ prio(x) # LIB_PRIORITY_SPECIAL
        \/ /\ prio(x) # LIB_PRIORITY_SPECIAL /\ prio(y) # LIB_PRIORITY_SPECIAL
           /\ \/ Desc(x).Impl < Desc(y).Impl
              \/ /\ Desc(x).Impl = Desc(y).Impl
                 /\ \/ vsi(x) /\ ~vsi(y)
                    \/ /\ vsi(x) <=> vsi(y)
                       /\ \/ Desc(x).ApiVersion < Desc(y).ApiVersion
                          \/ /\ Desc(x).ApiVersion = Desc(y).ApiVersion
                             /\ prio(x) > prio(y)

\* A session created with a smaller index is never worse.
PriorityOrder ==
    Running /\ ~ld.needUpdate =>
        \A x, y \in Valid(ld.impls) :
            ld.impls[x].known /\ ld.impls[y].known /\ ld.impls[x].idx < ld.impls[y].idx
                => ~Worse(ld, x, y)

\* An implementation that MFXEnumImplementations reports matches every
\* filter property that is set.
FilterSound ==
    Running /\ ~ld.needUpdate =>
        \A x \in Valid(ld.impls) : ld.impls[x].known => ValidateConfig(ld.cfgs, Desc(x))

\* A session created with an index is created on the implementation that
\* MFXEnumImplementations reported for this index, if no filter was set in
\* between.
SessionIsEnumerated ==
    Running /\ ret.call = "MFXCreateSession" /\ ret.sts = "NONE" =>
        \A e \in held : e.fresh /\ e.idx = ret.idx => e.impl = ret.impl

\* A description handed to the application stays valid until it is released
\* or the loader is unloaded: the full query that replaces a low-latency
\* list never frees one (MFXEnumImplementations, UnloadAllLibraries).
DescriptionsLive ==
    Running => \A e \in held : e.impl \in DOMAIN ld.impls /\ ld.impls[e.impl].known

\* The loader holds one module handle per open LibInfo; MFXUnload leaves none.
HandleBalance ==
    Running => \A n \in Names : ld.dl[n] = Cardinality(OpenIn(ld, DOMAIN ld.libs, n))

\* No call crashes or fails to return.
NoFault == Running

\* A session is created on an implementation that matches every filter set
\* at that time: the list of valid implementations is updated every time a
\* filter property is added or modified (CreateSession).  Indices above the
\* largest mfxI32 are left out: their cast finds entries that were excluded.
SessionMatchesFilters ==
    Running /\ ret.call = "MFXCreateSession" /\ ret.sts = "NONE" /\ Signed(ret.idx) >= 0 =>
        ValidateConfig(ld.cfgs, Desc(ret.impl))

\* If a device is served by a VPL hardware runtime and by an MSDK runtime,
\* only the VPL one is offered, unless D3D9 is requested (QueryLibraryCaps).
OneRuntimePerDevice ==
    Running /\ ~ld.needUpdate /\ LastSet(ld.cfgs, "AccelerationMode") # MFX_ACCEL_MODE_VIA_D3D9 =>
        \A x, y \in Valid(ld.impls) :
            /\ ld.impls[x].known /\ ld.impls[y].known
            /\ IsVPL(ld, x) /\ Desc(x).Impl = MFX_IMPL_TYPE_HARDWARE
            /\ Desc(x).DeviceID = Desc(y).DeviceID
            => IsVPL(ld, y)

\* A further filter never changes which of two remaining implementations is
\* preferred: the sorts and the splices are repeated at every update.
StableRanking ==
    [][ld'.live /\ ~ld.needFull =>
        \A x, y \in Valid(ld.impls) \cap Valid(ld'.impls) :
            ld.impls[x].idx < ld.impls[y].idx => ld'.impls[x].idx < ld'.impls[y].idx]_vars

\* A filter property that is set again replaces the earlier value: an
\* implementation that matches all filters is offered (MFXSetConfigFilterProperty,
\* UpdateValidImplList).
FilterComplete ==
    Running /\ ~ld.needUpdate =>
        \A x \in DOMAIN ld.impls :
            ld.impls[x].known /\ IsVPL(ld, x) /\ ValidateConfig(ld.cfgs, Desc(x))
                => ld.impls[x].idx >= 0

-----------------------------------------------------------------------------
(***************************************************************************)
(* The inductive invariant behind TypeOK, UniqueIndices, DescriptionsLive. *)
(***************************************************************************)

\* The next index is above every index in use, and not below the number of
\* implementations, so that renumbering the valid ones stays below it.
IndexInv(impls, next) ==
    /\ \A x \in DOMAIN impls : impls[x].idx < next
    /\ Cardinality(DOMAIN impls) <= next
    /\ \A x, y \in Valid(impls) : impls[x].idx = impls[y].idx => x = y

\* An ImplInfo of the full query is listed only after that query succeeded,
\* one of the low-latency query only after the low-latency libraries loaded.
PhaseInv(L) ==
    \A x \in DOMAIN L.impls : (x.low => ~L.needLow) /\ (~x.low => ~L.needFull)

\* The application holds descriptions of listed entries, of a full query.
HeldInv ==
    \A e \in held : ~ld.needFull /\ e.impl \in DOMAIN ld.impls /\ ld.impls[e.impl].known

-----------------------------------------------------------------------------
(***************************************************************************)
(* What it takes more for PriorityOrder, DenseIndices, FilterSound,        *)
(* SessionMatchesFilters, SessionIsEnumerated and StableRanking.           *)
(***************************************************************************)

\* The full query lists MSDK libraries that can make a session, and entries
\* with a description; what the low-latency search listed before it succeeded
\* is freed, and has no entry.
LibInv(L) ==
    /\ \A i \in DOMAIN L.libs :
        /\ i.origin = "search" =>
             ~L.libs[i].freed /\ (L.libs[i].type = "MSDK" => Runtime[i.name].session)
        /\ i.origin = "low" /\ L.needLow => L.libs[i].freed
    /\ \A x \in DOMAIN L.impls :
        (L.needLow => x.lib.origin = "search") /\ (~x.low => L.impls[x].known)

\* After the full query the list is sorted, and the indices follow it.
SortedInv(L) ==
    ~L.needFull =>
        /\ ~HasFreedImpl(L)
        /\ \A x, y \in DOMAIN L.impls :
             L.impls[x].known /\ L.impls[y].known /\ Worse(L, x, y) => L.ipos[y] < L.ipos[x]
        /\ \A x, y \in Valid(L.impls) :
             L.impls[x].idx < L.impls[y].idx => L.ipos[x] < L.ipos[y]

\* An up-to-date list has been queried in full, and numbered without gaps.
DenseInv(L) ==
    ~L.needUpdate =>
        /\ ~L.needFull
        /\ \A x \in Valid(L.impls) :
             L.impls[x].known => L.impls[x].idx = CountBefore(L.ipos, Valid(L.impls), x)

\* An up-to-date list is filtered: by all filters, unless the low-latency
\* query has replaced the implementation name.
MatchInv(L) ==
    ~L.needUpdate =>
        \A x \in Valid(L.impls) :
            /\ ~L.low \/ L.needLow => L.impls[x].known
            /\ (~L.low \/ L.needLow \/ LowMSDK = {}) /\ L.impls[x].known
                 => ValidateConfig(L.cfgs, Desc(x))

\* The index of a description still finds it while no filter is set.
FreshInv ==
    \A e \in held : e.fresh => ~ld.needUpdate /\ e.impl \in Lookup(ld, e.idx)

RankInv == LibInv(ld) /\ SortedInv(ld) /\ DenseInv(ld) /\ MatchInv(ld) /\ FreshInv

\* What every call preserves: indices are unique because new ones are taken
\* above all old ones, descriptions stay because nothing is queried or
\* unloaded twice, and a list that is not due for an update has been sorted,
\* filtered and numbered after the last change.
IndInv ==
    CtxType(ld) /\ IndexInv(ld.impls, ld.next) /\ PhaseInv(ld) /\ HeldInv /\ RankInv
=============================================================================
