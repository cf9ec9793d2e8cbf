---------------------------- MODULE CodecFilter ----------------------------
(***************************************************************************)
(* One call of ConfigCtxVPL::ValidateConfig: the capabilities that a       *)
(* library describes as nested lists (codec, profile, memory type, colour  *)
(* format) are flattened into one list of combinations per kind, then each *)
(* config object in turn is compared with them.                            *)
(*                                                                         *)
(* A nested list is a sequence of nodes [props, sub]: props maps the       *)
(* property names of the node's level to their values, sub is the nested   *)
(* list below it.  A config object maps each kind of property to a         *)
(* function whose domain is the set of properties that were set; bit masks *)
(* are sets.  The build is the one with ONEVPL_EXPERIMENTAL.               *)
(***************************************************************************)
EXTENDS Integers, Sequences, FiniteSetsExt, TLC

CONSTANTS
    Null,        \* a structure the library does not provide
    Libs,        \* the descriptions to validate, a sequence
    Configs,     \* the config objects an application can make, a sequence
    MaxConfigs,  \* bound on the number of config objects of the loader
    MaxLength    \* length of the longest list in a description

VARIABLES
    lib,         \* libImplDesc, libImplFuncs, libImplExtDevID, libImplSurfTypes, libType
    cfgs,        \* configCtxList
    list,        \* number of the list being flattened, then Len(Lists) + 1
    idx,         \* codecIdx, profileIdx, memIdx, outFmtIdx and their like
    flat,        \* decConfigList, encConfigList, vppConfigList, surfaceConfigList
    next,        \* the config object the loop is at
    requested,   \* decRequested, encRequested, vppRequested, ...
    valid,       \* bImplValid
    version,     \* reqVersion, Major and Minor Null as long as they are not set
    functions,   \* implFunctionList
    special,     \* *specialConfig
    result       \* the status returned, Null before

vars == <<lib, cfgs, list, idx, flat, next, requested, valid, version, functions, special, result>>

Lists == <<"dec", "enc", "vpp", "surface">>
Kinds == {"dec", "enc", "vpp", "surface", "ext"}

\* Levels of nesting; every list is flattened by its own GetFlatDescriptions.
Depth == [dec |-> 4, enc |-> 4, vpp |-> 4, surface |-> 2]

\* The list below node i of a list; empty if i is past its end.
Sub(nodes, i) == IF i < Len(nodes) THEN nodes[i + 1].sub ELSE << >>

\* The nested list at level k, below the nodes that the indices x choose.
ListAt(tree, x, k) ==
    CASE k = 1 -> tree
      [] k = 2 -> Sub(tree, x[1])
      [] k = 3 -> Sub(Sub(tree, x[1]), x[2])
      [] k = 4 -> Sub(Sub(Sub(tree, x[1]), x[2]), x[3])

NodeAt(tree, x, k) == ListAt(tree, x, k)[x[k] + 1]

\* dc, ec, vc, sc: the properties of the nodes on one path.
Levels(kind, x) == [k \in 1 .. Depth[kind] |-> NodeAt(lib.tree[kind], x, k).props]

Merge(api, props) ==
    [p \in UNION {DOMAIN props[k] : k \in DOMAIN props} |->
        IF p = "ReportedStats" /\ api < 65536 * 2 + 7
        THEN {}
        ELSE props[CHOOSE k \in DOMAIN props : p \in DOMAIN props[k]][p]]

Combination(kind, x) == Merge(lib.api, Levels(kind, x))

\* The lists of a description have at most MaxLength nodes.
ASSUME DescriptionAssumption ==
    /\ MaxLength \in Nat /\ MaxConfigs \in Nat /\ Null \notin {"NONE", "UNSUPPORTED"}
    /\ \A d \in Range(Libs) : \A kind \in Range(Lists) :
          d.tree[kind] # Null =>
             \A x \in [1 .. 4 -> 0 .. MaxLength] : \A k \in 1 .. Depth[kind] :
                Len(ListAt(d.tree[kind], x, k)) \in 0 .. MaxLength
    /\ \A cfg \in Range(Configs) : cfg.functions \in Seq(STRING)

-----------------------------------------------------------------------------
\* Width and Height are ranges, ReportedStats and SurfaceFlags bit masks.
Fits(p, want, have) ==
    CASE p \in {"Width", "Height"} ->
            want.Max <= have.Max /\ want.Min >= have.Min /\ want.Step >= have.Step
      [] p \in {"ReportedStats", "SurfaceFlags"} -> want \subseteq have
      [] OTHER -> want = have

\* CHECK_PROP over the properties that were set.
Meets(want, desc) == \A p \in DOMAIN want : Fits(p, want[p], desc[p])

\* CheckPropsDec, CheckPropsEnc, CheckPropsVPP, CheckPropsSurface: one
\* combination has to have all the properties.
CheckProps(want, combinations) == \E d \in combinations : Meets(want, d)

\* A LUID counts only if LUIDValid, a render node only if it is not 0.  The
\* primary node is compared unless the render node is 0x7FFFFFFF.
CheckPropsExtDevID(want, ext) ==
    /\ Meets(want, ext)
    /\ DOMAIN want \cap {"DeviceLUID", "LUIDDeviceNodeMask"} # {} => ext.LUIDValid
    /\ "DRMRenderNodeNum" \in DOMAIN want => ext.DRMRenderNodeNum # 0
    /\ "DRMPrimaryNodeNum" \in DOMAIN want => ext.DRMRenderNodeNum # 2147483647

\* Mutant: cfgPropsAll is kept over the config objects.
CfgPropsAccumulate(c) ==
    [kind \in DOMAIN cfgs[c] |->
        [p \in UNION {DOMAIN cfgs[b][kind] : b \in 1 .. c} |->
            LET set == {b \in 1 .. c : p \in DOMAIN cfgs[b][kind]}
            IN  cfgs[Max(set)][kind][p]]]

\* cfgPropsAll, built anew for every config object.
CfgProps(c) == cfgs[c]

\* The flags are set by a config object that sets a property of the kind,
\* and stay set for the config objects after it.
Asked(want, kind) == requested[kind] \/ DOMAIN want[kind] # {}

\* The checks of one pass of the loop over the config objects.
PassesChecks(want) ==
    /\ Meets(want.main, lib.main)
    /\ Asked(want, "ext") => lib.ext # Null /\ CheckPropsExtDevID(want.ext, lib.ext)
    /\ Asked(want, "surface") => /\ lib.tree.surface # Null
                                 /\ CheckProps(want.surface, Range(flat.surface))
    /\ \/ lib.msdk
       \/ \A kind \in {"dec", "enc", "vpp"} :
             Asked(want, kind) => CheckProps(want[kind], Range(flat[kind]))

\* ApiVersion as one property, or Major and Minor, in separate objects even.
ReqVersion(want) ==
    IF "Version" \in DOMAIN want
    THEN [Major |-> want.Version.Major, Minor |-> want.Version.Minor]
    ELSE [v \in {"Major", "Minor"} |-> IF v \in DOMAIN want THEN want[v] ELSE version[v]]

\* The last object that sets a property decides, extension buffers add up.
SpecialConfig(want) ==
    [v \in {"NumThread", "DeviceCopy"} |-> IF v \in DOMAIN want THEN want[v] ELSE special[v]]
    @@ [ExtBuffers |-> IF "ExtBuffer" \in DOMAIN want
                       THEN Append(special.ExtBuffers, want.ExtBuffer)
                       ELSE special.ExtBuffers]

-----------------------------------------------------------------------------
NoProps == [p \in {} |-> 0]

Init ==
    /\ lib \in Range(Libs)
    /\ cfgs \in UNION {[1 .. n -> Range(Configs)] : n \in 0 .. MaxConfigs}
    /\ list = 1
    /\ idx = [k \in 1 .. 4 |-> 0]
    /\ flat = [kind \in Range(Lists) |-> << >>]
    /\ next = 1
    /\ requested = [kind \in Kinds |-> FALSE]
    /\ valid = TRUE
    /\ version = [Major |-> Null, Minor |-> Null]
    /\ functions = << >>
    /\ special = [NumThread |-> Null, DeviceCopy |-> Null, ExtBuffers |-> << >>]
    /\ result = Null

Flattening == list <= Len(Lists)
Tree       == IF lib.tree[Lists[list]] = Null THEN << >> ELSE lib.tree[Lists[list]]

\* The levels above k have an entry at their index.
Inside(k) == \A j \in 2 .. k : idx[j] < Len(ListAt(Tree, idx, j))

\* CHECK_IDX: the list at level k + 1 has come to its end.
CheckIdx(k) ==
    /\ Flattening
    /\ k < Depth[Lists[list]]
    /\ idx[1] < Len(Tree)
    /\ Inside(k)
    /\ idx[k + 1] = Len(ListAt(Tree, idx, k + 1))
    /\ idx' = [idx EXCEPT ![k] = @ + 1, ![k + 1] = 0]
    /\ UNCHANGED <<lib, cfgs, list, flat, next, requested, valid, version, functions, special, result>>

\* A combination of all levels is complete.
PushCombination ==
    /\ Flattening
    /\ idx[1] < Len(Tree)
    /\ Inside(Depth[Lists[list]])
    /\ flat' = [flat EXCEPT ![Lists[list]] = Append(@, Combination(Lists[list], idx))]
    /\ idx' = [idx EXCEPT ![Depth[Lists[list]]] = @ + 1]
    /\ UNCHANGED <<lib, cfgs, list, next, requested, valid, version, functions, special, result>>

\* GetFlatDescriptions returns; ValidateConfig ignores its status.
ListFlat ==
    /\ Flattening
    /\ idx[1] = Len(Tree)
    /\ list' = list + 1
    /\ idx' = [k \in 1 .. 4 |-> 0]
    /\ UNCHANGED <<lib, cfgs, flat, next, requested, valid, version, functions, special, result>>

\* Mutant: the loop breaks off at the first mismatch.
CheckConfigBreaks ==
    /\ valid
    /\ ~Flattening
    /\ next <= Len(cfgs)
    /\ \E want \in {CfgProps(next)} :
         /\ next' = IF PassesChecks(want) THEN next + 1 ELSE Len(cfgs) + 1
         /\ requested' = [kind \in Kinds |-> Asked(want, kind)]
         /\ valid' = PassesChecks(want)
         /\ version' = IF valid' THEN ReqVersion(want.version) ELSE version
         /\ special' = IF valid' THEN SpecialConfig(want.special) ELSE special
         /\ functions' = functions \o want.functions
    /\ UNCHANGED <<lib, cfgs, list, idx, flat, result>>

\* One pass of the loop over the config objects.
CheckConfig ==
    /\ ~Flattening
    /\ next <= Len(cfgs)
    /\ next' = next + 1
    /\ \E want \in {CfgProps(next)} :
         /\ requested' = [kind \in Kinds |-> Asked(want, kind)]
         /\ valid' = (valid /\ PassesChecks(want))
         /\ version' = ReqVersion(want.version)
         /\ special' = SpecialConfig(want.special)
         /\ functions' = functions \o want.functions
    /\ UNCHANGED <<lib, cfgs, list, idx, flat, result>>

\* The minimum version and the required functions, after the loop.
VersionMet   == \/ Null \in {version.Major, version.Minor}
                \/ lib.api >= 65536 * version.Major + version.Minor
FunctionsMet == \/ functions = << >>
                \/ lib.functions # Null /\ Range(functions) \subseteq lib.functions

Finish ==
    /\ ~Flattening
    /\ next = Len(cfgs) + 1
    /\ result = Null
    /\ result' = IF valid /\ VersionMet /\ FunctionsMet THEN "NONE" ELSE "UNSUPPORTED"
    /\ UNCHANGED <<lib, cfgs, list, idx, flat, next, requested, valid, version, functions, special>>

Next ==
    \/ \E k \in 1 .. 3 : CheckIdx(k)
    \/ PushCombination
    \/ ListFlat
    \/ CheckConfig
    \/ Finish

Spec == Init /\ [][Next]_vars /\ WF_vars(Next)

-----------------------------------------------------------------------------
\* Every path through a nested list.
Paths(kind) ==
    IF lib.tree[kind] = Null THEN {}
    ELSE {x \in [1 .. Depth[kind] -> 0 .. MaxLength] :
            \A k \in 1 .. Depth[kind] : x[k] < Len(ListAt(lib.tree[kind], x, k))}

Combinations(kind) == {Combination(kind, x) : x \in Paths(kind)}

\* The config objects among the first n that set part v of the API version.
Setters(v, n) == {c \in 1 .. n : DOMAIN cfgs[c].version \cap {"Version", v} # {}}

\* The part of the version that the last of them sets.
VersionPart(v, n) ==
    LET c == Max(Setters(v, n))
    IN  IF Setters(v, n) = {} THEN Null
        ELSE IF "Version" \in DOMAIN cfgs[c].version THEN cfgs[c].version.Version[v]
        ELSE cfgs[c].version[v]

\* What a config object asks of the descriptions, whatever the other ones ask.
Described(cfg) ==
    /\ Meets(cfg.main, lib.main)
    /\ DOMAIN cfg.ext # {} => lib.ext # Null /\ CheckPropsExtDevID(cfg.ext, lib.ext)
    /\ \A kind \in Range(Lists) :
         \/ DOMAIN cfg[kind] = {}
         \/ lib.msdk /\ kind # "surface"
         \/ \E d \in Combinations(kind) : Meets(cfg[kind], d)

VersionProvided ==
    LET major == VersionPart("Major", Len(cfgs))
        minor == VersionPart("Minor", Len(cfgs))
    IN  Null \in {major, minor} \/ lib.api >= 65536 * major + minor

Provided(cfg) == \A f \in Range(cfg.functions) : lib.functions # Null /\ f \in lib.functions

(***************************************************************************)
(* A library is valid exactly if every config object by itself is met by   *)
(* one combination of its capabilities, and the version that the last      *)
(* settings of Major and Minor add up to is not above the library's: no    *)
(* combination is lost or made up by the flattening loops when lists are   *)
(* empty, and the flags that stay set from one config object to the next   *)
(* do not matter (GetFlatDescriptionsDec, ..., ValidateConfig).            *)
(***************************************************************************)
ValidMeansSatisfied ==
    result # Null =>
        (result = "NONE" <=>
            VersionProvided /\ \A c \in 1 .. Len(cfgs) : Described(cfgs[c]) /\ Provided(cfgs[c]))

(***************************************************************************)
(* The call ends, and also for a library found invalid on the way it hands *)
(* back the non-filtering properties of all config objects: the last       *)
(* NumThread and DeviceCopy and every extension buffer (specialConfig).    *)
(***************************************************************************)
LastSpecial(p) ==
    LET set == {c \in 1 .. Len(cfgs) : p \in DOMAIN cfgs[c].special}
    IN  IF set = {} THEN Null
        ELSE cfgs[Max(set)].special[p]

SpecialComplete ==
    <>(/\ result # Null
       /\ special.NumThread = LastSpecial("NumThread")
       /\ special.DeviceCopy = LastSpecial("DeviceCopy")
       /\ Len(special.ExtBuffers) =
             Len(SelectSeq(cfgs, LAMBDA cfg : "ExtBuffer" \in DOMAIN cfg.special)))
=============================================================================
