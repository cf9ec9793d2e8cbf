---------------------------- MODULE ConfigFilter ----------------------------
(***************************************************************************)
(* Config objects (ConfigCtxVPL) of a loader: setting filter properties,   *)
(* matching an implementation description against every config object, and *)
(* deciding whether the properties ask for low-latency session creation.   *)
(*                                                                         *)
(* A config object is a function from property names to values.  Keywords  *)
(* stands for the tokenised string properties (License, Keywords): a value *)
(* is the set of its tokens.  NumThread stands for the non-filtering       *)
(* properties (mfxHandleType, mfxHDL, NumThread, DeviceCopy, ExtBuffer).   *)
(***************************************************************************)
EXTENDS Integers, Sequences

CONSTANTS
    Unset,      \* MFX_VARIANT_TYPE_UNSET
    NullPtr,    \* a MFX_VARIANT_TYPE_PTR value whose pointer is null
    WrongType   \* a value whose type is not the property's type

PtrProps     == {"ImplName", "Keywords"}
FilterProps  == {"Impl", "VendorID", "AccelerationMode", "ApiVersion"} \cup PtrProps
SpecialProps == {"NumThread"}
Props        == FilterProps \cup SpecialProps

\* mfxImplType; the order of the numbers is the order of preference
MFX_IMPL_TYPE_SOFTWARE == 1
MFX_IMPL_TYPE_HARDWARE == 2

\* mfxVersion: Major in the high half, Minor in the low half
Version(major, minor) == 65536 * major + minor

\* ConfigCtxVPL::ConfigCtxVPL
EmptyConfig == [p \in Props |-> Unset]

(***************************************************************************)
(* ValidateAndSetProp: a value of the wrong type leaves the property as it *)
(* was, a null pointer unsets it, and both report an error.                *)
(***************************************************************************)
SetPropStatus(p, v) ==
    CASE p \notin Props                   -> "NOT_FOUND"
      [] p \in Props /\ v = WrongType     -> "UNSUPPORTED"
      [] p \in Props /\ v = NullPtr       -> "NULL_PTR"
      [] OTHER                            -> "NONE"

SetFilterProperty(cfg, p, v) ==
    CASE p \notin Props \/ v = WrongType  -> cfg
      [] p \in Props /\ v = NullPtr       -> [cfg EXCEPT ![p] = Unset]
      [] OTHER                            -> [cfg EXCEPT ![p] = v]

\* The last (most recent) config object that sets p decides.
LastSet(cfgs, p) ==
    LET set == {c \in 1 .. Len(cfgs) : cfgs[c][p] # Unset}
    IN  IF set = {} THEN Unset
        ELSE cfgs[CHOOSE c \in set : \A b \in set : b <= c][p]

(***************************************************************************)
(* One config object against one mfxImplDescription.  An empty mode table  *)
(* means that only the default acceleration mode is compared.              *)
(***************************************************************************)
CheckPropsGeneral(cfg, desc) ==
    /\ cfg["Impl"] \in {Unset, desc.Impl}
    /\ cfg["VendorID"] \in {Unset, desc.VendorID}
    /\ \/ cfg["AccelerationMode"] = Unset
       \/ /\ desc.modes # {}
          /\ cfg["AccelerationMode"] \in desc.modes
       \/ /\ desc.modes = {}
          /\ cfg["AccelerationMode"] = desc.AccelerationMode
    /\ cfg["ImplName"] \in {Unset, desc.ImplName}
    /\ cfg["Keywords"] = Unset \/ cfg["Keywords"] \subseteq desc.Keywords

\* Every config object has to match; the API version is that of the last
\* config object that sets it, and it is a minimum.
ValidateConfig(cfgs, desc) ==
    /\ \A c \in 1 .. Len(cfgs) : CheckPropsGeneral(cfgs[c], desc)
    /\ LET req == LastSet(cfgs, "ApiVersion")
       IN  req = Unset \/ desc.ApiVersion >= req

(***************************************************************************)
(* Low latency: exactly the four required filters, with these values, and  *)
(* no other filter except the API version.                                 *)
(***************************************************************************)
CheckLowLatencyConfig(cfgs) ==
    /\ LastSet(cfgs, "Impl") = MFX_IMPL_TYPE_HARDWARE
    /\ LastSet(cfgs, "ImplName") = "mfx-gen"
    /\ LastSet(cfgs, "VendorID") = 32902
    /\ LastSet(cfgs, "AccelerationMode") # Unset
    /\ LastSet(cfgs, "Keywords") = Unset
=============================================================================
