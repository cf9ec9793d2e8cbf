----------------------------- MODULE MCSession -----------------------------
(***************************************************************************)
(* Small installations for model checking Session.                         *)
(***************************************************************************)
EXTENDS Session

Runtime(api, legacy, lacks, impl, clone) ==
    [api |-> api, legacy |-> legacy, lacks |-> lacks, impl |-> impl, clone |-> clone]

\* A VPL runtime, an MSDK runtime and a software runtime of an older API,
\* whose legacy sessions report that API too, as the stub runtime's do.
VPL  == Runtime(Version(2, 9), Version(1, 255), {}, "HW", TRUE)
MSDK == Runtime(0, Version(1, 35), {Version(2, 0), Version(2, 1)}, "HW", FALSE)
SW   == Runtime(Version(2, 8), Version(2, 8), {}, "SW", TRUE)

AllRuntimes ==
    [n \in {"libmfx-gen", "libmfxhw64", "libvplswref64"} |->
        CASE n = "libmfx-gen" -> VPL
          [] n = "libmfxhw64" -> MSDK
          [] n = "libvplswref64" -> SW]

MCRT == [n \in Paths |-> AllRuntimes[n]]

MCLegacyVersions == {Version(1, 30), Version(2, 9)}
=============================================================================
