---------------------------- MODULE MCDispatcher ----------------------------
(***************************************************************************)
(* Small installations and applications for model checking Dispatcher.     *)
(***************************************************************************)
EXTENDS Dispatcher

HW == MFX_IMPL_TYPE_HARDWARE
SW == MFX_IMPL_TYPE_SOFTWARE
Intel == 32902

Description(impl, name, mode, modes, api, dev) ==
    [Impl |-> impl, ImplName |-> name, VendorID |-> Intel, AccelerationMode |-> mode,
     modes |-> modes, ApiVersion |-> api, Keywords |-> {"base", name}, DeviceID |-> dev]

Gen(api)  == Description(HW, "mfx-gen", "VAAPI", {"VAAPI"}, api, "56a0/0")
Arc(api)  == Description(HW, "arc", "VAAPI", {"VAAPI"}, api, "5690/1")
Cpu(api)  == Description(SW, "cpu", "NA", {}, api, "0")
Vsi(api)  == Description(HW, "vsi", "HDDLUNITE", {}, api, "4fc0/1")
Msdk(dev) == Description(HW, "mfxhw64", "VAAPI", {}, Version(1, 35), dev)

Library(exports, version, caps) ==
    [exports |-> exports, version |-> version, complete |-> Version(2, 10),
     session |-> TRUE, descOK |-> TRUE, caps |-> caps]

VPLExports == {"MFXInitialize"}

Descs(s) == [i \in 0 .. (Len(s) - 1) |-> s[i + 1]]

\* Every library a run can have installed.  genlink is the path under which
\* the low-latency search finds the library gen (libmfx-gen.so.1.2 is a link).
AllRuntimes ==
    [gen     |-> Library(VPLExports, Version(2, 9), Descs(<<Gen(Version(2, 9)), Gen(Version(2, 8))>>)),
     genlink |-> Library(VPLExports, Version(2, 9), Descs(<<Gen(Version(2, 9)), Gen(Version(2, 8))>>)),
     arc     |-> Library(VPLExports, Version(2, 10), Descs(<<Arc(Version(2, 10))>>)),
     cpu     |-> Library(VPLExports, Version(2, 10), Descs(<<Cpu(Version(2, 10))>>)),
     vsi     |-> Library(VPLExports, Version(2, 10), Descs(<<Vsi(Version(2, 10))>>)),
     hw64    |-> Library({"MSDK"}, Version(1, 35), Descs(<<Msdk("56a0/0"), Msdk("9bc4/1")>>)),
     hwlink  |-> Library({"MSDK"}, Version(1, 35), Descs(<<Msdk("56a0/0"), Msdk("9bc4/1")>>)),
     old64   |-> Library({"MSDK"}, Version(1, 27), Descs(<<Msdk("9bc4/1")>>)),
     dev     |-> Library(VPLExports, Version(2, 8), Descs(<<Cpu(Version(2, 9)), Gen(Version(2, 9))>>)),
     broken  |-> [Library(VPLExports, Version(2, 9), Descs(<<Cpu(Version(2, 9))>>)) EXCEPT !.descOK = FALSE],
     other   |-> Library({}, 0, Descs(<< >>))]

Hit(n, p) == [name |-> n, prio |-> p]

MCRuntime == [n \in Names |-> AllRuntimes[n]]

\* dev in ONEVPL_PRIORITY_PATH, cpu in LD_LIBRARY_PATH, gen in a system
\* directory and again in ONEVPL_SEARCH_PATH.
FullNames  == {"dev", "gen", "cpu", "vsi", "hw64", "old64", "other", "broken"}
FullSearch == <<Hit("dev", 0), Hit("cpu", 1), Hit("other", 1), Hit("gen", 3), Hit("vsi", 3),
                Hit("broken", 4), Hit("gen", 5), Hit("old64", 10001), Hit("hw64", 10001)>>
FullValues == [Impl |-> {HW, SW}, ImplName |-> {"mfx-gen", NullPtr},
               ApiVersion |-> {Version(2, 9), WrongType}, unknown |-> {0}]

\* The four filters of low latency, one of which can be unset again, and a
\* filter that ends it.  The VPL runtime may fail to load in low latency, and
\* the MSDK runtime is taken.  hwlink and hw64 are two paths of one library.
LowNames  == {"gen", "genlink", "hwlink", "hw64", "cpu", "arc"}
LowSearch == <<Hit("cpu", 1), Hit("gen", 3), Hit("arc", 3), Hit("hw64", 10001)>>
LowValues == [Impl |-> {HW}, ImplName |-> {"mfx-gen", NullPtr}, VendorID |-> {Intel},
              AccelerationMode |-> {"VAAPI"}, Keywords |-> {{"base"}}]
=============================================================================
