--------------------------- MODULE MCCodecFilter ---------------------------
(***************************************************************************)
(* Small libraries and config objects for model checking CodecFilter.      *)
(***************************************************************************)
EXTENDS CodecFilter

Node(props, sub) == [props |-> props, sub |-> sub]
To(max)  == [Min |-> 1, Max |-> max, Step |-> 1]
Leaf(p, values) == [i \in DOMAIN values |-> Node([x \in {p} |-> values[i]], << >>)]

\* mfxDecoderDescription and mfxEncoderDescription
Mem(type, w, formats) ==
    Node([MemHandleType |-> type, Width |-> To(w), Height |-> To(w)], Leaf("ColorFormats", formats))
Profile(p, mems) == Node([Profile |-> p], mems)
Decoder(id, level, profiles) == Node([CodecID |-> id, MaxcodecLevel |-> level], profiles)
Encoder(id, level, stats, profiles) ==
    Node([CodecID |-> id, MaxcodecLevel |-> level, BiDirectionalPrediction |-> 1,
          ReportedStats |-> stats], profiles)

\* mfxVPPDescription and mfxSurfaceTypesSupported
Scale(delay, mems) == Node([FilterFourCC |-> "scale", MaxDelayInFrames |-> delay], mems)
VppMem(w, ins) == Node([MemHandleType |-> "va", Width |-> To(w), Height |-> To(w)], ins)
In(f, outs) == Node([InFormat |-> f], Leaf("OutFormat", outs))
Surface(type, comps) == Node([SurfaceType |-> type], comps)
Comp(c, flags) == Node([SurfaceComponent |-> c, SurfaceFlags |-> flags], << >>)

Ext(luid, render) ==
    [PCIBus |-> 1, LUIDValid |-> luid, DeviceLUID |-> 7, LUIDDeviceNodeMask |-> 1,
     DRMRenderNodeNum |-> render, DRMPrimaryNodeNum |-> 0]

Lib(api, msdk, dec, enc, vpp, surface, ext, funcs) ==
    [api |-> api, msdk |-> msdk, main |-> [Impl |-> "hw"], ext |-> ext, functions |-> funcs,
     tree |-> [dec |-> dec, enc |-> enc, vpp |-> vpp, surface |-> surface]]

\* Full lists; lists that end empty at every level; an MSDK library.
MCLibs == <<
    Lib(131082, FALSE,
        <<Decoder("avc", 1, <<Profile("main", <<Mem("va", 2, <<"nv12">>), Mem("sys", 1, <<"nv12", "p010">>)>>),
                              Profile("high", <<Mem("va", 1, <<"nv12">>)>>)>>),
          Decoder("hevc", 2, <<Profile("main10", <<Mem("va", 2, <<"p010">>)>>)>>)>>,
        <<Encoder("avc", 1, {"frame", "block"}, <<Profile("main", <<Mem("va", 2, <<"nv12">>)>>)>>)>>,
        <<Scale(1, <<VppMem(2, <<In("nv12", <<"nv12", "rgb4">>), In("rgb4", <<"nv12">>)>>)>>)>>,
        <<Surface("vaapi", <<Comp("enc", {"import"}), Comp("dec", {"export"})>>)>>,
        Ext(TRUE, 128), {"MFXVideoENCODE_Init"}),
    Lib(131078, FALSE,
        <<Decoder("avc", 1, << >>), Decoder("hevc", 2, <<Profile("main", << >>),
                                      Profile("main10", <<Mem("va", 2, << >>), Mem("va", 1, <<"p010">>)>>)>>),
          Decoder("av1", 1, << >>)>>,
        <<Encoder("avc", 1, {"frame"}, <<Profile("main", <<Mem("va", 2, <<"nv12">>)>>)>>)>>,
        <<Scale(1, <<VppMem(2, <<In("rgb4", << >>)>>), VppMem(1, <<In("nv12", <<"rgb4">>), In("p010", << >>)>>)>>)>>,
        <<Surface("d3d11", << >>), Surface("vaapi", <<Comp("dec", {"import", "export"})>>)>>,
        Ext(FALSE, 0), Null),
    Lib(131081, FALSE, << >>, << >>, << >>, Null, Null, {}),
    Lib(65571, TRUE, << >>, << >>, << >>, Null, Ext(FALSE, 129), Null) >>

NoConfig ==
    [main |-> NoProps, dec |-> NoProps, enc |-> NoProps, vpp |-> NoProps, surface |-> NoProps,
     ext |-> NoProps, version |-> NoProps, special |-> NoProps, functions |-> << >>]

MCConfigs == <<
    [NoConfig EXCEPT !.main = [Impl |-> "hw"], !.special = [NumThread |-> 2, ExtBuffer |-> "x"]],
    [NoConfig EXCEPT !.dec = [CodecID |-> "avc"], !.version = [Major |-> 2]],
    [NoConfig EXCEPT !.dec = [Profile |-> "main10", ColorFormats |-> "p010"]],
    [NoConfig EXCEPT !.dec = [CodecID |-> "avc", Profile |-> "main", ColorFormats |-> "p010",
                              Width |-> To(2)]],
    [NoConfig EXCEPT !.enc = [ReportedStats |-> {"frame"}], !.version = [Minor |-> 10]],
    [NoConfig EXCEPT !.vpp = [OutFormat |-> "rgb4", Height |-> To(1)], !.functions = <<"MFXVideoENCODE_Init">>],
    [NoConfig EXCEPT !.surface = [SurfaceComponent |-> "dec", SurfaceFlags |-> {"export"}],
                     !.special = [NumThread |-> 4, DeviceCopy |-> 1]],
    [NoConfig EXCEPT !.ext = [DeviceLUID |-> 7], !.version = [Version |-> [Major |-> 2, Minor |-> 9]]],
    [NoConfig EXCEPT !.ext = [DRMRenderNodeNum |-> 128, DRMPrimaryNodeNum |-> 0],
                     !.special = [ExtBuffer |-> "y"]] >>
=============================================================================
