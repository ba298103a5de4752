------------------------------- MODULE MCDriver -------------------------------
(* Driver with five of the 41 functions of VDPAU, two of them called by    *)
(* vdpau_Initialize and two by vdpau_Terminate, and room for three config  *)
(* attributes.  VDPAU always has device_destroy and there is memory for    *)
(* the table of GLX functions.                                             *)
EXTENDS Driver

FiveProcs == <<"device_destroy", "video_mixer_create", "video_mixer_destroy",
               "get_api_version", "get_information_string">>
RTFormat == [type |-> "RTFormat", value |-> "YUV420"]
ThreeAttribs == {RTFormat} \cup [type : {"RateControl"}, value : {"none", "CBR"}]
AllFailing == {"display", "open", "device", "version", "heap"}
                \cup (Range(FiveProcs) \ {"device_destroy"})
=============================================================================
