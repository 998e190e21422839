-------------------------------- MODULE MCRtp --------------------------------
(***************************************************************************)
(* The pairs of bridges and the frames TLC tries.  With Mtu = 8 a NAL unit *)
(* of up to 5 bytes is sent whole, one of 6 to 9 (H.265: 10) bytes as the  *)
(* one fragment without an end bit, a longer one as two fragments.         *)
(***************************************************************************)
EXTENDS RtpBridge

Link(s, r, c, n) == [send |-> s, recv |-> r, codec |-> c, net |-> n]

MCLinks ==
    {Link("rtmp_to_rtsp", "rtsp_to_rtmp", "h264", "ordered"),
     Link("rtmp_to_rtsp", "rtsp_to_rtmp", "h265", "ordered"),
     Link("flv_to_rtsp", "rtsp_to_flv", "h264", "ordered"),
     Link("flv_to_rtsp", "rtsp_to_flv", "h265", "ordered"),
     Link("remote", "rtsp_to_flv", "h265", "ordered"),
     Link("rtmp_to_rtsp", "rtsp_to_rtmp", "aac", "ordered"),
     Link("flv_to_rtsp", "rtsp_to_flv", "aac", "ordered"),
     Link("remote", "rtsp_to_flv", "aac", "ordered"),
     Link("remote", "rtsp_to_rtmp", "h264", "ordered"),
     Link("rtmp_to_webrtc", "webrtc_to_rtmp", "h264", "ordered"),
     Link("rtmp_to_webrtc", "webrtc_to_flv", "h264", "ordered"),
     Link("remote", "webrtc_to_rtmp", "h264", "lossy"),
     Link("remote", "rtsp_to_flv", "h265", "lossy")}

Nalu(type, level, size) == [type |-> type, level |-> level, size |-> size]

MCShapes ==
    [h264 |-> {<<Nalu("idr", 3, 12)>>,
               <<Nalu("sps", 3, 3), Nalu("pps", 3, 3), Nalu("idr", 3, 4)>>,
               <<Nalu("aud", 0, 2), Nalu("slice", 2, 11)>>,
               <<Nalu("slice", 2, 7)>>},
     h265 |-> {<<Nalu("idr", 1, 13)>>,
               <<Nalu("vps", 1, 4), Nalu("sps", 1, 3), Nalu("pps", 1, 3), Nalu("idr", 1, 5)>>,
               <<Nalu("slice", 2, 12)>>,
               <<Nalu("slice", 1, 9)>>},
     aac |-> {<<Nalu("au", 0, 3)>>, <<Nalu("au", 0, 4)>>, <<Nalu("au", 0, 7)>>}]

MCParamSize == [aud |-> 2, vps |-> 4, sps |-> 3, pps |-> 3]

MCSteps == [ordered |-> {1, 12}, lossy |-> {1}]

MCOffsets == [ordered |-> {0, 3}, lossy |-> {0}]

MCMaxFrames == [ordered |-> 3, lossy |-> 2]
=============================================================================
