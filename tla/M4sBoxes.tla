------------------------------ MODULE M4sBoxes ------------------------------
(***************************************************************************)
(* The boxes of a segment (RtmpToM4s::reap_video_seg, reap_audio_seg): the *)
(* sizes M4sBridge counts with, from the boxes of Mp4Box.                  *)
(***************************************************************************)
EXTENDS M4sBridge, Mp4Box

SampleFlags == {"data_offset", "sample_duration", "sample_size", "sample_flags",
                "sample_composition_time_offset"}

MaxSamples == Max({Len(FrameTimes[t]) : t \in Track})

Sizes(box) == [size |-> box.size, bytes |-> box.bytes]

\* What size() of the boxes says and encode() writes, by number and bytes of the samples.
styp_box == Sizes(StypBox(3))
sidx_box == Sizes(SidxBox(1, 1))
moof_box == [n \in 1..MaxSamples |->
                Sizes(MoofBox(MfhdBox, TrafBox(TfhdBox({}), TfdtBox(1), TrunBox(SampleFlags, n))))]
mdat_box == [b \in 1..(MaxSamples * Max(VideoBytes \cup AudioBytes)) |-> Sizes(MdatBox(<<b>>))]
=============================================================================
