------------------------------- MODULE MCM4s --------------------------------
(* The frames of the run "m4s": uneven steps, three segments of video and  *)
(* two of audio, so that the window of the live manifest moves.            *)
EXTENDS M4sBoxes

MCTimes == [video |-> <<0, 1, 3, 4, 6, 9, 10>>, audio |-> <<0, 1, 2, 4, 5>>]

\* The sizes of the boxes as M4sBoxes computes them.
MCstyp == styp_box
MCsidx == sidx_box
MCmoof == moof_box
MCmdat == mdat_box
=============================================================================
