----------------------------- MODULE MCSubtitles -----------------------------
(* Subtitles on small instances: two versions of a video.                  *)
EXTENDS Subtitles

CONSTANTS v1, v2, c1, c2

\* The second stream of the first version is a picture.
MCStreams == [v \in Versions |-> IF v = v1 THEN {0, 1} ELSE {0}]
MCTracks == [v \in Versions |-> {0}]
=============================================================================
