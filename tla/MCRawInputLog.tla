--------------------------- MODULE MCRawInputLog ---------------------------
(* RawInputLog on small instances: two stimuli and one unparseable message. *)
EXTENDS RawInputLog

CONSTANTS s1, s2, bad
=============================================================================
