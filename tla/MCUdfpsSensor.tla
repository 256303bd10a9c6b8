--------------------------- MODULE MCUdfpsSensor ---------------------------
(* The one-shot sensor with a short pipe. *)
EXTENDS UdfpsSensor
=============================================================================
