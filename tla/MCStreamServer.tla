--------------------------- MODULE MCStreamServer ---------------------------
(* Two peers with streams and a third one that they may ask for.            *)
EXTENDS StreamServer

CONSTANTS a, b, c
=============================================================================
