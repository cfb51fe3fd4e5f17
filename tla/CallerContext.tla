--------------------------- MODULE CallerContext ---------------------------
(***************************************************************************)
(* The context a caller passes to a method of the DHT.                     *)
(***************************************************************************)
CONSTANT ContextsEnd    \* it may end

VARIABLE ctxDone        \* it has ended
=============================================================================
