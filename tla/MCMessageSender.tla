--------------------------- MODULE MCMessageSender ---------------------------
(* Two callers with one message each, and as many senders as they can ever    *)
(* create: one for each message.                                              *)
EXTENDS MessageSender, TLC

CONSTANTS c1, c2, s1, s2

MCCallers == {c1, c2}
MCSenders == {s1, s2}
==============================================================================
