------------------------- MODULE MCCallbackConnector -------------------------
(* Two output devices; every interleaving of their callbacks with connecting, *)
(* disconnecting and restarting the engine.                                   *)
EXTENDS CallbackConnector
==============================================================================
