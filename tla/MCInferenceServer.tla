------------------------- MODULE MCInferenceServer --------------------------
(* Two connections; which of the two ways to the backend is open is chosen    *)
(* initially.                                                                 *)
EXTENDS InferenceServer
=============================================================================
