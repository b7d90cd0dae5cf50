-------------------------- MODULE MCSessionManager --------------------------
(* Two goroutines, one session id (sessions of one id are what Save, Close *)
(* and the duplicate hook race on), two protocols: SPICE (never gated) and *)
(* websocket (gated, KeepWebsocketSession being off).  The goroutines are  *)
(* interchangeable, so their permutations are a sound symmetry.            *)
EXTENDS SessionManager, TLC

CONSTANTS h1, h2   \* model values: the goroutines

MCProcs == {h1, h2}
MCIds == {"vm1"}
MCProtocols == {"spice", "websocket"}
MCSymmetry == Permutations(MCProcs)
=============================================================================
