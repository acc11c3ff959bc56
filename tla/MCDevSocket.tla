----------------------------- MODULE MCDevSocket -----------------------------
(* Model values for the model checking of DevSocket: the second connection *)
(* is dialled by a call or by a goroutine that reconnects, the third after *)
(* a second loss.                                                          *)
EXTENDS DevSocket
=============================================================================
