------------------------------- MODULE MCZeek -------------------------------
(***************************************************************************)
(* Two threads of the engine look the same address up while Zeek writes    *)
(* two lines about it (ZeekCache).                                         *)
(***************************************************************************)
EXTENDS ZeekCache

CONSTANTS t1, t2
=============================================================================
