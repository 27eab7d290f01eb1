----------------------------- MODULE KubeModuleMC -----------------------------
(***************************************************************************)
(* KubeModule for TLC: services s and t ask for the same cluster IP, and d *)
(* asks for none.                                                          *)
(***************************************************************************)
EXTENDS KubeModule

CONSTANTS s, t, d, ip

Addresses == [o \in {s, t, d} |-> IF o = d THEN NoAddress ELSE ip]
=============================================================================
