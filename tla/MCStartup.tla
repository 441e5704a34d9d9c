----------------------------- MODULE MCStartup -----------------------------
(***************************************************************************)
(* Startup with two Anchors, the first of them named twice.                *)
(***************************************************************************)
EXTENDS Startup

CONSTANTS a1, a2

MCArgs == <<a1, a2, a1>>
=============================================================================
