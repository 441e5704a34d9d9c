------------------------------ MODULE MCAnchor ------------------------------
(***************************************************************************)
(* Small instances of Anchor.                                              *)
(***************************************************************************)
EXTENDS Anchor, TLC

\* Handlers and users are interchangeable; the properties quantify over all.
Interchangeable == Permutations(Handlers) \union Permutations(Users)
=============================================================================
