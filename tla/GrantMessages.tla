--------------------------- MODULE GrantMessages ---------------------------
(***************************************************************************)
(* The two exchanges of the IHAT grant, Client to Anchor.                  *)
(*                                                                         *)
(* blind stands for the blinded nullifier in the SignatureRequest: the     *)
(* Anchor cannot read it, but two requests with different nullifiers       *)
(* differ.  form says what the parsers make of the bytes: "plain" decodes, *)
(* "garbled" has an undecodable SignatureRequest or ProofRequest inside a  *)
(* good grant body, "foreign" fails before that (media type, endorsement   *)
(* type, EndorsementRequest or grant body).                                *)
(***************************************************************************)

Step1(user, ctx, blind, form) ==
    [step |-> 1, user |-> user, ctx |-> ctx, blind |-> blind, form |-> form]

Step2(sid, form) == [step |-> 2, sid |-> sid, form |-> form]
=============================================================================
