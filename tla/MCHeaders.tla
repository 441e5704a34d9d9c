----------------------------- MODULE MCHeaders -----------------------------
(***************************************************************************)
(* Small instances of Headers.                                             *)
(***************************************************************************)
EXTENDS Headers

Moderator == <<"moderator">>

\* Types nobody shares: two ACT challenges, two IHAT ones, a greased one, one
\* that is no structure.  The codes 1 and 2 also mean a type of the other
\* role: a Moderator that needs no endorsement, reverse Privacy Pass.
MCDecoded ==
    <<"act1">> :> [role |-> "credential", code |-> 1] @@
    <<"act2">> :> [role |-> "credential", code |-> 1] @@
    <<"ihat1">> :> [role |-> "endorsement", code |-> 2] @@
    <<"ihat2">> :> [role |-> "endorsement", code |-> 2] @@
    <<"greased">> :> [role |-> "credential", code |-> 10] @@
    <<"struct">> :> [role |-> "credential", code |-> NoStruct] @@
    <<"trust">> :> [role |-> "endorsement", code |-> 1] @@
    <<"reverse">> :> [role |-> "credential", code |-> 2]

Basic == ForeignOffer(<<"Basic", Space>> \o Param("realm", <<"x">>))
Digest == ForeignOffer(<<"Digest", Space>> \o Param("qop", <<"auth">>) \o
                       <<Comma, Space>> \o Param("realm", <<"x">>))
\* A comma inside quotes; no parameters at all.
Quoting == ForeignOffer(<<"Basic", Space>> \o Param("realm", <<"a", Comma, Space, "b">>))
Negotiate == ForeignOffer(<<"Negotiate">>)
\* A name that only begins like ours.
Molecule == ForeignOffer(<<Scheme, "cule", Space>> \o Param("challenge", <<"act2">>))

Preferred == {MoleOffer(<<"act1">>, Moderator), MoleOffer(<<"ihat1">>, Moderator)}
Others == {MoleOffer(<<"act2">>, NoRealm), MoleOffer(<<"ihat2">>, Moderator),
           MoleOffer(<<"greased">>, NoRealm), MoleOffer(<<"struct">>, Moderator),
           MoleOffer(<<"not base64">>, Moderator)}
SharedCodes == {MoleOffer(<<"trust">>, Moderator), MoleOffer(<<"reverse">>, Moderator)}

MCWords ==
    {"act1", "act2", "ihat1", "ihat2", "greased", "struct", "trust", "reverse",
     "not base64", "bytes1", "bytes2", "moderator", "cule",
     "Basic", "Digest", "Negotiate", "Bearer", "qop", "auth", "x", "a", "b"}

MCBodies == {<<"bytes1">>, <<"bytes2">>}

\* Another scheme with our parameter; a challenge sent back; no parameters; a
\* value that does not decode before one that would; parameters nobody asked
\* for around ours, without quotes and with spaces; both of ours.
OtherSchemes ==
    {<<"Bearer", Space>> \o Param("presentation", <<"bytes1">>),
     MoleValue(MoleOffer(<<"act1">>, Moderator)),
     <<Scheme>>,
     <<Scheme, Space>> \o Param("credential-request", <<"not base64">>) \o
         <<Comma>> \o Param("presentation", <<"bytes1">>),
     <<Space, Scheme, Space, "x", Equals, "a", Comma, Space, "presentation", Space, Equals,
       Space, "bytes1", Space, Comma>>,
     <<Scheme, Space>> \o Param("presentation", <<"bytes1">>) \o
         <<Comma, Space>> \o Param("credential-request", <<"bytes2">>)}

\* Names that only begin like ours: with our parameter behind another one,
\* at once, and glued to it.
LikeOurs ==
    {<<Scheme, "cule", Space, "a", Equals, "x", Comma, Space>> \o
         Param("presentation", <<"bytes1">>),
     <<Scheme, "cule", Space>> \o Param("presentation", <<"bytes1">>),
     <<Scheme>> \o Param("presentation", <<"bytes1">>)}

MCOtherAuthorizations == OtherSchemes \union LikeOurs

MCOffers == Preferred \union Others \union {Basic, Digest, Quoting, Negotiate, Molecule}
MCForeign == Preferred \union {Basic, Negotiate}
MCShared == Preferred \union SharedCodes
=============================================================================
