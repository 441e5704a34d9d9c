------------------------------- MODULE MCWire -------------------------------
(***************************************************************************)
(* Wire with bytes of four values: length prefixes of one byte end at 0,   *)
(* of two at 3, of four at 63, and usize::MAX is that of a 32-bit build.   *)
(***************************************************************************)
EXTENDS Wire

CONSTANT MaxLength

MCSizeMax == Word4 - 1

\* All byte strings up to a length, and the longest kind of prefix with a
\* length that is too small for it, that is not there, or beyond SizeMax.
MCStrings ==
    UNION {[1 .. n -> Byte] : n \in 0 .. MaxLength}
    \union {Be8(3 * Bound8 + v) : v \in {0, 63, 64, 255, 256, 257, Bound8 - 1}}

Zeros(n) == [i \in 1 .. n |-> 0]

\* Bodies around each change of the prefix's size.
Bodies == {Zeros(n) : n \in {0, 1, 3, 4, 63, 64}} \union {<<2, 1>>}
KeyLists == {<<>>, <<<<1, 2>>>>, <<<<1, 2>>, <<3, 0>>>>}
Numbers == {0, 1, Word4 - 1, Word4, 3 * Bound8}

Message(msg, fs) == [msg |-> msg, fields |-> fs]

MCWritten ==
    {Message("EndorsementRequest", <<<<"u16", v>>, <<"opaque", b>>>>) : v \in {0, 2, 15}, b \in Bodies}
    \union
    {Message("CredentialRequest",
             <<<<"u16", 2>>, <<"opaque", b>>, <<"u16", 1>>, <<"opaque", c>>>>) : b, c \in Bodies}
    \union
    {Message("OptionalCredentialUpdate", <<<<"optional", 1>>, <<"u16", 1>>, <<"opaque", b>>>>) : b \in Bodies}
    \union {Message("OptionalCredentialUpdate", <<<<"optional", 0>>>>)}
    \union {Message("IhatChallenge", <<<<"keys", k>>>>) : k \in KeyLists}
    \union {Message("IhatGrantRequest", <<<<"request", 1>>, <<"opaque", b>>>>) : b \in Bodies}
    \union
    {Message("IhatGrantResponse", <<<<"response", 1>>, <<"opaque", b>>, <<"opaque", c>>>>) : b, c \in Bodies}
    \union
    {Message("ActChallenge", <<<<"opaque", <<2, 1>>>>, <<"u64", v>>, <<"u64", w>>>>) : v, w \in Numbers}
    \union
    {Message("ActPresentationAndUpdate",
             <<<<"digest", <<3, 1>>>>, <<"digest", <<0, 2>>>>, <<"opaque", b>>>>) : b \in Bodies}
=============================================================================
