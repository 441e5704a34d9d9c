-------------------------------- MODULE Wire --------------------------------
(***************************************************************************)
(* The byte encoding of every message (mole-core, wire.rs and messages.rs):*)
(* Wire::encode as operators, Wire::from_bytes as a state machine that     *)
(* takes one field at a step from the front of a byte string.              *)
(*                                                                         *)
(* The width of a byte is a constant, so that TLC can run through all byte *)
(* strings of some length: a byte has Octet values, of which Quarter share *)
(* the two topmost bits (256 and 64 in the code).                          *)
(***************************************************************************)
EXTENDS Integers, SequencesExt

CONSTANTS
    Quarter,     \* 64
    SizeMax,     \* usize::MAX
    KeySize,     \* 33, a compressed P-256 point
    DigestSize,  \* 32
    Strings,     \* byte strings to decode that nobody has encoded
    Written      \* messages to encode, [msg, fields]

Octet == 4 * Quarter
Byte == 0 .. Octet - 1

ASSUME WireAssumption ==
    /\ Quarter \in Nat \ {0}
    /\ SizeMax \in Nat
    /\ KeySize \in Nat \ {0}
    /\ DigestSize \in Nat \ {0}
    /\ Strings \subseteq Seq(Byte)

VARIABLES
    input,    \* the byte string
    written,  \* history: the message whose encoding the input comes from
    pos,      \* how many bytes of it are consumed
    todo,     \* the fields still to be decoded
    fields,   \* the fields decoded, as <<kind, value>>
    again,    \* history: what encode writes for fields
    status    \* "decoding", "ok", or the error

vars == <<input, written, pos, todo, fields, again, status>>

----------------------------------------------------------------------------
(* Integers in network byte order.                                         *)

Word2 == Octet * Octet
Word4 == Word2 * Word2

Be2(v) == <<v \div Octet, v % Octet>>
Be4(v) == Be2(v \div Word2) \o Be2(v % Word2)
Be8(v) == Be4(v \div Word4) \o Be4(v % Word4)

\* The integer in the bytes of s that follow position p.
From2(s, p) == s[p + 1] * Octet + s[p + 2]
From4(s, p) == From2(s, p) * Word2 + From2(s, p + 2)
From8(s, p) == From4(s, p) * Word4 + From4(s, p + 4)

----------------------------------------------------------------------------
(* QUIC variable-length integers, in the minimum size. The two topmost bits *)
(* of the first byte give the size, the others belong to the value, which  *)
(* is therefore below Bound(size).                                         *)

Bound1 == Quarter
Bound2 == Quarter * Octet
Bound4 == Bound2 * Word2
Bound8 == Bound4 * Word4

\* Plausible bug: the first bound is inclusive.
PutVarintOff(v) ==
    IF v <= Bound1 THEN <<v>>
    ELSE IF v < Bound2 THEN Be2(v + Bound2)
    ELSE IF v < Bound4 THEN Be4(v + 2 * Bound4)
    ELSE Be8(v + 3 * Bound8)

PutVarint(v) ==
    IF v < Bound1 THEN <<v>>
    ELSE IF v < Bound2 THEN Be2(v + Bound2)
    ELSE IF v < Bound4 THEN Be4(v + 2 * Bound4)
    ELSE Be8(v + 3 * Bound8)

VarintSize(first) ==
    IF first < Quarter THEN 1
    ELSE IF first < 2 * Quarter THEN 2
    ELSE IF first < 3 * Quarter THEN 4
    ELSE 8

VarintValue(s, p) ==
    LET n == VarintSize(s[p + 1]) IN
    IF n = 1 THEN s[p + 1]
    ELSE IF n = 2 THEN From2(s, p) - Bound2
    ELSE IF n = 4 THEN From4(s, p) - 2 * Bound4
    ELSE From8(s, p) - 3 * Bound8

\* Plausible bug: a longer encoding than needed is let through.
AnyLeast(n) == 0

\* The smallest value that needs an encoding of n bytes.
Least(n) ==
    IF n = 1 THEN 0 ELSE IF n = 2 THEN Bound1 ELSE IF n = 4 THEN Bound2 ELSE Bound4

Holds(s, p, n) == p + n <= Len(s)

VarintError(s, p) ==
    IF ~Holds(s, p, 1) \/ ~Holds(s, p, VarintSize(s[p + 1])) THEN "UnexpectedEof"
    ELSE IF VarintValue(s, p) < Least(VarintSize(s[p + 1])) THEN "NonMinimalVarint"
    ELSE "none"

PutOpaque(bytes) == PutVarint(Len(bytes)) \o bytes

\* What get_opaque_v makes of the bytes after p: an error or a length.
OpaqueError(s, p) ==
    IF VarintError(s, p) # "none" THEN VarintError(s, p)
    ELSE IF VarintValue(s, p) > SizeMax THEN "OutOfRange"
    ELSE IF ~Holds(s, p + VarintSize(s[p + 1]), VarintValue(s, p)) THEN "UnexpectedEof"
    ELSE "none"

OpaqueSize(s, p) == VarintSize(s[p + 1]) + VarintValue(s, p)
Opaque(s, p) == SubSeq(s, p + VarintSize(s[p + 1]) + 1, p + OpaqueSize(s, p))

----------------------------------------------------------------------------
(* The messages. A layout is the sequence of a message's fields; the two   *)
(* unions start with a tag that decides about the rest.                    *)

\* A type in two bytes and what it stands for.
Typed == <<"u16", "opaque">>

TransportLayouts ==
    [EndorsementRequest |-> Typed,
     EndorsementResponse |-> Typed,
     EndorsementChallenge |-> Typed,
     ModeratorChallenge |-> Typed,
     CredentialChallenge |-> Typed,
     CredentialRequest |-> <<"u16", "opaque", "u16", "opaque">>,
     CredentialResponse |-> Typed,
     CredentialPresentation |-> Typed,
     CredentialUpdate |-> Typed,
     OptionalCredentialUpdate |-> <<"optional">>]

IhatLayouts ==
    [IhatChallenge |-> <<"keys">>,
     IhatPresentation |-> <<"opaque">>,
     IhatGrantRequest |-> <<"request">>,
     IhatGrantResponse |-> <<"response">>]

ActLayouts ==
    [ActChallenge |-> <<"opaque", "u64", "u64">>,
     ActIssuanceRequest |-> <<"u8", "opaque">>,
     ActIssuanceResponse |-> <<"opaque">>,
     ActPresentationAndUpdate |-> <<"digest", "digest", "opaque">>,
     ActUpdate |-> <<"opaque">>]

Layouts ==
    [m \in DOMAIN TransportLayouts \union DOMAIN IhatLayouts \union DOMAIN ActLayouts |->
        IF m \in DOMAIN TransportLayouts THEN TransportLayouts[m]
        ELSE IF m \in DOMAIN IhatLayouts THEN IhatLayouts[m]
        ELSE ActLayouts[m]]

\* What follows the presence octet.
Present(octet) == IF octet = 0 THEN <<>> ELSE Typed

\* What follows the tag of the two steps of a grant.
StepOf(union, tag) ==
    IF (union = "request") = (tag = 1) THEN <<"opaque">> ELSE <<"opaque", "opaque">>

\* The keys of a body, and the body of a list of keys.
Keys(body) ==
    [i \in 1 .. Len(body) \div KeySize |-> SubSeq(body, (i - 1) * KeySize + 1, i * KeySize)]
Body(keys) ==
    [i \in 1 .. Len(keys) * KeySize |->
        keys[((i - 1) \div KeySize) + 1][((i - 1) % KeySize) + 1]]

\* The encoding of one field.
Put(kind, v) ==
    IF kind \in {"u8", "optional", "request", "response"} THEN <<v>>
    ELSE IF kind = "u16" THEN Be2(v)
    ELSE IF kind = "u64" THEN Be8(v)
    ELSE IF kind = "opaque" THEN PutOpaque(v)
    ELSE IF kind = "keys" THEN PutOpaque(Body(v))
    ELSE v

\* to_bytes of a message with these fields.
Encode(fs) == FlattenSeq([i \in DOMAIN fs |-> Put(fs[i][1], fs[i][2])])

\* The messages that can be written: values of the fields' types, in fields
\* that follow the layout and, behind a tag, what the tag asks for. A byte
\* string that put_opaque_v takes fits a length prefix and, being in memory,
\* has a length that is a usize.
Fits(n) == n < Bound8 /\ n <= SizeMax

Values(kind) ==
    IF kind = "u8" THEN Byte
    ELSE IF kind = "optional" THEN {0, 1}
    ELSE IF kind \in {"request", "response"} THEN {1, 2}
    ELSE IF kind = "u16" THEN 0 .. Word2 - 1
    ELSE IF kind = "u64" THEN 0 .. Word4 * Word4 - 1
    ELSE IF kind = "opaque" THEN {b \in Seq(Byte) : Fits(Len(b))}
    ELSE IF kind = "keys"
    THEN {k \in Seq({b \in Seq(Byte) : Len(b) = KeySize}) : Fits(Len(k) * KeySize)}
    ELSE {b \in Seq(Byte) : Len(b) = DigestSize}

After(kind, v) ==
    IF kind = "optional" THEN Present(v)
    ELSE IF kind \in {"request", "response"} THEN StepOf(kind, v)
    ELSE <<>>

Kinds(fs) == [i \in 1 .. Len(fs) |-> fs[i][1]]

Encodable(msg, fs) ==
    /\ msg \in DOMAIN Layouts
    /\ Len(fs) \in Nat
    /\ fs = [i \in 1 .. Len(fs) |-> <<fs[i][1], fs[i][2]>>]
    /\ \A i \in 1 .. Len(fs) : fs[i][2] \in Values(fs[i][1])
    /\ Kinds(fs) = Layouts[msg] \o After(fs[1][1], fs[1][2])

ASSUME WrittenAssumption == \A m \in Written : Encodable(m.msg, m.fields)

----------------------------------------------------------------------------
(* from_bytes. The input is any byte string, or an encoding that arrives   *)
(* whole, cut short or with something behind it.                           *)

Nobody == [msg |-> "none", fields |-> <<>>]

Init ==
    /\ \/ /\ written = Nobody
          /\ input \in Strings
          /\ \E m \in DOMAIN Layouts : todo = Layouts[m]
       \/ /\ written \in Written
          /\ todo = Layouts[written.msg]
          /\ LET whole == Encode(written.fields) IN
             \/ \E n \in 0 .. Len(whole) : input = SubSeq(whole, 1, n)
             \/ input = Append(whole, 0)
          /\ input \in Seq(Byte)
    /\ pos = 0
    /\ fields = <<>>
    /\ again = <<>>
    /\ status = "decoding"

Stop(error) ==
    /\ status' = error
    /\ UNCHANGED <<input, written, pos, todo, fields, again>>

\* The next n bytes are the value v; the fields in more come next.
Accept(v, n, more) ==
    /\ pos' = pos + n
    /\ todo' = more \o Tail(todo)
    /\ fields' = Append(fields, <<Head(todo), v>>)
    /\ again' = again \o Put(Head(todo), v)
    /\ UNCHANGED <<input, written, status>>

Awaits(kind) == status = "decoding" /\ todo # <<>> /\ Head(todo) = kind

GetU8 ==
    /\ Awaits("u8")
    /\ IF Holds(input, pos, 1)
       THEN Accept(input[pos + 1], 1, <<>>)
       ELSE Stop("UnexpectedEof")

GetU16 ==
    /\ Awaits("u16")
    /\ IF Holds(input, pos, 2)
       THEN Accept(From2(input, pos), 2, <<>>)
       ELSE Stop("UnexpectedEof")

GetU64 ==
    /\ Awaits("u64")
    /\ IF Holds(input, pos, 8)
       THEN Accept(From8(input, pos), 8, <<>>)
       ELSE Stop("UnexpectedEof")

GetDigest ==
    /\ Awaits("digest")
    /\ IF Holds(input, pos, DigestSize)
       THEN Accept(SubSeq(input, pos + 1, pos + DigestSize), DigestSize, <<>>)
       ELSE Stop("UnexpectedEof")

\* Plausible bug: a body that is cut short is taken as far as it goes.
GetOpaqueClipped ==
    /\ Awaits("opaque")
    /\ IF OpaqueError(input, pos) = "none"
       THEN Accept(Opaque(input, pos), OpaqueSize(input, pos), <<>>)
       ELSE IF OpaqueError(input, pos) = "UnexpectedEof" /\ VarintError(input, pos) = "none"
       THEN Accept(SubSeq(input, pos + VarintSize(input[pos + 1]) + 1, Len(input)),
                   OpaqueSize(input, pos), <<>>)
       ELSE Stop(OpaqueError(input, pos))

GetOpaque ==
    /\ Awaits("opaque")
    /\ IF OpaqueError(input, pos) = "none"
       THEN Accept(Opaque(input, pos), OpaqueSize(input, pos), <<>>)
       ELSE Stop(OpaqueError(input, pos))

\* IhatChallenge::decode.
GetKeys ==
    /\ Awaits("keys")
    /\ IF OpaqueError(input, pos) # "none"
       THEN Stop(OpaqueError(input, pos))
       ELSE IF Len(Opaque(input, pos)) % KeySize # 0
       THEN Stop("Malformed")
       ELSE Accept(Keys(Opaque(input, pos)), OpaqueSize(input, pos), <<>>)

\* IhatGrantRequest::decode and IhatGrantResponse::decode.
GetStep(union) ==
    /\ Awaits(union)
    /\ IF ~Holds(input, pos, 1)
       THEN Stop("UnexpectedEof")
       ELSE IF input[pos + 1] \in {1, 2}
       THEN Accept(input[pos + 1], 1, StepOf(union, input[pos + 1]))
       ELSE Stop("Malformed")

\* get_optional.
GetOptional ==
    /\ Awaits("optional")
    /\ IF ~Holds(input, pos, 1)
       THEN Stop("UnexpectedEof")
       ELSE IF input[pos + 1] \in {0, 1}
       THEN Accept(input[pos + 1], 1, Present(input[pos + 1]))
       ELSE Stop("MalformedOptional")

\* Plausible bug: decode alone, without a look at what is left.
FinishAnywhere ==
    /\ status = "decoding" /\ todo = <<>>
    /\ Stop("ok")

\* from_bytes, once decode is done.
Finish ==
    /\ status = "decoding" /\ todo = <<>>
    /\ Stop(IF pos = Len(input) THEN "ok" ELSE "TrailingBytes")

Next ==
    \/ GetU8 \/ GetU16 \/ GetU64 \/ GetDigest \/ GetOpaque \/ GetKeys
    \/ GetStep("request") \/ GetStep("response") \/ GetOptional
    \/ Finish

Spec == Init /\ [][Next]_vars

----------------------------------------------------------------------------
(* Properties.                                                             *)

TypeOK ==
    /\ input \in Seq(Byte)
    /\ pos \in 0 .. Len(input)
    /\ status \in {"decoding", "ok", "TrailingBytes", "UnexpectedEof", "NonMinimalVarint",
                   "OutOfRange", "Malformed", "MalformedOptional"}

\* The decoder skips nothing, reads nothing twice and accepts one spelling
\* only: at every point, encoding what it has decoded gives back the bytes it
\* has consumed. So a digest over the encoding of a decoded challenge is the
\* digest over the bytes that were sent (act.rs, lib.rs of mole-core).
ReEncodes == again = SubSeq(input, 1, pos)

\* "canonical re-encode" (messages.rs:376): two byte strings never decode to
\* the same message.
Canonical == status = "ok" => again = input

\* What encode writes decodes to what was written. Cut short it is never taken
\* for another message, and nothing can be appended to it: no encoding of a
\* type is a prefix of another.
Framed ==
    written # Nobody /\ status # "decoding" =>
        LET sent == Len(Encode(written.fields)) IN
        /\ status = (IF Len(input) < sent THEN "UnexpectedEof"
                     ELSE IF Len(input) > sent THEN "TrailingBytes"
                     ELSE "ok")
        /\ status = "ok" => fields = written.fields
=============================================================================
