------------------------------ MODULE Headers ------------------------------
(***************************************************************************)
(* The Mole HTTP headers (mole-core http.rs).  Challenges on their way     *)
(* from a server to a Client: formatted into WWW-Authenticate values,      *)
(* perhaps next to challenges of other schemes and joined into one value   *)
(* by an intermediary, cut apart again, and two of them chosen.  Then the  *)
(* answer: an Authorization value for the Moderator, which dispatches on   *)
(* it, and a Mole-Credential value back.                                   *)
(*                                                                         *)
(* A header value is a sequence of symbols: words (in lower case, as       *)
(* parameter names are compared), space, comma, equals sign and quote.     *)
(* The loops of the code are the steps: one takes the next value, one cuts *)
(* off a segment and parses it, one considers a challenge.                 *)
(***************************************************************************)
EXTENDS Integers, SequencesExt

CONSTANTS
    Words,         \* that stand in headers besides those written here
    Offers,        \* challenges a server may offer, of the two forms below
    MaxOffers,     \* bound: challenges in one response
    Decoded,       \* [role, code] of what a base64url value decodes to;
                   \*      code is NoStruct if that is no type and vector
    SegmentBound,  \* 64
    Bodies,        \* base64url values of requests, presentations, responses
    OtherAuthorizations  \* Authorization values that others write

VARIABLES
    offered,     \* the challenges, and whether each continues the value of
                 \*      the one before
    next,        \* the challenge that begins the next header value to look at
    rest,        \* what is left of the current one
    segments,    \* how many have been cut off it
    found,       \* what parse_challenges has pushed
    considered,  \* how many of them the Client has considered
    credential,  \* the challenges it has chosen
    moderator,
    request,     \* what is in the Authorization header, to its writer
    taken,       \* and to the Moderator
    response,    \* the same of the Mole-Credential header
    read

challengeVars == <<offered, next, rest, segments, found, considered,
                   credential, moderator>>
answerVars == <<request, taken, response, read>>
vars == <<challengeVars, answerVars>>

NoRealm == <<>>
NoStruct == 0
Nothing == <<>>

Scheme == "Mole"
Space == " "
Comma == ","
Equals == "="
Quote == "\""

MoleOffer(challenge, realm) ==
    [scheme |-> Scheme, challenge |-> challenge, realm |-> realm]
ForeignOffer(text) == [scheme |-> "other", text |-> text]

----------------------------------------------------------------------------
(* Formatting.                                                             *)

Param(name, value) == <<name, Equals, Quote>> \o value \o <<Quote>>

MoleValue(o) ==
    <<Scheme, Space>> \o Param("challenge", o.challenge) \o
    IF o.realm = NoRealm THEN <<>> ELSE <<Comma, Space>> \o Param("realm", o.realm)

Text(o) == IF o.scheme = Scheme THEN MoleValue(o) ELSE o.text

\* The header value the i-th challenge is in, from there on.
ValueFrom(i) ==
    LET from[k \in DOMAIN offered] ==
            Text(offered[k].offer) \o
            IF k < Len(offered) /\ offered[k + 1].joined
            THEN <<Comma, Space>> \o from[k + 1] ELSE <<>>
    IN  from[i]

----------------------------------------------------------------------------
(* Cutting and parsing.                                                    *)

After(s, i) == SubSeq(s, i + 1, Len(s))

Solid(s, blanks) == {i \in DOMAIN s : s[i] \notin blanks}
TrimEnd(s, blanks) == SubSeq(s, 1, Max({0} \union Solid(s, blanks)))
Trim(s) ==
    LET solid == Solid(s, {Space}) IN
    IF solid = {} THEN <<>> ELSE SubSeq(s, Min(solid), Max(solid))

\* Where find_scheme_token may stop: before a space, and with nothing but
\* spaces back to the beginning or a comma.
SchemeTokens(s) ==
    {i \in DOMAIN s :
        /\ s[i] = Scheme
        /\ i < Len(s) /\ s[i + 1] = Space
        /\ \E c \in 0 .. i - 1 : /\ c # 0 => s[c] = Comma
                                 /\ \A j \in c + 1 .. i - 1 : s[j] = Space}

\* Plausible bug: a segment runs to the end of its value.
SegmentEndOfValue(s, i) == Len(s)

\* Where the challenge ends that starts at i.
SegmentEnd(s, i) ==
    LET tokens == SchemeTokens(After(s, i)) IN
    IF tokens = {} THEN Len(s) ELSE i + Min(tokens) - 1

\* str::split(','): where parts begin, and the part that begins at i.
PartStarts(s) == {1} \union {i + 1 : i \in {j \in DOMAIN s : s[j] = Comma}}
Part(s, i) ==
    SubSeq(s, i, Min({Len(s) + 1} \union {j \in i .. Len(s) : s[j] = Comma}) - 1)

\* The parts parse_params does not skip; it fails if there is none, or one
\* without an equals sign.
Params(s) == {i \in PartStarts(s) : Trim(Part(s, i)) # <<>>}
ParamsParse(s) ==
    Params(s) # {} /\ \A i \in Params(s) : Equals \in ToSet(Part(s, i))

FirstEquals(part) == Min({i \in DOMAIN part : part[i] = Equals})
Key(part) == Trim(SubSeq(part, 1, FirstEquals(part) - 1))
Unquoted(v) ==
    IF Len(v) > 1 /\ Head(v) = Quote /\ Last(v) = Quote THEN Front(Tail(v)) ELSE v
Value(part) == Unquoted(Trim(After(part, FirstEquals(part))))

Given(s, name) == {i \in Params(s) : Key(Part(s, i)) = <<name>>}

\* Plausible bug: a later parameter of the name hides an earlier one.
GetLast(s, name) == Value(Part(s, Max(Given(s, name))))

\* get_param: the first parameter of that name.
Get(s, name) == Value(Part(s, Min(Given(s, name))))

\* Plausible bug: what a value decodes to is looked at later.
ChallengeInUndecoded(segment) ==
    LET s == Tail(segment) IN
    IF ParamsParse(s) /\ Given(s, "challenge") # {}
    THEN <<[challenge |-> Get(s, "challenge"),
            realm |-> IF Given(s, "realm") = {} THEN NoRealm ELSE Get(s, "realm")]>>
    ELSE <<>>

\* One turn of parse_challenges: what it pushes for a segment, if anything.
ChallengeIn(segment) ==
    LET s == Tail(segment) IN
    IF /\ ParamsParse(s)
       /\ Given(s, "challenge") # {}
       /\ Get(s, "challenge") \in DOMAIN Decoded
    THEN <<[challenge |-> Get(s, "challenge"),
            realm |-> IF Given(s, "realm") = {} THEN NoRealm ELSE Get(s, "realm")]>>
    ELSE <<>>

----------------------------------------------------------------------------
(* What headers are made of.                                               *)

Symbols ==
    Words \union {Scheme, Space, Comma, Equals, Quote, "challenge", "realm",
                  "credential-request", "presentation", "response", "update"}

\* What base64url yields, and our realms.
IsPlain(value) == value \in Seq(Symbols) /\ Comma \notin ToSet(value)

\* A challenge of another scheme: no token of ours (http.rs:152) and no
\* separator in front or at the end.
IsForeign(text) ==
    /\ text \in Seq(Symbols) /\ text # <<>>
    /\ {Head(text), Last(text)} \intersect {Space, Comma} = {}
    /\ SchemeTokens(text) = {}

ASSUME HeadersAssumption ==
    /\ {MaxOffers, SegmentBound} \subseteq Nat
    /\ \A o \in Offers :
          IF o.scheme = Scheme THEN IsPlain(o.challenge) /\ IsPlain(o.realm)
          ELSE IsForeign(o.text)
    /\ \A value \in Bodies : IsPlain(value)
    /\ \A value \in DOMAIN Decoded :
          Decoded[value] \in [role : {"credential", "endorsement"}, code : Nat]
    /\ Nothing \in DOMAIN Decoded => Decoded[Nothing].code = NoStruct
    /\ OtherAuthorizations \subseteq Seq(Symbols)

----------------------------------------------------------------------------
(* The loops.                                                              *)

Responses ==
    {entries \in BoundedSeq([offer : Offers, joined : BOOLEAN], MaxOffers) :
        entries # <<>> => ~entries[1].joined}

Init ==
    /\ offered \in Responses
    /\ next = 1
    /\ rest = <<>>
    /\ segments = 0
    /\ found = <<>>
    /\ considered = 0
    /\ credential = Nothing
    /\ moderator = Nothing
    /\ request = Nothing
    /\ taken = Nothing
    /\ response = Nothing
    /\ read = Nothing

CanCut == SchemeTokens(rest) # {} /\ segments <= SegmentBound

CutSegment ==
    /\ CanCut
    /\ LET start == Min(SchemeTokens(rest))
           end == SegmentEnd(rest, start)
       IN  /\ found' = found \o ChallengeIn(TrimEnd(SubSeq(rest, start, end), {Comma, Space}))
           /\ rest' = After(rest, end)
    /\ segments' = segments + 1
    /\ UNCHANGED <<offered, next, considered, credential, moderator, answerVars>>

NextValue ==
    /\ ~CanCut
    /\ next <= Len(offered)
    /\ rest' = Trim(ValueFrom(next))
    /\ next' = Min({i \in next + 1 .. Len(offered) + 1 :
                       i <= Len(offered) => ~offered[i].joined})
    /\ segments' = 0
    /\ UNCHANGED <<offered, found, considered, credential, moderator, answerVars>>

Parsed == ~CanCut /\ next > Len(offered)

ACT == 1    \* credential type
IHAT == 2   \* endorsement type
CodeOf(c) == Decoded[c.challenge].code

\* Plausible bug: a later challenge replaces an earlier one.
ConsiderLast ==
    /\ Parsed
    /\ considered < Len(found)
    /\ LET c == found[considered + 1] IN
       /\ credential' = IF CodeOf(c) = ACT THEN c.challenge ELSE credential
       /\ moderator' = IF CodeOf(c) = IHAT THEN c.challenge ELSE moderator
    /\ considered' = considered + 1
    /\ UNCHANGED <<offered, next, rest, segments, found, answerVars>>

\* One turn of parse_moderator_challenges. The two structures have the same
\* layout, so whatever decodes as one decodes as the other.
Consider ==
    /\ Parsed
    /\ considered < Len(found)
    /\ LET c == found[considered + 1] IN
       /\ credential' = IF credential = Nothing /\ CodeOf(c) = ACT
                        THEN c.challenge ELSE credential
       /\ moderator' = IF moderator = Nothing /\ CodeOf(c) = IHAT
                       THEN c.challenge ELSE moderator
    /\ considered' = considered + 1
    /\ UNCHANGED <<offered, next, rest, segments, found, answerVars>>

Done == Parsed /\ considered = Len(found)

----------------------------------------------------------------------------
(* The answer and its answer. A parsed value is [kind, value].             *)

AuthorizationKinds == <<"credential-request", "presentation">>
CredentialKinds == <<"response", "update">>
Other(text) == [kind |-> "other", value |-> text]
Absent == [kind |-> "absent"]
Malformed == [kind |-> "malformed"]

\* to_header_value, or what somebody else has written.
AuthorizationValue(a) ==
    IF a.kind = "other" THEN a.value ELSE <<Scheme, Space>> \o Param(a.kind, a.value)
CredentialValue(c) == Param(c.kind, c.value)

\* The first kind, in the order given, that has a parameter; no second one is
\* tried if that does not decode.
Kind(s, kinds) ==
    LET named == {i \in DOMAIN kinds : Given(s, kinds[i]) # {}} IN
    IF ~ParamsParse(s) \/ named = {} THEN Malformed
    ELSE LET kind == kinds[Min(named)] IN
         IF Get(s, kind) \in Bodies \union DOMAIN Decoded
         THEN [kind |-> kind, value |-> Get(s, kind)]
         ELSE Malformed

\* Plausible bug: the scheme is cut off without being looked at.
ParseAuthorizationAnyScheme(v) == Kind(Tail(Trim(v)), AuthorizationKinds)

\* MoleAuthorization::parse: the scheme is a prefix, a space need not follow.
ParseAuthorization(v) ==
    LET s == Trim(v) IN
    IF s # <<>> /\ Head(s) = Scheme
    THEN Kind(Tail(s), AuthorizationKinds)
    ELSE Malformed

\* MoleCredential::parse
ParseCredential(v) == Kind(v, CredentialKinds)

\* The Client holds a pair of challenges and answers them, or another user
\* agent, which has asked for none, sends what it likes.
Authorize ==
    /\ Done /\ request = Nothing
    /\ \/ /\ Nothing \notin {credential, moderator}
          /\ request' \in [kind : ToSet(AuthorizationKinds), value : Bodies]
       \/ /\ offered = <<>>
          /\ request' \in {Other(text) : text \in OtherAuthorizations}
    /\ UNCHANGED <<challengeVars, taken, response, read>>

\* resource: which handler the Moderator calls, and what that may return.
Dispatch ==
    /\ request # Nothing /\ taken = Nothing
    /\ taken' = ParseAuthorization(AuthorizationValue(request))
    /\ response' \in
           CASE taken'.kind = "credential-request" ->
                    [kind : {"response"}, value : Bodies] \union {Absent}
             [] taken'.kind = "presentation" ->
                    [kind : {"update"}, value : Bodies] \union {Absent}
             [] OTHER -> {Absent}
    /\ UNCHANGED <<challengeVars, request, read>>

\* redeem_and_issue and present of the Client, at the answer.
ReadCredential ==
    /\ response # Nothing /\ read = Nothing
    /\ read' = IF response = Absent THEN Absent ELSE ParseCredential(CredentialValue(response))
    /\ UNCHANGED <<challengeVars, request, taken, response>>

Next == NextValue \/ CutSegment \/ Consider \/ Authorize \/ Dispatch \/ ReadCredential

Spec == Init /\ [][Next]_vars

----------------------------------------------------------------------------
(* Properties.                                                             *)

TypeOK ==
    /\ offered \in Responses
    /\ next \in 1 .. Len(offered) + 1
    /\ segments \in 0 .. SegmentBound + 1
    /\ \A i \in DOMAIN found : found[i].challenge \in DOMAIN Decoded
    /\ considered \in 0 .. Len(found)
    /\ {credential, moderator} \subseteq DOMAIN Decoded \union {Nothing}

IsOurs(i) == offered[i].offer.scheme = Scheme

\* Offers that parse_challenges is to find.
IsGood(i) == IsOurs(i) /\ offered[i].offer.challenge \in DOMAIN Decoded

\* A foreign challenge that joins a value after a Mole challenge spoils that
\* one if a part of it has no equals sign.
Spoils(i) == ~IsOurs(i) /\ ~ParamsParse(offered[i].offer.text)
Spoiled(i) ==
    \E j \in i + 1 .. Len(offered) :
        /\ Spoils(j)
        /\ \A k \in i + 1 .. j : offered[k].joined /\ ~IsOurs(k)

\* The defensive bound: what follows in a value after SegmentBound + 1 Mole
\* challenges is not looked at.
Before(i) ==
    {j \in 1 .. i - 1 : IsOurs(j) /\ \A k \in j + 1 .. i : offered[k].joined}
Overlooked(i) == Cardinality(Before(i)) > SegmentBound

Survivors == {i \in DOMAIN offered : IsGood(i) /\ ~Spoiled(i) /\ ~Overlooked(i)}

\* Where among those found a survivor belongs, and the ones found so far.
Place(i) == Cardinality({j \in Survivors : j <= i})
Recovered == {i \in Survivors : Place(i) <= Len(found)}

\* However the challenges of a response are joined and mixed with others,
\* what is found are those offered, in order, except the spoiled ones and
\* those beyond the bound.
FoundAsOffered ==
    /\ \A i \in Recovered : found[Place(i)].challenge = offered[i].offer.challenge
    /\ Len(found) <= Cardinality(Survivors)
    /\ Parsed => Len(found) = Cardinality(Survivors)

\* A challenge keeps the realm it was offered with, whatever parameters of
\* other schemes end up in its segment.
RealmKept ==
    \A i \in Recovered :
        offered[i].offer.realm # NoRealm => found[Place(i)].realm = offered[i].offer.realm

\* "Challenges under other schemes are skipped" (http.rs:144): they take no
\* challenge of ours with them.
ForeignSkipped ==
    Parsed => Len(found) = Cardinality({i \in DOMAIN offered : IsGood(i)})

\* The first challenge offered for each role that survives and has a type the
\* Client knows in that role.
FirstFor(role, code) ==
    LET those == {i \in Survivors : Decoded[offered[i].offer.challenge] =
                                        [role |-> role, code |-> code]}
    IN  IF those = {} THEN Nothing ELSE offered[Min(those)].offer.challenge

\* The Client answers the pair the Moderator prefers, wherever it stands
\* between challenges of unknown types, of other schemes and undecodable ones.
PairPreferred ==
    Done => /\ credential = FirstFor("credential", ACT)
            /\ moderator = FirstFor("endorsement", IHAT)

\* A parameter's name ends before the equals sign at e: it stands there alone,
\* behind the scheme or a comma.
NamedAt(s, name, e) ==
    /\ s[e] = Equals
    /\ \E c, n \in 1 .. e - 1 :
          /\ c < n /\ s[n] = name
          /\ c = 1 \/ s[c] = Comma
          /\ \A k \in c + 1 .. e - 1 : k # n => s[k] = Space

\* Between the equals sign at e and the next comma, or the end, there is the
\* value, and around it nothing but spaces and quotes.
ValuedAt(s, value, e) ==
    \E from, to, x \in e .. Len(s) :
        /\ x = Len(s) \/ s[x + 1] = Comma
        /\ \A k \in e + 1 .. x : s[k] # Comma
        /\ to <= x /\ value = SubSeq(s, from + 1, to)
        /\ \A k \in (e + 1 .. from) \union (to + 1 .. x) : s[k] \in {Space, Quote}

\* The text s says what a was taken to be.
Carries(s, a) ==
    \E e \in DOMAIN s : NamedAt(s, a.kind, e) /\ ValuedAt(s, a.value, e)

SentBack(text) == \E o \in Offers : o.scheme = Scheme /\ text = MoleValue(o)

\* The two ends agree on what an exchange is: the Moderator runs the handler
\* the Client meant on the bytes it meant, and the Client finds what was issued
\* or refunded to it.  Of the headers that others write, a handler runs only
\* for one that begins with our name, and on bytes that a parameter named after
\* that handler carries; a challenge sent back runs none.  The scheme need not
\* be ours: Molepresentation="..." runs the handler too, since http.rs:214-218
\* cuts off the four letters and does not look at what follows.
AnswerUnderstood ==
    /\ taken # Nothing /\ request.kind # "other" => taken = request
    /\ taken # Nothing /\ request.kind = "other" /\ taken # Malformed =>
           /\ taken.kind \in ToSet(AuthorizationKinds)
           /\ Head(Trim(request.value)) = Scheme
           /\ Carries(Trim(request.value), taken)
           /\ ~SentBack(request.value)
    /\ read # Nothing =>
           /\ read = response
           /\ read.kind = "response" => taken.kind = "credential-request"
           /\ read.kind = "update" => taken.kind = "presentation"

\* "ignoring challenges of unknown type" (mole-client lib.rs:589): a Client
\* that is offered a pair it knows chooses no challenge that it does not.
UnknownIgnored ==
    Done /\ FirstFor("credential", ACT) # Nothing
         /\ FirstFor("endorsement", IHAT) # Nothing =>
        /\ Decoded[credential].role = "credential"
        /\ Decoded[moderator].role = "endorsement"
=============================================================================
