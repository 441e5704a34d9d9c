# Verification of the MoLE implementation

TLA+ modules, TLC configurations and TLAPS proofs for the Rust workspace in
`src/`: an instantiation of MoLE with IHAT endorsements and ACT (anonymous
credit token) credentials.

An **Anchor** knows who its users are and grants each a few *endorsements*. A
**Moderator** protects a resource and knows nobody: it swaps an endorsement for
a *credential* that holds some credits, and serves a request for a credential
with at least the charge, replacing it by one with the charge taken off and a
refund put back. A **Client** does all of it inside one `fetch`. Nothing that
two of these see can be linked by a third, so no party can check the purpose
of the whole (a user is served a limited number of times) directly. It follows
only if counts, sessions, nullifiers, keys and balances hold together, and that
is what is verified here.

## 1. The system

| part (source) | state | operations | modelled in |
|---|---|---|---|
| Moderator (`mole-moderator/src/lib.rs`) | immutable config, ACT key, two mutex-guarded sets: redeemed endorsement nullifiers, spent credential nullifiers | `resource` = `redeem_and_issue`, `present`, `challenge_response`; directory; two counters | `Moderator`, abstractly `Ledger` |
| Anchor (`mole-anchor/src/lib.rs`) | key, epoch, mutex-guarded `sessions` and `grants` | `endorse` with the two exchanges of a grant; directory | `Anchor` |
| Client (`mole-client/src/lib.rs`) | endorsement store (a `Vec`), credential store (policy -> credential) | `fetch` = challenge, `obtain_endorsement`, `redeem_and_issue`, `present` | `Client` |
| Startup (`main.rs` of both servers) | the accepted keys and the epoch, while they are collected | the Anchors' directories are read one after the other, checked, and kept until the process ends; every process makes fresh keys | `Startup`; one Anchor's directory: `StartedWith` in `Mole` |
| Shared data (`mole-core/src/{act,lib,messages}.rs`) | - | digests, key identifiers, request contexts, messages | `MoleTypes`, `GrantMessages` |
| Encoding (`mole-core/src/{wire,messages}.rs`) | the decoder's position | varint, opaque, optional; the layouts of nineteen messages | `Wire` |
| Headers (`mole-core/src/http.rs`), challenge selection in the Client, the Moderator's dispatch | - | formatting, splitting and parsing `Mole` challenges, choosing a pair; the `Authorization` and `Mole-Credential` headers | `Headers` |
| Config documents (`mole-core/src/config.rs`) | - | serde derives | partly: the fields that are acted on (`ModeratorDirectory`, `AnchorDirectory`, `Startup`'s `Publishable`) |
| Command lines | - | argument parsing, exit | partly: the life of the processes (`Quit`, restarts) |
| IHAT and ACT crates | - | proofs and algebra | external: assumptions in `MoleTypes` |

**Interaction.** All of it is HTTP, started by the Client: resource request,
Moderator directory, Anchor directory, first and second grant exchange,
redemption, presentation. Servers never call each other after startup. Server
handlers are tokio tasks and run concurrently; within a server they share the
state above and nothing else. A fetch takes `&mut self`, so one Client runs one
fetch at a time, but a user may run any number of Clients.

**What is hard here.**

* *Between verification and insert.* Both Moderator handlers verify for a long
  time against immutable state, then take a mutex to insert a nullifier, and
  answer only if the insert won. Any number of handlers can be in between.
* *Between count and session.* The Anchor counts a grant under one lock, parses
  and signs, and stores the session under another; the second exchange takes
  the session out before it parses its request.
* *Restarts.* Everything is in memory. Forgetting nullifiers is harmless only
  because the keys go too.
* *Loss and repetition.* The answer to a presentation carries the refund, the
  answer to a redemption the credential. If it is lost, the Client has lost a
  credential, and must not try again with it.
* *Stale reads.* A Client combines a challenge, two directories and later
  answers, each read at another moment and perhaps from another process. The
  key in a redemption is named by one byte.
* *Failure between store operations.* `fetch` may end at every `?`, or be
  dropped at every await, with things taken out of a store. The stores end with
  the process, and the command line's ends at the first failed fetch.
* *Startup over time.* A Moderator reads several directories one after the other
  and serves with what they said; an Anchor may restart between two reads.
* *Two readings of the same bytes.* Digests are taken over what a decoder
  returned and an encoder wrote again. Headers carry one of several things, told
  apart by a name, among other schemes' values.

The list of hazards, line by line, with the property for each, is in
`PROJECT.json`.

## 2. Modules

```
MoleTypes  GrantMessages        shared data and what the crypto promises
   |  \       /   \
Moderator  Client  Anchor       one component each, in an arbitrary environment
   |   \      |      /
Ledger  +---- Mole ---+         the three together over a network

Startup                         how a Moderator gets its keys and epoch
Headers                         challenges and answers as header values
Wire                            messages as bytes

ModeratorProofs AnchorProofs ClientProofs StartupProofs WireProofs
HeadersProofs SystemProofs NaturalLemmas
                                theorems
MC*                             instances for TLC
```

**`MoleTypes`.** Hashes are injective constructors. Where the code drops bits
(the truncated key identifier, the last byte of a SHA-256) so does the model,
and instances give processes keys that collide there. The IHAT and ACT crates
are represented by what they promise: a redeem proof verifies for exactly one
key list and digest (`ProofVerifies`); a credential works under the key and
context it was issued for; a nullifier identifies one credential
(`Nullifier`); amounts beyond the balance digits are refused (`CanIssue`),
overdrafts cannot be proved (`CanSpend`). Unforgeability is in the requests an
environment can form: endorsements that were granted, credentials that were
released. Requests may be `plain`, `foreign` (another type, e.g. greased) or
`garbled`.

**`Moderator`.** A handler has two steps: `Verify` (all checks before the lock)
and the critical section, `Issue`, `Serve` or `Lose`, with the response. The
`Verify` step reads only what never changes while the process lives, which is
why splitting there loses no behaviour. `Refuse` covers every early return.
`Restart` is the death of the process with all its handlers and the start of a
new one, with a new key, in a configuration that `ModeratorState::new` accepts.
Environment: any holder sends any request it could have formed, for the
challenge of any configuration, any number of times, in any order. History
variables: `released` (credentials sent out), `issues`, `outstanding`, `bodies`.

| code | model |
|---|---|
| `ModeratorState::new`, its three checks | `Init`, `ValidConfig` |
| `redeem_and_issue` 243-292, `present` 322-361 | `RedeemValid`, `PresentValid`, `Verify` |
| the two `insert`s and what follows | `Issue`, `Serve`, `Lose` |
| `challenge_response`, `reject` | `Refuse` |
| `seen_endorsement_nullifiers`, `seen_spend_nullifiers` | `seenEndorsementNullifiers`, `seenSpendNullifiers` |

**`Ledger`.** What the Moderator promises, without proofs, nullifiers or
concurrency: an account per endorsement, opened once, charged and refunded in
one step, never overdrawn, void after a restart. The refinement maps an account
to an endorsement nullifier, though the Moderator cannot tell which account a
request belongs to.

**`Anchor`.** `Count` is the first critical section, `Sign` or `GiveUp` the
rest of the first exchange, `Prove` the second exchange, `Refuse` the early
returns, `Restart` a new process with a new key in any epoch. Session ids are
16 random bytes in the code and the index of the signature in the model: only
those handed out can come back.

**`Client`.** One action per response of a fetch, from its arrival to the next
await; `phase` is the await. `Fail` is every error return and a dropped future,
at every await. Order matters and is kept: the endorsement leaves the store
(with `swap_remove`'s reordering) before the accepted keys are parsed; the
credential leaves before the spend is proved; the replacement is stored before
the body is read. The servers answer anything the actions' parameters allow.
`Quit` is the end of the process between or within fetches: both stores are
gone, the user and what was sent remain.

**`Mole`.** `INSTANCE`s of the three, with the environments of each replaced by
the others. `sent` is the network. Exchanges that change nothing at a server
(challenge, directories) are one step, at the moment the server answers, so a
Client's knowledge may be outdated right after; the four others are split into
send, take, commit and answer. With `Faulty`, requests are taken late, twice or
never and a fetch may fail at any time; without, each request is taken once.
The Moderator accepts the Anchor's key and a decoy. `ModeratorDirectory` and
`AnchorDirectory` are the documents the servers publish, reduced to the fields a
Client acts on.

**`Headers`.** What happens to challenges between `MoleChallenge::to_header_value`
and the Client's choice of a pair; `Client` and `Mole` take the outcome. Header
values are sequences of symbols, so that the places where the parsers cut
(scheme token, comma, first equals sign, quotes) are all there, and nothing is
spelled out. The environment offers up to `MaxOffers` challenges, ours and other
schemes', and may join values with commas, as HTTP allows. A value is what
`ValueFrom` makes of the challenge that begins it and those that continue it;
`next` is the challenge that begins the value to be looked at next. `CutSegment`
is one turn of `split_challenges` with what `parse_challenges` makes of the
segment, `NextValue` the outer loop, `Consider` one turn of `parse_moderator_challenges`.
The base64url and the two challenge structures, whose layout is the same, are
`Decoded`: a role and a type code. When a pair is chosen the exchange goes on:
`Authorize` puts a request (the Client's, or another agent's) in an
`Authorization` header, `Dispatch` is the Moderator's choice of a handler from
it, `ReadCredential` the Client's reading of the `Mole-Credential` header that
comes back.

**`Startup`.** `main` of the Moderator: `Read` is one turn of the loop over the
`--anchor` arguments, with the choice of the first IHAT config among those an
Anchor publishes, the two checks (an IHAT config is there, epochs agree) and
`Bail`; `Serve` is `ModeratorState::new`, which refuses a key that is no curve
point; a process that has failed, or is stopped, may be started again. Anchors
restart at any time with a new key, in the same or another epoch, and may
publish configs of other types besides.

**`Wire`.** `Encode` is the `encode` of every message, a sequence of fields;
`from_bytes` is a state machine that takes one field at a step from the front of
a byte string, with every error of `wire.rs`. `Layouts` lists the fields of each
message in order; a union's layout depends on the tag read, an optional's on its
octet. The width of a byte is a constant: a byte has `Octet` values, a quarter of
which share the two bits that give a length prefix its size. The decoder is
given any byte string, the encoding of a message, and such encodings cut short
or with a byte appended. `again` is what encoding the fields decoded so far gives.
`Encodable` says which messages can be written: fields that follow the layout and
hold values of their types, with byte strings that `put_opaque_v` takes.

## 3. Model checking

| run | states | checks |
|---|---|---|
| `moderator` | 17 k | `TypeOK`, `IssuedExactlyOnce`, `EveryBodyPaidFor`, `NoChargeWithoutRefund`, `OneLiveCredential`, `BudgetKept`, `ImplementsLedger` |
| `anchor` | 1.05 M | `TypeOK`, `LimitKept`, `ProvedOnce`, `PendingUnused`, `OneEpochPerKey` |
| `client` | 591 k | `TypeOK`, `BurnedOnUse`, `EndorsementShownOnce`, `StoredWhereIssued` |
| `mole` | 627 k | `HeldCredentialGood`, `HeldEndorsementGood`, `ServedWithinGrants`, `NullifierPerGrant`, `StoredWithinGrants` |
| `mole_refines` | 197 k | `ImplementsModerator`, `ImplementsAnchor`, `ImplementsClient` |
| `mole_live` | 211 k | `FetchTerminates`, `RecoversAtOnce` |
| `headers` | 67 k | `TypeOK`, `FoundAsOffered`, `RealmKept`, `PairPreferred`, `AnswerUnderstood` |
| `wire` | 189 k | `TypeOK`, `ReEncodes`, `Canonical`, `Framed` |
| `startup` | 81 k | `TypeOK`, `OneEpochAccepted`, `GrantsRedeemable` |
| `moderator_restart`, `headers_foreign`, `headers_types` | | violations, section 5 |

*`moderator`.* Two handlers (a race needs two, and every property speaks of at
most two requests), two endorsements of two epochs and Anchor keys, two
issuance attempts per endorsement, two presentations in a row, two processes
with the same truncated key identifier. Eight configurations: the amounts in
the middle and at their edges: a grant spent down with a partial refund, one
sustained by a full refund, one whose refund `new` refuses, a free resource, a grant
below one charge, one spent exactly to zero, one the balance digits (bound set
to 4 here) cannot carry; and one that `new` refuses for a key that is no curve
point. The Moderator's steps are steps of `Ledger`.

*`anchor`.* Two handlers, two users, a limit of two, two processes, two epochs;
handlers and users are interchangeable (symmetry; no liveness is checked in
this run). Two handlers at a limit with one grant left is the race; a restart
into the same and into another epoch are both there.

*`client`.* One Client (Clients share nothing), whose process may end at any
point, four fetches: enough to store
endorsements of two keys and two epochs, have a challenge shut some of them
out, redeem from the middle of the store, and present, replace and lose
credentials of two policies. The challenge of one policy asks for a top-up, which
no Moderator of this code does; another challenge has a key that is no curve point;
an answer may carry another policy, another key, any refund.

*`mole`.* Two Clients of one user, two Moderator handlers, one Anchor handler,
both servers restarting once, a limit of one grant per Anchor process, terms
that pay for one or for two presentations (also changing at a restart),
`Faulty`; Clients and handlers are interchangeable (symmetry). The bound of
`ServedWithinGrants` is reached. `HeldCredentialGood` and `HeldEndorsementGood`
are the agreement between what a Client believes and what the servers have
recorded. `NullifierPerGrant`: a first exchange that arrives twice is counted and
signed twice, perhaps by two processes of the Anchor, but only one of the two
sessions is ever proved, and no later fetch draws that nullifier. `StoredWithinGrants`:
a Client that the Anchor endorses under a key the Moderator does not accept keeps one
more endorsement with every fetch that fails; the count bounds what is left in the
stores. States that differ in `failures`, `issues` or `bodies` only are taken
for one (`VIEW WithoutHistory`): no guard, no other variable and none of the
five properties depends on these histories.

*`mole_refines`.* The composition is a behaviour of `Moderator`, of `Anchor` and
of `Client`: the Clients are holders as `Moderator` assumes them and users as
`Anchor` assumes them (first exchanges of its users, for nullifiers that a Client
has drawn, and no second exchange without a session; `Anchor` lets a nullifier come
as often as it likes, `NullifierPerGrant` is about that), the servers answer as `Client` assumes them (one Client, two fetches,
the second with a credential that half the charge came back to and that cannot
pay any more). So the theorems of section 4 and the checks of each component
alone speak of the whole system. All three are also proved.

*`mole_live`.* One Client, whose process may end, three fetches, two processes of
the Anchor and three of the Moderator, with the same truncated key identifier, so
that a redemption for the key of a dead process is *accepted* and its answer does
not finalize. A grant pays for one presentation, so that the second fetch finds a
credential that cannot pay. Every fetch ends. While nothing has restarted, no
Client fails twice in a row: the failed fetch has cleared the store. The Client
is alone because handlers do not block each other in the code.

*`headers`.* Up to three challenges, of twelve kinds, each in a value of its own
or joined to the one before: two of every known type, unknown and undecodable
ones, other schemes with and without parameters, with a comma inside quotes, and
one whose name begins like ours. The defensive bound is set to 1, so that values
with more than two challenges of ours meet it. `FoundAsOffered` says exactly
which are found, including which are not: those that another scheme's challenge
spoils and those beyond the bound. A longer response only repeats these
neighbourhoods: a segment depends on what precedes and follows it, not on more.
The answer is a credential request or a presentation of several bodies, or an
`Authorization` header of another agent: another scheme's with one of our
parameters, a challenge sent back, our scheme's name alone, one with both parameters
of which the first does not decode or with both that do, one with parameters nobody
asked for, without quotes and with spaces, and three of schemes whose names only begin
like ours (`LikeOurs`). Several of these do run a handler, those of `LikeOurs` too
(section 5); `AnswerUnderstood` says which cannot, and on what bytes the others run it.

*`wire`.* With bytes of four values, length prefixes of one byte end at 0, of two
at 3, of four at 63, and `usize::MAX` is that of a 32-bit build. Every byte
string of up to six bytes is decoded as each of the nineteen messages, and so are
encodings with bodies on both sides of each change of the prefix's size, each of
them cut at every length and with a byte appended. The theorems of section 4 say the same
for bytes of any width and messages of any length; what TLC adds is that the
errors are reached.

*`startup`.* Two Anchors, the first named twice on the command line, so that a
restart between its two reads gives one process two keys of one Anchor; one
restart of each, two Moderator processes, two epochs, keys that are no points and
configs of other types before, or instead of, the IHAT one.

Deadlock checking is off everywhere: requests are finite in number by the
bounds, after which the system rests.

**Bounds.** `MaxRuns`, `MaxAnchorRuns` (processes), `MaxGen` (presentations of
one lineage), `MaxFetches`, `Workers`/`Handlers` (requests at a time) are bounds
of the models, not of the code. In the theorems they are arbitrary.

**Fairness** (`FairSpec`, only for `FetchTerminates`). `WF(Serving)`: a handler
that can go on is polled by the runtime and holds its mutex without awaiting;
`WF(Get(c))`: a fetch whose answer has come is polled by its caller. Without
loss a request is taken by a server, so an answer comes. Nothing is assumed of
`Begin` and the restarts. The code has no timeout: over a network that drops a
message without an error, a fetch waits for ever, and the run excludes such
networks (`Faulty = FALSE`).

**Mutants.** Each property is paired in `PROJECT.json` with a plausible bug,
stated before the definition it replaces ("Plausible bug: ..."), under which the
same run finds the property violated.

## 4. Proofs

For every set of endorsements, configurations, handlers, users and Clients and
any number of processes and fetches, checked by tlapm to the last leaf. The
assumptions, each evaluated by a run: `KeyAssumption` (keys of different
processes differ), `ModeratorAssumption`, `ClientAssumption` (nullifiers and
sessions are drawn from integers), `MoleAssumption` (amounts, the Anchor's limit
and the bounds are naturals, finitely many Clients and handlers),
`AnchorAssumption` (the limit is a natural, finitely many handlers),
`StartupAssumption` (at least one `--anchor`, each an Anchor), `WireAssumption`
(a byte has a multiple of four values, keys and digests have a size),
`WrittenAssumption` (the messages written are `Encodable`, which is what Rust's
types and the assertion of `put_opaque_v` leave), `HeadersAssumption` (our
challenges, realms and bodies have no comma in them, since they are base64url and
the realms the servers are configured with; a challenge of another scheme has no
token of ours, as the comment at `http.rs:152` grants, and no separator at its
ends; what decodes has a role and a type code, and the empty value is of no known
type; what other agents put into an `Authorization` header is any text).

`ModeratorProofs`:

* `TypeCorrect`, `SingleIssuance`, `NoFreeBody`, `NoLostCharge`,
  `SingleCredential`, `BudgetNeverExceeded`: the invariants of the run
  `moderator`.
* `Refinement`: `Spec => LedgerOfAccounts!Spec`.
* `ServicePerGrant`: of the presentations served with credentials that lead back
  to one endorsement, no more than its initial balance pays for. The invariant is
  `PricePaid`: the balance of a released credential is what was granted less
  the price of each of its generations.

None of the invariants is inductive: none mentions what a handler knows between
verification and insert. `IndInv` adds `TasksValid` (a verified request is still
valid when its handler gets the lock, since it was verified against things that
change only by a restart, which ends the handler), `KeyedReleased` (a credential
of the current key has its endorsement marked), `SpentBefore` (and its
predecessor's nullifier recorded), `Unopened`, and the finiteness of `released`
for the counting in `EveryBodyPaidFor`. With these, an insert that wins yields a
credential that was not in circulation before, and the one it replaces was the
only live one of its endorsement. Each action has a lemma (`VerifyInd`,
`IssueInd`, `ServeInd`, `LoseInd`, `RestartInd`), each lemma a step per conjunct
that the action can disturb.

`AnchorProofs`: `TypeCorrect`, `LimitNeverPassed`, `EveryKeyLimited`,
`SessionSingleUse`, `PendingNeverAnswered`, `KeyWithinEpoch`. A count is a
reservation, so `LimitKept` is its own induction hypothesis once busy handlers are
counted too; `SignedHere` says that the current key has signed in the current
epoch only. `LimitKept` is about the key in use; for every key there has been,
restarts included, `KeysLimited` remembers that what an old key signed no longer
grows.

`ClientProofs`: `TypeCorrect`, `BurnsOnUse`, `RedeemsOnce`, `StoresWhereIssued`,
for any number of Clients and fetches and whatever servers answer. The invariant
follows a nullifier through its life: drawn and in no request (`Unredeemed`: in a
store, or in the grant exchange under way), in exactly one redemption
(`Redeemed`), the root of at most one credential, which is in one place (the
wallet or the presentation under way) and whose generation has not been shown
(`Unshown`). Local operators, such as taking from the store, putting into the
wallet and replacing after an update, have a lemma each. One more lemma carries
the other Clients through a step: they draw other nullifiers.

`SystemProofs`: `ModeratorImplemented`, that is `Spec => ImplementsModerator`: the
composed system, with a network that delays, repeats and loses requests, Clients
that quit and servers that restart, is a behaviour of `Moderator`, so the
theorems of `ModeratorProofs` hold in it. A step of the Moderator takes something
that is on the network; the invariant says of all that is on the network that a
holder could have sent it, and therefore of the Clients that their wallets hold
released credentials and nothing else, exactly as released (`UpdateStep`: what a
Client puts together from a refund is what the Moderator computed, which needs
that one key was used under one context only), with a generation below the number
of fetches begun.

About the same composition, in the same module: `AnchorImplemented` and
`ClientImplemented` (each role is a behaviour of its own module, so what is
proved of it alone holds in the system), `CredentialsGood` (a stored credential
that a published configuration still accepts is one the Moderator would serve),
`EndorsementsGood` (an endorsement in a Client's store is one the Anchor signed),
`ServiceLimited` (the presentations the Moderator has served are within what the
Anchor's grants pay for). The argument goes round the triangle:

1. Grants, `GrantInv`: whatever is on its way to the Anchor is a first exchange of
   a Client, for a nullifier that it has drawn, or the second exchange of a session
   that was opened. Every signature answers such a request, and an endorsement
   that a Client stores or has redeemed was signed and proved for its user.
2. Clients, `ClientNext`: the answers they get are ones that `Client` lets through,
   so what it promises of nullifiers holds here. `Client` is instantiated with as
   many session identifiers as there can be grants (`SessionsHere`), which needs
   the Anchor's limit.
3. Spends, `SpendInv`: what a handler has and what is in a nullifier set was sent,
   and what the Moderator has released leads back, presentation by presentation,
   to an endorsement that the Anchor signed.
4. Counting: a presentation is counted by the grant that it leads back to
   (`CountByClass`), a grant pays for so many (`ServicePerGrant`), and a user has
   no more grants than the limit for each key (`EveryKeyLimited`).

Two theorems say more of grants. `GrantsDiffer` (`NullifierPerGrant`) needs `OnceInv`:
what was proved was asked for, a Client asks for at most one session of a nullifier,
and for none while it waits for a signature, so of the sessions that a repeated first
exchange opens no second one can be completed. `StoresLimited` (`StoredWithinGrants`)
counts a stored endorsement by the signature that `GrantInv` finds for it; the
nullifiers in the stores differ, so the signatures do, and these are within the limit
for each key (`EveryKeyLimited`).

The theorems of `AnchorProofs`, `ClientProofs` and `ModeratorProofs` enter through
the instances `AP`, `CU` and `MP`.

`RecoversFirst`, in the same module: `RecoversAtOnce` under `Enough`, which says
that requests arrive once (`~Faulty`), users have a name and a grant for each
fetch of their Clients, and a grant pays for a presentation. Without any one of
these a Client can fail again and again; with them it does not matter how many
Clients share a server or a user. The invariant `TimelyInv` speaks of the first processes: what is
sent names their keys, epoch and amounts; what was delivered is being handled or
has been answered, and so has whatever is in a nullifier set; a user is counted
for no more than was delivered. So nobody is refused, a Client fails only for want
of credits, and then it holds none any more (`Cleared`).

`StartupProofs`: `TypeCorrect`, `AcceptsOneEpoch`, `RedeemsGrants`. The invariant
ties each key that was read to what its Anchor's processes have published
and, while that has not restarted, to what it publishes now (`KeyInv`).

`WireProofs`: `TypeCorrect`, `Faithful` (`ReEncodes`), `OneSpelling`
(`Canonical`), `VarintCanonical`, `RoundTrip` (`Framed`), for every width of a byte,
every byte string and every message. From bytes to messages, the heart is the length
prefix: a value that is at least the least of its size and was read big-endian is
written back byte for byte, by the uniqueness of quotient and remainder. From
messages to bytes and back, the invariant is `Progress`: the decoder has a prefix of
the written fields, waits for the kinds of the others (`KindsFollow`: the first is the
layout's, and what a tag asks for follows it) and stands where the encoding of that
prefix ends. There the encoding of the next field stands, as far as the input reaches
(`NextChunk`), and a decoder that meets a field's encoding takes it whole or finds
the input too short (`Decides`, with one lemma for each form of number, prefix and
list). `Framed` alone says nothing about a decoding under way. `FlattenSeq` is a
recursive function; that it exists, and that what is joined first stays in front, is
shown by a least counterexample (`JoinsExist`, `Flattened`, `StaysInFront`).

`HeadersProofs`: `TypeCorrect`, `FoundAsOfferedHolds`, `RealmKeptHolds`,
`PairPreferredHolds`, `AnswerUnderstoodHolds`, for any number of challenges in a
response, any bound on segments and any words in the other schemes' challenges. The
argument has three layers.

1. Texts, position by position. Joining two texts with a comma keeps the scheme
   tokens of both and adds none (`TokensJoined`); `parse_params` accepts a text
   exactly if it is not all spaces and commas and each part that is not blank has an
   equals sign (`Parses`), which says what it makes of two joined halves
   (`ParsesJoined`); of a challenge of ours, whatever follows it, `get_param` reads
   the challenge and the realm that were written (`Reads`).
2. A turn of the loop. A value is the text of a challenge joined to the value from
   the next one on (`ValueFacts`; the recursion of `ValueFrom` is shown to have a
   solution by a least counterexample, `ValuesExist`), and can be split before any
   challenge in it (`Stretches`). A turn therefore cuts off one challenge of ours with
   the foreign ones up to the next of ours, pushes it unless one of those spoils it
   or it does not decode, and leaves the value from that next one on (`Turn`).
3. The invariant `IInv`. The list of what was found says nothing of the next segment,
   so `FoundAsOffered` is not inductive. `Reading` names the challenge the parser is
   at: what is left is the value from there on, the segments counted are the
   challenges of ours before it in its value, those found are the survivors before
   it, each at its place. `Choosing` says that what the Client has chosen is the first
   of its type among those considered.

`PairPreferredHolds` has the hypothesis `Unshared`: no challenge of ours has the code of
a type that the Client knows in the other role. The offers of the run `headers`
satisfy it; those of `headers_types` do not, and that run finds what then happens
(section 5). `AnswerUnderstoodHolds` has an invariant of its own, `AnswerInv`: each
value of the exchange is what the one before it was meant to be. Of what others
write nothing is known, so there it goes the other way, from what was read to the
text: a value that `get_param` returns stands in the text, between commas, behind an
equals sign and the name it was asked for (`Carries`), and the text begins with our
scheme's name. A challenge sent back has neither of the two names (`SentBack`). That
the scheme's name *ends* there is not claimed, because the code does not ask for it
(section 5).

`NaturalLemmas`: a set of naturals has a least element (`LeastExists`), for the
Client's choice of an endorsement and for induction over a set of numbers; the
uniqueness of quotient and remainder (`Division`, `QuotientBound`); counting a set
by classes (`CountByClass`), an initial segment of the naturals, and two bounds on
products.

Only model-checked: `FetchTerminates`, a liveness property under fairness, which is
beyond the prover. Every invariant, action property and refinement that a run checks
has a theorem.

## 5. Where code and documentation differ

* `moderator_restart`: the set "for the current epoch" is one for the current
  process: after a restart within an epoch an endorsement is redeemed again.
* `headers_foreign`: a challenge of another scheme without parameters
  (`Negotiate`), or with a comma in a quoted value, joined after one of ours,
  takes ours with it.
* `headers_types`: the type codes 1 and 2 are used in both roles, and bytes are
  tried in both, so a challenge of an unknown type (`MODERATOR_TRUST`, reverse
  Privacy Pass) before the known pair is not ignored but chosen.
* The scheme of an `Authorization` header. `parse_scheme_params` (`http.rs:212-218`)
  is to "Parse `Mole <params>`", and its error `NotMole` is for a header that "did not
  use the `Mole` scheme" (`http.rs:44`). The code cuts off the letters `Mole` without
  asking that the name ends there, so `Molecule a="x", presentation="..."` and
  `Molepresentation="..."` are taken for presentations and run the handler. (For
  challenges the code does ask, `http.rs:192-194`.) No run is about this alone: the
  model has it in `ParseAuthorization`, the run `headers` reaches it with the headers
  `LikeOurs`, and `AnswerUnderstood` therefore claims no more than that the text begins
  with our name. What is lost is little: the handler checks the bytes as it would
  under our scheme.

Not counted as differences, but good to know: the Anchor's count of grants
(`mole-anchor/src/lib.rs:51`) is one of attempts, since a first exchange that is
then rejected stays counted. A redemption that the Moderator rejects without
recording anything costs the Client its endorsement, which had left the store.
The Anchor's limit "per user per epoch" is one per
process too, since the counts are in memory, but the next process has another
key, which only a Moderator started later accepts; `ServedWithinGrants` counts
the limit once per Anchor key for that reason.

## 6. Not modelled

JSON documents beyond the fields a role acts on and the parsing of arguments (no
state, and serde's and clap's code); the cryptography itself, of which the models
take what `MoleTypes`, `GrantMessages` and `Startup` state; the text of errors;
the counters of the servers as operations (they read state that the properties
read directly); base64url, which is a table of what decodes in `Headers`. `Mole`
has one Anchor; several are in `Startup`, where they can disagree, and in
`Moderator`, whose endorsements are of any number of Anchor keys. The Anchor's
`grants` map gets an entry for every name it is ever sent (a limit is kept per
name; nothing limits the names, and the code promises nothing there).

## 7. Plan

Done: every module of section 2, and a theorem for each invariant, action property
and refinement that the runs check. What is left to model checking alone is
`FetchTerminates`.
