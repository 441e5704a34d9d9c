-------------------------------- MODULE Mole --------------------------------
(***************************************************************************)
(* The whole system: Clients, one Anchor and one Moderator that accepts it *)
(* (and a decoy key), over HTTP.                                           *)
(*                                                                         *)
(* Directories and challenges change nothing at the server, so such an     *)
(* exchange is one step, at the moment the server answers.  The four       *)
(* exchanges that do change something are split: the Client sends (the     *)
(* request joins sent), the server takes it, the server commits, the       *)
(* Client gets the answer.  What a server has released tells what it       *)
(* answered.                                                               *)
(*                                                                         *)
(* Faulty: requests may arrive late, again, or never, and any fetch may    *)
(* fail or be dropped at any await.  Otherwise every request arrives once  *)
(* and a fetch fails only for an answer it got.                            *)
(***************************************************************************)
EXTENDS MoleTypes, FiniteSets

CONSTANTS
    Clients, UserOf, MaxFetches,
    Workers, Handlers,
    GrantsPerEpoch, Contexts, MaxAnchorRuns,
    Terms,     \* amounts a Moderator may be started with: [initial, charge, refund]
    Faulty

ASSUME MoleAssumption ==
    /\ MaxFetches \in Nat
    /\ MaxAnchorRuns \in Nat \ {0} /\ GrantsPerEpoch \in Nat
    /\ IsFiniteSet(Clients) /\ IsFiniteSet(Handlers)
    /\ \A amounts \in Terms :
           amounts.initial \in Nat /\ amounts.charge \in Nat /\ amounts.refund \in Nat

VARIABLES
    endorsements, credentials, fetch, sent, drawn, fetches, failures,   \* Client
    run, config, seenEndorsementNullifiers, seenSpendNullifiers, task,  \* Moderator
    released, issues, outstanding, bodies,
    anchorKey, context, sessions, grants, handler, signatures,          \* Anchor
    delivered  \* requests that have reached a server, unless Faulty

clientVars == <<endorsements, credentials, fetch, sent, drawn, fetches, failures>>
moderatorVars == <<run, config, seenEndorsementNullifiers, seenSpendNullifiers,
                   task, released, issues, outstanding, bodies>>
anchorVars == <<anchorKey, context, sessions, grants, handler, signatures>>
vars == <<clientVars, moderatorVars, anchorVars, delivered>>

Policy == "policy"
Decoy == 100

\* main.rs: keys and epoch come from the Anchors' directories at startup.
StartedWith(amounts, key, epoch) ==
    [policy |-> Policy, keys |-> <<Decoy, key>>, epoch |-> epoch,
     initial |-> amounts.initial, charge |-> amounts.charge, refund |-> amounts.refund]

\* What the servers publish, of the fields a Client acts on.
ModeratorDirectory(cfg, key) == [policy |-> cfg.policy, key |-> key, epoch |-> cfg.epoch]
AnchorDirectory(key, epoch) == [key |-> key, epoch |-> epoch]

ChallengeOf(cfg) ==
    [policy |-> cfg.policy, keys |-> cfg.keys, charge |-> cfg.charge, topup |-> 0]

Roots == Clients \X (1 .. MaxFetches)
Configs == {StartedWith(amounts, key, epoch) :
               amounts \in Terms, key \in 1 .. MaxAnchorRuns, epoch \in Contexts}

C == INSTANCE Client WITH
    Challenges <- {ChallengeOf(cfg) : cfg \in Configs},
    Directories <- [policy : {Policy}, key : Runs, epoch : Contexts],
    AnchorDirectories <- [key : 1 .. MaxAnchorRuns, epoch : Contexts],
    SessionIds <- 1 .. GrantsPerEpoch * Cardinality(Clients) * MaxAnchorRuns,
    Issuances <- [key : Runs, policy : {Policy}, epoch : Contexts,
                  bal : {amounts.initial : amounts \in Terms}],
    Refunds <- {amounts.refund : amounts \in Terms}

M == INSTANCE Moderator WITH
    Endorsements <- [nf : Roots, key : 1 .. MaxAnchorRuns, epoch : Contexts],
    Pres <- {C!PreIssuance},
    MaxGen <- MaxFetches

A == INSTANCE Anchor WITH
    Users <- {UserOf[c] : c \in Clients},
    Blinds <- Roots

Init ==
    /\ C!Init
    /\ A!Init
    /\ M!Init
    /\ config.keys = <<Decoy, anchorKey>> /\ config.epoch = context
    /\ delivered = {}

----------------------------------------------------------------------------
(* Exchanges that change nothing at the server.                            *)

Begin(c) ==
    /\ C!Begin(c)
    /\ UNCHANGED <<moderatorVars, anchorVars, delivered>>

GetResource(c) ==
    /\ C!Challenged(c, ChallengeOf(config))
    /\ UNCHANGED <<moderatorVars, anchorVars, delivered>>

GetPolicy(c) ==
    /\ C!GotPolicy(c, ModeratorDirectory(config, run))
    /\ UNCHANGED <<moderatorVars, anchorVars, delivered>>

GetAnchor(c) ==
    /\ C!GotAnchor(c, AnchorDirectory(anchorKey, context))
    /\ UNCHANGED <<moderatorVars, anchorVars, delivered>>

----------------------------------------------------------------------------
(* The servers take requests and commit.                                   *)

ToModerator == {m \in sent : "op" \in DOMAIN m}
ToAnchor == {m \in sent : "step" \in DOMAIN m}

Deliver(m) ==
    /\ m \notin delivered
    /\ delivered' = IF Faulty THEN delivered ELSE delivered \union {m}

ModeratorTakes(m) ==
    /\ Deliver(m)
    /\ M!Refuse(m) \/ \E w \in Workers : M!Verify(w, m)
    /\ UNCHANGED <<clientVars, anchorVars>>

ModeratorCommits(w) ==
    /\ M!Issue(w) \/ M!Serve(w) \/ M!Lose(w)
    /\ UNCHANGED <<clientVars, anchorVars, delivered>>

AnchorTakes(m) ==
    /\ Deliver(m)
    /\ A!Refuse(m) \/ A!Prove(m) \/ \E h \in Handlers : A!Count(h, m)
    /\ UNCHANGED <<clientVars, moderatorVars>>

AnchorCommits(h) ==
    /\ A!Sign(h) \/ A!GiveUp(h)
    /\ UNCHANGED <<clientVars, moderatorVars, delivered>>

ModeratorRestarts ==
    /\ \E amounts \in Terms : M!Restart(StartedWith(amounts, anchorKey, context))
    /\ UNCHANGED <<clientVars, anchorVars, delivered>>

AnchorRestarts ==
    /\ \E epoch \in Contexts : A!Restart(epoch)
    /\ UNCHANGED <<clientVars, moderatorVars, delivered>>

----------------------------------------------------------------------------
(* The Clients get the answers.                                            *)

\* The session of c's first exchange, the signer's entry for its second.
Signed(c) == {i \in DOMAIN signatures : signatures[i].blind = fetch[c].request.blind}
Proved(c) == {i \in {fetch[c].request.sid} : signatures[i].proofs > 0}

\* The credential issued for c's redemption, the replacement released for its
\* presentation.
IssuedTo(c) == {t \in released : t.root = fetch[c].request.e.nf /\ t.gen = 0}
ReplacedFor(c) ==
    LET old == fetch[c].request.spend.token IN
    {t \in released : t.root = old.root /\ t.key = old.key /\ t.gen = old.gen + 1}

GetGrant(c) ==
    /\ \/ /\ fetch[c].phase = "signing"
          /\ \E i \in Signed(c) : C!GotSignature(c, i)
       \/ /\ fetch[c].phase = "proving"
          /\ \E i \in Proved(c) : C!GotProof(c, signatures[i].key)
    /\ UNCHANGED <<moderatorVars, anchorVars, delivered>>

GetCredential(c) ==
    /\ fetch[c].phase = "redeeming"
    /\ \E t \in IssuedTo(c) : C!GotCredential(c, t)
    /\ UNCHANGED <<moderatorVars, anchorVars, delivered>>

GetUpdate(c) ==
    /\ fetch[c].phase = "presenting"
    /\ LET s == fetch[c].request.spend IN
       \E t \in ReplacedFor(c) :
           C!GotUpdate(c, t.bal - (s.token.bal - s.charge))
    /\ UNCHANGED <<moderatorVars, anchorVars, delivered>>

GetBody(c) ==
    /\ C!GotBody(c)
    /\ UNCHANGED <<moderatorVars, anchorVars, delivered>>

Answer(c) ==
    CASE fetch[c].phase = "signing" -> Signed(c)
      [] fetch[c].phase = "proving" -> Proved(c)
      [] fetch[c].phase = "redeeming" -> IssuedTo(c)
      [] fetch[c].phase = "presenting" -> ReplacedFor(c)

\* The request has reached a server, which is done with it and has released
\* nothing for it (or has died with it).
GetRefusal(c) ==
    /\ fetch[c].phase \in {"signing", "proving", "redeeming", "presenting"}
    /\ fetch[c].request \in delivered
    /\ \A w \in Workers : task[w] # fetch[c].request
    /\ \A h \in Handlers : handler[h] # fetch[c].request
    /\ Answer(c) = {}
    /\ C!Fail(c)
    /\ UNCHANGED <<moderatorVars, anchorVars, delivered>>

GetNothing(c) ==
    /\ Faulty
    /\ C!Fail(c)
    /\ UNCHANGED <<moderatorVars, anchorVars, delivered>>

Quit(c) ==
    /\ C!Quit(c)
    /\ UNCHANGED <<moderatorVars, anchorVars, delivered>>

Get(c) ==
    \/ GetResource(c) \/ GetPolicy(c) \/ GetAnchor(c)
    \/ GetGrant(c) \/ GetCredential(c) \/ GetUpdate(c) \/ GetBody(c)
    \/ GetRefusal(c)

Serving ==
    \/ \E m \in ToModerator : ModeratorTakes(m)
    \/ \E w \in Workers : ModeratorCommits(w)
    \/ \E m \in ToAnchor : AnchorTakes(m)
    \/ \E h \in Handlers : AnchorCommits(h)

Next ==
    \/ \E c \in Clients : Begin(c) \/ Get(c) \/ GetNothing(c) \/ Quit(c)
    \/ Serving
    \/ ModeratorRestarts
    \/ AnchorRestarts

Spec == Init /\ [][Next]_vars

\* The runtime polls every handler and every fetch that can go on. Nobody is
\* obliged to start a fetch, to restart a server or to lose a message.
FairSpec ==
    /\ Spec
    /\ WF_vars(Serving)
    /\ \A c \in Clients : WF_vars(Get(c))

----------------------------------------------------------------------------
(* Properties.                                                             *)

Held(c) == C!Held(c)

\* What a Client believes is true: a credential it holds under the current
\* key has not been spent, no handler is about to spend it, and its balance
\* is what the Moderator's ledger would say.
HeldCredentialGood ==
    \A c \in Clients : \A t \in Held(c) :
        t.key = run =>
            /\ t \in M!Live
            /\ t.bal = outstanding[t.root]
            /\ \A w \in Workers : task[w].op = "present" =>
                   Nullifier(task[w].spend.token) # Nullifier(t)

\* An endorsement a Client stores was signed for its user under the key and
\* epoch it is stored with, was proved once, and has not been redeemed.
HeldEndorsementGood ==
    \A c \in Clients : \A i \in DOMAIN endorsements[c] :
        LET e == endorsements[c][i] IN
        /\ \E j \in DOMAIN signatures :
               /\ signatures[j].blind = e.nf /\ signatures[j].user = UserOf[c]
               /\ signatures[j].key = e.key /\ signatures[j].ctx = e.epoch
               /\ signatures[j].proofs = 1
        /\ e.nf \notin seenEndorsementNullifiers

\* The grants the Anchor completes differ in their nullifiers, so the Moderator
\* takes no two of them for one: a first exchange that arrives twice is counted
\* and signed twice, perhaps by two processes under two keys, but one of the two
\* sessions at most is ever proved, and no later fetch draws its nullifier.
NullifierPerGrant ==
    \A i, j \in DOMAIN signatures :
        signatures[i].blind = signatures[j].blind
            /\ signatures[i].proofs > 0 /\ signatures[j].proofs > 0 => i = j

\* Where u's Clients keep endorsements under the Anchor key k.
StoredFor(u, k) ==
    {s \in UNION {{c} \X DOMAIN endorsements[c] : c \in Clients} :
        UserOf[s[1]] = u /\ endorsements[s[1]][s[2]].key = k}

\* While the Anchor is up with a key that the Moderator does not accept, every
\* fetch fails and leaves another endorsement behind (lib.rs:319-321 of the
\* Client). What ends that is the Anchor's count alone: the stores of all of a
\* user's Clients together hold no more of a key than it grants the user.
StoredWithinGrants ==
    \A u \in {UserOf[c] : c \in Clients}, k \in 1 .. MaxAnchorRuns :
        Cardinality(StoredFor(u, k)) <= GrantsPerEpoch

ServedTo(u) ==
    {t \in released : t.key = run /\ t.gen > 0 /\ UserOf[t.root[1]] = u}

\* The point of the architecture: the Moderator knows no user and the Anchor
\* sees no request, but together they limit how often each user is served,
\* however many Clients the user runs and whatever is retried or raced.
ServedWithinGrants ==
    config.refund < config.charge =>
        \A u \in {UserOf[c] : c \in Clients} :
            Cardinality(ServedTo(u))
                <= GrantsPerEpoch * anchorKey * M!PresentationsPerGrant(config)

\* The Clients are holders as Moderator assumes them: they present what was
\* released to them, and amounts they can afford. So what Moderator promises
\* holds of the whole system.
ImplementsModerator == M!Spec

\* Of the Clients, the Anchor sees first exchanges of its users, for nullifiers
\* that a Client has drawn, and second exchanges of sessions it has opened: what
\* Anchor promises of users and keys holds of the whole system. Anchor lets a
\* nullifier come as often as it likes; see NullifierPerGrant for that.
ImplementsAnchor == A!Spec

\* The servers are servers as Client assumes them, so BurnedOnUse and the
\* rest of what Client promises hold of the whole system too.
ImplementsClient == C!Spec

\* A fetch comes to an end: every await is answered, whatever restarts.
FetchTerminates ==
    \A c \in Clients : fetch[c].phase # "idle" ~> fetch[c].phase = "idle"

\* While grants are left and neither server restarts, a fetch that fails has
\* cleared the way for the next one: no Client fails twice in a row.
RecoversAtOnce ==
    run = 1 /\ anchorKey = 1 => \A c \in Clients : failures[c] <= 1
=============================================================================
