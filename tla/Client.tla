------------------------------- MODULE Client -------------------------------
(***************************************************************************)
(* The Client (mole-client): MoleClient::fetch, for several Clients.       *)
(*                                                                         *)
(* A fetch runs alone (fetch takes &mut self) and is a chain of HTTP       *)
(* exchanges; phase names the response it waits for.  An action takes one  *)
(* response and runs to the next await, so everything between two awaits   *)
(* is one step.  At every await the fetch may end in an error or be        *)
(* dropped by its caller, and only what is in the two stores survives.     *)
(*                                                                         *)
(* The servers are arbitrary here: the actions take their answers as       *)
(* parameters, and Next lets every answer through.  Mole.tla connects the  *)
(* Clients with the Anchor and the Moderator.                              *)
(***************************************************************************)
EXTENDS GrantMessages, MoleTypes, FiniteSets, SequencesExt

CONSTANTS
    Clients,
    UserOf,        \* UserOf[c]: the demo_user of Client c
    MaxFetches,    \* bound: fetches of one Client
    (* What servers may answer. *)
    Challenges,         \* [policy, keys, charge, topup] of a 401
    Directories,        \* [policy, key, epoch] of a Moderator's directory
    AnchorDirectories,  \* [key, epoch] of an Anchor's directory
    SessionIds,
    Issuances,          \* [key, policy, epoch, bal] of an issuance response
    Refunds

ASSUME ClientAssumption ==
    /\ MaxFetches \in Nat
    /\ \A chal \in Challenges : chal.charge \in Nat /\ chal.topup \in Nat
    /\ \A i \in Issuances : i.bal \in Int
    /\ Refunds \subseteq Int

VARIABLES
    endorsements,  \* endorsements[c]: unredeemed, in store order
    credentials,   \* credentials[c]: policy |-> credential, for the held ones
    fetch,         \* fetch[c]: the fetch in progress
    sent,          \* history: requests with an Authorization header or a
                   \*          grant body that have left a Client
    drawn,         \* history: nullifiers drawn by each Client
    fetches,       \* history: fetches begun by each Client
    failures       \* history: fetches of each Client failed since the last
                   \*          body

vars == <<endorsements, credentials, fetch, sent, drawn, fetches, failures>>

NotFetching == [phase |-> "idle"]

\* Plausible bug: the nullifier is drawn once for each Client.
DrawnOnce(c, n) == <<c, 1>>

\* A Client draws 32 random bytes for each endorsement: never twice the same.
Drawn(c, n) == <<c, n>>

\* One PreIssuance per endorsement, since an endorsement is shown once.
PreIssuance == "pre"

Init ==
    /\ endorsements = [c \in Clients |-> <<>>]
    /\ credentials = [c \in Clients |-> <<>>]
    /\ fetch = [c \in Clients |-> NotFetching]
    /\ sent = {}
    /\ drawn = [c \in Clients |-> 0]
    /\ fetches = [c \in Clients |-> 0]
    /\ failures = [c \in Clients |-> 0]

----------------------------------------------------------------------------
(* Stores and steps shared by several actions.                             *)

Await(c, response) == fetch' = [fetch EXCEPT ![c] = response]

\* The fetch is over, with an error.
Abandon(c) ==
    /\ fetch' = [fetch EXCEPT ![c] = NotFetching]
    /\ failures' = [failures EXCEPT ![c] = @ + 1]

Put(store, policy, t) ==
    [p \in DOMAIN store \union {policy} |-> IF p = policy THEN t ELSE store[p]]
Take(store, policy) == [p \in DOMAIN store \ {policy} |-> store[p]]

\* usable_endorsement: the first one of an accepted key and the epoch.
UsableAt(es, keys, epoch) ==
    {i \in DOMAIN es : es[i].epoch = epoch /\ \E k \in DOMAIN keys : keys[k] = es[i].key}

First(S) == CHOOSE i \in S : \A j \in S : i <= j

\* Plausible bug: the last element is dropped, but not moved.
SwapRemoveLast(es, i) == Front(es)

\* Vec::swap_remove: the last element takes the place of the removed one.
SwapRemove(es, i) == Front([es EXCEPT ![i] = Last(es)])

\* Plausible bug: the credential stays until its replacement has come.
StartPresentKeeping(c, store, chal) ==
    LET t == store[chal.policy]
        m == PresentRequest(t, Digest(CredentialChallenge(chal, chal.topup)),
                           chal.charge, chal.topup, "plain")
    IN
    /\ credentials' = [credentials EXCEPT ![c] = store]
    /\ IF CanSpend(t, chal.charge, chal.topup)
       THEN /\ Await(c, [phase |-> "presenting", chal |-> chal, request |-> m])
            /\ sent' = sent \union {m}
            /\ UNCHANGED failures
       ELSE /\ Abandon(c)
            /\ UNCHANGED sent

\* Plausible bug: a credential that cannot pay is put back.
StartPresentPuttingBack(c, store, chal) ==
    LET t == store[chal.policy]
        m == PresentRequest(t, Digest(CredentialChallenge(chal, chal.topup)),
                           chal.charge, chal.topup, "plain")
    IN
    IF CanSpend(t, chal.charge, chal.topup)
    THEN /\ credentials' = [credentials EXCEPT ![c] = Take(store, chal.policy)]
         /\ Await(c, [phase |-> "presenting", chal |-> chal, request |-> m])
         /\ sent' = sent \union {m}
         /\ UNCHANGED failures
    ELSE /\ credentials' = [credentials EXCEPT ![c] = store]
         /\ Abandon(c)
         /\ UNCHANGED sent

\* Plausible bug: the balance is not looked at before the spend is sent.
StartPresentOverdrawn(c, store, chal) ==
    LET t == store[chal.policy]
        m == PresentRequest(t, Digest(CredentialChallenge(chal, chal.topup)),
                           chal.charge, chal.topup, "plain")
    IN
    /\ credentials' = [credentials EXCEPT ![c] = Take(store, chal.policy)]
    /\ Await(c, [phase |-> "presenting", chal |-> chal, request |-> m])
    /\ sent' = sent \union {m}
    /\ UNCHANGED failures

\* present: the credential leaves the store, then the spend is proved, then
\* the request leaves. store is the store of c at that point.
StartPresent(c, store, chal) ==
    LET t == store[chal.policy]
        m == PresentRequest(t, Digest(CredentialChallenge(chal, chal.topup)),
                           chal.charge, chal.topup, "plain")
    IN
    /\ credentials' = [credentials EXCEPT ![c] = Take(store, chal.policy)]
    /\ IF CanSpend(t, chal.charge, chal.topup)
       THEN /\ Await(c, [phase |-> "presenting", chal |-> chal, request |-> m])
            /\ sent' = sent \union {m}
            /\ UNCHANGED failures
       ELSE /\ Abandon(c)
            /\ UNCHANGED sent

\* Plausible bug: the endorsement stays until the credential has come.
StartRedeemKeeping(c, es, chal, dir) ==
    LET i == First(UsableAt(es, chal.keys, dir.epoch))
        m == RedeemRequest(es[i], Digest(ModeratorChallenge(chal)),
                           TruncatedKeyId(dir.key), PreIssuance, "plain")
    IN
    /\ endorsements' = [endorsements EXCEPT ![c] = es]
    /\ Await(c, [phase |-> "redeeming", chal |-> chal, dir |-> dir, request |-> m])
    /\ sent' = sent \union {m}
    /\ UNCHANGED failures

\* redeem_and_issue from swap_remove to the request. es is the store of c at
\* that point, dir the policy's directory entry.
StartRedeem(c, es, chal, dir) ==
    LET i == First(UsableAt(es, chal.keys, dir.epoch))
        m == RedeemRequest(es[i], Digest(ModeratorChallenge(chal)),
                           TruncatedKeyId(dir.key), PreIssuance, "plain")
    IN
    /\ endorsements' = [endorsements EXCEPT ![c] = SwapRemove(es, i)]
    /\ IF \E k \in DOMAIN chal.keys : chal.keys[k] = MalformedKey
       THEN Abandon(c) /\ UNCHANGED sent
       ELSE /\ Await(c, [phase |-> "redeeming", chal |-> chal, dir |-> dir, request |-> m])
            /\ sent' = sent \union {m}
            /\ UNCHANGED failures

----------------------------------------------------------------------------
(* One action per response.                                                *)

\* The fetch begins: a request without Authorization.
Begin(c) ==
    /\ fetch[c].phase = "idle"
    /\ fetches[c] < MaxFetches
    /\ fetches' = [fetches EXCEPT ![c] = @ + 1]
    /\ Await(c, [phase |-> "challenge"])
    /\ UNCHANGED <<endorsements, credentials, sent, drawn, failures>>

\* 200 at once: the resource is not protected.
NotChallenged(c) ==
    /\ fetch[c].phase = "challenge"
    /\ Await(c, [phase |-> "body"])
    /\ UNCHANGED <<endorsements, credentials, sent, drawn, fetches, failures>>

\* 401 with a recognizable pair of challenges.
Challenged(c, chal) ==
    /\ fetch[c].phase = "challenge"
    /\ IF chal.policy \in DOMAIN credentials[c]
       THEN StartPresent(c, credentials[c], chal)
       ELSE /\ Await(c, [phase |-> "policy", chal |-> chal])
            /\ UNCHANGED <<credentials, sent, failures>>
    /\ UNCHANGED <<endorsements, drawn, fetches>>

\* The Moderator's directory.
GotPolicy(c, dir) ==
    LET chal == fetch[c].chal IN
    /\ fetch[c].phase = "policy"
    /\ IF dir.policy # chal.policy
       THEN Abandon(c) /\ UNCHANGED <<endorsements, sent>>
       ELSE IF UsableAt(endorsements[c], chal.keys, dir.epoch) # {}
       THEN StartRedeem(c, endorsements[c], chal, dir)
       ELSE /\ Await(c, [phase |-> "anchor", chal |-> chal, dir |-> dir])
            /\ UNCHANGED <<endorsements, sent, failures>>
    /\ UNCHANGED <<credentials, drawn, fetches>>

\* Plausible bug: the nullifier's buffer is not filled.
GotAnchorUndrawn(c, adir) ==
    LET m == Step1(UserOf[c], adir.epoch, Drawn(c, 0), "plain") IN
    /\ fetch[c].phase = "anchor"
    /\ drawn' = [drawn EXCEPT ![c] = @ + 1]
    /\ Await(c, [phase |-> "signing", chal |-> fetch[c].chal, dir |-> fetch[c].dir,
                            adir |-> adir, request |-> m])
    /\ sent' = sent \union {m}
    /\ UNCHANGED <<endorsements, credentials, fetches, failures>>

\* The Anchor's directory: a nullifier is drawn and the first exchange begins.
GotAnchor(c, adir) ==
    LET nf == Drawn(c, drawn[c] + 1)
        m == Step1(UserOf[c], adir.epoch, nf, "plain")
    IN
    /\ fetch[c].phase = "anchor"
    /\ drawn' = [drawn EXCEPT ![c] = @ + 1]
    /\ Await(c, [phase |-> "signing", chal |-> fetch[c].chal, dir |-> fetch[c].dir,
                            adir |-> adir, request |-> m])
    /\ sent' = sent \union {m}
    /\ UNCHANGED <<endorsements, credentials, fetches, failures>>

\* A signature and a session id: the second exchange begins.
GotSignature(c, sid) ==
    LET m == Step2(sid, "plain") IN
    /\ fetch[c].phase = "signing"
    /\ Await(c, [phase |-> "proving", chal |-> fetch[c].chal, dir |-> fetch[c].dir,
                            adir |-> fetch[c].adir, request |-> m])
    /\ sent' = sent \union {m}
    /\ UNCHANGED <<endorsements, credentials, drawn, fetches, failures>>

\* A proof, by the Anchor key signer. It finalizes for the key the directory
\* named only; then the endorsement is stored and looked for again.
GotProof(c, signer) ==
    LET f == fetch[c]
        es == Append(endorsements[c], [nf |-> Drawn(c, drawn[c]), key |-> f.adir.key,
                                       epoch |-> f.adir.epoch])
    IN
    /\ f.phase = "proving"
    /\ IF signer # f.adir.key
       THEN Abandon(c) /\ UNCHANGED <<endorsements, sent>>
       ELSE IF UsableAt(es, f.chal.keys, f.dir.epoch) # {}
       THEN StartRedeem(c, es, f.chal, f.dir)
       ELSE /\ endorsements' = [endorsements EXCEPT ![c] = es]
            /\ Abandon(c)
            /\ UNCHANGED sent
    /\ UNCHANGED <<credentials, drawn, fetches>>

\* Plausible bug: the response is stored without being verified.
GotCredentialUnverified(c, t) ==
    LET f == fetch[c] IN
    /\ f.phase = "redeeming"
    /\ StartPresent(c, Put(credentials[c], f.chal.policy, t), f.chal)
    /\ UNCHANGED <<endorsements, drawn, fetches>>

\* Plausible bug: a response that does not finalize is waited out.
GotCredentialOrWait(c, t) ==
    LET f == fetch[c]
        ctx == RequestContext(f.chal.policy, f.request.e.epoch)
    IN
    /\ f.phase = "redeeming"
    /\ t.key = f.dir.key /\ t.ctx = ctx
    /\ StartPresent(c, Put(credentials[c], f.chal.policy, t), f.chal)
    /\ UNCHANGED <<endorsements, drawn, fetches>>

\* Plausible bug: a response that does not finalize starts over.
GotCredentialOrRetry(c, t) ==
    LET f == fetch[c]
        ctx == RequestContext(f.chal.policy, f.request.e.epoch)
    IN
    /\ f.phase = "redeeming"
    /\ IF t.key = f.dir.key /\ t.ctx = ctx
       THEN StartPresent(c, Put(credentials[c], f.chal.policy, t), f.chal)
       ELSE /\ Await(c, [phase |-> "policy", chal |-> f.chal])
            /\ UNCHANGED <<credentials, sent, failures>>
    /\ UNCHANGED <<endorsements, drawn, fetches>>

\* An issuance response for this request, carrying t. It finalizes for the
\* key of the directory and the context of challenge and endorsement only;
\* then the credential is stored and at once presented.
GotCredential(c, t) ==
    LET f == fetch[c]
        ctx == RequestContext(f.chal.policy, f.request.e.epoch)
    IN
    /\ f.phase = "redeeming"
    /\ IF t.key = f.dir.key /\ t.ctx = ctx
       THEN StartPresent(c, Put(credentials[c], f.chal.policy, t), f.chal)
       ELSE Abandon(c) /\ UNCHANGED <<credentials, sent>>
    /\ UNCHANGED <<endorsements, drawn, fetches>>

\* 200 with the refund t: the replacement is stored before the body is read.
GotUpdate(c, t) ==
    LET f == fetch[c]
        s == f.request.spend
    IN
    /\ f.phase = "presenting"
    /\ credentials' = [credentials EXCEPT ![c] =
           Put(@, f.chal.policy, Replacement(s.token, s.charge, s.topup, t))]
    /\ Await(c, [phase |-> "body"])
    /\ UNCHANGED <<endorsements, sent, drawn, fetches, failures>>

\* 200 without an update: the Moderator has consumed the credential.
GotNoUpdate(c) ==
    /\ fetch[c].phase = "presenting"
    /\ Await(c, [phase |-> "body"])
    /\ UNCHANGED <<endorsements, credentials, sent, drawn, fetches, failures>>

GotBody(c) ==
    /\ fetch[c].phase = "body"
    /\ fetch' = [fetch EXCEPT ![c] = NotFetching]
    /\ failures' = [failures EXCEPT ![c] = 0]
    /\ UNCHANGED <<endorsements, credentials, sent, drawn, fetches>>

\* A transport error, a status or a body the Client does not accept, or the
\* caller drops the fetch.
Fail(c) ==
    /\ fetch[c].phase # "idle"
    /\ Abandon(c)
    /\ UNCHANGED <<endorsements, credentials, sent, drawn, fetches>>

\* The process ends, as the command line's does at the first failed fetch,
\* and with it the stores; another is started for the same user.  (Bound:
\* before the last fetch, since after it nobody can tell.)
Quit(c) ==
    /\ fetches[c] < MaxFetches
    /\ fetch[c].phase # "idle" \/ endorsements[c] # <<>> \/ credentials[c] # <<>>
    /\ endorsements' = [endorsements EXCEPT ![c] = <<>>]
    /\ credentials' = [credentials EXCEPT ![c] = <<>>]
    /\ fetch' = [fetch EXCEPT ![c] = NotFetching]
    /\ UNCHANGED <<sent, drawn, fetches, failures>>

----------------------------------------------------------------------------

\* What an issuance response for the redemption under way can finalize to.
Issuable(c, i) == Credential(i.key, i, fetch[c].request.e.nf, PreIssuance, 0, i.bal)

Answered(c) ==
    \/ NotChallenged(c)
    \/ \E chal \in Challenges : Challenged(c, chal)
    \/ \E dir \in Directories : GotPolicy(c, dir)
    \/ \E adir \in AnchorDirectories : GotAnchor(c, adir)
    \/ \E sid \in SessionIds : GotSignature(c, sid)
    \/ \E adir \in AnchorDirectories : GotProof(c, adir.key)
    \/ \E i \in Issuances : GotCredential(c, Issuable(c, i))
    \/ \E t \in Refunds : GotUpdate(c, t)
    \/ GotNoUpdate(c)
    \/ GotBody(c)

Next == \E c \in Clients : Begin(c) \/ Answered(c) \/ Fail(c) \/ Quit(c)

Spec == Init /\ [][Next]_vars

----------------------------------------------------------------------------
(* Properties.                                                             *)

Phases == {"idle", "challenge", "policy", "anchor", "signing", "proving",
           "redeeming", "presenting", "body"}

TypeOK ==
    /\ \A c \in Clients : fetch[c].phase \in Phases
    /\ \A c \in Clients : drawn[c] <= fetches[c] /\ fetches[c] <= MaxFetches
    /\ \A c \in Clients : failures[c] <= fetches[c]
    /\ \A c \in Clients : \A i \in DOMAIN endorsements[c] :
           endorsements[c][i].nf \in {Drawn(c, n) : n \in 1 .. drawn[c]}
    /\ \A c \in Clients : DOMAIN credentials[c] \subseteq {chal.policy : chal \in Challenges}

Redemptions == {m \in sent : "op" \in DOMAIN m /\ m.op = "redeem"}
Presentations == {m \in sent : "op" \in DOMAIN m /\ m.op = "present"}

Held(c) == {credentials[c][p] : p \in DOMAIN credentials[c]}

\* "Credentials are burned before their presentation is sent" (lib.rs:12):
\* what a Client holds it has never offered, and what it has offered it
\* offered in one request, whatever failed and whoever answered.
BurnedOnUse ==
    /\ \A c \in Clients : \A t \in Held(c) : \A m \in Presentations :
           Nullifier(m.spend.token) # Nullifier(t)
    /\ \A m, n \in Presentations :
           Nullifier(m.spend.token) = Nullifier(n.spend.token) => m = n

\* "a fresh Endorsement is never redeemed twice" (lib.rs:13): the same of the
\* endorsement store, whatever the order swap_remove leaves it in.
EndorsementShownOnce ==
    /\ \A c \in Clients : \A i \in DOMAIN endorsements[c] : \A m \in Redemptions :
           m.e.nf # endorsements[c][i].nf
    /\ \A c \in Clients : \A i, j \in DOMAIN endorsements[c] :
           endorsements[c][i].nf = endorsements[c][j].nf => i = j
    /\ \A m, n \in Redemptions : m.e.nf = n.e.nf => m = n

\* A credential is stored under the policy it was issued for, and its key is
\* one that a directory entry of that policy has named.
StoredWhereIssued ==
    \A c \in Clients : \A p \in DOMAIN credentials[c] :
        /\ credentials[c][p].ctx[1] = p
        /\ \E dir \in Directories : dir.policy = p /\ dir.key = credentials[c][p].key
=============================================================================
